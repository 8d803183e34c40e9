------------------------------ MODULE BfWords -------------------------------
(***************************************************************************)
(* The commands of the BrainfuckPC and the 16-bit words that encode them   *)
(* (class Cmd).  A word has its operation in the high bits and a signed    *)
(* count in the low ones; the sign bit of the count is the lowest bit of   *)
(* the operation, so that ADD with a negative count is SUB.                *)
(*                                                                         *)
(* Every uint16_t or int16_t is its value modulo WordSize, and & with a    *)
(* mask of low bits is a remainder.                                        *)
(***************************************************************************)
EXTENDS Integers, Sequences

CONSTANTS
  BiasSize,   \* counts of a word: 2^13 in the code
  ByteSize    \* values of a cell in 8-bit mode: 256 in the code

ASSUME BfWordsAssumption ==
  /\ BiasSize \in Nat /\ BiasSize >= 32 /\ BiasSize % 32 = 0
  /\ ByteSize \in Nat \ {0} /\ (BiasSize \div 2) % ByteSize = 0

WordSize == 8 * BiasSize
Word == 0 .. WordSize - 1
BiasHalf == BiasSize \div 2    \* the sign bit of a count

CMD_NOP   == 0
CMD_IO    == BiasHalf
CMD_ADD   == BiasSize
CMD_RIGHT == 2 * BiasSize
CMD_JZ    == 3 * BiasSize
CMD_JNZ   == 4 * BiasSize

(* Distinct bits of the count of CMD_IO.  The last two are higher bits in  *)
(* the code, where a count has room for them.                              *)
CMD_INPUT_MASK      == 1
CMD_OUTPUT_MASK     == 2
CMD_CTRLIO_CLR_DATA == 4
CMD_CTRLIO_HALT     == 8

Int16(v) == v % WordSize

(* The constructors.  The count of < and - is kept negative. *)
Cmd(c, bias) ==
  [c |-> c, bias |-> Int16(IF c \in {"<", "-"} THEN -bias ELSE bias)]

(* Mutant of GetCmd: a count that is too long runs into the operation. *)
GetCmdUnmasked(cmd) ==
  CASE cmd.c \in {">", "<"} -> Int16(CMD_RIGHT + cmd.bias)
    [] cmd.c \in {"+", "-"} -> Int16(CMD_ADD + cmd.bias)
    [] cmd.c = "[" -> Int16(CMD_JZ + cmd.bias)
    [] cmd.c = "]" -> Int16(CMD_JNZ + cmd.bias)
    [] cmd.c = "." -> CMD_IO + CMD_OUTPUT_MASK
    [] cmd.c = "," -> CMD_IO + CMD_INPUT_MASK
    [] OTHER -> CMD_NOP

(* The word of a command: a count that does not fit loses its high bits. *)
GetCmd(cmd) ==
  LET count == cmd.bias % BiasSize
  IN  CASE cmd.c \in {">", "<"} -> CMD_RIGHT + count
        [] cmd.c \in {"+", "-"} -> CMD_ADD + count
        [] cmd.c = "[" -> CMD_JZ + count
        [] cmd.c = "]" -> CMD_JNZ + count
        [] cmd.c = "." -> CMD_IO + CMD_OUTPUT_MASK
        [] cmd.c = "," -> CMD_IO + CMD_INPUT_MASK
        [] cmd.c = "0" -> CMD_IO + CMD_CTRLIO_CLR_DATA
        [] cmd.c = "H" -> CMD_IO + CMD_CTRLIO_HALT
        [] OTHER -> CMD_NOP

-----------------------------------------------------------------------------
(* The emulator's side: a word taken apart. *)

Operation(word) == (word \div BiasHalf) * BiasHalf
Has(word, mask) == (word \div mask) % 2 = 1

(* Mutant of Bias: the sign bit is not extended. *)
BiasUnsigned(word) == word % BiasSize

Bias(word) ==
  LET count == word % BiasSize
  IN  IF count < BiasHalf THEN count ELSE count + (WordSize - BiasSize)
=============================================================================
