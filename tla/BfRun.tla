------------------------------- MODULE BfRun --------------------------------
(***************************************************************************)
(* The emulator of the BrainfuckPC (bfrun): one memory of words for code   *)
(* and data, the pointers IP and AP, and ExecCode, one instruction a step. *)
(* A jump goes to the matching bracket and ++IP then passes it: a loop is  *)
(* tested once at each end and its brackets are not executed again.        *)
(*                                                                         *)
(* There are two ExecCode.  The one for an image does ++IP after an        *)
(* instruction; the one for an array does it before, never executes the    *)
(* first word, and stops at a HALT.                                        *)
(***************************************************************************)
EXTENDS BfImage, Console

CONSTANT MaxOut    \* the last characters of the output that are kept

ASSUME BfRunAssumption == MaxOut \in Nat \ {0}

VARIABLES
  WordModeEnabled,    \* option -x: jumps test the whole word
  array,              \* the program is an array, not an image
  mem, IP, AP, AP_MAX,
  running,            \* in the loop of ExecCode
  out

bfrunVars ==
  <<WordModeEnabled, array, consoleVars, mem, IP, AP, AP_MAX, running, out>>

LowByte(v) == v % ByteSize
Keep(s) == IF Len(s) > MaxOut THEN Tail(s) ELSE s

(* The next word to execute. *)
Here == IF array THEN Int16(IP + 1) ELSE IP
Bits == mem[Here]
Is(cmd) == Operation(Bits) \in {cmd, cmd + BiasHalf}
IsIO(mask) == Operation(Bits) = CMD_IO /\ Has(Bits, mask)

JCC == IF WordModeEnabled THEN mem[AP] # 0 ELSE LowByte(mem[AP]) # 0

(* The end of a turn of the loop, which goes on if IP is in the code. *)
Retire(ip) ==
  /\ running
  /\ IP' = Int16(IF array THEN ip ELSE ip + 1)
  /\ running' = (IP' < AP_MAX)
  /\ UNCHANGED <<WordModeEnabled, array, AP_MAX>>

-----------------------------------------------------------------------------
BfRunInit(words, wordMode, isArray) ==
  /\ ConsoleInit(words)
  /\ WordModeEnabled = wordMode
  /\ array = isArray
  /\ mem = [a \in Word |-> 0]
  /\ IP = 0 /\ AP = 0 /\ AP_MAX = 0
  /\ running = FALSE
  /\ out = <<>>

(* main() up to the loop of ExecCode. *)
Load(image) ==
  /\ \E garbage \in Garbage : mem' = LoadShared(image, garbage)
  /\ IP' = image.IpEntry
  /\ AP' = image.ApEntry
  /\ LET code == image.Sections[1]
     IN  AP_MAX' = Int16(code.MemoryBase + code.MemorySize)
  /\ running' = TRUE
  /\ UNCHANGED <<WordModeEnabled, array, consoleVars, out>>

(* An array in a memory of zeros. *)
LoadArray(words) ==
  /\ mem' = [a \in Word |-> IF a < Len(words) THEN words[a + 1] ELSE 0]
  /\ IP' = 0 /\ AP' = 0
  /\ AP_MAX' = Int16(Len(words))
  /\ running' = TRUE
  /\ UNCHANGED <<WordModeEnabled, array, consoleVars, out>>

(* The other controls and the unknown operations do nothing, and so does   *)
(* the HALT of an image.                                                   *)
Nop ==
  /\ \/ Operation(Bits) = CMD_NOP
     \/ /\ Operation(Bits) = CMD_IO
        /\ ~Has(Bits, CMD_INPUT_MASK) /\ ~Has(Bits, CMD_OUTPUT_MASK)
        /\ ~Has(Bits, CMD_CTRLIO_CLR_DATA)
        /\ ~(array /\ Has(Bits, CMD_CTRLIO_HALT))
     \/ Operation(Bits) >= CMD_JNZ + BiasSize
  /\ Retire(Here)
  /\ UNCHANGED <<consoleVars, mem, AP, out>>

Getc ==
  /\ IsIO(CMD_INPUT_MASK)
  /\ mem' = [mem EXCEPT ![AP] = LowByte(Val)]
  /\ In
  /\ Retire(Here)
  /\ UNCHANGED <<AP, out>>

Putc ==
  /\ IsIO(CMD_OUTPUT_MASK) /\ ~Has(Bits, CMD_INPUT_MASK)
  /\ out' = Keep(Append(out, LowByte(mem[AP])))
  /\ Retire(Here)
  /\ UNCHANGED <<consoleVars, mem, AP>>

ClrData ==
  /\ IsIO(CMD_CTRLIO_CLR_DATA)
  /\ ~Has(Bits, CMD_INPUT_MASK) /\ ~Has(Bits, CMD_OUTPUT_MASK)
  /\ mem' = [mem EXCEPT ![AP] = 0]
  /\ Retire(Here)
  /\ UNCHANGED <<consoleVars, AP, out>>

(* Mutant of Add: the sum is not cut to a word. *)
AddUncut ==
  /\ Is(CMD_ADD)
  /\ mem' = [mem EXCEPT ![AP] = @ + Bias(Bits)]
  /\ Retire(Here)
  /\ UNCHANGED <<consoleVars, AP, out>>

Add ==
  /\ Is(CMD_ADD)
  /\ mem' = [mem EXCEPT ![AP] = Int16(@ + Bias(Bits))]
  /\ Retire(Here)
  /\ UNCHANGED <<consoleVars, AP, out>>

Right ==
  /\ Is(CMD_RIGHT)
  /\ AP' = Int16(AP + Bias(Bits))
  /\ Retire(Here)
  /\ UNCHANGED <<consoleVars, mem, out>>

(* Mutant of Jz: it is not the low byte that is tested. *)
JzOnWord ==
  /\ Is(CMD_JZ)
  /\ Retire(IF mem[AP] # 0 THEN Here ELSE Here + Bias(Bits))
  /\ UNCHANGED <<consoleVars, mem, AP, out>>

Jz ==
  /\ Is(CMD_JZ)
  /\ Retire(IF JCC THEN Here ELSE Here + Bias(Bits))
  /\ UNCHANGED <<consoleVars, mem, AP, out>>

Jnz ==
  /\ Is(CMD_JNZ)
  /\ Retire(IF JCC THEN Here + Bias(Bits) ELSE Here)
  /\ UNCHANGED <<consoleVars, mem, AP, out>>

(* The loop is left at once. *)
Halt ==
  /\ array /\ running
  /\ IsIO(CMD_CTRLIO_HALT)
  /\ ~Has(Bits, CMD_INPUT_MASK) /\ ~Has(Bits, CMD_OUTPUT_MASK)
  /\ ~Has(Bits, CMD_CTRLIO_CLR_DATA)
  /\ IP' = Here
  /\ running' = FALSE
  /\ UNCHANGED <<WordModeEnabled, array, AP_MAX, consoleVars, mem, AP, out>>

ExecCode ==
  \/ Nop \/ Getc \/ Putc \/ ClrData \/ Halt
  \/ Add \/ Right \/ Jz \/ Jnz
=============================================================================
