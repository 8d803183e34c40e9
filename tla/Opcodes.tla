------------------------------ MODULE Opcodes -------------------------------
(***************************************************************************)
(* The two instruction sets (dpcrun.h:43-78).  An opcode is four bits wide *)
(* and is decoded together with the ISA the machine is in: the same code   *)
(* is a bracket of AP in the Debug ISA and of the data in Brainfuck.       *)
(***************************************************************************)
EXTENDS Naturals

ISA_DEBUG == 0
ISA_BF    == 1

Isas   == {ISA_DEBUG, ISA_BF}
Opcode == 0 .. 15

(* Common to both ISAs *)
OP_NOP  == 0
OP_HALT == 1
OP_CLRD == 10
OP_ISA0 == 14
OP_ISA1 == 15

(* Debug ISA *)
DBG_BELL  == 2
DBG_EOT   == 4
DBG_SOT   == 5
DBG_LABEG == 6
DBG_LAEND == 7
DBG_CLRL  == 8
DBG_CLRI  == 9
DBG_CLRA  == 11
DBG_HRST  == 12
DBG_SRST  == 13

(* Brainfuck ISA *)
BF_INC   == 2
BF_DEC   == 3
BF_AINC  == 4
BF_ADEC  == 5
BF_LBEG  == 6
BF_LEND  == 7
BF_COUT  == 8
BF_CIN   == 9
BF_CLRML == 11
BF_LOAD  == 12
BF_STORE == 13

(* What decode does with one pair of ISA and opcode: the name of the       *)
(* operation.  The default arm of the switch is NOP.                       *)
Operation(mode, op) ==
  CASE op = OP_HALT -> "HALT"
    [] op = OP_CLRD -> "CLRD"
    [] op = OP_ISA0 -> "ISA0"
    [] op = OP_ISA1 -> "ISA1"
    [] op \in {BF_LBEG, BF_LEND} -> IF mode = ISA_BF THEN "TEST" ELSE "NOP"
    [] mode = ISA_DEBUG /\ op = DBG_BELL -> "BELL"
    [] mode = ISA_DEBUG /\ op = DBG_SOT -> "SOT"
    [] mode = ISA_DEBUG /\ op = DBG_CLRL -> "CLRL"
    [] mode = ISA_DEBUG /\ op = DBG_CLRI -> "CLRI"
    [] mode = ISA_DEBUG /\ op = DBG_CLRA -> "CLRA"
    [] mode = ISA_DEBUG /\ op = DBG_HRST -> "HRST"
    [] mode = ISA_DEBUG /\ op = DBG_SRST -> "SRST"
    [] mode = ISA_BF /\ op = BF_INC -> "INC"
    [] mode = ISA_BF /\ op = BF_DEC -> "DEC"
    [] mode = ISA_BF /\ op = BF_AINC -> "AINC"
    [] mode = ISA_BF /\ op = BF_ADEC -> "ADEC"
    [] mode = ISA_BF /\ op = BF_COUT -> "COUT"
    [] mode = ISA_BF /\ op = BF_CIN -> "CIN"
    [] mode = ISA_BF /\ op = BF_CLRML -> "CLRML"
    [] mode = ISA_BF /\ op = BF_LOAD -> "LOAD"
    [] mode = ISA_BF /\ op = BF_STORE -> "STORE"
    [] OTHER -> "NOP"
=============================================================================
