---------------------------- MODULE MCDekatronPC ----------------------------
(***************************************************************************)
(* The whole machine on a few programs, loaded anywhere on a small ring    *)
(* and in the boot ROM.  MCWaiting drives its waits and its loads.         *)
(***************************************************************************)
EXTENDS CallHistory

AllOff == [runOnHardRst |-> FALSE, runOnSoftRst |-> FALSE,
           softRstOnEot |-> FALSE, echoMode |-> FALSE, bellOnCin |-> FALSE,
           bellOnHalt |-> FALSE, bellOnError |-> FALSE, onCin |-> FALSE]

(* A program as long as the ring fills the RAM from any base, so that few  *)
(* programs give few memories: every rotation of each.                     *)

(* The brackets of both ISAs over a cell that the program, the host and    *)
(* the resets change.                                                      *)
BracketPrograms ==
  {<<OP_ISA1, BF_LBEG, BF_DEC, BF_LEND, OP_ISA0>>,
   <<DBG_CLRL, DBG_LAEND, DBG_CLRI, OP_ISA1, BF_DEC>>}

(* Every operation of the data side.  The last program is longer than the  *)
(* ring: its last opcode overwrites its first.                             *)
DataPrograms ==
  {<<OP_ISA1, BF_INC, BF_AINC, BF_STORE, BF_ADEC>>,
   <<BF_LOAD, BF_DEC, BF_CLRML, BF_LEND, OP_CLRD>>,
   <<OP_NOP, BF_INC, OP_ISA0, DBG_CLRA, DBG_HRST, OP_ISA1>>}

MachinePrograms == BracketPrograms \union DataPrograms

NoSwitches == {AllOff}
Nothing == {}
Bits == {0, 1}
=============================================================================
