------------------------------- MODULE ApLine -------------------------------
(***************************************************************************)
(* The data side of dpc::Machine: the data RAM with its output register,   *)
(* the address pointer AP, the data counter and MemLock.                   *)
(*                                                                         *)
(*   lock      MemLock: the data counter owns the cell at AP, and the RAM  *)
(*             still has the value from before                             *)
(*   memHere   the output register holds the cell at AP, so that it need   *)
(*             not be read again                                           *)
(*                                                                         *)
(* A move of AP does not read the new cell; the first operation that needs *)
(* it does (the lazy read).  One action is one ApLine operation issued by  *)
(* MachineCtrl, or a call that sets a cell from outside.                   *)
(***************************************************************************)
EXTENDS Dekatron

CONSTANTS
  ApTop,      \* config().apTop: the last cell
  DataTop,    \* DATA_TOP: the largest value of a cell, 255 in the code
  StatSize    \* size of the read and write statistics, 2^64 in the code

ASSUME ApLineAssumption ==
  /\ ApTop \in Nat \ {0}
  /\ DataTop \in Nat \ {0}
  /\ StatSize \in Nat \ {0}

VARIABLES
  dataMem, memReg,        \* the data RAM and its output register
  ap, data,               \* counters
  lock, memHere,          \* ApLine flags
  memReads, memWrites     \* statistics

apVars == <<dataMem, memReg, ap, data, lock, memHere, memReads, memWrites>>

Addr == 0 .. ApTop
Byte == 0 .. DataTop
Stat == 0 .. StatSize - 1

(* Every flag is a Boolean and every counter, cell and register is in the  *)
(* range of its uint8_t, uint32_t or uint64_t (dpcrun.h:225-256).          *)
TypeOK ==
  /\ dataMem \in [Addr -> Byte]
  /\ memReg \in Byte
  /\ ap \in Addr
  /\ data \in Byte
  /\ lock \in BOOLEAN
  /\ memHere \in BOOLEAN
  /\ memReads \in Stat
  /\ memWrites \in Stat

(* powerOn *)
Init ==
  /\ dataMem = [a \in Addr |-> 0]
  /\ memReg = 0
  /\ ap = 0
  /\ data = 0
  /\ lock = FALSE
  /\ memHere = FALSE
  /\ memReads = 0
  /\ memWrites = 0

-----------------------------------------------------------------------------
(* cellValue(): the architectural value of the current cell. *)
CellValue == IF lock THEN data ELSE dataMem[ap]

(* Mutant of DataZero: the flag of a locked cell comes from the register. *)
StaleDataZero == memReg = 0

(* The ISA_BF half of loopValZero(): the flag the bracket test reads. *)
DataZero == (IF lock THEN data ELSE memReg) = 0

(* What the output register holds once the cell has been read if needed. *)
FetchedReg == IF memHere THEN memReg ELSE dataMem[ap]

(* Mutant of Fetch: every use of the cell reads it again. *)
FetchAlways ==
  /\ memReg' = dataMem[ap]
  /\ memHere' = TRUE
  /\ memReads' = WrapInc(memReads, StatSize)

(* if (!m_memHere) memRead() *)
Fetch ==
  /\ memReg' = FetchedReg
  /\ memHere' = TRUE
  /\ memReads' = IF memHere THEN memReads ELSE WrapInc(memReads, StatSize)

(* The same under if (!m_lock): a locked counter needs no read. *)
FetchUnlessLocked ==
  IF lock THEN UNCHANGED <<memReg, memHere, memReads>> ELSE Fetch

(* Mutant of Operand: a cell that was not read counts as read. *)
StaleOperand == IF lock THEN data ELSE memReg

(* The value an operation on the current cell starts from. *)
Operand == IF lock THEN data ELSE FetchedReg

(* Write-through: the output register takes the written value. *)
Flush ==
  /\ dataMem' = [dataMem EXCEPT ![ap] = data]
  /\ memReg' = data
  /\ memWrites' = WrapInc(memWrites, StatSize)

-----------------------------------------------------------------------------
(* + and - *)
DataStep(dec) ==
  /\ FetchUnlessLocked
  /\ data' = WrapStep(Operand, dec, DataTop + 1)
  /\ lock' = TRUE
  /\ UNCHANGED <<dataMem, ap, memWrites>>

(* Mutant of ApMove: the lock is dropped without the flush. *)
ApMoveUnsaved(next) ==
  /\ lock' = FALSE
  /\ ap' = next
  /\ memHere' = FALSE
  /\ UNCHANGED <<dataMem, memReg, data, memReads, memWrites>>

(* A locked counter is saved before AP leaves the cell. *)
ApMove(next) ==
  /\ IF lock THEN Flush ELSE UNCHANGED <<dataMem, memReg, memWrites>>
  /\ lock' = FALSE
  /\ ap' = next
  /\ memHere' = FALSE
  /\ UNCHANGED <<data, memReads>>

(* > and < *)
ApStep(dec) == ApMove(WrapStep(ap, dec, ApTop + 1))

(* CLRA *)
ClrA == ApMove(0)

(* CIN and CLRD put a value in the counter without looking at the cell. *)
Take(c) ==
  /\ data' = c
  /\ lock' = TRUE
  /\ UNCHANGED <<dataMem, memReg, ap, memHere, memReads, memWrites>>

Cin(c) == Take(c)

ClrD == Take(0)

(* COUT: the terminal gets data' *)
Cout ==
  /\ FetchUnlessLocked
  /\ data' = Operand
  /\ UNCHANGED <<dataMem, ap, lock, memWrites>>

(* Mutant of ClrMl: the lock is dropped without the flush. *)
ClrMlUnsaved ==
  /\ lock' = FALSE
  /\ UNCHANGED <<dataMem, memReg, ap, data, memHere, memReads, memWrites>>

(* CLRML *)
ClrMl ==
  /\ IF lock THEN Flush /\ memHere' = TRUE
             ELSE UNCHANGED <<dataMem, memReg, memWrites, memHere>>
  /\ lock' = FALSE
  /\ UNCHANGED <<ap, data, memReads>>

(* LOAD leaves MemLock as it is: a locked change is lost. *)
Load ==
  /\ Fetch
  /\ data' = FetchedReg
  /\ UNCHANGED <<dataMem, ap, lock, memWrites>>

(* STORE leaves MemLock as it is, and does not ask for it. *)
Store ==
  /\ Flush
  /\ memHere' = TRUE
  /\ UNCHANGED <<ap, data, lock, memReads>>

(* Mutant of BracketTest: the flag is taken as it is. *)
BracketUntested == UNCHANGED apVars

(* A bracket decoded in BF ISA makes the zero flag valid (AP_TEST). *)
BracketTest ==
  /\ FetchUnlessLocked
  /\ UNCHANGED <<dataMem, ap, data, lock, memWrites>>

(* The soft and hard reset lines: the core keeps its cells and a locked    *)
(* counter is not written back.                                            *)
ApReset ==
  /\ ap' = 0
  /\ data' = 0
  /\ lock' = FALSE
  /\ memHere' = FALSE
  /\ UNCHANGED <<dataMem, memReg, memReads, memWrites>>

(* Mutant of SetCell: the output register keeps the old value. *)
SetCellInCoreOnly(a, v) ==
  /\ dataMem' = [dataMem EXCEPT ![a] = v]
  /\ UNCHANGED <<memReg, ap, data, lock, memHere, memReads, memWrites>>

(* setCell(addr, value): the host writes the core past the machine. *)
SetCell(a, v) ==
  /\ dataMem' = [dataMem EXCEPT ![a] = v]
  /\ memReg' = IF a = ap /\ memHere THEN v ELSE memReg
  /\ UNCHANGED <<ap, data, lock, memHere, memReads, memWrites>>

Next ==
  \/ \E dec \in BOOLEAN : DataStep(dec)
  \/ \E dec \in BOOLEAN : ApStep(dec)
  \/ ClrA
  \/ \E c \in Byte : Cin(c)
  \/ ClrD
  \/ Cout
  \/ ClrMl
  \/ Load
  \/ Store
  \/ BracketTest
  \/ ApReset
  \/ \E a \in Addr, v \in Byte : SetCell(a, v)

Spec == Init /\ [][Next]_apVars

-----------------------------------------------------------------------------
(* A valid output register is the cell at AP, through every mix of flushes *)
(* moves, stores and host writes (dpcrun.cpp:262-311): nothing that skips  *)
(* the read because memHere is set can work on another cell's value.       *)
RegCoherent == memHere => memReg = dataMem[ap]

(* The RAM is read at most once per visit of a cell: a read needs an       *)
(* output register that does not hold the cell and leaves one that does,   *)
(* and it is never issued together with a write (dpcrun.cpp:278-324).      *)
LazyRead ==
  [][memReads' # memReads => ~memHere /\ memHere' /\ dataMem' = dataMem]_apVars

(* MemLock, the output register and the lazy read are invisible: the data  *)
(* side is the store of CellStore, with the cell the counter owns shown    *)
(* with the counter's value.                                               *)
Cells == INSTANCE CellStore WITH
  tape <- [dataMem EXCEPT ![ap] = CellValue],
  core <- dataMem,
  pos <- ap,
  acc <- data

ImplementsCellStore == Cells!Spec
=============================================================================
