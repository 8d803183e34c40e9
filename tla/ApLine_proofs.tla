--------------------------- MODULE ApLine_proofs ----------------------------
(***************************************************************************)
(* ApLine for every size of the core and of a cell: types, the validity of *)
(* the output register, the lazy read, and the refinement of CellStore.    *)
(***************************************************************************)
EXTENDS ApLine, Dekatron_proofs

(* The form of WrapStepRange in which ApLine uses it. *)
LEMMA WrapStepTop ==
  ASSUME NEW top \in Nat, NEW v \in 0 .. top, NEW dec \in BOOLEAN
  PROVE  WrapStep(v, dec, top + 1) \in 0 .. top
BY DEF WrapStep, WrapInc, WrapDec

LEMMA StatRange ==
  ASSUME NEW n \in Stat
  PROVE  WrapInc(n, StatSize) \in Stat
BY ApLineAssumption DEF Stat, WrapInc

(* Every range holds the value a reset gives it. *)
LEMMA ZeroInRange == 0 \in Addr /\ 0 \in Byte /\ 0 \in Stat
BY ApLineAssumption DEF Addr, Byte, Stat

LEMMA InitTypeOK == Init => TypeOK
BY ZeroInRange DEF Init, TypeOK

(* The values that the steps read are bytes. *)
LEMMA OperandTypes ==
  ASSUME TypeOK
  PROVE  FetchedReg \in Byte /\ Operand \in Byte /\ CellValue \in Byte
BY DEF TypeOK, FetchedReg, Operand, CellValue

LEMMA FetchTypes ==
  ASSUME TypeOK, Fetch \/ FetchUnlessLocked
  PROVE  memReg' \in Byte /\ memHere' \in BOOLEAN /\ memReads' \in Stat
BY OperandTypes, StatRange DEF TypeOK, Fetch, FetchUnlessLocked

LEMMA FlushTypes ==
  ASSUME TypeOK, Flush
  PROVE  dataMem' \in [Addr -> Byte] /\ memReg' \in Byte /\ memWrites' \in Stat
BY StatRange DEF TypeOK, Flush

(* Every operation keeps the types. *)
LEMMA NextTypeOK == TypeOK /\ [Next]_apVars => TypeOK'
<1> SUFFICES ASSUME TypeOK, [Next]_apVars PROVE TypeOK'
  OBVIOUS
<1> USE ApLineAssumption
<1>1. ASSUME NEW dec \in BOOLEAN, DataStep(dec) PROVE TypeOK'
  <2>1. data' \in Byte
    BY <1>1, OperandTypes, WrapStepTop DEF DataStep, Byte
  <2> QED
    BY <1>1, <2>1, FetchTypes DEF DataStep, TypeOK
<1>2. ASSUME NEW next \in Addr, ApMove(next) PROVE TypeOK'
  BY <1>2, FlushTypes DEF ApMove, TypeOK
<1>3. ASSUME NEW dec \in BOOLEAN, ApStep(dec) PROVE TypeOK'
  <2>1. WrapStep(ap, dec, ApTop + 1) \in Addr
    BY WrapStepTop DEF Addr, TypeOK
  <2> QED
    BY <1>2, <1>3, <2>1 DEF ApStep
<1>4. CASE ClrA
  BY <1>2, <1>4, ZeroInRange DEF ClrA
<1>5. ASSUME NEW c \in Byte, Take(c) PROVE TypeOK'
  BY <1>5 DEF Take, TypeOK
<1>6. CASE ClrD
  BY <1>5, <1>6, ZeroInRange DEF ClrD
<1>7. CASE Cout
  BY <1>7, OperandTypes, FetchTypes DEF Cout, TypeOK
<1>8. CASE ClrMl
  BY <1>8, FlushTypes DEF ClrMl, TypeOK
<1>9. CASE Load
  BY <1>9, OperandTypes, FetchTypes DEF Load, TypeOK
<1>10. CASE Store
  BY <1>10, FlushTypes DEF Store, TypeOK
<1>11. CASE BracketTest
  BY <1>11, FetchTypes DEF BracketTest, TypeOK
<1>12. CASE ApReset
  BY <1>12, ZeroInRange DEF ApReset, TypeOK
<1>13. ASSUME NEW a \in Addr, NEW v \in Byte, SetCell(a, v) PROVE TypeOK'
  BY <1>13 DEF SetCell, TypeOK
<1>14. CASE UNCHANGED apVars
  BY <1>14 DEF apVars, TypeOK
<1> QED
  BY <1>1, <1>3, <1>4, <1>5, <1>6, <1>7, <1>8, <1>9, <1>10, <1>11, <1>12,
     <1>13, <1>14 DEF Next, Cin

(* Every flag, counter, cell and register of the data side stays in its    *)
(* range.                                                                  *)
THEOREM TypeCorrect == Spec => []TypeOK
BY InitTypeOK, NextTypeOK, PTL DEF Spec

-----------------------------------------------------------------------------
(* A flush writes the counter through: the register and the cell agree.    *)
LEMMA FlushCoherent ==
  ASSUME TypeOK, Flush, ap' = ap
  PROVE  memReg' = dataMem'[ap']
BY DEF TypeOK, Flush

(* No operation leaves a register that claims to be valid and is not.      *)
LEMMA NextRegCoherent == TypeOK /\ RegCoherent /\ [Next]_apVars => RegCoherent'
<1> SUFFICES ASSUME TypeOK, RegCoherent, [Next]_apVars PROVE RegCoherent'
  OBVIOUS
<1> USE DEF RegCoherent
<1>1. ASSUME NEW dec \in BOOLEAN, DataStep(dec) PROVE RegCoherent'
  BY <1>1 DEF DataStep, FetchUnlessLocked, Fetch, FetchedReg
<1>2. ASSUME NEW next, ApMove(next) PROVE RegCoherent'
  BY <1>2 DEF ApMove
<1>3. ASSUME NEW c, Take(c) PROVE RegCoherent'
  BY <1>3 DEF Take
<1>4. CASE Cout
  BY <1>4 DEF Cout, FetchUnlessLocked, Fetch, FetchedReg
<1>5. CASE ClrMl
  BY <1>5, FlushCoherent DEF ClrMl
<1>6. CASE Load
  BY <1>6 DEF Load, Fetch, FetchedReg
<1>7. CASE Store
  BY <1>7, FlushCoherent DEF Store
<1>8. CASE BracketTest
  BY <1>8 DEF BracketTest, FetchUnlessLocked, Fetch, FetchedReg
<1>9. CASE ApReset
  BY <1>9 DEF ApReset
<1>10. ASSUME NEW a \in Addr, NEW v \in Byte, SetCell(a, v) PROVE RegCoherent'
  BY <1>10 DEF SetCell, TypeOK
<1>11. CASE UNCHANGED apVars
  BY <1>11 DEF apVars
<1> QED
  BY <1>1, <1>2, <1>3, <1>4, <1>5, <1>6, <1>7, <1>8, <1>9, <1>10, <1>11
  DEF Next, ApStep, ClrA, Cin, ClrD

(* The inductive invariant of the data side. *)
IInv == TypeOK /\ RegCoherent

LEMMA Invariance == Spec => []IInv
<1>1. Init => IInv
  BY InitTypeOK DEF Init, IInv, RegCoherent
<1>2. IInv /\ [Next]_apVars => IInv'
  BY NextTypeOK, NextRegCoherent DEF IInv
<1> QED
  BY <1>1, <1>2, PTL DEF Spec

(* The output register is the cell at AP whenever memHere says so.         *)
THEOREM RegisterCoherent == Spec => []RegCoherent
<1>1. IInv => RegCoherent
  BY DEF IInv
<1> QED
  BY <1>1, Invariance, PTL

-----------------------------------------------------------------------------
(* A step that counts a read found no valid register, leaves one, and      *)
(* writes nothing.                                                         *)
LEMMA NextLazyRead ==
  ASSUME [Next]_apVars, memReads' # memReads
  PROVE  ~memHere /\ memHere' /\ dataMem' = dataMem
<1> QED
  BY DEF Next, apVars, DataStep, ApStep, ApMove, ClrA, Cin, ClrD, Take, Cout,
         ClrMl, Load, Store, BracketTest, ApReset, SetCell, FetchUnlessLocked,
         Fetch

(* A cell is read at most once per visit, and only when it must be.        *)
THEOREM ReadsAreLazy == Spec => LazyRead
<1>1. [Next]_apVars =>
        [memReads' # memReads =>
           ~memHere /\ memHere' /\ dataMem' = dataMem]_apVars
  BY NextLazyRead
<1> QED
  BY <1>1, PTL DEF Spec, LazyRead

-----------------------------------------------------------------------------
(* The refinement.  Tape is the mapped memory: the core, with the counter  *)
(* in the place of the cell it owns.                                       *)
Tape == [dataMem EXCEPT ![ap] = CellValue]

LEMMA InitRefines == Init => Cells!Init
<1> SUFFICES ASSUME Init PROVE Cells!Init
  OBVIOUS
<1>1. dataMem \in [Cells!Addr -> Cells!Byte]
  BY ZeroInRange DEF Init, Cells!Addr, Cells!Byte, Addr, Byte
<1>2. Tape = dataMem
  BY ZeroInRange DEF Init, Tape, CellValue
<1> QED
  BY <1>1, <1>2 DEF Init, Cells!Init, Tape

(* The cell under AP shows CellValue, and the others what the core holds.  *)
LEMMA TapeAtAp ==
  ASSUME TypeOK
  PROVE  Tape[ap] = CellValue
BY DEF TypeOK, Tape

(* A valid register is the cell, so that the operand of an operation is    *)
(* the value the program sees.                                             *)
LEMMA OperandIsCell ==
  ASSUME IInv
  PROVE  FetchedReg = dataMem[ap] /\ Operand = CellValue
BY DEF IInv, RegCoherent, FetchedReg, Operand, CellValue

(* Saving the counter makes the core equal to the tape.                    *)
LEMMA FlushSavesTape ==
  ASSUME TypeOK, lock, Flush
  PROVE  dataMem' = Tape
BY DEF TypeOK, Flush, Tape, CellValue

(* Each operation of ApLine is the operation of CellStore that it is for.  *)
LEMMA DataStepIsCount ==
  ASSUME IInv, NEW dec \in BOOLEAN, DataStep(dec)
  PROVE  Cells!Count(dec)
<1>1. data' = WrapStep(Tape[ap], dec, DataTop + 1)
  BY OperandIsCell, TapeAtAp DEF DataStep, IInv
<1>2. Tape' = [Tape EXCEPT ![ap] = data']
  BY DEF DataStep, Tape, CellValue, TypeOK, IInv
<1>3. Cells!WrapStep(Tape[ap], dec, DataTop + 1) = data'
  BY <1>1 DEF WrapStep, WrapInc, WrapDec,
              Cells!WrapStep, Cells!WrapInc, Cells!WrapDec
<1> QED
  BY <1>2, <1>3 DEF Cells!Count, Cells!Put, DataStep, Tape

LEMMA ApMoveIsMoveTo ==
  ASSUME IInv, NEW next \in Addr, ApMove(next)
  PROVE  Cells!MoveTo(next)
<1>0. TypeOK
  BY DEF IInv
<1>1. dataMem' = Tape
  <2>1. CASE lock
    BY <1>0, <2>1, FlushSavesTape DEF ApMove
  <2>2. CASE ~lock
    BY <1>0, <2>2 DEF ApMove, Tape, CellValue, TypeOK
  <2> QED
    BY <2>1, <2>2
<1>2. dataMem' \in [Addr -> Byte]
  BY <1>0, FlushTypes DEF ApMove, TypeOK
<1>3. Tape' = dataMem'
  BY <1>2 DEF ApMove, Tape, CellValue
<1> QED
  BY <1>1, <1>3 DEF Cells!MoveTo, ApMove, Tape

LEMMA TakeIsPut ==
  ASSUME IInv, NEW c \in Byte, Take(c)
  PROVE  Cells!Put(c)
<1>1. Tape' = [Tape EXCEPT ![ap] = c]
  BY DEF Take, Tape, CellValue, TypeOK, IInv
<1> QED
  BY <1>1 DEF Cells!Put, Take, Tape

LEMMA CoutIsEmit ==
  ASSUME IInv, Cout
  PROVE  Cells!Emit
<1>1. data' = Tape[ap]
  BY OperandIsCell, TapeAtAp DEF Cout, IInv
<1>2. Tape' = Tape
  BY DEF Cout, Tape, CellValue, Operand
<1> QED
  BY <1>1, <1>2 DEF Cells!Emit, Cout, Tape

LEMMA ClrMlIsSave ==
  ASSUME IInv, ClrMl
  PROVE  Cells!Save
<1>0. TypeOK
  BY DEF IInv
<1>1. dataMem' = Tape
  <2>1. CASE lock
    BY <1>0, <2>1, FlushSavesTape DEF ClrMl
  <2>2. CASE ~lock
    BY <1>0, <2>2 DEF ClrMl, Tape, CellValue, TypeOK
  <2> QED
    BY <2>1, <2>2
<1>2. Tape' = Tape
  BY <1>0, <1>1 DEF ClrMl, Tape, CellValue, TypeOK
<1> QED
  BY <1>1, <1>2 DEF Cells!Save, ClrMl, Tape

LEMMA LoadIsReload ==
  ASSUME IInv, Load
  PROVE  Cells!Reload
<1>1. data' = dataMem[ap]
  BY OperandIsCell DEF Load
<1>2. Tape' = dataMem
  BY <1>1 DEF Load, Tape, CellValue, TypeOK, IInv
<1> QED
  BY <1>1, <1>2 DEF Cells!Reload, Load, Tape

LEMMA StoreIsCopy ==
  ASSUME IInv, Store
  PROVE  Cells!Copy
<1>1. dataMem' = [Tape EXCEPT ![ap] = data]
  BY DEF Store, Flush, Tape, TypeOK, IInv
<1>2. Tape' = dataMem'
  BY DEF Store, Flush, Tape, CellValue, TypeOK, IInv
<1> QED
  BY <1>1, <1>2 DEF Cells!Copy, Store, Tape

LEMMA TestIsHidden ==
  ASSUME BracketTest
  PROVE  UNCHANGED Cells!vars
<1>1. Tape' = Tape
  BY DEF BracketTest, Tape, CellValue
<1> QED
  BY <1>1 DEF BracketTest, Tape, Cells!vars

LEMMA ResetIsReset ==
  ASSUME IInv, ApReset
  PROVE  Cells!Reset
<1>1. Tape' = dataMem
  BY ZeroInRange DEF ApReset, Tape, CellValue, TypeOK, IInv
<1> QED
  BY <1>1 DEF Cells!Reset, ApReset, Tape

LEMMA SetCellIsPoke ==
  ASSUME IInv, NEW a \in Addr, NEW v \in Byte, SetCell(a, v)
  PROVE  Cells!Poke(a, v)
<1>0. TypeOK
  BY DEF IInv
<1>1. \/ Tape[a] = dataMem[a] /\ Tape' = [Tape EXCEPT ![a] = v]
      \/ a = ap /\ Tape' = Tape
  <2>1. CASE lock /\ a = ap
    BY <1>0, <2>1 DEF SetCell, Tape, CellValue, TypeOK
  <2>2. CASE ~(lock /\ a = ap)
    <3>1. Tape[a] = dataMem[a]
      BY <1>0, <2>2 DEF Tape, CellValue, TypeOK
    <3>2. Tape' = [Tape EXCEPT ![a] = v]
      BY <1>0, <2>2 DEF SetCell, Tape, CellValue, TypeOK
    <3> QED
      BY <3>1, <3>2
  <2> QED
    BY <2>1, <2>2
<1> QED
  BY <1>1 DEF Cells!Poke, SetCell, Tape

LEMMA NextRefines == IInv /\ [Next]_apVars => [Cells!Next]_(Cells!vars)
<1> SUFFICES ASSUME IInv, [Next]_apVars PROVE Cells!Next \/ UNCHANGED Cells!vars
  OBVIOUS
<1> USE DEF Cells!Next
<1>1. Addr = Cells!Addr /\ Byte = Cells!Byte /\ 0 \in Addr /\ 0 \in Byte
  BY ZeroInRange DEF Addr, Byte, Cells!Addr, Cells!Byte
<1>2. ASSUME NEW dec \in BOOLEAN, DataStep(dec) PROVE Cells!Next
  BY <1>2, DataStepIsCount
<1>3. ASSUME NEW next \in Addr, ApMove(next) PROVE Cells!Next
  BY <1>1, <1>3, ApMoveIsMoveTo
<1>4. ASSUME NEW dec \in BOOLEAN, ApStep(dec) PROVE Cells!Next
  <2>1. WrapStep(ap, dec, ApTop + 1) \in Addr
    BY ApLineAssumption, WrapStepTop DEF Addr, TypeOK, IInv
  <2> QED
    BY <1>3, <1>4, <2>1 DEF ApStep
<1>5. ASSUME NEW c \in Byte, Take(c) PROVE Cells!Next
  BY <1>1, <1>5, TakeIsPut
<1>6. ASSUME NEW a \in Addr, NEW v \in Byte, SetCell(a, v) PROVE Cells!Next
  BY <1>1, <1>6, SetCellIsPoke
<1>7. CASE UNCHANGED apVars
  BY <1>7 DEF apVars, CellValue, Cells!vars
<1>8. CASE Cout \/ ClrMl \/ Load \/ Store \/ BracketTest \/ ApReset
  BY <1>8, CoutIsEmit, ClrMlIsSave, LoadIsReload, StoreIsCopy, TestIsHidden,
     ResetIsReset
<1> QED
  BY <1>1, <1>2, <1>3, <1>4, <1>5, <1>6, <1>7, <1>8 DEF Next, ClrA, Cin, ClrD

(* MemLock and the lazy read cannot be observed: whatever the size of the  *)
(* core, ApLine behaves as the plain store of CellStore.                   *)
THEOREM RefinesCellStore == Spec => ImplementsCellStore
BY Invariance, InitRefines, NextRefines, PTL
DEF Spec, ImplementsCellStore, Cells!Spec
=============================================================================
