------------------------- MODULE DekatronPC_proofs --------------------------
(***************************************************************************)
(* DekatronPC for every size, every program and every way to use it: types,*)
(* what a halted and a waiting machine have left behind, the zero flag of  *)
(* a bracket, the service of CIN, and the cells that the whole machine     *)
(* implements.                                                             *)
(*                                                                         *)
(* Every step of the machine is a step of each line or leaves it alone     *)
(* (ApSteps, IpSteps), so that what is proved of the lines alone holds of  *)
(* them here.                                                              *)
(***************************************************************************)
EXTENDS DekatronPC, TLAPS

ApP == INSTANCE ApLine_proofs
IpP == INSTANCE IpLine_proofs WITH origin <- 0, moved <- 0

-----------------------------------------------------------------------------
(* The data side of the machine is the ApLine of ApLine_proofs.            *)
LEMMA SameAp ==
  /\ Ap!Init <=> ApP!Init
  /\ Ap!TypeOK <=> ApP!TypeOK
  /\ Ap!RegCoherent <=> ApP!RegCoherent
  /\ Ap!Next <=> ApP!Next
BY DEF Ap!TypeOK, ApP!TypeOK, Ap!RegCoherent, ApP!RegCoherent,
       Ap!Init, ApP!Init, Ap!Addr, ApP!Addr, Ap!Byte, ApP!Byte, Ap!Stat,
       ApP!Stat, Ap!Next, ApP!Next, Ap!DataStep, ApP!DataStep, Ap!ApStep,
       ApP!ApStep, Ap!ApMove, ApP!ApMove, Ap!ClrA, ApP!ClrA, Ap!Cin, ApP!Cin,
       Ap!Take, ApP!Take, Ap!ClrD, ApP!ClrD, Ap!Cout, ApP!Cout, Ap!ClrMl,
       ApP!ClrMl, Ap!Load, ApP!Load, Ap!Store, ApP!Store, Ap!BracketTest,
       ApP!BracketTest, Ap!ApReset, ApP!ApReset, Ap!SetCell, ApP!SetCell,
       Ap!FetchUnlessLocked, ApP!FetchUnlessLocked, Ap!Fetch, ApP!Fetch,
       Ap!FetchedReg, ApP!FetchedReg, Ap!Operand, ApP!Operand, Ap!Flush,
       ApP!Flush, Ap!WrapStep, ApP!WrapStep, Ap!WrapInc, ApP!WrapInc,
       Ap!WrapDec, ApP!WrapDec

LEMMA SameApNext ==
  /\ Ap!TypeOK' <=> ApP!TypeOK'
  /\ Ap!RegCoherent' <=> ApP!RegCoherent'
  /\ [Ap!Next]_apVars <=> [ApP!Next]_(ApP!apVars)
BY SameAp
DEF Ap!TypeOK, ApP!TypeOK, Ap!RegCoherent, ApP!RegCoherent, Ap!Addr, ApP!Addr,
    Ap!Byte, ApP!Byte, Ap!Stat, ApP!Stat, apVars, ApP!apVars

(* The instruction side is the IpLine of IpLine_proofs. *)
LEMMA SameIp ==
  /\ Ip!Init <=> IpP!Init
  /\ Ip!TypeOK <=> IpP!TypeOK
  /\ Ip!LoopCounterClean <=> IpP!LoopCounterClean
  /\ Ip!LatchedInsn <=> IpP!LatchedInsn
BY DEF Ip!Init, IpP!Init, Ip!TypeOK, IpP!TypeOK, Ip!LoopCounterClean,
       IpP!LoopCounterClean, Ip!LatchedInsn, IpP!LatchedInsn, Ip!Place,
       IpP!Place, Ip!RamPlace, IpP!RamPlace, Ip!RomPlace, IpP!RomPlace,
       Ip!LoopTop, IpP!LoopTop, Ip!ReadCode, IpP!ReadCode, Ip!Opcode,
       IpP!Opcode, Ip!OP_NOP, IpP!OP_NOP

LEMMA SameIpNext ==
  /\ Ip!TypeOK' <=> IpP!TypeOK'
  /\ Ip!LoopCounterClean' <=> IpP!LoopCounterClean'
  /\ Ip!LatchedInsn' <=> IpP!LatchedInsn'
BY DEF Ip!TypeOK, IpP!TypeOK, Ip!LoopCounterClean,
       IpP!LoopCounterClean, Ip!LatchedInsn, IpP!LatchedInsn, Ip!Place,
       IpP!Place, Ip!RamPlace, IpP!RamPlace, Ip!RomPlace, IpP!RomPlace,
       Ip!LoopTop, IpP!LoopTop, Ip!ReadCode, IpP!ReadCode, Ip!Opcode,
       IpP!Opcode

LEMMA SameIpQuiet ==
  /\ Ip!MachineNext <=> IpP!MachineNext
  /\ Ip!HostLoad <=> IpP!HostLoad
<1> USE DEF Ip!ReadCode, IpP!ReadCode, Ip!memVars, IpP!memVars, Ip!loopVars,
            IpP!loopVars, Ip!WrapStep, IpP!WrapStep, Ip!WrapInc, IpP!WrapInc,
            Ip!WrapDec, IpP!WrapDec, Ip!Place, IpP!Place, Ip!RamPlace,
            IpP!RamPlace, Ip!RomPlace, IpP!RomPlace, Ip!LoopTop, IpP!LoopTop,
            Ip!BF_LBEG, IpP!BF_LBEG, Ip!BF_LEND, IpP!BF_LEND, Ip!OP_NOP,
            IpP!OP_NOP
<1>1. Ip!HostLoad <=> IpP!HostLoad
  BY DEF Ip!HostLoad, IpP!HostLoad, Ip!LoadCode, IpP!LoadCode, Ip!SetBootRom,
         IpP!SetBootRom, Ip!LoadedAt, IpP!LoadedAt
<1>2. Ip!ScanStep <=> IpP!ScanStep
  BY DEF Ip!ScanStep, IpP!ScanStep, Ip!ScanPass, IpP!ScanPass, Ip!ScanOwn,
         IpP!ScanOwn, Ip!ScanOther, IpP!ScanOther, Ip!ScanMatch,
         IpP!ScanMatch, Ip!ScanOverflow, IpP!ScanOverflow, Ip!ScanMove,
         IpP!ScanMove, Ip!ScanInsn, IpP!ScanInsn, Ip!ScanPlace, IpP!ScanPlace,
         Ip!Own, IpP!Own, Ip!Other, IpP!Other, Ip!HaltPlace, IpP!HaltPlace
<1>3. Ip!MachineNext <=> IpP!MachineNext
  BY <1>2
  DEF Ip!MachineNext, IpP!MachineNext, Ip!FirstFetch, IpP!FirstFetch,
      Ip!LoadFetch, IpP!LoadFetch, Ip!NextFetch, IpP!NextFetch,
      Ip!ScanStart, IpP!ScanStart, Ip!StartOverflow, IpP!StartOverflow,
      Ip!AtNext, IpP!AtNext, Ip!Jumps, IpP!Jumps, Ip!EnterHalt,
      IpP!EnterHalt, Ip!ClrL, IpP!ClrL, Ip!ClrI, IpP!ClrI, Ip!IpReset,
      IpP!IpReset, Ip!ResetLines, IpP!ResetLines, Ip!StartLoading,
      IpP!StartLoading, Ip!TakeInsn, IpP!TakeInsn, Ip!WriteCode,
      IpP!WriteCode, Ip!EndLoading, IpP!EndLoading, Ip!HaltPlace,
      IpP!HaltPlace
<1> QED
  BY <1>1, <1>3

-----------------------------------------------------------------------------
(* What MachineCtrl, the queues and the output are. *)
ControlTypes ==
  /\ mode \in Isas
  /\ halted \in BOOLEAN
  /\ phase \in {"FETCH", "INSN", "CIN"}
  /\ call \in {"none", "insn", "decode", "cin"}
  /\ cfg \in Switches
  /\ rx \in Seq(Ap!Byte) /\ Len(rx) <= MaxQueue
  /\ insnIn \in Seq(Insns) /\ Len(insnIn) <= MaxQueue
  /\ tx \in Seq(Ap!Byte) /\ Len(tx) <= MaxTx
  /\ iret \in Ap!Stat
  /\ bells \in Ap!Stat

LEMMA ByteOfCharacter ==
  ASSUME NEW c \in Nat
  PROVE  c % (DataTop + 1) \in Ap!Byte
BY DekatronPCAssumption DEF Ap!Byte

LEMMA InputsAreBytes == Inputs \subseteq Ap!Byte
BY DekatronPCAssumption DEF Ap!Byte

(* Whatever the machine, the panel or the host does is an operation of the *)
(* data side, or leaves it alone.                                          *)
LEMMA ApSteps ==
  ASSUME ControlTypes, [Next]_vars
  PROVE  [Ap!Next]_apVars
<1> USE DEF Ap!Next
<1>1. ASSUME NEW c \in 0 .. DataTop + 1, FinishCin(c) PROVE [Ap!Next]_apVars
  <2>1. c \in Nat
    BY DekatronPCAssumption
  <2>2. c % (DataTop + 1) \in Ap!Byte
    BY <2>1, ByteOfCharacter
  <2> QED
    BY <1>1, <2>2 DEF FinishCin
<1>2. ASSUME NEW hard \in BOOLEAN, ResetCounters(hard) PROVE [Ap!Next]_apVars
  BY <1>2 DEF ResetCounters
<1>3. CASE DecodeEot
  BY <1>3 DEF DecodeEot
<1>4. CASE DecodeReset
  BY <1>2, <1>4 DEF DecodeReset
<1>5. CASE DecodeAp
  <2>1. (insn % 2 = 1) \in BOOLEAN
    OBVIOUS
  <2> QED
    BY <1>5, <2>1 DEF DecodeAp
<1>6. CASE DecodeCout
  BY <1>6 DEF DecodeCout
<1>7. CASE Decode /\ ~DecodeEot /\ ~DecodeReset /\ ~DecodeAp /\ ~DecodeCout
  BY <1>7 DEF Decode, DecodeIsa, DecodeStored, DecodeNop, DecodeHalt,
              DecodeBell, DecodeIp, DecodeCin
<1>8. CASE Fetch \/ StartScan \/ LoadFetch
  BY <1>8 DEF Fetch, StartScan, LoadFetch
<1>9. CASE Scan \/ ScanMatch \/ Overflow \/ TakeInsn \/ WaitInsn \/ WaitCin
  BY <1>9 DEF Scan, ScanMatch, Overflow, TakeInsn, WaitInsn, WaitCin
<1>10. CASE Panel
  BY <1>2, <1>10 DEF Panel, HardReset, SoftReset, Run, StartLoading
<1>11. ASSUME NEW a \in Ap!Addr, NEW v \in Inputs, SetCell(a, v)
       PROVE  [Ap!Next]_apVars
  BY <1>11, InputsAreBytes DEF SetCell
<1>12. CASE Host
  BY <1>11, <1>12 DEF Host, PushInput, PushInsn, LoadMemory, ClearOutput
<1>13. CASE UNCHANGED vars
  BY <1>13 DEF vars
<1> QED
  BY <1>1, <1>3, <1>4, <1>5, <1>6, <1>7, <1>8, <1>9, <1>10, <1>12, <1>13
  DEF Next, Step, Continue

(* Whatever they do is an operation of the instruction side, and memory is *)
(* loaded at quiet times only.                                             *)
LEMMA IpSteps ==
  ASSUME ControlTypes, [Next]_vars
  PROVE  [IpP!QuietNext]_(IpP!ipVars)
<1> SUFFICES Ip!MachineNext \/ (~ipCounted /\ Ip!HostLoad) \/ UNCHANGED ipVars
  BY SameIpQuiet DEF IpP!QuietNext, ipVars, IpP!ipVars
<1> USE DEF Ip!MachineNext
<1>0. LoopValZero \in BOOLEAN
  BY DEF LoopValZero, Ap!DataZero
<1>1. CASE Fetch
  BY <1>0, <1>1 DEF Fetch
<1>2. CASE StartScan
  BY <1>0, <1>2 DEF StartScan
<1>3. CASE LoadFetch
  BY <1>3 DEF LoadFetch
<1>4. CASE Scan \/ ScanMatch
  BY <1>4 DEF Scan, ScanMatch, Ip!ScanStep
<1>5. CASE Overflow
  BY <1>0, <1>5 DEF Overflow, Ip!ScanStep
<1>6. CASE TakeInsn
  <2>1. Head(insnIn) \in Insns
    BY <1>6 DEF TakeInsn, ControlTypes
  <2>2. IsEot(Head(insnIn)) \in BOOLEAN
    BY DEF IsEot
  <2> QED
    BY <1>6, <2>1, <2>2 DEF TakeInsn
<1>7. CASE WaitInsn \/ WaitCin
  BY <1>7 DEF WaitInsn, WaitCin
<1>8. CASE Decode
  <2>1. cfg.softRstOnEot \in BOOLEAN
    BY DEF ControlTypes, Switches
  <2>2. CASE DecodeEot
    BY <2>1, <2>2 DEF DecodeEot
  <2>3. CASE DecodeReset
    BY <2>3 DEF DecodeReset, ResetCounters
  <2>4. CASE DecodeIp
    BY <2>4 DEF DecodeIp
  <2>5. CASE DecodeHalt
    BY <2>5 DEF DecodeHalt, EnterHalt
  <2>6. CASE DecodeIsa \/ DecodeStored \/ DecodeNop \/ DecodeBell
               \/ DecodeAp \/ DecodeCout \/ DecodeCin
    BY <2>6 DEF DecodeIsa, DecodeStored, DecodeNop, DecodeBell, DecodeAp,
                DecodeCout, DecodeCin
  <2> QED
    BY <1>8, <2>2, <2>3, <2>4, <2>5, <2>6 DEF Decode
<1>9. ASSUME NEW c, FinishCin(c) PROVE UNCHANGED ipVars
  BY <1>9 DEF FinishCin
<1>10. CASE Panel
  BY <1>10 DEF Panel, HardReset, SoftReset, Run, StartLoading, ResetCounters
<1>11. CASE Host
  BY <1>11 DEF Host, PushInput, PushInsn, SetCell, LoadMemory, ClearOutput
<1>12. CASE UNCHANGED vars
  BY <1>12 DEF vars
<1> QED
  BY <1>1, <1>2, <1>3, <1>4, <1>5, <1>6, <1>7, <1>8, <1>9, <1>10, <1>11,
     <1>12 DEF Next, Step, Continue

-----------------------------------------------------------------------------
(* What the proofs of the lines bring to the machine. *)
LineInv ==
  /\ Ap!TypeOK
  /\ Ap!RegCoherent
  /\ Ip!TypeOK
  /\ Ip!LoopCounterClean
  /\ Ip!LatchedInsn

LEMMA InitLineInv == Init => LineInv
<1> SUFFICES ASSUME Init PROVE LineInv
  OBVIOUS
<1>1. ApP!TypeOK /\ ApP!RegCoherent
  BY SameAp, ApP!InitTypeOK, DekatronPCAssumption
  DEF Init, ApP!Init, ApP!RegCoherent
<1>2. IpP!TypeOK /\ IpP!LoopCounterClean
  BY SameIp, IpP!InitLoopInv, DekatronPCAssumption
  DEF Init, IpP!LoopInv, IpP!Opcode, Opcode
<1>3. Ip!LatchedInsn
  BY DEF Init, Ip!Init, Ip!LatchedInsn
<1> QED
  BY <1>1, <1>2, <1>3, SameAp, SameIp DEF LineInv

LEMMA NextLineInv ==
  ASSUME LineInv, ControlTypes, [Next]_vars
  PROVE  LineInv'
<1>1. ApP!TypeOK' /\ ApP!RegCoherent'
  BY SameAp, SameApNext, ApSteps, ApP!NextTypeOK, ApP!NextRegCoherent,
     DekatronPCAssumption
  DEF LineInv
<1>2. IpP!TypeOK' /\ IpP!LoopCounterClean'
  BY SameIp, IpSteps, IpP!NextLoopInv, DekatronPCAssumption
  DEF LineInv, IpP!LoopInv, IpP!QuietNext, IpP!Next, IpP!Opcode, Opcode
<1>3. IpP!LatchedInsn'
  BY SameIp, IpSteps, IpP!NextLatched, DekatronPCAssumption
  DEF LineInv, IpP!Opcode, Opcode
<1> QED
  BY <1>1, <1>2, <1>3, SameApNext, SameIpNext DEF LineInv

(* The terminal keeps the last MaxTx characters. *)
LEMMA SentTypes ==
  ASSUME ControlTypes, NEW c \in Ap!Byte, Sent(c)
  PROVE  tx' \in Seq(Ap!Byte) /\ Len(tx') <= MaxTx
BY DekatronPCAssumption DEF ControlTypes, Sent

LEMMA StatSteps ==
  ASSUME NEW n \in Ap!Stat
  PROVE  WrapInc(n, StatSize) \in Ap!Stat
BY DekatronPCAssumption DEF Ap!Stat, WrapInc

(* A queue that takes an element it has room for, and one that gives its   *)
(* first, is still a queue.                                                *)
LEMMA QueueSteps ==
  ASSUME NEW S, NEW q \in Seq(S), Len(q) <= MaxQueue
  PROVE  /\ \A e \in S : Len(q) < MaxQueue =>
              Append(q, e) \in Seq(S) /\ Len(Append(q, e)) <= MaxQueue
         /\ q # <<>> => /\ Head(q) \in S
                        /\ Tail(q) \in Seq(S)
                        /\ Len(Tail(q)) <= MaxQueue
BY DekatronPCAssumption

LEMMA NextControlTypes ==
  ASSUME LineInv, ControlTypes, [Next]_vars
  PROVE  ControlTypes'
<1>0. LineInv'
  BY NextLineInv
<1>a. data' \in Ap!Byte
  BY <1>0 DEF LineInv, Ap!TypeOK, Ap!Byte
<1> USE DEF ControlTypes, Isas
<1>1. CASE Fetch
  BY <1>1 DEF Fetch, queueVars, statVars
<1>2. CASE StartScan \/ Scan \/ ScanMatch
  BY <1>2 DEF StartScan, Scan, ScanMatch, queueVars, statVars, ctrlVars
<1>3. CASE LoadFetch \/ WaitInsn \/ WaitCin
  BY <1>3 DEF LoadFetch, WaitInsn, WaitCin, queueVars, statVars
<1>4. CASE Overflow
  BY <1>4, StatSteps DEF Overflow, Bell, queueVars
<1>5. CASE TakeInsn
  BY <1>5, QueueSteps DEF TakeInsn, statVars
<1>6. CASE DecodeEot
  BY <1>6, StatSteps DEF DecodeEot, Retire, queueVars, Switches
<1>7. CASE DecodeIsa \/ DecodeStored \/ DecodeNop
  BY <1>7, StatSteps DEF DecodeIsa, DecodeStored, DecodeNop, Retire, queueVars
<1>8. CASE DecodeHalt \/ DecodeBell
  BY <1>8, StatSteps
  DEF DecodeHalt, DecodeBell, EnterHalt, Bell, Retire, queueVars
<1>9. CASE DecodeIp \/ DecodeAp
  BY <1>9, StatSteps DEF DecodeIp, DecodeAp, Retire, queueVars
<1>10. ASSUME NEW hard \in BOOLEAN, ResetCounters(hard)
       PROVE  mode' \in Isas /\ halted' \in BOOLEAN /\ phase' = "FETCH"
  BY <1>10 DEF ResetCounters
<1>11. CASE DecodeReset
  BY <1>10, <1>11, StatSteps DEF DecodeReset, Retire, queueVars
<1>12. CASE DecodeCout
  BY <1>a, <1>12, StatSteps, SentTypes DEF DecodeCout, Retire, queueVars
<1>13. CASE DecodeCin
  BY <1>13, StatSteps DEF DecodeCin, Bell, queueVars
<1>14. ASSUME NEW c, FinishCin(c) PROVE ControlTypes'
  <2>1. tx' \in Seq(Ap!Byte) /\ Len(tx') <= MaxTx
    BY <1>a, <1>14, SentTypes DEF FinishCin
  <2>2. rx' \in Seq(Ap!Byte) /\ Len(rx') <= MaxQueue
    BY <1>14, QueueSteps DEF FinishCin, Character
  <2> QED
    BY <1>14, <2>1, <2>2 DEF FinishCin, statVars
<1>15. CASE Panel
  BY <1>10, <1>15 DEF Panel, HardReset, SoftReset, Run, StartLoading,
                      queueVars, statVars
<1>16. ASSUME NEW c \in Inputs, PushInput(c) PROVE ControlTypes'
  BY <1>16, QueueSteps, InputsAreBytes DEF PushInput, ctrlVars, statVars
<1>17. ASSUME NEW op \in Insns, PushInsn(op) PROVE ControlTypes'
  BY <1>17, QueueSteps DEF PushInsn, ctrlVars, statVars
<1>18. ASSUME NEW a, NEW v, SetCell(a, v) PROVE ControlTypes'
  BY <1>18 DEF SetCell, ctrlVars, queueVars, statVars
<1>19. CASE LoadMemory
  BY <1>19 DEF LoadMemory, ctrlVars, queueVars, statVars
<1>20. CASE ClearOutput
  BY <1>20, DekatronPCAssumption DEF ClearOutput, ctrlVars, queueVars, statVars
<1>21. CASE UNCHANGED vars
  BY <1>21 DEF vars, ctrlVars, queueVars, statVars
<1> QED
  BY <1>1, <1>2, <1>3, <1>4, <1>5, <1>6, <1>7, <1>8, <1>9, <1>11, <1>12,
     <1>13, <1>14, <1>15, <1>16, <1>17, <1>18, <1>19, <1>20, <1>21
  DEF Next, Step, Continue, Decode, Host

LEMMA InitControlTypes == Init => ControlTypes
BY DekatronPCAssumption DEF Init, ControlTypes, Isas, Ap!Stat

(* The types of the machine, its lines coherent. *)
TypeInv == ControlTypes /\ LineInv

LEMMA NextTypeInv == TypeInv /\ [Next]_vars => TypeInv'
BY NextControlTypes, NextLineInv DEF TypeInv

LEMMA TypeInvariance == Spec => []TypeInv
<1>1. Init => TypeInv
  BY InitControlTypes, InitLineInv DEF TypeInv
<1> QED
  BY <1>1, NextTypeInv, PTL DEF Spec

LEMMA TypeInvTypes == TypeInv => TypeOK
<1> SUFFICES ASSUME ControlTypes, LineInv PROVE TypeOK
  BY DEF TypeInv
<1>1. insnIn \in Seq(Opcode)
  BY DekatronPCAssumption DEF ControlTypes
<1> QED
  BY <1>1 DEF ControlTypes, LineInv, TypeOK

(* The state of both lines, of MachineCtrl, of the queues and of the       *)
(* output stays in its range, for every size, panel and program.           *)
THEOREM TypeCorrect == Spec => []TypeOK
BY TypeInvariance, TypeInvTypes, PTL

-----------------------------------------------------------------------------
(* Where a call of step() can be, and the scan inside it. *)
CallInv ==
  /\ call = "insn" => phase = "INSN"
  /\ call = "cin" => phase = "CIN"
  /\ call = "decode" => phase = "FETCH" /\ ipCounted /\ ~halted
  /\ scan # "none" => call = "none" /\ phase = "FETCH"

(* What phase remembers, what a halt has cleaned up and where the call is  *)
(* hold each other up: HALT halts a machine that is not loading because it *)
(* was decoded, and it was decoded after a fetch of a running machine.     *)
ControlInv == TypeInv /\ CallInv /\ WaitIsConsistent /\ HaltedIsFresh

LEMMA InitControlInv == Init => ControlInv
BY InitControlTypes, InitLineInv
DEF Init, Ip!Init, ControlInv, TypeInv, CallInv, WaitIsConsistent,
    HaltedIsFresh, Between

(* A reset leaves a machine that has fetched nothing. *)
LEMMA ResetIsFresh ==
  ASSUME NEW hard \in BOOLEAN, ResetCounters(hard)
  PROVE  ~ipCounted' /\ phase' = "FETCH" /\ ~loading' /\ scan' = "none"
BY DEF ResetCounters, Ip!IpReset, Ip!ResetLines

LEMMA NextControl ==
  ASSUME ControlInv, [Next]_vars
  PROVE  CallInv' /\ WaitIsConsistent' /\ HaltedIsFresh'
<1> DEFINE Goal == CallInv /\ WaitIsConsistent /\ HaltedIsFresh
<1> SUFFICES Goal'
  OBVIOUS
<1>0. ControlTypes /\ Goal
  BY DEF ControlInv, TypeInv
<1> USE <1>0 DEF CallInv, WaitIsConsistent, HaltedIsFresh, Between
<1>1. CASE Fetch
  BY <1>1 DEF Fetch, AtFetch, Ip!FirstFetch, Ip!NextFetch, Ip!AtNext,
              Ip!loopVars
<1>2. CASE StartScan
  BY <1>2 DEF StartScan, AtFetch, Ip!ScanStart, Ip!AtNext, ctrlVars
<1>3. CASE Scan
  BY <1>3 DEF Scan, Ip!ScanPass, Ip!ScanOwn, Ip!ScanOther, Ip!ScanMove,
              ctrlVars
<1>4. CASE ScanMatch
  BY <1>4 DEF ScanMatch, Ip!ScanMatch, Ip!ScanMove, ControlInv, TypeInv,
              LineInv, Ip!LoopCounterClean
<1>5. CASE Overflow
  <2>1. scan' = "none" /\ ~ipCounted' /\ ~loading' /\ call' = "none"
    BY <1>5 DEF Overflow, AtFetch, Ip!StartOverflow, Ip!AtNext,
                Ip!ScanOverflow, ControlInv, TypeInv, LineInv,
                Ip!LoopCounterClean
  <2> QED
    BY <1>5, <2>1 DEF Overflow
<1>6. CASE LoadFetch
  BY <1>6 DEF LoadFetch, AtFetch, Ip!LoadFetch, Ip!loopVars
<1>7. CASE TakeInsn
  BY <1>7 DEF TakeInsn, AtInsn, Ip!TakeInsn, Ip!loopVars
<1>8. CASE WaitInsn \/ WaitCin
  BY <1>8 DEF WaitInsn, WaitCin, AtInsn, AtCin, ipVars
<1>9. CASE DecodeEot
  BY <1>9 DEF DecodeEot, Retire, Ip!EndLoading, Ip!ResetLines
<1>10. CASE DecodeIsa \/ DecodeStored \/ DecodeNop \/ DecodeBell \/ DecodeAp
             \/ DecodeCout \/ DecodeCin
  <2>1. UNCHANGED ipVars /\ UNCHANGED halted /\ call = "decode"
    BY <1>10 DEF DecodeIsa, DecodeStored, DecodeNop, DecodeBell, DecodeAp,
                 DecodeCout, DecodeCin, Retire
  <2>2. \/ call' = "none" /\ phase' = phase
        \/ call' = "cin" /\ phase' = "CIN"
    BY <1>10 DEF DecodeIsa, DecodeStored, DecodeNop, DecodeBell, DecodeAp,
                 DecodeCout, DecodeCin, Retire
  <2> QED
    BY <2>1, <2>2 DEF ipVars
<1>11. CASE DecodeHalt
  BY <1>11 DEF DecodeHalt, EnterHalt, Ip!EnterHalt, Ip!loopVars, Retire
<1>12. CASE DecodeReset
  BY <1>12, ResetIsFresh DEF DecodeReset, Retire
<1>13. CASE DecodeIp
  BY <1>13 DEF DecodeIp, Retire, Ip!StartLoading, Ip!ClrL, Ip!ClrI,
               Ip!loopVars
<1>14. ASSUME NEW c, FinishCin(c) PROVE Goal'
  BY <1>14 DEF FinishCin, AtCin, ipVars
<1>15. CASE HardReset \/ SoftReset
  BY <1>15, ResetIsFresh DEF HardReset, SoftReset
<1>16. CASE Run \/ StartLoading
  BY <1>16 DEF Run, StartLoading, Ip!StartLoading, Ip!loopVars, ipVars
<1>17. CASE LoadMemory
  BY <1>17 DEF LoadMemory, Ip!HostLoad, Ip!LoadCode, Ip!SetBootRom,
               Ip!loopVars, ctrlVars
<1>18. CASE Host /\ ~LoadMemory
  BY <1>18 DEF Host, PushInput, PushInsn, SetCell, ClearOutput, ipVars,
               ctrlVars
<1>19. CASE UNCHANGED vars
  BY <1>19 DEF vars, ipVars, ctrlVars
<1> QED
  BY <1>1, <1>2, <1>3, <1>4, <1>5, <1>6, <1>7, <1>8, <1>9, <1>10, <1>11,
     <1>12, <1>13, <1>14, <1>15, <1>16, <1>17, <1>18, <1>19
  DEF Next, Step, Continue, Decode, Panel

LEMMA ControlInvariance == Spec => []ControlInv
<1>1. ControlInv /\ [Next]_vars => ControlInv'
  BY NextControl, NextTypeInv DEF ControlInv
<1> QED
  BY <1>1, InitControlInv, PTL DEF Spec

(* However the machine came to halt, Run starts with a fetch at IP.        *)
THEOREM HaltIsClean == Spec => []HaltedIsFresh
<1>1. ControlInv => HaltedIsFresh
  BY DEF ControlInv
<1> QED
  BY <1>1, ControlInvariance, PTL

(* A machine that waits is running, has fetched, and waits for an opcode   *)
(* only inside a load.                                                     *)
THEOREM WaitingIsConsistent == Spec => []WaitIsConsistent
<1>1. ControlInv => WaitIsConsistent
  BY DEF ControlInv
<1> QED
  BY <1>1, ControlInvariance, PTL

-----------------------------------------------------------------------------
(* The cells of CellStore that the machine implements are those that the   *)
(* data side implements.                                                   *)
LEMMA SameCellStore == ApP!ImplementsCellStore => ImplementsCellStore
<1> USE DEF ApP!CellValue, Ap!CellValue, ApP!Cells!Addr, Ap!Cells!Addr,
            ApP!Cells!Byte, Ap!Cells!Byte
<1>1. ApP!Cells!Init => Ap!Cells!Init
  BY DEF ApP!Cells!Init, Ap!Cells!Init
<1>2. [ApP!Cells!Next]_(ApP!Cells!vars) => [Ap!Cells!Next]_(Ap!Cells!vars)
  BY DEF ApP!Cells!Next, Ap!Cells!Next, ApP!Cells!Count, Ap!Cells!Count,
         ApP!Cells!Put, Ap!Cells!Put, ApP!Cells!Emit, Ap!Cells!Emit,
         ApP!Cells!MoveTo, Ap!Cells!MoveTo, ApP!Cells!Save, Ap!Cells!Save,
         ApP!Cells!Reload, Ap!Cells!Reload, ApP!Cells!Copy, Ap!Cells!Copy,
         ApP!Cells!Reset, Ap!Cells!Reset, ApP!Cells!Poke, Ap!Cells!Poke,
         ApP!Cells!WrapStep, Ap!Cells!WrapStep, ApP!Cells!WrapInc,
         Ap!Cells!WrapInc, ApP!Cells!WrapDec, Ap!Cells!WrapDec,
         ApP!Cells!vars, Ap!Cells!vars
<1> QED
  BY <1>1, <1>2, PTL
  DEF ApP!ImplementsCellStore, ImplementsCellStore, Ap!ImplementsCellStore,
      ApP!Cells!Spec, Ap!Cells!Spec

(* No instruction, reset, wait, key or act of the host reaches the cells   *)
(* in any other way than an operation of CellStore, with the cell that the *)
(* counter owns shown with the counter's value.                            *)
THEOREM RefinesCellStore == Spec => ImplementsCellStore
<1>1. Init => ApP!Init
  BY SameAp DEF Init
<1>2. TypeInv /\ [Next]_vars => [ApP!Next]_(ApP!apVars)
  BY ApSteps, SameApNext DEF TypeInv
<1>3. ApP!Spec => ApP!ImplementsCellStore
  BY ApP!RefinesCellStore, DekatronPCAssumption
<1> QED
  BY <1>1, <1>2, <1>3, TypeInvariance, SameCellStore, PTL DEF Spec, ApP!Spec

-----------------------------------------------------------------------------
(* A bracket that is over and has still to decide where to go has made the *)
(* zero flag valid: it owns the counter or the register is the cell.  In   *)
(* the middle of a decode that need not be so yet.                         *)
Undecided ==
  /\ mode = ISA_BF /\ ipCounted /\ ~loading
  /\ insn \in {BF_LBEG, BF_LEND}

TestedInv == Undecided /\ call # "decode" /\ scan = "none" => lock \/ memHere

(* In the Brainfuck ISA a bracket decodes to TEST and to nothing else. *)
LEMMA BracketDecodes ==
  ASSUME Undecided
  PROVE  Operation(mode, insn) = "TEST"
BY DEF Undecided, Operation, ISA_BF, ISA_DEBUG, OP_HALT, OP_CLRD, OP_ISA0,
       OP_ISA1, BF_LBEG, BF_LEND, BF_INC, BF_DEC, BF_AINC, BF_ADEC, BF_COUT,
       BF_CIN, BF_CLRML, BF_LOAD, BF_STORE

(* The flag is valid after the test. *)
LEMMA TestMakesValid ==
  ASSUME Ap!TypeOK, Ap!BracketTest
  PROVE  lock' \/ memHere'
BY DEF Ap!BracketTest, Ap!FetchUnlessLocked, Ap!Fetch, Ap!TypeOK

LEMMA DecodeTests ==
  ASSUME ControlInv, Decode
  PROVE  TestedInv'
<1> USE DEF TestedInv, Undecided
<1>0. Ap!TypeOK
  BY DEF ControlInv, TypeInv, LineInv
<1>1. CASE DecodeEot
  BY <1>1 DEF DecodeEot, Ip!EndLoading, Ip!ResetLines
<1>2. CASE DecodeIsa
  BY <1>2 DEF DecodeIsa, ipVars, OP_ISA0, OP_ISA1, BF_LBEG, BF_LEND
<1>3. CASE DecodeStored
  BY <1>3 DEF DecodeStored, ipVars
<1>4. CASE DecodeHalt
  BY <1>4 DEF DecodeHalt, EnterHalt, Ip!EnterHalt
<1>5. CASE DecodeReset
  BY <1>5, ResetIsFresh DEF DecodeReset
<1>6. CASE DecodeIp
  <2>1. CASE Undecided
    BY <1>6, <2>1, BracketDecodes DEF DecodeIp, Decodes
  <2>2. CASE ~Undecided
    <3>1. mode' = mode /\ insn' = insn
      BY <1>6 DEF DecodeIp, Ip!StartLoading, Ip!ClrL, Ip!ClrI
    <3>2. \/ ~ipCounted' \/ loading'
          \/ ipCounted' = ipCounted /\ loading' = loading
      BY <1>6 DEF DecodeIp, Ip!StartLoading, Ip!ClrL, Ip!ClrI
    <3> QED
      BY <2>2, <3>1, <3>2
  <2> QED
    BY <2>1, <2>2
<1>7. CASE DecodeAp
  <2>1. UNCHANGED <<mode, insn, ipCounted, loading>>
    BY <1>7 DEF DecodeAp, ipVars
  <2>2. CASE Undecided
    <3>1. Ap!BracketTest
      BY <1>7, <2>2, BracketDecodes DEF DecodeAp, Decodes
    <3> QED
      BY <1>0, <3>1, TestMakesValid
  <2> QED
    BY <2>1, <2>2
<1>8. CASE DecodeNop \/ DecodeBell \/ DecodeCout \/ DecodeCin
  <2>1. UNCHANGED <<mode, insn, ipCounted, loading>>
    BY <1>8 DEF DecodeNop, DecodeBell, DecodeCout, DecodeCin, ipVars
  <2>2. ~Undecided
    BY <1>8, BracketDecodes DEF DecodeNop, DecodeBell, DecodeCout, DecodeCin,
                                Decodes
  <2> QED
    BY <2>1, <2>2
<1> QED
  BY <1>1, <1>2, <1>3, <1>4, <1>5, <1>6, <1>7, <1>8 DEF Decode

LEMMA NextTested ==
  ASSUME ControlInv, TestedInv, [Next]_vars
  PROVE  TestedInv'
<1> USE DEF TestedInv, Undecided
<1>0. CallInv /\ WaitIsConsistent
  BY DEF ControlInv
<1>1. CASE Fetch \/ ScanMatch \/ TakeInsn
  BY <1>1 DEF Fetch, ScanMatch, TakeInsn
<1>2. CASE StartScan
  BY <1>2 DEF StartScan, Ip!ScanStart
<1>3. CASE Scan
  BY <1>3 DEF Scan, Ip!ScanPass, Ip!ScanOwn, Ip!ScanOther, Ip!ScanMove
<1>4. CASE Overflow
  BY <1>4 DEF Overflow, Ip!StartOverflow, Ip!ScanOverflow
<1>5. CASE LoadFetch
  BY <1>5 DEF LoadFetch, Ip!LoadFetch
<1>6. CASE WaitInsn \/ WaitCin
  BY <1>0, <1>6 DEF WaitInsn, WaitCin, AtInsn, AtCin, Between, CallInv,
                    ipVars, apVars
<1>7. CASE Decode
  BY <1>7, DecodeTests
<1>8. ASSUME NEW c, FinishCin(c) PROVE TestedInv'
  BY <1>8 DEF FinishCin, Ap!Cin, Ap!Take
<1>9. CASE Panel
  BY <1>9, ResetIsFresh DEF Panel, HardReset, SoftReset, Run, StartLoading,
                            Ip!StartLoading, Between, ipVars, apVars
<1>10. ASSUME NEW a, NEW v, SetCell(a, v) PROVE TestedInv'
  BY <1>10 DEF SetCell, Ap!SetCell, ipVars, ctrlVars
<1>11. CASE LoadMemory
  BY <1>11 DEF LoadMemory, Ip!HostLoad, Ip!LoadCode, Ip!SetBootRom
<1>12. ASSUME NEW c, PushInput(c) \/ PushInsn(c) \/ ClearOutput
       PROVE  TestedInv'
  BY <1>12 DEF PushInput, PushInsn, ClearOutput, ipVars, apVars, ctrlVars
<1>13. CASE UNCHANGED vars
  BY <1>13 DEF vars, ipVars, apVars, ctrlVars
<1> QED
  BY <1>1, <1>2, <1>3, <1>4, <1>5, <1>6, <1>7, <1>8, <1>9, <1>10, <1>11,
     <1>12, <1>13 DEF Next, Step, Continue, Host

(* When a bracket decides, one instruction after it was decoded, the zero  *)
(* flag is the truth about the current cell, whatever the host, the panel  *)
(* or an input did to the machine in between.                              *)
THEOREM ZeroFlagIsValid == Spec => []PendingTestValid
<1>1. Init => TestedInv
  BY DEF Init, Ip!Init, TestedInv, Undecided
<1>2. TestedInv /\ ControlInv /\ [Next]_vars => TestedInv'
  BY NextTested
<1>3. ControlInv /\ TestedInv => PendingTestValid
  BY DEF ControlInv, TypeInv, LineInv, TestedInv, Undecided, Between,
         PendingTestValid, Ap!RegCoherent, Ap!DataZero, Ap!CellValue
<1> QED
  BY <1>1, <1>2, <1>3, ControlInvariance, PTL DEF Spec

-----------------------------------------------------------------------------
(* A machine that awaits a character leaves by a character or by a reset.  *)
LEMMA NextServes ==
  ASSUME ControlInv, [Next]_vars, phase = "CIN", phase' # "CIN"
  PROVE  \/ lock' /\ ipCounted' /\ (cfg.onCin \/ rx' = Tail(rx))
         \/ ~lock' /\ ~ipCounted' /\ ip' \in {0, BootBase}
<1>0. CallInv /\ WaitIsConsistent
  BY DEF ControlInv
<1>1. call # "decode" /\ call # "insn" /\ scan = "none" /\ ipCounted
  BY <1>0 DEF CallInv, WaitIsConsistent
<1>2. ASSUME NEW c, FinishCin(c)
      PROVE  lock' /\ ipCounted' /\ (cfg.onCin \/ rx' = Tail(rx))
  BY <1>1, <1>2 DEF FinishCin, Character, Ap!Cin, Ap!Take, ipVars
<1>3. ASSUME NEW hard \in BOOLEAN, ResetCounters(hard)
      PROVE  ~lock' /\ ~ipCounted' /\ ip' \in {0, BootBase}
  BY <1>3 DEF ResetCounters, Ap!ApReset, Ip!IpReset, Ip!ResetLines
<1>4. ~Decode
  BY <1>1 DEF Decode, DecodeEot, DecodeIsa, DecodeStored, DecodeNop,
              DecodeHalt, DecodeBell, DecodeReset, DecodeIp, DecodeAp,
              DecodeCout, DecodeCin, Retire
<1>5. ~(Fetch \/ StartScan \/ LoadFetch \/ Overflow \/ TakeInsn)
  BY <1>1 DEF Fetch, StartScan, LoadFetch, Overflow, TakeInsn, AtFetch, AtInsn,
              Ip!ScanOverflow
<1>6. ~(Scan \/ ScanMatch \/ WaitInsn \/ WaitCin)
  BY DEF Scan, ScanMatch, WaitInsn, WaitCin, ctrlVars
<1>7. CASE Panel
  <2>1. ~(Run \/ StartLoading)
    BY DEF Run, StartLoading
  <2> QED
    BY <1>3, <1>7, <2>1 DEF Panel, HardReset, SoftReset
<1>8. ~Host /\ ~UNCHANGED vars
  BY DEF Host, PushInput, PushInsn, SetCell, LoadMemory, ClearOutput, vars,
         ctrlVars
<1> QED
  BY <1>2, <1>4, <1>5, <1>6, <1>7, <1>8 DEF Next, Step, Continue

(* Neither Run, nor a load, nor what the host does to queues and memories  *)
(* makes a CIN forget that it waits.                                       *)
THEOREM WaitingCinIsServed == Spec => CinIsServed
<1>1. ControlInv /\ [Next]_vars =>
        [phase = "CIN" /\ phase' # "CIN" =>
           \/ lock' /\ ipCounted' /\ (cfg.onCin \/ rx' = Tail(rx))
           \/ ~lock' /\ ~ipCounted' /\ ip' \in {0, BootBase}]_vars
  BY NextServes
<1> QED
  BY <1>1, ControlInvariance, PTL DEF Spec, CinIsServed
=============================================================================
