--------------------------- MODULE IpLine_proofs ----------------------------
(***************************************************************************)
(* IpLine for every size of program memory and of the loop counter: types, *)
(* the state of the loop counter between instructions, and the opcode that *)
(* the next fetch looks at; then what the loop scan computes and when it   *)
(* ends, on a ring of any size and for any program in it.                  *)
(***************************************************************************)
EXTENDS ScanHistory, Dekatron_proofs, FiniteSetTheorems

LEMMA Sizes ==
  /\ IpSize \in Nat \ {0} /\ BootBase \in Nat /\ LoopTop \in Nat /\ LoopTop >= 1
  /\ 0 \in Place /\ 0 \in RamPlace /\ BootBase \in Place /\ 0 \in 0 .. LoopTop
BY IpLineAssumption DEF Place, RamPlace, LoopTop

LEMMA NopIsOpcode == OP_NOP \in Opcode /\ DBG_EOT \in Opcode
BY DEF OP_NOP, DBG_EOT, Opcode

(* Every step of IP stays on the ring. *)
LEMMA PlaceSteps ==
  ASSUME NEW a \in Place, NEW dec \in BOOLEAN
  PROVE  WrapInc(a, IpSize) \in Place /\ WrapStep(a, dec, IpSize) \in Place
BY Sizes DEF Place, WrapStep, WrapInc, WrapDec

LEMMA ReadCodeType ==
  ASSUME TypeOK, NEW a \in Place
  PROVE  ReadCode(a) \in Opcode
<1>1. a >= BootBase => a - BootBase \in RomPlace
  BY Sizes, IpLineAssumption DEF Place, RomPlace
<1>2. a < BootBase => a \in RamPlace
  BY Sizes DEF Place, RamPlace
<1> QED
  BY <1>1, <1>2, Sizes DEF ReadCode, TypeOK, Place

(* A non-empty set of indices has a last one. *)
LEMMA LastIndex ==
  ASSUME NEW n \in Nat, NEW H \in SUBSET (1 .. n), H # {}
  PROVE  \E i \in H : \A j \in H : j <= i
<1> DEFINE T == {n - i : i \in H}
<1>1. PICK h \in H : TRUE
  OBVIOUS
<1>2. T \subseteq Nat
  OBVIOUS
<1>3. n - h \in T
  OBVIOUS
<1>4. PICK x \in T : \A y \in T : ~(<<y, x>> \in OpToRel(<, Nat))
  <2> HIDE DEF T
  <2> QED
    BY <1>2, <1>3, NatLessThanWellFounded, WFMin
<1>5. PICK i \in H : x = n - i
  OBVIOUS
<1>6. ASSUME NEW j \in H PROVE j <= i
  <2>1. ~(<<n - j, n - i>> \in OpToRel(<, Nat))
    BY <1>4, <1>5
  <2>2. <<n - j, n - i>> \in {z \in Nat \X Nat : z[1] < z[2]} <=> n - j < n - i
    OBVIOUS
  <2> QED
    BY <2>1, <2>2 DEF OpToRel
<1> QED
  BY <1>6

(* What a load leaves in a place is an opcode of the program or what was   *)
(* there.                                                                  *)
LEMMA LoadedAtType ==
  ASSUME NEW code \in Seq(Opcode), NEW base, NEW a, LoadedAt(code, base, a) # 0
  PROVE  code[LoadedAt(code, base, a)] \in Opcode
<1> DEFINE hits == {i \in DOMAIN code : (base + i - 1) % IpSize = a}
<1>1. Len(code) \in Nat /\ hits \in SUBSET (1 .. Len(code))
  OBVIOUS
<1>2. hits # {}
  BY DEF LoadedAt
<1>3. LoadedAt(code, base, a) = CHOOSE i \in hits : \A j \in hits : j <= i
  BY <1>2 DEF LoadedAt
<1>4. LoadedAt(code, base, a) \in hits
  <2> HIDE DEF hits
  <2> QED
    BY <1>1, <1>2, <1>3, LastIndex
<1> QED
  BY <1>1, <1>4

LEMMA InitTypeOK == Init => TypeOK
BY Sizes, NopIsOpcode DEF Init, TypeOK

-----------------------------------------------------------------------------
LEMMA HaltPlaceType ==
  ASSUME TypeOK, NEW a \in Place
  PROVE  HaltPlace(a) \in Place
BY PlaceSteps DEF HaltPlace

LEMMA ScanTypes ==
  ASSUME TypeOK
  PROVE  ScanPlace \in Place /\ ScanInsn \in Opcode
<1>1. ScanPlace \in Place
  BY PlaceSteps DEF ScanPlace, TypeOK
<1> QED
  BY <1>1, ReadCodeType DEF ScanInsn

LEMMA HostTypeOK ==
  ASSUME TypeOK, HostLoad
  PROVE  TypeOK'
<1>1. ASSUME NEW code \in Programs, NEW base \in Place, LoadCode(code, base)
      PROVE  TypeOK'
  <2>1. code \in Seq(Opcode)
    BY IpLineAssumption
  <2>2. codeRam' \in [RamPlace -> Opcode]
    BY <1>1, <2>1, LoadedAtType DEF LoadCode, TypeOK
  <2> QED
    BY <1>1, <2>2 DEF LoadCode, TypeOK, loopVars
<1>2. ASSUME NEW rom \in Programs, SetBootRom(rom)
      PROVE  TypeOK'
  <2>1. rom \in Seq(Opcode)
    BY IpLineAssumption
  <2>2. ASSUME NEW a \in RomPlace, a < Len(rom) PROVE rom[a + 1] \in Opcode
    BY <2>1, <2>2, IpLineAssumption DEF RomPlace
  <2>3. bootRom' \in [RomPlace -> Opcode]
    BY <1>2, <2>2, NopIsOpcode DEF SetBootRom
  <2> QED
    BY <1>2, <2>3 DEF SetBootRom, TypeOK, loopVars
<1> QED
  BY <1>1, <1>2 DEF HostLoad

(* A scan that counts down has counted up before: without that the loop    *)
(* counter would leave its range.                                          *)
LEMMA ScanStepTypeOK ==
  ASSUME TypeOK, LoopCounterClean, ScanStep
  PROVE  TypeOK'
<1> USE DEF TypeOK, ScanMove, memVars
<1>1. CASE ScanPass
  BY <1>1, ScanTypes DEF ScanPass
<1>2. CASE ScanOwn
  BY <1>2, ScanTypes, Sizes DEF ScanOwn
<1>3. CASE ScanOther
  <2>1. loop' \in 0 .. LoopTop
    BY <1>3, Sizes DEF ScanOther, LoopCounterClean
  <2> QED
    BY <1>3, <2>1, ScanTypes DEF ScanOther
<1>4. CASE ScanMatch
  BY <1>4, ScanTypes, Sizes DEF ScanMatch
<1>5. CASE ScanOverflow
  BY <1>5, ScanTypes, HaltPlaceType DEF ScanOverflow
<1> QED
  BY <1>1, <1>2, <1>3, <1>4, <1>5 DEF ScanStep

(* Every other step keeps the types by itself. *)
LEMMA CallTypeOK ==
  ASSUME TypeOK, MachineNext, ~ScanStep
  PROVE  TypeOK'
<1> USE DEF TypeOK, memVars, loopVars
<1>1. CASE FirstFetch
  BY <1>1, ReadCodeType DEF FirstFetch
<1>2. CASE LoadFetch
  BY <1>2, PlaceSteps DEF LoadFetch
<1>3. ASSUME NEW zero \in BOOLEAN, NextFetch(zero) PROVE TypeOK'
  <2>1. ip' \in Place
    BY <1>3, PlaceSteps DEF NextFetch
  <2> QED
    BY <1>3, <2>1, ReadCodeType DEF NextFetch
<1>4. ASSUME NEW zero \in BOOLEAN, ScanStart(zero) PROVE TypeOK'
  BY <1>4, Sizes DEF ScanStart
<1>5. ASSUME NEW zero \in BOOLEAN, StartOverflow(zero) PROVE TypeOK'
  BY <1>5, HaltPlaceType DEF StartOverflow
<1>6. CASE EnterHalt
  BY <1>6, HaltPlaceType DEF EnterHalt
<1>7. CASE ClrL
  BY <1>7, Sizes DEF ClrL
<1>8. CASE ClrI
  BY <1>8, Sizes DEF ClrI
<1>9. ASSUME NEW hard \in BOOLEAN, IpReset(hard) PROVE TypeOK'
  BY <1>9, Sizes DEF IpReset, ResetLines
<1>10. CASE StartLoading
  BY <1>10 DEF StartLoading
<1>11. ASSUME NEW op \in Insns, NEW isEot \in BOOLEAN, TakeInsn(op, isEot)
       PROVE  TypeOK'
  <2>1. op \in Opcode
    BY IpLineAssumption
  <2>2. codeRam' \in [RamPlace -> Opcode]
    BY <1>11, <2>1 DEF TakeInsn, WriteCode
  <2> QED
    BY <1>11, <2>1, <2>2 DEF TakeInsn
<1>12. ASSUME NEW softRst \in BOOLEAN, EndLoading(softRst) PROVE TypeOK'
  BY <1>12, Sizes, HaltPlaceType DEF EndLoading, ResetLines
<1> QED
  BY <1>1, <1>2, <1>3, <1>4, <1>5, <1>6, <1>7, <1>8, <1>9, <1>10, <1>11, <1>12
  DEF MachineNext

-----------------------------------------------------------------------------
(* The loop counter between instructions and in a scan. *)
LEMMA NextLoopClean ==
  ASSUME TypeOK, LoopCounterClean, [Next]_ipVars
  PROVE  LoopCounterClean'
<1> USE Sizes DEF LoopCounterClean, TypeOK, memVars, loopVars
<1>1. ASSUME NEW code, NEW base, LoadCode(code, base) PROVE LoopCounterClean'
  BY <1>1 DEF LoadCode
<1>2. ASSUME NEW rom, SetBootRom(rom) PROVE LoopCounterClean'
  BY <1>2 DEF SetBootRom
<1>3. CASE FirstFetch
  BY <1>3 DEF FirstFetch
<1>4. CASE LoadFetch
  BY <1>4 DEF LoadFetch
<1>5. ASSUME NEW zero \in BOOLEAN, NextFetch(zero) PROVE LoopCounterClean'
  BY <1>5 DEF NextFetch, AtNext
<1>6. ASSUME NEW zero \in BOOLEAN, ScanStart(zero) PROVE LoopCounterClean'
  BY <1>6 DEF ScanStart, AtNext
<1>7. ASSUME NEW zero \in BOOLEAN, StartOverflow(zero) PROVE LoopCounterClean'
  BY <1>7 DEF StartOverflow, AtNext
<1>8. CASE ScanStep
  <2> USE DEF ScanMove
  <2>1. CASE ScanPass
    BY <1>8, <2>1 DEF ScanPass
  <2>2. CASE ScanOwn
    BY <1>8, <2>2 DEF ScanOwn
  <2>3. CASE ScanOther
    BY <1>8, <2>3 DEF ScanOther
  <2>4. CASE ScanMatch
    BY <1>8, <2>4 DEF ScanMatch
  <2>5. CASE ScanOverflow
    BY <1>8, <2>5 DEF ScanOverflow
  <2> QED
    BY <1>8, <2>1, <2>2, <2>3, <2>4, <2>5 DEF ScanStep
<1>9. CASE EnterHalt
  BY <1>9 DEF EnterHalt
<1>10. CASE ClrL
  BY <1>10 DEF ClrL
<1>11. CASE ClrI
  BY <1>11 DEF ClrI
<1>12. ASSUME NEW hard \in BOOLEAN, IpReset(hard) PROVE LoopCounterClean'
  BY <1>12 DEF IpReset, ResetLines
<1>13. CASE StartLoading
  BY <1>13 DEF StartLoading
<1>14. ASSUME NEW op, NEW isEot, TakeInsn(op, isEot) PROVE LoopCounterClean'
  BY <1>14 DEF TakeInsn
<1>15. ASSUME NEW softRst \in BOOLEAN, EndLoading(softRst)
       PROVE  LoopCounterClean'
  BY <1>15 DEF EndLoading, ResetLines
<1>16. CASE UNCHANGED ipVars
  BY <1>16 DEF ipVars
<1> QED
  BY <1>1, <1>2, <1>3, <1>4, <1>5, <1>6, <1>7, <1>8, <1>9, <1>10, <1>11,
     <1>12, <1>13, <1>14, <1>15, <1>16 DEF Next, MachineNext, HostLoad

(* Types and the state of the loop counter hold each other up. *)
LoopInv == TypeOK /\ LoopCounterClean

LEMMA NextLoopInv == LoopInv /\ [Next]_ipVars => LoopInv'
<1> SUFFICES ASSUME LoopInv, [Next]_ipVars PROVE LoopInv'
  OBVIOUS
<1>1. CASE HostLoad
  BY <1>1, HostTypeOK, NextLoopClean DEF LoopInv
<1>2. CASE MachineNext
  BY <1>2, ScanStepTypeOK, CallTypeOK, NextLoopClean DEF LoopInv
<1>3. CASE UNCHANGED ipVars
  <2>1. TypeOK'
    BY <1>3 DEF LoopInv, TypeOK, ipVars
  <2> QED
    BY <2>1, NextLoopClean DEF LoopInv
<1> QED
  BY <1>1, <1>2, <1>3 DEF Next

LEMMA InitLoopInv == Init => LoopInv
BY InitTypeOK DEF Init, LoopInv, LoopCounterClean

LEMMA LoopInvariance == Spec => []LoopInv
BY InitLoopInv, NextLoopInv, PTL DEF Spec

(* The counters, opcodes and flags of the instruction side stay in their   *)
(* ranges, however program memory is changed.                              *)
THEOREM TypeCorrect == Spec => []TypeOK
<1>1. LoopInv => TypeOK
  BY DEF LoopInv
<1> QED
  BY <1>1, LoopInvariance, PTL

(* Every scan counts from one: between two instructions the loop counter   *)
(* is zero, or it is stuck at its top with the overflow shown.             *)
THEOREM LoopCounterIsClean == Spec => []LoopCounterClean
<1>1. LoopInv => LoopCounterClean
  BY DEF LoopInv
<1> QED
  BY <1>1, LoopInvariance, PTL

-----------------------------------------------------------------------------
(* A host that keeps to the quiet times is a host. *)
LEMMA QuietImpliesSpec == QuietSpec => Spec
<1>1. [QuietNext]_ipVars => [Next]_ipVars
  BY DEF QuietNext, Next
<1> QED
  BY <1>1, PTL DEF QuietSpec, Spec

(* No step of the machine, and no load at a quiet time, leaves an opcode   *)
(* in the register that program memory does not hold under IP.             *)
LEMMA NextLatched ==
  ASSUME LatchedInsn, [QuietNext]_ipVars
  PROVE  LatchedInsn'
<1> USE DEF LatchedInsn, ReadCode, memVars, loopVars
<1>1. CASE ~ipCounted /\ HostLoad
  BY <1>1 DEF HostLoad, LoadCode, SetBootRom
<1>2. CASE FirstFetch
  BY <1>2 DEF FirstFetch
<1>3. CASE LoadFetch
  BY <1>3 DEF LoadFetch
<1>4. ASSUME NEW zero \in BOOLEAN, NextFetch(zero) PROVE LatchedInsn'
  BY <1>4 DEF NextFetch
<1>5. ASSUME NEW zero \in BOOLEAN, ScanStart(zero) PROVE LatchedInsn'
  BY <1>5 DEF ScanStart
<1>6. ASSUME NEW zero \in BOOLEAN, StartOverflow(zero) PROVE LatchedInsn'
  BY <1>6 DEF StartOverflow
<1>7. CASE ScanStep
  BY <1>7 DEF ScanStep, ScanPass, ScanOwn, ScanOther, ScanMatch, ScanOverflow,
              ScanMove, ScanInsn
<1>8. CASE EnterHalt
  BY <1>8 DEF EnterHalt
<1>9. CASE ClrL
  BY <1>9 DEF ClrL
<1>10. CASE ClrI
  BY <1>10 DEF ClrI
<1>11. ASSUME NEW hard \in BOOLEAN, IpReset(hard) PROVE LatchedInsn'
  BY <1>11 DEF IpReset, ResetLines
<1>12. CASE StartLoading
  BY <1>12 DEF StartLoading
<1>13. ASSUME NEW op, NEW isEot, TakeInsn(op, isEot) PROVE LatchedInsn'
  BY <1>13 DEF TakeInsn
<1>14. ASSUME NEW softRst \in BOOLEAN, EndLoading(softRst) PROVE LatchedInsn'
  BY <1>14 DEF EndLoading, ResetLines
<1>15. CASE UNCHANGED ipVars
  BY <1>15 DEF ipVars
<1> QED
  BY <1>1, <1>2, <1>3, <1>4, <1>5, <1>6, <1>7, <1>8, <1>9, <1>10, <1>11,
     <1>12, <1>13, <1>14, <1>15 DEF QuietNext, MachineNext

(* When the host writes program memory only at quiet times, the bracket    *)
(* that a fetch decides on is the one in memory: the fact without which a  *)
(* scan may never end.                                                     *)
THEOREM FetchedInsnIsLatched == QuietSpec => []LatchedInsn
<1>1. Init => LatchedInsn
  BY DEF Init, LatchedInsn
<1>2. LatchedInsn /\ [QuietNext]_ipVars => LatchedInsn'
  BY NextLatched
<1> QED
  BY <1>1, <1>2, PTL DEF QuietSpec

-----------------------------------------------------------------------------
(* The walk: it starts on the bracket, one more step of the scan is one    *)
(* more step of it, and after a turn it comes to the same places.          *)
LEMMA WalkPlace ==
  ASSUME origin \in Place, NEW d \in Int
  PROVE  Walk(d) \in Place
<1>1. origin \in Int /\ IpSize \in Nat \ {0}
  BY Sizes DEF Place
<1>2. PICK x \in Int, y \in Int : x = origin - d /\ y = origin + d
  BY <1>1
<1>3. x % IpSize \in 0 .. IpSize - 1 /\ y % IpSize \in 0 .. IpSize - 1
  BY <1>1, ModExists
<1> QED
  BY <1>2, <1>3 DEF Walk, Place

LEMMA WalkStart == origin \in Place => Walk(0) = origin
<1> SUFFICES ASSUME origin \in Place PROVE Walk(0) = origin
  OBVIOUS
<1>1. origin \in Int /\ IpSize \in Nat \ {0} /\ origin \in 0 .. IpSize - 1
  BY Sizes DEF Place
<1>2. origin = 0 * IpSize + origin
  BY <1>1
<1>3. origin % IpSize = origin
  BY <1>1, <1>2, ModUnique
<1>4. origin - 0 = origin /\ origin + 0 = origin
  BY <1>1
<1> QED
  BY <1>3, <1>4 DEF Walk

LEMMA WalkStep ==
  ASSUME origin \in Place, NEW d \in Nat
  PROVE  Walk(d + 1) = WrapStep(Walk(d), scan = "backward", IpSize)
<1>1. origin \in Int /\ IpSize \in Nat \ {0}
  BY Sizes DEF Place
<1>2. CASE scan = "backward"
  <2>1. PICK x \in Int, y \in Int : x = origin - d /\ y = origin - (d + 1)
    BY <1>1
  <2>2. y = x - 1
    BY <1>1, <2>1
  <2>3. WrapDec(x % IpSize, IpSize) = y % IpSize
    BY <1>1, <2>2, ModDec
  <2> QED
    BY <1>2, <2>1, <2>3 DEF Walk, WrapStep
<1>3. CASE scan # "backward"
  <2>1. PICK x \in Int, y \in Int : x = origin + d /\ y = origin + (d + 1)
    BY <1>1
  <2>2. y = x + 1
    BY <1>1, <2>1
  <2>3. WrapInc(x % IpSize, IpSize) = y % IpSize
    BY <1>1, <2>2, ModInc
  <2> QED
    BY <1>3, <2>1, <2>3 DEF Walk, WrapStep
<1> QED
  BY <1>2, <1>3

LEMMA WalkTurn ==
  ASSUME origin \in Place, NEW d \in Nat, NEW e \in Nat, e = d + IpSize
  PROVE  Walk(e) = Walk(d)
<1>1. origin \in Int /\ IpSize \in Nat \ {0}
  BY Sizes DEF Place
<1>2. CASE scan = "backward"
  <2>1. PICK x \in Int, y \in Int : x = origin - d /\ y = origin - e
    BY <1>1
  <2>2. x = y + IpSize
    BY <1>1, <2>1
  <2>3. x % IpSize = y % IpSize
    BY <1>1, <2>2, ModTurn
  <2> QED
    BY <1>2, <2>1, <2>3 DEF Walk
<1>3. CASE scan # "backward"
  <2>1. PICK x \in Int, y \in Int : x = origin + d /\ y = origin + e
    BY <1>1
  <2>2. y = x + IpSize
    BY <1>1, <2>1
  <2>3. y % IpSize = x % IpSize
    BY <1>1, <2>2, ModTurn
  <2> QED
    BY <1>3, <2>1, <2>3 DEF Walk
<1> QED
  BY <1>2, <1>3

-----------------------------------------------------------------------------
(* The depth: one place at a time. *)

(* The places up to d where the opcode is op. *)
Seen(op, d) == {k \in 1 .. d : ReadCode(Walk(k)) = op}

LEMMA SeenFinite ==
  ASSUME NEW op, NEW d \in Nat
  PROVE  IsFiniteSet(Seen(op, d)) /\ Cardinality(Seen(op, d)) \in Nat
<1>1. IsFiniteSet(1 .. d)
  BY FS_Interval
<1>2. IsFiniteSet(Seen(op, d))
  BY <1>1, FS_Subset DEF Seen
<1> QED
  BY <1>2, FS_CardinalityType

LEMMA SeenStep ==
  ASSUME NEW op, NEW d \in Nat
  PROVE  Cardinality(Seen(op, d + 1)) = Cardinality(Seen(op, d))
           + (IF ReadCode(Walk(d + 1)) = op THEN 1 ELSE 0)
<1>1. IsFiniteSet(Seen(op, d)) /\ Cardinality(Seen(op, d)) \in Nat
  BY SeenFinite
<1>2. CASE ReadCode(Walk(d + 1)) = op
  <2>1. Seen(op, d + 1) = Seen(op, d) \union {d + 1} /\ d + 1 \notin Seen(op, d)
    BY <1>2 DEF Seen
  <2>2. Cardinality(Seen(op, d + 1)) = Cardinality(Seen(op, d)) + 1
    BY <1>1, <2>1, FS_AddElement
  <2> QED
    BY <1>2, <2>2
<1>3. CASE ReadCode(Walk(d + 1)) # op
  <2>1. Seen(op, d + 1) = Seen(op, d)
    BY <1>3 DEF Seen
  <2> QED
    BY <1>1, <1>3, <2>1
<1> QED
  BY <1>2, <1>3

LEMMA DepthStart == Depth(0) = 1
<1>1. Seen(Own, 0) = {} /\ Seen(Other, 0) = {}
  BY DEF Seen
<1>2. Depth(0) = 1 + Cardinality(Seen(Own, 0)) - Cardinality(Seen(Other, 0))
  BY DEF Depth, Seen
<1> QED
  BY <1>1, <1>2, FS_EmptySet

LEMMA OwnIsNotOther == Own # Other
BY DEF Own, Other, BF_LBEG, BF_LEND

LEMMA DepthStep ==
  ASSUME NEW d \in Nat
  PROVE  /\ Depth(d) \in Int
         /\ ReadCode(Walk(d + 1)) = Own => Depth(d + 1) = Depth(d) + 1
         /\ ReadCode(Walk(d + 1)) = Other => Depth(d + 1) = Depth(d) - 1
         /\ ReadCode(Walk(d + 1)) \notin {Own, Other}
              => Depth(d + 1) = Depth(d)
<1>1. /\ Depth(d) = 1 + Cardinality(Seen(Own, d)) - Cardinality(Seen(Other, d))
      /\ Depth(d + 1) = 1 + Cardinality(Seen(Own, d + 1))
                           - Cardinality(Seen(Other, d + 1))
  BY DEF Depth, Seen
<1>2. Cardinality(Seen(Own, d)) \in Nat /\ Cardinality(Seen(Other, d)) \in Nat
  BY SeenFinite
<1>3. /\ Cardinality(Seen(Own, d + 1)) = Cardinality(Seen(Own, d))
           + (IF ReadCode(Walk(d + 1)) = Own THEN 1 ELSE 0)
      /\ Cardinality(Seen(Other, d + 1)) = Cardinality(Seen(Other, d))
           + (IF ReadCode(Walk(d + 1)) = Other THEN 1 ELSE 0)
  BY SeenStep
<1> QED
  BY <1>1, <1>2, <1>3, OwnIsNotOther

(* Each turn adds the surplus of the ring. *)
LEMMA DepthTurn ==
  ASSUME origin \in Place, NEW d \in Nat, NEW e \in Nat, e = d + IpSize
  PROVE  Depth(e) = Depth(d) + Surplus /\ Surplus \in Int
<1> DEFINE S == {k \in Nat : Depth(k + IpSize) = Depth(k) + Surplus}
<1>1. IpSize \in Nat \ {0} /\ Depth(IpSize) \in Int /\ Surplus \in Int
  BY Sizes, DepthStep DEF Surplus
<1>2. 0 \in S
  BY <1>1, DepthStart DEF Surplus
<1>3. ASSUME NEW k \in S \cap Nat PROVE k + 1 \in S
  <2>1. PICK m \in Nat : m = k + IpSize
    BY <1>1
  <2>2. PICK k1 \in Nat, m1 \in Nat : k1 = k + 1 /\ m1 = m + 1
    BY <2>1
  <2>3. Walk(m1) = Walk(k1)
    BY <1>1, <2>1, <2>2, WalkTurn
  <2>4. Depth(k) \in Int /\ Depth(m) \in Int /\ Depth(m) = Depth(k) + Surplus
    BY <2>1, DepthStep
  <2>5. Depth(m1) - Depth(m) = Depth(k1) - Depth(k) /\ Depth(k1) \in Int
        /\ Depth(m1) \in Int
    BY <2>2, <2>3, <2>4, DepthStep
  <2>6. Depth(m1) = Depth(k1) + Surplus
    BY <1>1, <2>4, <2>5
  <2>7. k1 + IpSize = m1
    BY <1>1, <2>1, <2>2
  <2> QED
    BY <2>2, <2>6, <2>7
<1>4. Nat \subseteq S
  <2> HIDE DEF S
  <2> QED
    BY <1>2, <1>3, NatClosed
<1>5. d \in S
  BY <1>4
<1> QED
  BY <1>1, <1>5

(* A ring with more own brackets than others opens a level each turn. *)
LEMMA DepthGrows ==
  ASSUME origin \in Place, Surplus >= 1, NEW q \in Nat
  PROVE  q * IpSize \in Nat /\ Depth(q * IpSize) >= q + 1
<1> DEFINE S == {k \in Nat : k * IpSize \in Nat /\ Depth(k * IpSize) >= k + 1}
<1>1. IpSize \in Nat \ {0}
  BY Sizes
<1>2. 0 \in S
  <2>1. 0 * IpSize = 0
    BY <1>1
  <2> QED
    BY <2>1, DepthStart
<1>3. ASSUME NEW k \in S \cap Nat PROVE k + 1 \in S
  <2>1. PICK m \in Nat : m = k * IpSize /\ Depth(m) >= k + 1
    OBVIOUS
  <2>2. PICK m1 \in Nat : m1 = m + IpSize
    BY <1>1
  <2>3. (k + 1) * IpSize = m1
    BY <1>1, <2>1, <2>2, Multiple
  <2>4. Depth(m1) = Depth(m) + Surplus /\ Surplus \in Int
    BY <2>2, DepthTurn
  <2>5. Depth(m) \in Int
    BY DepthStep
  <2>6. Depth(m1) >= (k + 1) + 1
    BY <2>1, <2>4, <2>5
  <2> QED
    BY <2>3, <2>6
<1>4. Nat \subseteq S
  <2> HIDE DEF S
  <2> QED
    BY <1>2, <1>3, NatClosed
<1> QED
  BY <1>4

-----------------------------------------------------------------------------
(* How far a walk goes that has not met the match or the overflow.  It     *)
(* started from an own bracket, which is why a turn that opens no level    *)
(* would have passed depth zero.                                           *)
Inside(m) == \A d \in 0 .. m : Depth(d) \in 1 .. LoopTop

LEMMA OneTurn ==
  ASSUME origin \in Place, ReadCode(origin) = Own,
         NEW m \in Nat, Inside(m), Surplus <= 0
  PROVE  m < IpSize
<1> SUFFICES ASSUME ~(m < IpSize) PROVE FALSE
  OBVIOUS
<1>1. IpSize \in Nat \ {0} /\ LoopTop \in Nat
  BY Sizes
<1>2. PICK d \in Nat : IpSize = d + 1
  BY <1>1
<1>3. d \in 0 .. m /\ IpSize \in 0 .. m
  BY <1>1, <1>2
<1>4. Depth(d) >= 1 /\ Depth(IpSize) >= 1
  BY <1>1, <1>3 DEF Inside
<1>5. /\ Depth(IpSize) = 1 + Surplus /\ Depth(IpSize) \in Int
      /\ Depth(d) \in Int /\ Surplus \in Int
  BY <1>1, DepthStep DEF Surplus
<1>6. Walk(IpSize) = origin
  BY <1>1, WalkTurn, WalkStart
<1>7. Depth(IpSize) = Depth(d) + 1
  <2>1. ReadCode(Walk(d + 1)) = Own
    BY <1>2, <1>6
  <2>2. Depth(d + 1) = Depth(d) + 1
    BY <2>1, DepthStep
  <2> QED
    BY <1>2, <2>2
<1> QED
  BY <1>4, <1>5, <1>7

LEMMA ManyTurns ==
  ASSUME origin \in Place, NEW m \in Nat, Inside(m), Surplus >= 1
  PROVE  m < IpSize * LoopTop
<1> SUFFICES ASSUME ~(m < IpSize * LoopTop) PROVE FALSE
  OBVIOUS
<1>1. LoopTop \in Nat /\ IpSize \in Nat
  BY Sizes
<1>2. LoopTop * IpSize \in Nat /\ Depth(LoopTop * IpSize) >= LoopTop + 1
  BY <1>1, DepthGrows
<1>3. PICK t \in Nat : t = LoopTop * IpSize /\ Depth(t) >= LoopTop + 1
  BY <1>2
<1>4. IpSize * LoopTop = t
  BY <1>1, <1>3
<1>5. t \in 0 .. m
  BY <1>1, <1>4
<1>6. Depth(t) \in 1 .. LoopTop
  BY <1>5 DEF Inside
<1> QED
  BY <1>1, <1>3, <1>6

LEMMA WalkEndsInTime ==
  ASSUME origin \in Place, ReadCode(origin) = Own, NEW m \in Nat, Inside(m)
  PROVE  /\ m < IpSize * (IF Surplus <= 0 THEN 1 ELSE LoopTop)
         /\ m < MaxMoved
<1>1. /\ Surplus \in Int /\ IpSize \in Nat \ {0}
      /\ LoopTop \in Nat /\ LoopTop >= 1
  BY Sizes, DepthStep DEF Surplus
<1>2. PICK t \in Nat : t = IpSize * LoopTop /\ t >= IpSize
  <2>1. LoopTop * IpSize = (LoopTop - 1) * IpSize + IpSize
    BY <1>1, Multiple
  <2>2. (LoopTop - 1) * IpSize >= 0
    BY <1>1, Multiple
  <2> QED
    BY <1>1, <2>1, <2>2
<1>3. CASE Surplus <= 0
  <2>1. m < IpSize /\ m < t
    BY <1>1, <1>2, <1>3, OneTurn
  <2>2. IpSize * 1 = IpSize
    BY <1>1
  <2>3. IpSize * (IF Surplus <= 0 THEN 1 ELSE LoopTop) = IpSize
    BY <1>3, <2>2
  <2> QED
    BY <1>2, <2>1, <2>3 DEF MaxMoved
<1>4. CASE ~(Surplus <= 0)
  <2>1. Surplus >= 1
    BY <1>1, <1>4
  <2>2. m < t
    BY <1>2, <2>1, ManyTurns
  <2>3. IpSize * (IF Surplus <= 0 THEN 1 ELSE LoopTop) = t
    BY <1>2, <1>4
  <2> QED
    BY <1>2, <2>2, <2>3 DEF MaxMoved
<1> QED
  BY <1>3, <1>4

-----------------------------------------------------------------------------
(* What a running scan has done so far. *)
ScanInv ==
  scan # "none" =>
    /\ origin \in Place /\ ReadCode(origin) = Own
    /\ moved \in Nat
    /\ ip = Walk(moved)
    /\ loop = Depth(moved)
    /\ Inside(moved)

LEMMA ScanEndsInTime ==
  ASSUME ScanInv
  PROVE  EndsInTime /\ (scan # "none" => moved < MaxMoved)
BY WalkEndsInTime DEF ScanInv, EndsInTime

-----------------------------------------------------------------------------
(* Nothing moves the walk of a scan that goes on. *)
LEMMA WalkKept ==
  ASSUME UNCHANGED <<codeRam, bootRom, origin, scan>>, NEW CONSTANT d
  PROVE  /\ Walk(d)' = Walk(d)
         /\ Depth(d)' = Depth(d)
         /\ ReadCode(origin)' = ReadCode(origin)
         /\ Own' = Own
BY DEF Walk, Depth, ReadCode, Own, Other

(* In a scan nothing but the scan happens, and it looks at the next place  *)
(* of the walk.                                                            *)
LEMMA ScanAlone ==
  ASSUME LoopInv, ScanInv, HistoryNext, scan # "none"
  PROVE  /\ ScanStep
         /\ moved' = IF scan' = "none" THEN 0 ELSE moved + 1
         /\ origin' = IF scan' = "none" THEN 0 ELSE origin
         /\ ScanPlace = Walk(moved + 1)
         /\ ScanInsn = ReadCode(Walk(moved + 1))
<1>1. ScanStep
  BY DEF HistoryNext, QuietNext, MachineNext, HostLoad, FirstFetch, LoadFetch,
         NextFetch, ScanStart, StartOverflow, AtNext, EnterHalt, ClrL, ClrI,
         IpReset, StartLoading, TakeInsn, EndLoading, LoadCode, SetBootRom
<1>2. moved < MaxMoved
  BY ScanEndsInTime
<1>3. ScanPlace = Walk(moved + 1)
  BY WalkStep DEF ScanInv, ScanPlace
<1> QED
  BY <1>1, <1>2, <1>3 DEF HistoryNext, ScanInsn

(* A scan starts on the bracket in memory: depth one, no place walked. *)
LEMMA ScanInvStarts ==
  ASSUME LoopInv, LatchedInsn, HistoryNext, scan = "none", scan' # "none"
  PROVE  ScanInv'
<1>1. PICK zero \in BOOLEAN : ScanStart(zero)
  BY DEF HistoryNext, QuietNext, MachineNext, HostLoad, FirstFetch, LoadFetch,
         NextFetch, StartOverflow, EnterHalt, ClrL, ClrI, IpReset,
         StartLoading, TakeInsn, EndLoading, LoadCode, SetBootRom, loopVars,
         ScanStep, ScanPass, ScanOwn, ScanOther, ScanMatch, ScanOverflow
<1>2. origin' = ip /\ moved' = 0 /\ ip' = ip /\ loop' = loop + 1
  BY <1>1 DEF HistoryNext, ScanStart
<1>3. ip \in Place /\ loop = 0 /\ loop' = 1
  BY <1>1, <1>2 DEF LoopInv, TypeOK, LoopCounterClean, ScanStart, AtNext
<1>4. insn = ReadCode(ip) /\ Jumps(zero)
  BY <1>1 DEF LatchedInsn, ScanStart, AtNext
<1>5. ReadCode(origin)' = insn
  BY <1>1, <1>2, <1>4 DEF ScanStart, ReadCode, memVars
<1>6. Own' = insn
  BY <1>1, <1>4 DEF ScanStart, Own, Jumps, BF_LBEG, BF_LEND
<1>7. Walk(0)' = origin'
  <2>1. origin' \in Place
    BY <1>2, <1>3
  <2>2. (origin \in Place => Walk(0) = origin)'
    BY WalkStart, PTL
  <2> QED
    BY <2>1, <2>2
<1>8. Depth(0)' = 1
  <2>1. (Depth(0) = 1)'
    BY DepthStart, PTL
  <2> QED
    BY <2>1
<1>9. Inside(moved)'
  BY <1>2, <1>8, Sizes DEF Inside
<1> QED
  BY <1>2, <1>3, <1>5, <1>6, <1>7, <1>8, <1>9 DEF ScanInv

(* What a step of the scan does to the counter and to the walk. *)
LEMMA ScanCounts ==
  ASSUME LoopInv, ScanInv, HistoryNext, scan # "none",
         NEW m \in Nat, m = moved + 1
  PROVE  /\ UNCHANGED <<codeRam, bootRom>>
         /\ scan' # "none" =>
              /\ UNCHANGED <<scan, origin>> /\ moved' = m
              /\ ip' = Walk(m) /\ loop' = Depth(m)
              /\ Depth(m) \in 1 .. LoopTop
         /\ scan' = "none" =>
              \/ /\ ~overflow' /\ Depth(m) = 0 /\ ip' = Walk(m)
              \/ /\ overflow' /\ Depth(m) = LoopSize
<1>1. /\ ScanStep
      /\ moved' = IF scan' = "none" THEN 0 ELSE m
      /\ origin' = IF scan' = "none" THEN 0 ELSE origin
      /\ ScanPlace = Walk(m) /\ ScanInsn = ReadCode(Walk(m))
  BY ScanAlone
<1>2. /\ moved \in Nat /\ loop = Depth(moved) /\ Depth(moved) \in Int
      /\ loop \in 1 .. LoopTop /\ LoopTop \in Nat /\ ~overflow
  <2>1. moved \in 0 .. moved
    BY DEF ScanInv
  <2> QED
    BY <2>1, DepthStep, Sizes DEF ScanInv, Inside, LoopInv, LoopCounterClean
<1>3. /\ Depth(m) \in Int
      /\ ScanInsn = Own => Depth(m) = loop + 1
      /\ ScanInsn = Other => Depth(m) = loop - 1
      /\ ScanInsn \notin {Own, Other} => Depth(m) = loop
  BY <1>1, <1>2, DepthStep
<1> USE DEF ScanMove, memVars
<1>4. CASE ScanPass
  BY <1>1, <1>2, <1>3, <1>4 DEF ScanPass
<1>5. CASE ScanOwn
  BY <1>1, <1>2, <1>3, <1>5 DEF ScanOwn
<1>6. CASE ScanOther
  BY <1>1, <1>2, <1>3, <1>6 DEF ScanOther
<1>7. CASE ScanMatch
  BY <1>1, <1>2, <1>3, <1>7 DEF ScanMatch
<1>8. CASE ScanOverflow
  <2>1. LoopSize = LoopTop + 1
    BY IpLineAssumption DEF LoopTop
  <2> QED
    BY <1>1, <1>2, <1>3, <1>8, <2>1 DEF ScanOverflow
<1> QED
  BY <1>1, <1>4, <1>5, <1>6, <1>7, <1>8 DEF ScanStep

LEMMA ScanInvGoesOn ==
  ASSUME LoopInv, ScanInv, HistoryNext, scan # "none", scan' # "none"
  PROVE  ScanInv'
<1>1. PICK m \in Nat : m = moved + 1
  BY DEF ScanInv
<1>2. /\ UNCHANGED <<codeRam, bootRom, origin, scan>> /\ moved' = m
      /\ ip' = Walk(m) /\ loop' = Depth(m) /\ Depth(m) \in 1 .. LoopTop
  BY <1>1, ScanCounts
<1>3. /\ Walk(m)' = Walk(m) /\ Depth(m)' = Depth(m)
      /\ ReadCode(origin)' = Own'
  BY <1>2, WalkKept DEF ScanInv
<1>4. ASSUME NEW d \in 0 .. m PROVE Depth(d)' \in 1 .. LoopTop
  <2>1. Depth(d)' = Depth(d)
    BY <1>2, WalkKept
  <2>2. d = m \/ d \in 0 .. moved
    BY <1>1 DEF ScanInv
  <2> QED
    BY <1>2, <2>1, <2>2 DEF ScanInv, Inside
<1>5. origin' \in Place
  BY <1>2 DEF ScanInv
<1>6. ip' = Walk(moved)' /\ loop' = Depth(moved)'
  <2>1. Walk(moved)' = Walk(m)' /\ Depth(moved)' = Depth(m)'
    BY <1>2 DEF Walk, Depth
  <2> QED
    BY <1>2, <1>3, <2>1
<1> QED
  BY <1>2, <1>3, <1>4, <1>5, <1>6 DEF ScanInv, Inside

LEMMA NextScanInv ==
  LoopInv /\ LatchedInsn /\ ScanInv /\ [HistoryNext]_historyVars => ScanInv'
<1> SUFFICES ASSUME LoopInv, LatchedInsn, ScanInv, [HistoryNext]_historyVars
             PROVE  ScanInv'
  OBVIOUS
<1>1. CASE UNCHANGED historyVars
  <2>1. UNCHANGED <<codeRam, bootRom, origin, scan, ip, loop, moved>>
    BY <1>1 DEF historyVars
  <2> QED
    BY <2>1 DEF ScanInv, Inside, Walk, Depth, ReadCode, Own, Other
<1>2. CASE HistoryNext /\ scan' = "none"
  BY <1>2 DEF ScanInv
<1>3. CASE HistoryNext /\ scan' # "none" /\ scan = "none"
  BY <1>3, ScanInvStarts
<1>4. CASE HistoryNext /\ scan' # "none" /\ scan # "none"
  BY <1>4, ScanInvGoesOn
<1> QED
  BY <1>1, <1>2, <1>3, <1>4

-----------------------------------------------------------------------------
(* The history adds no step to the instruction side. *)
LEMMA HistoryIsQuiet ==
  [HistoryNext]_historyVars => [QuietNext]_ipVars /\ [Next]_ipVars
BY DEF HistoryNext, historyVars, ipVars, memVars, loopVars, QuietNext, Next

LEMMA HistoryInvariance ==
  HistorySpec => [](LoopInv /\ LatchedInsn /\ ScanInv)
<1>1. HistoryInit => LoopInv /\ LatchedInsn /\ ScanInv
  BY InitLoopInv DEF HistoryInit, Init, LatchedInsn, ScanInv
<1>2. LoopInv /\ LatchedInsn /\ ScanInv /\ [HistoryNext]_historyVars
        => (LoopInv /\ LatchedInsn /\ ScanInv)'
  BY HistoryIsQuiet, NextLoopInv, NextLatched, NextScanInv
<1> QED
  BY <1>1, <1>2, PTL DEF HistorySpec

(* While it scans, IP is where the walk is and the loop counter is the     *)
(* nesting depth there, which has been between the match and the overflow  *)
(* all the way: on every ring, for every program (dpcrun.cpp:391-404).     *)
THEOREM LoopCounterIsDepth == HistorySpec => []CountsDepth
<1>1. ScanInv => CountsDepth
  BY DEF ScanInv, Inside, CountsDepth
<1> QED
  BY <1>1, HistoryInvariance, PTL

(* A scan is over within one turn of the ring when the ring has no more    *)
(* own brackets than others, and within LoopSize - 1 turns otherwise       *)
(* (dpcrun.cpp:379-382).                                                   *)
THEOREM ScansAreBounded == HistorySpec => []EndsInTime
<1>1. ScanInv => EndsInTime
  BY ScanEndsInTime
<1> QED
  BY <1>1, HistoryInvariance, PTL

(* A scan ends on the first place where the depth is zero, the matching    *)
(* bracket, or halts on the first one where it would need LoopSize         *)
(* (dpcrun.cpp:370-377).                                                   *)
THEOREM ScanFindsMatch == HistorySpec => EndsOnMatch
<1>1. LoopInv /\ ScanInv /\ [HistoryNext]_historyVars
        => [scan # "none" /\ scan' = "none" =>
              /\ \A d \in 1 .. moved : Depth(d) \in 1 .. LoopTop
              /\ \/ ~overflow' /\ Depth(moved + 1) = 0
                      /\ ip' = Walk(moved + 1)
                 \/ overflow' /\ Depth(moved + 1) = LoopSize]_historyVars
  <2> SUFFICES ASSUME LoopInv, ScanInv, HistoryNext,
                      scan # "none", scan' = "none"
               PROVE  /\ \A d \in 1 .. moved : Depth(d) \in 1 .. LoopTop
                      /\ \/ ~overflow' /\ Depth(moved + 1) = 0
                              /\ ip' = Walk(moved + 1)
                         \/ overflow' /\ Depth(moved + 1) = LoopSize
    OBVIOUS
  <2>1. PICK m \in Nat : m = moved + 1
    BY DEF ScanInv
  <2>2. \/ ~overflow' /\ Depth(m) = 0 /\ ip' = Walk(m)
        \/ overflow' /\ Depth(m) = LoopSize
    BY <2>1, ScanCounts
  <2>3. \A d \in 1 .. moved : Depth(d) \in 1 .. LoopTop
    BY DEF ScanInv, Inside
  <2> QED
    BY <2>1, <2>2, <2>3
<1> QED
  BY <1>1, HistoryInvariance, PTL DEF HistorySpec, EndsOnMatch
=============================================================================
