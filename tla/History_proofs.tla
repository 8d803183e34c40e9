--------------------------- MODULE History_proofs ---------------------------
(***************************************************************************)
(* The machine as its programmer sees it, for every size, every program    *)
(* and every way to use it: a call of step(), with its fetch, its scan on  *)
(* the ring, its decode and its waits, is one step of Architecture.        *)
(*                                                                         *)
(* The scan needs its own proof: Architecture looks for the match of a     *)
(* bracket at one stroke, without a counter, and IpLine_proofs says what   *)
(* the counter counts and how far a scan walks.                            *)
(*                                                                         *)
(* Before it, the load: it stores what it takes at consecutive places.     *)
(***************************************************************************)
EXTENDS LoadHistory, DekatronPC_proofs, Dekatron_proofs,
        FiniteSetTheorems

(* Where IP is to fetch next, or has fetched. *)
NextPlace == IF ipCounted /\ phase # "INSN" THEN WrapInc(ip, IpSize) ELSE ip

-----------------------------------------------------------------------------
(* Between its opcodes a load stands on the place of the next one once it  *)
(* has fetched, and before that on the place of the last one, if there was *)
(* a fetch at all.  The end mark is no opcode: from the moment it is taken *)
(* to the decode that ends the load, next is of no use.                    *)
EndTaken == call = "decode" /\ IsEot(insn)

LoadInv == loading => codeRam = image /\ (EndTaken \/ next = NextPlace)

LoadHistoryInv == ControlInv /\ LoadInv

(* Only a fetch and the opcodes taken change the place of the load. *)
LoadKept ==
  /\ UNCHANGED <<codeRam, ip, ipCounted, insnIn>>
  /\ ~EndTaken
  /\ phase' = "INSN" <=> phase = "INSN"

LEMMA StepsInALoad ==
  ASSUME ControlInv, Next, loading, loading', ~LoadMemory
  PROVE  \/ TakeInsn
         \/ LoadFetch
         \/ LoadKept
         \/ \E op \in Insns : PushInsn(op)
<1>0. CallInv /\ WaitIsConsistent /\ LineInv
  BY DEF ControlInv, TypeInv
<1>1. scan = "none"
  BY <1>0 DEF LineInv, Ip!LoopCounterClean
<1> USE DEF LoadKept, EndTaken
<1>2. ~(Fetch \/ StartScan \/ Scan \/ ScanMatch \/ Overflow)
  BY <1>1 DEF Fetch, StartScan, Scan, ScanMatch, Overflow, Ip!FirstFetch,
              Ip!NextFetch, Ip!ScanStart, Ip!AtNext, Ip!ScanPass, Ip!ScanOwn,
              Ip!ScanOther, Ip!ScanMatch, Ip!StartOverflow, Ip!ScanOverflow
<1>3. CASE WaitInsn \/ WaitCin
  BY <1>0, <1>3 DEF WaitInsn, WaitCin, AtInsn, AtCin, Between, ipVars,
                    queueVars
<1>4. CASE Decode
  <2>1. ~(DecodeNop \/ DecodeHalt \/ DecodeBell \/ DecodeReset \/ DecodeIp
           \/ DecodeAp \/ DecodeCout \/ DecodeCin)
    BY DEF DecodeNop, DecodeHalt, DecodeBell, DecodeReset, DecodeIp, DecodeAp,
           DecodeCout, DecodeCin, Decodes
  <2>2. ~DecodeEot
    BY DEF DecodeEot, Ip!EndLoading, Ip!ResetLines
  <2>3. CASE DecodeIsa
    BY <2>3 DEF DecodeIsa, Retire, IsEot, ipVars, queueVars, OP_ISA0, OP_ISA1,
                DBG_EOT
  <2>4. CASE DecodeStored
    BY <2>4 DEF DecodeStored, Retire, ipVars, queueVars
  <2> QED
    BY <1>4, <2>1, <2>2, <2>3, <2>4 DEF Decode
<1>5. ASSUME NEW c, FinishCin(c) PROVE LoadKept
  BY <1>0, <1>5 DEF FinishCin, AtCin, Between, CallInv, ipVars
<1>6. CASE Panel
  <2>1. ~(HardReset \/ SoftReset)
    BY ResetIsFresh DEF HardReset, SoftReset
  <2> QED
    BY <1>6, <2>1 DEF Panel, Run, StartLoading, Ip!StartLoading, Between,
                      Ip!memVars, ipVars, queueVars
<1>7. ASSUME NEW c, NEW a, PushInput(c) \/ SetCell(a, c) \/ ClearOutput
      PROVE  LoadKept
  BY <1>7 DEF PushInput, SetCell, ClearOutput, Between, ipVars, ctrlVars,
              queueVars
<1> QED
  BY <1>2, <1>3, <1>4, <1>5, <1>6, <1>7 DEF Next, Step, Continue, Host

(* A step that keeps a load open. *)
LEMMA LoadSteps ==
  ASSUME ControlInv, LoadInv, LoadNext, loading, loading', ~LoadMemory
  PROVE  LoadInv'
<1>0. CallInv /\ WaitIsConsistent /\ ControlTypes /\ LineInv
  BY DEF ControlInv, TypeInv
<1>1. Next
  BY DEF LoadNext, HistoryNext
<1>3. CASE TakeInsn
  <2>1. insnIn' = Tail(insnIn) /\ insnIn # <<>> /\ insnIn \in Seq(Insns)
    BY <1>0, <1>3 DEF TakeInsn, ControlTypes
  <2>2. insnIn' # insnIn /\ Len(insnIn') < Len(insnIn)
    BY <2>1
  <2>3. phase = "INSN" /\ ipCounted /\ ~EndTaken
    BY <1>0, <1>3 DEF TakeInsn, AtInsn, CallInv, WaitIsConsistent, EndTaken,
                      Between
  <2>4. next = ip /\ codeRam = image
    BY <2>3 DEF LoadInv, NextPlace
  <2>5. /\ insn' = Head(insnIn) /\ ip' = ip /\ ipCounted' = ipCounted
        /\ phase' = "FETCH" /\ call' = "decode" /\ mode' = mode
    BY <1>3 DEF TakeInsn, Ip!TakeInsn
  <2>6. CASE IsEot(Head(insnIn))
    <3>1. codeRam' = codeRam
      BY <1>3, <2>6 DEF TakeInsn, Ip!TakeInsn
    <3>2. image' = image
      BY <2>6 DEF LoadNext
    <3>3. EndTaken'
      BY <2>5, <2>6 DEF EndTaken, IsEot
    <3> QED
      BY <2>4, <3>1, <3>2, <3>3 DEF LoadInv
  <2>7. CASE ~IsEot(Head(insnIn))
    <3>1. StoreNext(Head(insnIn))
      BY <1>3, <2>2, <2>7 DEF LoadNext
    <3>2. codeRam' = image'
      BY <1>3, <2>4, <2>7, <3>1
      DEF TakeInsn, Ip!TakeInsn, Ip!WriteCode, StoreNext
    <3>3. next' = NextPlace'
      BY <2>3, <2>4, <2>5, <3>1 DEF StoreNext, NextPlace
    <3> QED
      BY <3>2, <3>3 DEF LoadInv
  <2> QED
    BY <2>6, <2>7
<1>4. ASSUME insnIn \in Seq(Insns), ~(Len(insnIn') < Len(insnIn))
      PROVE  UNCHANGED <<image, next>>
  BY <1>4 DEF LoadNext
<1>5. CASE LoadKept
  BY <1>0, <1>4, <1>5 DEF LoadKept, ControlTypes, LoadInv, NextPlace
<1>6. ASSUME NEW op \in Insns, PushInsn(op) PROVE LoadInv'
  <2>1. UNCHANGED <<image, next>>
    BY <1>0, <1>4, <1>6 DEF PushInsn, ControlTypes
  <2> QED
    BY <1>6, <2>1 DEF PushInsn, LoadInv, NextPlace, EndTaken, IsEot, ipVars,
                      ctrlVars
<1>7. CASE LoadFetch
  <2>1. UNCHANGED <<image, next>>
    BY <1>0, <1>4, <1>7 DEF LoadFetch, queueVars, ControlTypes
  <2>2. ~EndTaken /\ phase = "FETCH"
    BY <1>7 DEF LoadFetch, AtFetch, Between, EndTaken
  <2>3. codeRam' = codeRam /\ phase' = "INSN" /\ ip' = NextPlace
    BY <1>7, <2>2 DEF LoadFetch, Ip!LoadFetch, Ip!memVars, NextPlace,
                      WrapInc, Ip!WrapInc
  <2> QED
    BY <2>1, <2>2, <2>3 DEF LoadInv, NextPlace
<1> QED
  BY <1>1, <1>3, <1>5, <1>6, <1>7, StepsInALoad

(* A load is not opened by a wait for its first opcode. *)
LEMMA OpensInFetch ==
  ASSUME ControlInv, Next, ~loading
  PROVE  phase' # "INSN"
<1>0. phase # "INSN"
  BY DEF ControlInv, WaitIsConsistent
<1>1. ~LoadFetch
  BY DEF LoadFetch, Ip!LoadFetch
<1>2. Decode => phase' # "INSN"
  BY <1>0 DEF Decode, DecodeEot, DecodeIsa, DecodeStored, DecodeNop,
              DecodeHalt, EnterHalt, DecodeBell, DecodeReset, ResetCounters,
              DecodeIp, DecodeAp, DecodeCout, DecodeCin
<1>3. Fetch \/ StartScan \/ Scan \/ ScanMatch \/ Overflow \/ TakeInsn
        \/ WaitInsn \/ WaitCin => phase' # "INSN"
  BY <1>0 DEF Fetch, StartScan, Scan, ScanMatch, Overflow, TakeInsn, WaitInsn,
              WaitCin, ctrlVars
<1>4. ASSUME NEW c, FinishCin(c) PROVE phase' # "INSN"
  BY <1>4 DEF FinishCin
<1>5. Panel \/ Host => phase' # "INSN"
  BY <1>0 DEF Panel, HardReset, SoftReset, ResetCounters, Run, StartLoading,
              Host, PushInput, PushInsn, SetCell, LoadMemory, ClearOutput,
              ctrlVars
<1> QED
  BY <1>1, <1>2, <1>3, <1>4, <1>5 DEF Next, Step, Continue

LEMMA NextLoadInv == LoadHistoryInv /\ [LoadNext]_loadVars => LoadInv'
<1> SUFFICES ASSUME LoadHistoryInv, [LoadNext]_loadVars, loading'
             PROVE  LoadInv'
  BY DEF LoadInv
<1>1. CASE UNCHANGED loadVars
  BY <1>1 DEF loadVars, LoadHistoryInv, LoadInv, NextPlace, EndTaken, IsEot,
              ipVars, ctrlVars
<1>2. CASE LoadNext
  <2>0. ControlInv /\ LoadInv /\ Next
    BY <1>2 DEF LoadHistoryInv, LoadNext, HistoryNext
  <2>1. ASSUME BeginLoad, phase' # "INSN" PROVE LoadInv'
    BY <2>1 DEF BeginLoad, LoadInv, NextPlace
  <2>2. CASE ~loading
    BY <1>2, <2>0, <2>1, <2>2, OpensInFetch DEF LoadNext
  <2>3. CASE loading /\ LoadMemory
    <3>1. ~ipCounted /\ phase' = phase /\ insnIn' = insnIn
      BY <2>3 DEF LoadMemory, ctrlVars, queueVars
    <3>2. phase' # "INSN"
      BY <2>0, <3>1 DEF ControlInv, WaitIsConsistent
    <3>3. BeginLoad
      BY <1>2, <2>3, <3>1 DEF LoadNext
    <3> QED
      BY <2>1, <3>2, <3>3
  <2> QED
    BY <1>2, <2>0, <2>2, <2>3, LoadSteps
<1> QED
  BY <1>1, <1>2

(* A load stores the opcodes it takes at consecutive places, none lost,    *)
(* none twice and none skipped, however often step() returned to wait for  *)
(* the next one, whatever the panel did meanwhile, and whatever the host   *)
(* loaded while no fetched opcode waited.                                  *)
THEOREM LoadsAreContiguous == LoadSpec => []LoadIsContiguous
<1>1. LoadInit => LoadHistoryInv
  BY InitControlInv
  DEF LoadInit, HistoryInit, LoadHistoryInv, LoadInv, Init, Ip!Init
<1>2. LoadHistoryInv /\ [LoadNext]_loadVars => LoadHistoryInv'
  <2>1. ControlInv /\ [Next]_vars => ControlInv'
    BY NextControl, NextTypeInv DEF ControlInv
  <2>2. [LoadNext]_loadVars => [Next]_vars
    BY DEF LoadNext, HistoryNext, loadVars, vars
  <2> QED
    BY <2>1, <2>2, NextLoadInv DEF LoadHistoryInv
<1>3. LoadHistoryInv => LoadIsContiguous
  BY DEF LoadHistoryInv, ControlInv, CallInv, LoadInv, LoadIsContiguous,
         NextPlace, EndTaken
<1> QED
  BY <1>1, <1>2, <1>3, PTL DEF LoadSpec

-----------------------------------------------------------------------------
ScP == INSTANCE IpLine_proofs WITH
  origin <- (seen.pc - 1) % IpSize, moved <- 0

-----------------------------------------------------------------------------
(* Program memory as it is now. *)
Code == [a \in Ip!Place |-> Ip!ReadCode(a)]

LEMMA RingSizes ==
  /\ IpSize \in Nat \ {0} /\ BootBase \in Ip!Place /\ 0 \in Ip!Place
  /\ Ip!LoopTop \in Nat \ {0} /\ LoopSize = Ip!LoopTop + 1
  /\ Ip!Place = 0 .. IpSize - 1
BY DekatronPCAssumption DEF Ip!Place, Ip!LoopTop

LEMMA Constants == ScP!IpLineAssumption
BY DekatronPCAssumption DEF ScP!IpLineAssumption, ScP!Opcode, Opcode

(* The scan of the machine is the one of IpLine_proofs. *)
LEMMA SameScan ==
  /\ ScP!Place = Ip!Place /\ ScP!LoopTop = Ip!LoopTop
  /\ \A a : ScP!ReadCode(a) = Ip!ReadCode(a)
BY DEF ScP!Place, Ip!Place, ScP!LoopTop, Ip!LoopTop, ScP!ReadCode, Ip!ReadCode

(* The scan looks the way the bracket of Architecture looks. *)
Aligned ==
  /\ seen.pc \in Ip!Place
  /\ seen.code = Code
  /\ Seen!Bracket \in {BF_LBEG, BF_LEND}
  /\ scan = IF Seen!Bracket = BF_LEND THEN "backward" ELSE "forward"

LEMMA SameWalk ==
  ASSUME Aligned, NEW d \in Int
  PROVE  Seen!Walk(d) = ScP!Walk(d) /\ Seen!Walk(d) \in Ip!Place
<1>1. IpSize \in Nat \ {0} /\ seen.pc \in Int
  BY RingSizes DEF Aligned
<1>2. PICK x \in Int : x = seen.pc - 1
  BY <1>1
<1>3. PICK e \in Int : e = -d
  OBVIOUS
<1>4. /\ ((x % IpSize) + d) % IpSize = (x + d) % IpSize
      /\ ((x % IpSize) + e) % IpSize = (x + e) % IpSize
  BY <1>1, ModAdd
<1>5. x % IpSize \in Int /\ (x % IpSize) - d = (x % IpSize) + e
  BY <1>1, <1>3, ModExists
<1>6. Seen!Walk(d) = ScP!Walk(d)
  <2>1. CASE Seen!Bracket = BF_LBEG
    <3>1. Seen!Walk(d) = (x + d) % IpSize
      BY <1>2, <2>1 DEF Seen!Walk, Seen!BF_LBEG, BF_LBEG
    <3>2. ScP!Walk(d) = ((x % IpSize) + d) % IpSize
      BY <1>2, <2>1 DEF ScP!Walk, Aligned, BF_LBEG, BF_LEND
    <3> QED
      BY <1>4, <3>1, <3>2
  <2>2. CASE Seen!Bracket = BF_LEND
    <3>1. Seen!Walk(d) = (x + e) % IpSize
      BY <1>2, <1>3, <2>2 DEF Seen!Walk, Seen!BF_LBEG, BF_LEND
    <3>2. ScP!Walk(d) = ((x % IpSize) + e) % IpSize
      BY <1>2, <1>5, <2>2 DEF ScP!Walk, Aligned
    <3> QED
      BY <1>4, <3>1, <3>2
  <2> QED
    BY <2>1, <2>2 DEF Aligned
<1>7. x % IpSize \in ScP!Place
  BY <1>1, SameScan, RingSizes, ModExists
<1> QED
  BY <1>2, <1>6, <1>7, Constants, SameScan, ScP!WalkPlace

LEMMA SameCode ==
  ASSUME Aligned, NEW d \in Int
  PROVE  seen.code[Seen!Walk(d)] = ScP!ReadCode(ScP!Walk(d))
<1>1. Seen!Walk(d) = ScP!Walk(d) /\ Seen!Walk(d) \in Ip!Place
  BY SameWalk
<1> QED
  BY <1>1, SameScan DEF Aligned, Code

LEMMA SameBrackets ==
  ASSUME Aligned
  PROVE  /\ ScP!Own = Seen!Bracket
         /\ Seen!Brackets \ {Seen!Bracket} = {ScP!Other}
         /\ Seen!Walk(0) = (seen.pc - 1) % IpSize
         /\ Seen!Bracket = seen.code[Seen!Walk(0)]
<1>1. ScP!Own = Seen!Bracket
  BY DEF Aligned, ScP!Own, ScP!BF_LBEG, ScP!BF_LEND, BF_LBEG, BF_LEND
<1>2. Seen!Brackets \ {Seen!Bracket} = {ScP!Other}
  BY DEF Aligned, Seen!Brackets, Seen!BF_LBEG, Seen!BF_LEND, ScP!Other,
         ScP!BF_LBEG, ScP!BF_LEND, BF_LBEG, BF_LEND
<1>3. Seen!Walk(0) = (seen.pc - 1) % IpSize
  <2>1. PICK x \in Int : x = seen.pc - 1
    BY RingSizes DEF Aligned
  <2>2. x + 0 = x /\ x + (-0) = x
    OBVIOUS
  <2> QED
    BY <2>1, <2>2 DEF Seen!Walk
<1> QED
  BY <1>1, <1>2, <1>3 DEF Seen!Bracket

(* Each instance has a Cardinality of its own. *)
LEMMA SameCardinality ==
  ASSUME NEW S
  PROVE  /\ Seen!Cardinality(S) = Cardinality(S)
         /\ ScP!Cardinality(S) = Cardinality(S)
BY DEF Cardinality, Seen!Cardinality, ScP!Cardinality

LEMMA SameDepth ==
  ASSUME Aligned, NEW d \in Nat
  PROVE  Seen!Depth(d) = ScP!Depth(d)
<1> DEFINE own == {k \in 1 .. d : ScP!ReadCode(ScP!Walk(k)) = ScP!Own}
           other == {k \in 1 .. d : ScP!ReadCode(ScP!Walk(k)) = ScP!Other}
<1>1. \A k \in 0 .. d : seen.code[Seen!Walk(k)] = ScP!ReadCode(ScP!Walk(k))
  BY SameCode
<1>2. /\ seen.code[Seen!Walk(0)] = ScP!Own /\ ScP!Own # ScP!Other
      /\ ScP!Own = Seen!Bracket
  BY SameBrackets, Constants, ScP!OwnIsNotOther
<1>3. {k \in 0 .. d : seen.code[Seen!Walk(k)] = Seen!Bracket}
        = own \union {0}
  BY <1>1, <1>2
<1>4. {k \in 0 .. d : seen.code[Seen!Walk(k)]
                        \in Seen!Brackets \ {Seen!Bracket}} = other
  <2>1. \A k \in 0 .. d : k = 0 \/ k \in 1 .. d
    OBVIOUS
  <2> QED
    BY <1>1, <1>2, <2>1, SameBrackets
<1>5. /\ IsFiniteSet(own) /\ 0 \notin own
      /\ Cardinality(own \union {0}) = Cardinality(own) + 1
  <2>1. IsFiniteSet(1 .. d)
    BY FS_Interval
  <2>2. IsFiniteSet(own)
    BY <2>1, FS_Subset
  <2>3. 0 \notin own
    OBVIOUS
  <2> QED
    BY <2>2, <2>3, FS_AddElement
<1>6. Seen!Depth(d) = Cardinality(own \union {0}) - Cardinality(other)
  <2> DEFINE seenOwn == {k \in 0 .. d : seen.code[Seen!Walk(k)] = Seen!Bracket}
             seenOther == {k \in 0 .. d : seen.code[Seen!Walk(k)]
                                          \in Seen!Brackets \ {Seen!Bracket}}
  <2>1. Seen!Depth(d)
          = Seen!Cardinality(seenOwn) - Seen!Cardinality(seenOther)
    BY DEF Seen!Depth
  <2>2. seenOwn = own \union {0} /\ seenOther = other
    BY <1>3, <1>4
  <2> HIDE DEF own, other, seenOwn, seenOther
  <2> QED
    BY <2>1, <2>2, SameCardinality
<1>7. ScP!Depth(d) = 1 + Cardinality(own) - Cardinality(other)
  <2>1. ScP!Depth(d) = 1 + ScP!Cardinality(own) - ScP!Cardinality(other)
    BY DEF ScP!Depth
  <2> HIDE DEF own, other
  <2> QED
    BY <2>1, SameCardinality
<1>8. Cardinality(own) \in Nat /\ Cardinality(other) \in Nat
  <2>1. IsFiniteSet(1 .. d)
    BY FS_Interval
  <2>2. IsFiniteSet(other)
    BY <2>1, FS_Subset
  <2> QED
    BY <1>5, <2>2, FS_CardinalityType
<1> QED
  <2> HIDE DEF own, other
  <2> QED
    BY <1>5, <1>6, <1>7, <1>8

(* The depth at the bracket, and one more place of the walk. *)
LEMMA DepthAtStart ==
  ASSUME Aligned
  PROVE  Seen!Depth(0) = 1 /\ Seen!Walk(0) = (seen.pc - 1) % IpSize
<1>1. Seen!Depth(0) = ScP!Depth(0)
  BY SameDepth
<1> QED
  BY <1>1, Constants, ScP!DepthStart, SameBrackets

LEMMA DepthAfter ==
  ASSUME Aligned, NEW d \in Nat
  PROVE  /\ Seen!Depth(d) \in Int
         /\ Seen!Walk(d + 1) = WrapStep(Seen!Walk(d), scan = "backward", IpSize)
         /\ Seen!Walk(d + 1) \in Ip!Place
         /\ seen.code[Seen!Walk(d + 1)] = Ip!Own
              => Seen!Depth(d + 1) = Seen!Depth(d) + 1
         /\ seen.code[Seen!Walk(d + 1)] = Ip!Other
              => Seen!Depth(d + 1) = Seen!Depth(d) - 1
         /\ seen.code[Seen!Walk(d + 1)] \notin {Ip!Own, Ip!Other}
              => Seen!Depth(d + 1) = Seen!Depth(d)
<1>1. PICK e \in Nat : e = d + 1
  OBVIOUS
<1>2. /\ Seen!Depth(d) = ScP!Depth(d) /\ Seen!Depth(e) = ScP!Depth(e)
      /\ Seen!Walk(d) = ScP!Walk(d) /\ Seen!Walk(e) = ScP!Walk(e)
      /\ Seen!Walk(e) \in Ip!Place
      /\ seen.code[Seen!Walk(e)] = ScP!ReadCode(ScP!Walk(e))
  BY SameDepth, SameWalk, SameCode
<1>3. ScP!Own = Ip!Own /\ ScP!Other = Ip!Other
  BY DEF ScP!Own, ScP!Other, Ip!Own, Ip!Other, ScP!BF_LBEG, ScP!BF_LEND,
         Ip!BF_LBEG, Ip!BF_LEND
<1>4. (seen.pc - 1) % IpSize \in ScP!Place
  BY DepthAtStart, SameWalk, SameScan
<1>5. ScP!Walk(d + 1) = ScP!WrapStep(ScP!Walk(d), scan = "backward", IpSize)
  BY <1>4, Constants, ScP!WalkStep
<1>6. /\ ScP!Depth(d) \in Int
      /\ ScP!ReadCode(ScP!Walk(d + 1)) = ScP!Own
           => ScP!Depth(d + 1) = ScP!Depth(d) + 1
      /\ ScP!ReadCode(ScP!Walk(d + 1)) = ScP!Other
           => ScP!Depth(d + 1) = ScP!Depth(d) - 1
      /\ ScP!ReadCode(ScP!Walk(d + 1)) \notin {ScP!Own, ScP!Other}
           => ScP!Depth(d + 1) = ScP!Depth(d)
  BY Constants, ScP!DepthStep
<1>7. ScP!WrapStep(ScP!Walk(d), scan = "backward", IpSize)
        = WrapStep(Seen!Walk(d), scan = "backward", IpSize)
  BY <1>2 DEF WrapStep, WrapInc, WrapDec, ScP!WrapStep, ScP!WrapInc,
              ScP!WrapDec
<1> QED
  BY <1>1, <1>2, <1>3, <1>5, <1>6, <1>7

(* A walk that is still inside the loop is shorter than the bound within   *)
(* which Architecture looks for the match.                                 *)
LEMMA WalkIsShort ==
  ASSUME Aligned, NEW m \in Nat,
         \A d \in 0 .. m : Seen!Depth(d) \in 1 .. Ip!LoopTop
  PROVE  m + 1 \in 1 .. IpSize * LoopSize
<1>1. ScP!Inside(m)
  BY SameDepth, SameScan DEF ScP!Inside
<1>2. /\ (seen.pc - 1) % IpSize \in ScP!Place
      /\ ScP!ReadCode((seen.pc - 1) % IpSize) = ScP!Own
  <2>1. Seen!Walk(0) = ScP!Walk(0) /\ Seen!Walk(0) \in Ip!Place
    BY SameWalk
  <2>2. seen.code[Seen!Walk(0)] = ScP!ReadCode(ScP!Walk(0))
    BY SameCode
  <2> QED
    BY <2>1, <2>2, SameBrackets, SameScan
<1>3. m < ScP!MaxMoved
  BY <1>1, <1>2, Constants, ScP!WalkEndsInTime
<1>4. m < IpSize * Ip!LoopTop
  BY <1>3, SameScan DEF ScP!MaxMoved
<1>5. PICK t \in Nat : t = IpSize * Ip!LoopTop
  BY RingSizes
<1>6. IpSize * (Ip!LoopTop + 1) = t + IpSize
  BY <1>5, RingSizes
<1>7. PICK w \in Nat : w = IpSize * LoopSize /\ w = t + IpSize
  BY <1>5, <1>6, RingSizes
<1>8. m < t
  BY <1>4, <1>5
<1>9. m + 1 \in 1 .. w
  BY <1>7, <1>8, RingSizes
<1> QED
  BY <1>7, <1>9

(* The first place where the depth leaves the loop is the one that         *)
(* Architecture finds at one stroke.                                       *)
LEMMA ReachIsFirst ==
  ASSUME Aligned, NEW m \in Nat, NEW e \in Nat, e = m + 1,
         \A d \in 0 .. m : Seen!Depth(d) \in 1 .. Ip!LoopTop,
         Seen!Depth(e) \in {0, LoopSize}
  PROVE  Seen!Reach = e
<1> DEFINE First(d) == /\ Seen!Depth(d) \in {0, LoopSize}
                       /\ \A k \in 1 .. d - 1 :
                            Seen!Depth(k) \notin {0, LoopSize}
           range == 1 .. IpSize * LoopSize
<1>1. Ip!LoopTop \in Nat /\ LoopSize = Ip!LoopTop + 1
  BY RingSizes
<1>2. \A d \in 0 .. m : Seen!Depth(d) \notin {0, LoopSize}
  BY <1>1
<1>3. e \in range
  BY WalkIsShort
<1>4. First(e)
  BY <1>2
<1>5. ASSUME NEW d \in range, First(d) PROVE d = e
  <2>1. d \in Nat /\ d >= 1
    BY RingSizes
  <2>2. ~(d < e)
    BY <1>2, <1>5, <2>1
  <2>3. ~(d > e)
    BY <1>5, <2>1
  <2> QED
    BY <2>1, <2>2, <2>3
<1>6. Seen!Reach = CHOOSE d \in range : First(d)
  BY DEF Seen!Reach
<1> QED
  <2> HIDE DEF range, First
  <2> QED
    BY <1>3, <1>4, <1>5, <1>6

-----------------------------------------------------------------------------
(* The cells that the programmer sees are those that ApLine implements. *)
Tape == [dataMem EXCEPT ![ap] = Ap!CellValue]

CellsSeen ==
  /\ seen.tape = Tape
  /\ seen.core = dataMem
  /\ seen.pos = ap
  /\ seen.acc = data

(* Each operation of the data side is the one of ApLine_proofs. *)
LEMMA SameApOps ==
  /\ \A dec : Ap!DataStep(dec) => ApP!DataStep(dec)
  /\ \A cell : Ap!ApMove(cell) => ApP!ApMove(cell)
  /\ \A c : Ap!Take(c) => ApP!Take(c)
  /\ \A a, v : Ap!SetCell(a, v) => ApP!SetCell(a, v)
  /\ Ap!Cout => ApP!Cout
  /\ Ap!ClrMl => ApP!ClrMl
  /\ Ap!Load => ApP!Load
  /\ Ap!Store => ApP!Store
  /\ Ap!BracketTest => ApP!BracketTest
  /\ Ap!ApReset => ApP!ApReset
BY DEF Ap!DataStep, ApP!DataStep, Ap!ApMove, ApP!ApMove, Ap!Take, ApP!Take,
       Ap!Cout, ApP!Cout, Ap!ClrMl, ApP!ClrMl, Ap!Load, ApP!Load, Ap!Store,
       ApP!Store, Ap!BracketTest, ApP!BracketTest, Ap!ApReset, ApP!ApReset,
       Ap!SetCell, ApP!SetCell, Ap!FetchUnlessLocked, ApP!FetchUnlessLocked,
       Ap!Fetch, ApP!Fetch, Ap!FetchedReg, ApP!FetchedReg, Ap!Operand,
       ApP!Operand, Ap!Flush, ApP!Flush, Ap!WrapStep, ApP!WrapStep,
       Ap!WrapInc, ApP!WrapInc, Ap!WrapDec, ApP!WrapDec

LEMMA CellOperations ==
  ASSUME Ap!TypeOK, Ap!RegCoherent, CellsSeen, CellsSeen'
  PROVE  /\ \A dec \in BOOLEAN : Ap!DataStep(dec) => Seen!Cells!Count(dec)
         /\ \A cell \in Ap!Addr : Ap!ApMove(cell) => Seen!Cells!MoveTo(cell)
         /\ \A c \in Ap!Byte : Ap!Take(c) => Seen!Cells!Put(c)
         /\ \A a \in Ap!Addr, v \in Ap!Byte :
              Ap!SetCell(a, v) => Seen!Cells!Poke(a, v)
         /\ Ap!Cout => Seen!Cells!Emit
         /\ Ap!ClrMl => Seen!Cells!Save
         /\ Ap!Load => Seen!Cells!Reload
         /\ Ap!Store => Seen!Cells!Copy
         /\ Ap!BracketTest => UNCHANGED Seen!cells
         /\ Ap!ApReset => Seen!Cells!Reset
         /\ UNCHANGED apVars => UNCHANGED Seen!cells
<1>1. ApP!IInv
  BY SameAp DEF ApP!IInv
<1>2. ApP!Addr = Ap!Addr /\ ApP!Byte = Ap!Byte
  BY DEF ApP!Addr, Ap!Addr, ApP!Byte, Ap!Byte
<1>3. /\ \A dec \in BOOLEAN : Ap!DataStep(dec) => ApP!Cells!Count(dec)
      /\ \A cell \in Ap!Addr : Ap!ApMove(cell) => ApP!Cells!MoveTo(cell)
      /\ \A c \in Ap!Byte : Ap!Take(c) => ApP!Cells!Put(c)
      /\ \A a \in Ap!Addr, v \in Ap!Byte :
           Ap!SetCell(a, v) => ApP!Cells!Poke(a, v)
  BY <1>1, <1>2, SameApOps, DekatronPCAssumption, ApP!DataStepIsCount,
     ApP!ApMoveIsMoveTo, ApP!TakeIsPut, ApP!SetCellIsPoke
<1>4. /\ Ap!Cout => ApP!Cells!Emit
      /\ Ap!ClrMl => ApP!Cells!Save
      /\ Ap!Load => ApP!Cells!Reload
      /\ Ap!Store => ApP!Cells!Copy
      /\ Ap!BracketTest => UNCHANGED ApP!Cells!vars
      /\ Ap!ApReset => ApP!Cells!Reset
  BY <1>1, SameApOps, DekatronPCAssumption, ApP!CoutIsEmit, ApP!ClrMlIsSave,
     ApP!LoadIsReload, ApP!StoreIsCopy, ApP!TestIsHidden, ApP!ResetIsReset
<1>5. UNCHANGED apVars => UNCHANGED ApP!Cells!vars
  BY DEF apVars, ApP!Cells!vars, ApP!CellValue
<1> USE DEF CellsSeen, Tape, Ap!CellValue, ApP!CellValue, Seen!cells,
            ApP!Cells!vars
<1>6. \A dec : ApP!Cells!Count(dec) => Seen!Cells!Count(dec)
  BY DEF ApP!Cells!Count, ApP!Cells!Put, ApP!Cells!WrapStep,
         ApP!Cells!WrapInc, ApP!Cells!WrapDec, Seen!Cells!Count,
         Seen!Cells!Put, Seen!Cells!WrapStep, Seen!Cells!WrapInc,
         Seen!Cells!WrapDec
<1>7. \A cell : ApP!Cells!MoveTo(cell) => Seen!Cells!MoveTo(cell)
  BY DEF ApP!Cells!MoveTo, Seen!Cells!MoveTo
<1>8. \A c : ApP!Cells!Put(c) => Seen!Cells!Put(c)
  BY DEF ApP!Cells!Put, Seen!Cells!Put
<1>9. \A a, v : ApP!Cells!Poke(a, v) => Seen!Cells!Poke(a, v)
  BY DEF ApP!Cells!Poke, Seen!Cells!Poke
<1>10. /\ ApP!Cells!Emit => Seen!Cells!Emit
       /\ ApP!Cells!Save => Seen!Cells!Save
       /\ ApP!Cells!Reload => Seen!Cells!Reload
       /\ ApP!Cells!Copy => Seen!Cells!Copy
       /\ ApP!Cells!Reset => Seen!Cells!Reset
       /\ UNCHANGED ApP!Cells!vars => UNCHANGED Seen!cells
  BY DEF ApP!Cells!Emit, Seen!Cells!Emit, ApP!Cells!Save, Seen!Cells!Save,
         ApP!Cells!Reload, Seen!Cells!Reload, ApP!Cells!Copy,
         Seen!Cells!Copy, ApP!Cells!Reset, Seen!Cells!Reset
<1> QED
  BY <1>3, <1>4, <1>5, <1>6, <1>7, <1>8, <1>9, <1>10

-----------------------------------------------------------------------------
(* Where the machine is in a call, as the programmer sees it, who still    *)
(* looks at the state before the call.                                     *)

(* No call changes these before it returns. *)
Kept ==
  /\ CellsSeen
  /\ seen.mode = mode /\ seen.error = overflow /\ seen.loading = loading
  /\ seen.rx = rx /\ seen.tx = tx
  /\ seen.halted = FALSE /\ halted = FALSE /\ seen.waiting = FALSE

(* The instruction has been fetched: it is the one that is next. *)
Fetched ==
  /\ Kept /\ seen.code = Code /\ seen.insnIn = insnIn
  /\ ~loading
  /\ ~Seen!TooDeep
  /\ ip = Seen!Place /\ ip \in Ip!Place /\ insn = seen.code[ip]

(* The walk of the scan: the match is not behind it. *)
Walked(m) ==
  /\ ip = Seen!Walk(m)
  /\ loop = Seen!Depth(m)
  /\ \A d \in 0 .. m : Seen!Depth(d) \in 1 .. Ip!LoopTop

Scanning ==
  /\ Kept /\ seen.code = Code /\ seen.insnIn = insnIn
  /\ Seen!Jumps
  /\ Aligned
  /\ \E m \in Nat : Walked(m)

(* An opcode of a load has been taken and stored. *)
Taken ==
  /\ Kept /\ seen.branch = FALSE /\ seen.pc = ip
  /\ seen.insnIn # <<>>
  /\ insn = Head(seen.insnIn) /\ insnIn = Tail(seen.insnIn)
  /\ Code = IF IsEot(insn) \/ ip >= BootBase THEN seen.code
            ELSE [seen.code EXCEPT ![ip] = insn]

HistInv ==
  /\ Between \/ call = "insn" => seen = Now
  /\ scan # "none" => Scanning
  /\ call = "decode" => IF loading THEN Taken ELSE Fetched
  /\ call = "cin" => Fetched /\ Operation(mode, insn) = "CIN"

(* What the other proofs bring, and what may be in the queue. *)
Base ==
  /\ ControlInv
  /\ PendingTestValid
  /\ rx \in Seq(Inputs)

(* A record that is not replaced shows what it showed. *)
LEMMA SeenKept ==
  ASSUME seen' = seen
  PROVE  /\ Seen!Bracket' = Seen!Bracket
         /\ Seen!Jumps' <=> Seen!Jumps
         /\ Seen!TooDeep' <=> Seen!TooDeep
         /\ Seen!Place' = Seen!Place
         /\ \A d : /\ Seen!Walk(d)' = Seen!Walk(d)
                  /\ Seen!Depth(d)' = Seen!Depth(d)
<1>1. Seen!Bracket' = Seen!Bracket
  BY DEF Seen!Bracket
<1>2. \A d : Seen!Walk(d)' = Seen!Walk(d)
  BY <1>1 DEF Seen!Walk
<1>3. \A d : Seen!Depth(d)' = Seen!Depth(d)
  BY <1>1, <1>2 DEF Seen!Depth
<1>4. Seen!Reach' = Seen!Reach
  BY <1>3 DEF Seen!Reach
<1>5. Seen!Jumps' <=> Seen!Jumps
  BY <1>1 DEF Seen!Jumps, Seen!Zero
<1>6. Seen!TooDeep' <=> Seen!TooDeep
  BY <1>3, <1>4, <1>5 DEF Seen!TooDeep
<1>7. Seen!Place' = Seen!Place
  BY <1>2, <1>4, <1>5 DEF Seen!Place
<1> QED
  BY <1>1, <1>2, <1>3, <1>5, <1>6, <1>7

-----------------------------------------------------------------------------
(* Between two calls the programmer sees the machine as it is. *)

Pending == ipCounted /\ ~loading /\ insn \in {BF_LBEG, BF_LEND}

SeesNow ==
  /\ CellsSeen
  /\ seen.code = Code
  /\ seen.pc = NextPlace
  /\ seen.branch = Pending
  /\ seen.mode = mode
  /\ seen.halted = halted
  /\ seen.error = overflow
  /\ seen.loading = loading
  /\ seen.waiting = (phase = "CIN")
  /\ seen.rx = rx
  /\ seen.insnIn = insnIn
  /\ seen.tx = tx

Shown == seen = Now

LEMMA NowIsSeen == Shown => SeesNow
BY DEF Shown, Now, SeesNow, CellsSeen, Tape, Code, NextPlace, Pending

LEMMA NowIsSeenNext == seen' = Now' => SeesNow'
<1>1. Shown' => SeesNow'
  BY NowIsSeen, PTL
<1> QED
  BY <1>1 DEF Shown

(* A step that returns leaves nothing to remember. *)
LEMMA Returned ==
  ASSUME Between', seen' = Now'
  PROVE  HistInv' /\ SeesNow'
BY NowIsSeenNext DEF HistInv, Between

(* A step that does not return is not seen. *)
LEMMA NotSeen ==
  ASSUME seen' = seen, cfg' = cfg
  PROVE  UNCHANGED Seen!vars
BY DEF Seen!vars, Seen!cells, Seen!control, Seen!queues

(* The place before the next is where IP stands. *)
LEMMA PlaceBefore ==
  ASSUME NEW a \in Ip!Place
  PROVE  /\ WrapInc(a, IpSize) \in Ip!Place
         /\ (WrapInc(a, IpSize) - 1) % IpSize = a
<1>1. IpSize \in Nat \ {0} /\ a \in 0 .. IpSize - 1
  BY RingSizes
<1>2. PICK b \in 0 .. IpSize - 1 : b = WrapInc(a, IpSize)
  BY <1>1, WrapIncCases
<1>3. b = IF a = IpSize - 1 THEN 0 ELSE a + 1
  BY <1>1, <1>2, WrapIncCases
<1>4. PICK x \in Int : x = b - 1
  OBVIOUS
<1>5. x = 0 * IpSize + a \/ x = (-1) * IpSize + a
  BY <1>1, <1>3, <1>4
<1>6. x % IpSize = a
  BY <1>1, <1>5, ModUnique
<1> QED
  BY <1>2, <1>4, <1>6, RingSizes

(* At the fetch the zero flag, the register and the counter decide as the  *)
(* programmer expects.                                                     *)
LEMMA Decision ==
  ASSUME Base, AtFetch, SeesNow
  PROVE  /\ Kept /\ seen.pc \in Ip!Place
         /\ seen.branch => /\ Seen!Bracket = insn
                           /\ (seen.pc - 1) % IpSize = ip
                           /\ seen.pc = WrapInc(ip, IpSize)
         /\ Seen!Jumps <=> Ip!AtNext /\ Ip!Jumps(LoopValZero)
<1>1. ip \in Ip!Place /\ Ip!LatchedInsn /\ Ip!TypeOK /\ Ap!TypeOK
  BY DEF Base, ControlInv, TypeInv, LineInv, Ip!TypeOK
<1>2. Kept
  <2>1. halted \in BOOLEAN
    BY DEF Base, ControlInv, TypeInv, ControlTypes
  <2> QED
    BY <2>1 DEF AtFetch, SeesNow, Kept
<1>3. seen.pc = IF ipCounted THEN WrapInc(ip, IpSize) ELSE ip
  BY DEF AtFetch, SeesNow, NextPlace
<1>4. seen.pc \in Ip!Place
  BY <1>1, <1>3, PlaceBefore
<1>5. ASSUME Pending
      PROVE  /\ Seen!Bracket = insn /\ (seen.pc - 1) % IpSize = ip
             /\ seen.pc = WrapInc(ip, IpSize)
  <2>1. (seen.pc - 1) % IpSize = ip
    BY <1>1, <1>3, <1>5, PlaceBefore DEF Pending
  <2>2. insn = Code[ip]
    BY <1>1, <1>5 DEF Pending, Ip!LatchedInsn, Code
  <2> QED
    BY <1>3, <1>5, <2>1, <2>2 DEF Seen!Bracket, SeesNow, Pending
<1>6. ASSUME Pending PROVE Seen!Zero <=> LoopValZero
  <2>1. mode \in Isas
    BY DEF Base, ControlInv, TypeInv, ControlTypes
  <2>2. CASE mode = ISA_BF
    <3>1. Ap!DataZero <=> Ap!CellValue = 0
      BY <1>6, <2>2 DEF Base, PendingTestValid, AtFetch, Pending
    <3>2. seen.tape[seen.pos] = Ap!CellValue
      BY <1>1 DEF SeesNow, CellsSeen, Tape, Ap!TypeOK
    <3> QED
      BY <2>2, <3>1, <3>2
      DEF SeesNow, Seen!Zero, Seen!ISA_BF, ISA_BF, LoopValZero
  <2>3. CASE mode # ISA_BF
    BY <2>3 DEF SeesNow, CellsSeen, Seen!Zero, Seen!ISA_BF, ISA_BF, LoopValZero
  <2> QED
    BY <2>2, <2>3
<1>7. Seen!Jumps <=> Ip!AtNext /\ Ip!Jumps(LoopValZero)
  <2>1. Pending <=> Ip!AtNext /\ insn \in {BF_LBEG, BF_LEND}
    BY DEF Pending, Ip!AtNext, AtFetch, Between
  <2>2. seen.branch <=> Pending
    BY DEF SeesNow
  <2>3. CASE Pending
    <3>1. Seen!Jumps <=> (LoopValZero <=> insn = BF_LBEG)
      BY <1>5, <1>6, <2>2, <2>3 DEF Seen!Jumps, Seen!BF_LBEG, BF_LBEG
    <3> QED
      BY <2>1, <2>3, <3>1
      DEF Ip!Jumps, Pending, Ip!BF_LBEG, Ip!BF_LEND, BF_LBEG, BF_LEND
  <2>4. CASE ~Pending
    BY <2>1, <2>2, <2>4
    DEF Seen!Jumps, Ip!Jumps, Ip!BF_LBEG, Ip!BF_LEND, BF_LBEG, BF_LEND
  <2> QED
    BY <2>3, <2>4
<1>8. seen.branch => Pending
  BY DEF SeesNow
<1> QED
  BY <1>2, <1>4, <1>5, <1>7, <1>8

-----------------------------------------------------------------------------
(* The steps of a call that does not return yet. *)

LEMMA KeptOn ==
  ASSUME Kept, seen' = seen, UNCHANGED <<apVars, mode, halted, rx, tx>>,
         overflow' = overflow, loading' = loading
  PROVE  Kept'
BY DEF Kept, CellsSeen, Tape, Ap!CellValue, apVars

LEMMA CodeKept ==
  ASSUME UNCHANGED Ip!memVars
  PROVE  /\ Code' = Code
         /\ \A a : Ip!ReadCode(a)' = Ip!ReadCode(a)
BY DEF Ip!memVars, Code, Ip!Place, Ip!ReadCode

(* At the start of a call the programmer has seen all there is. *)
LEMMA CallStarts ==
  ASSUME HistInv, Between \/ call = "insn"
  PROVE  SeesNow
BY NowIsSeen DEF HistInv, Shown

LEMMA FetchSeen ==
  ASSUME Base, HistInv, Fetch, seen' = seen
  PROVE  HistInv'
<1> USE DEF Ip!loopVars
<1>1. AtFetch /\ SeesNow
  BY CallStarts DEF Fetch, AtFetch
<1>2. ip \in Ip!Place /\ scan = "none"
  BY <1>1 DEF Base, ControlInv, TypeInv, LineInv, Ip!TypeOK, AtFetch, Between
<1>3. /\ UNCHANGED Ip!memVars /\ UNCHANGED <<overflow, scan, loading>>
      /\ ~loading
  BY DEF Fetch, Ip!FirstFetch, Ip!NextFetch, Ip!AtNext
<1>4. ~Seen!Jumps /\ ip' = seen.pc /\ insn' = Ip!ReadCode(ip')
  <2>1. CASE Ip!FirstFetch
    <3>1. ~Seen!Jumps
      BY <1>1, <2>1, Decision DEF Ip!FirstFetch, Ip!AtNext
    <3>2. seen.pc = ip
      BY <1>1, <2>1 DEF SeesNow, NextPlace, Ip!FirstFetch
    <3> QED
      BY <2>1, <3>1, <3>2 DEF Ip!FirstFetch
  <2>2. CASE Ip!NextFetch(LoopValZero)
    <3>1. ~Seen!Jumps
      BY <1>1, <2>2, Decision DEF Ip!NextFetch
    <3>2. ip' = WrapInc(ip, IpSize)
      BY <2>2 DEF Ip!NextFetch, Ip!WrapInc, WrapInc
    <3>3. seen.pc = WrapInc(ip, IpSize)
      BY <1>1, <2>2 DEF SeesNow, NextPlace, Ip!NextFetch, Ip!AtNext, AtFetch
    <3>4. insn' = Ip!ReadCode(ip')
      BY <2>2 DEF Ip!NextFetch
    <3> QED
      BY <3>1, <3>2, <3>3, <3>4
  <2> QED
    BY <2>1, <2>2 DEF Fetch
<1>5. ip' = Seen!Place /\ ~Seen!TooDeep
  BY <1>4 DEF Seen!Place, Seen!TooDeep
<1>6. ip' \in Ip!Place /\ insn' = seen.code[ip']
  <2>1. ip' \in Ip!Place
    BY <1>1, <1>4, Decision
  <2> QED
    BY <1>1, <1>4, <2>1 DEF SeesNow, Code
<1>7. Kept'
  BY <1>1, <1>3, Decision, KeptOn DEF Fetch, queueVars
<1>8. Fetched'
  BY <1>1, <1>3, <1>5, <1>6, <1>7, SeenKept, CodeKept
  DEF Fetched, SeesNow, Fetch, queueVars, Ip!Place
<1> QED
  BY <1>2, <1>3, <1>8 DEF HistInv, Fetch, Between

(* The depth and the place at the bracket, to be used of the next state. *)
StartsAtOne == Seen!Depth(0) = 1 /\ Seen!Walk(0) = (seen.pc - 1) % IpSize

LEMMA AlignedStarts == Aligned => StartsAtOne
BY DepthAtStart DEF StartsAtOne

LEMMA StartScanSeen ==
  ASSUME Base, HistInv, StartScan, seen' = seen
  PROVE  HistInv'
<1>1. AtFetch /\ SeesNow
  BY CallStarts DEF StartScan, AtFetch
<1>2. /\ Ip!AtNext /\ Ip!Jumps(LoopValZero) /\ loop # Ip!LoopTop
      /\ loop' = loop + 1 /\ ip' = ip
      /\ scan' = IF insn = BF_LEND THEN "backward" ELSE "forward"
      /\ UNCHANGED Ip!memVars /\ UNCHANGED <<overflow, loading>>
  BY DEF StartScan, Ip!ScanStart, Ip!BF_LEND, BF_LEND
<1>3. Seen!Jumps
  BY <1>1, <1>2, Decision
<1>4. /\ seen.pc \in Ip!Place /\ Seen!Bracket = insn
      /\ (seen.pc - 1) % IpSize = ip /\ Kept
  BY <1>1, <1>3, Decision DEF Seen!Jumps
<1>5. insn \in {BF_LBEG, BF_LEND}
  BY <1>2 DEF Ip!Jumps, Ip!BF_LBEG, Ip!BF_LEND, BF_LBEG, BF_LEND
<1>6. Kept'
  BY <1>2, <1>4, KeptOn DEF StartScan, queueVars, ctrlVars
<1>7. Aligned'
  BY <1>1, <1>2, <1>4, <1>5, SeenKept, CodeKept
  DEF Aligned, SeesNow, Ip!Place, BF_LBEG, BF_LEND
<1>8. Seen!Depth(0)' = 1 /\ Seen!Walk(0)' = ip'
  <2>1. StartsAtOne'
    BY <1>7, AlignedStarts, PTL
  <2> QED
    BY <1>2, <1>4, <2>1 DEF StartsAtOne
<1>9. loop' = 1 /\ Ip!LoopTop' = Ip!LoopTop
  BY <1>1, <1>2
  DEF AtFetch, Between, Base, ControlInv, TypeInv, LineInv,
      Ip!LoopCounterClean, Ip!LoopTop
<1>10. Walked(0)'
  <2>1. \A d \in 0 .. 0 : Seen!Depth(d)' \in 1 .. Ip!LoopTop
    BY <1>8, RingSizes
  <2> QED
    BY <1>8, <1>9, <2>1 DEF Walked
<1>11. Scanning'
  BY <1>1, <1>2, <1>3, <1>6, <1>7, <1>10, SeenKept, CodeKept
  DEF Scanning, SeesNow, StartScan, queueVars
<1> QED
  BY <1>1, <1>2, <1>11
  DEF HistInv, StartScan, ctrlVars, AtFetch, Between, BF_LEND

(* One more place of the scan, as the programmer counts. *)
LEMMA OneMorePlace ==
  ASSUME Base, Scanning, scan # "none", NEW m \in Nat, Walked(m)
  PROVE  /\ Ip!ScanPlace = Seen!Walk(m + 1)
         /\ Ip!ScanPlace \in Ip!Place
         /\ Ip!ScanInsn = seen.code[Seen!Walk(m + 1)]
         /\ Ip!ScanInsn = Ip!Own => Seen!Depth(m + 1) = loop + 1
         /\ Ip!ScanInsn = Ip!Other => Seen!Depth(m + 1) = loop - 1
         /\ Ip!ScanInsn \notin {Ip!Own, Ip!Other} => Seen!Depth(m + 1) = loop
         /\ loop \in 1 .. Ip!LoopTop
<1>1. Aligned /\ seen.code = Code
  BY DEF Scanning
<1>2. Ip!ScanPlace = Seen!Walk(m + 1) /\ Seen!Walk(m + 1) \in Ip!Place
  BY <1>1, DepthAfter
  DEF Walked, Ip!ScanPlace, Ip!WrapStep, Ip!WrapInc, Ip!WrapDec, WrapStep,
      WrapInc, WrapDec
<1>3. Ip!ScanInsn = seen.code[Seen!Walk(m + 1)]
  BY <1>1, <1>2 DEF Ip!ScanInsn, Code
<1>4. loop = Seen!Depth(m) /\ loop \in 1 .. Ip!LoopTop
  BY DEF Walked
<1> QED
  BY <1>1, <1>2, <1>3, <1>4, DepthAfter

LEMMA ScanSeen ==
  ASSUME Base, HistInv, Scan, seen' = seen
  PROVE  HistInv'
<1>1. scan # "none" /\ UNCHANGED scan /\ Ip!ScanMove
  BY DEF Scan, Ip!ScanPass, Ip!ScanOwn, Ip!ScanOther
<1>2. Scanning
  BY <1>1 DEF HistInv
<1>3. PICK m \in Nat : Walked(m)
  BY <1>2 DEF Scanning
<1>4. PICK e \in Nat : e = m + 1
  OBVIOUS
<1>5. /\ Seen!Walk(e) = ip' /\ Seen!Depth(e) = loop'
      /\ loop' \in 1 .. Ip!LoopTop
  <2>1. Seen!Walk(e) = ip'
    BY <1>1, <1>2, <1>3, <1>4, OneMorePlace DEF Ip!ScanMove
  <2>2. loop \in 1 .. Ip!LoopTop
    BY <1>1, <1>2, <1>3, OneMorePlace
  <2>3. Seen!Depth(e) = loop' /\ loop' \in 1 .. Ip!LoopTop
    <3>1. CASE Ip!ScanPass
      BY <1>1, <1>2, <1>3, <1>4, <2>2, <3>1, OneMorePlace DEF Ip!ScanPass
    <3>2. CASE Ip!ScanOwn
      BY <1>1, <1>2, <1>3, <1>4, <2>2, <3>2, OneMorePlace, RingSizes
      DEF Ip!ScanOwn
    <3>3. CASE Ip!ScanOther
      BY <1>1, <1>2, <1>3, <1>4, <2>2, <3>3, OneMorePlace, RingSizes
      DEF Ip!ScanOther
    <3> QED
      BY <3>1, <3>2, <3>3 DEF Scan
  <2> QED
    BY <2>1, <2>3
<1>6. \A d \in 0 .. e : Seen!Depth(d) \in 1 .. Ip!LoopTop
  <2>1. \A d \in 0 .. e : d \in 0 .. m \/ d = e
    BY <1>4
  <2> QED
    BY <1>3, <1>5, <2>1 DEF Walked
<1>7. Walked(e)'
  <2>1. Ip!LoopTop' = Ip!LoopTop
    BY DEF Ip!LoopTop
  <2> QED
    BY <1>5, <1>6, <2>1, SeenKept DEF Walked
<1>8. Kept'
  BY <1>1, <1>2, KeptOn DEF Scanning, Scan, Ip!ScanMove, queueVars, ctrlVars
<1>9. Aligned' /\ Code' = Code
  BY <1>1, <1>2, SeenKept, CodeKept
  DEF Scanning, Aligned, Ip!ScanMove, Ip!Place
<1>10. Scanning'
  BY <1>2, <1>7, <1>8, <1>9, SeenKept DEF Scanning, Scan, queueVars
<1>11. call' = "none"
  BY <1>1 DEF Scan, ctrlVars, Base, ControlInv, CallInv
<1> QED
  BY <1>1, <1>10, <1>11 DEF HistInv, Between

(* A scan counts upwards from one, with the overflow not shown. *)
LEMMA InScan ==
  ASSUME Base, HistInv, scan # "none"
  PROVE  Scanning /\ overflow = FALSE /\ ipCounted /\ ~loading
                  /\ phase = "FETCH" /\ call = "none"
BY DEF HistInv, Base, ControlInv, TypeInv, LineInv, Ip!LoopCounterClean,
       Ip!TypeOK, CallInv

LEMMA ScanMatchSeen ==
  ASSUME Base, HistInv, ScanMatch, seen' = seen
  PROVE  HistInv'
<1>1. /\ scan # "none" /\ scan' = "none" /\ Ip!ScanMove /\ loop = 1
      /\ Ip!ScanInsn = Ip!Other
  BY DEF ScanMatch, Ip!ScanMatch
<1>2. Scanning /\ overflow = FALSE /\ ~loading
  BY <1>1, InScan
<1>3. PICK m \in Nat : Walked(m)
  BY <1>2 DEF Scanning
<1>4. PICK e \in Nat : e = m + 1
  OBVIOUS
<1>5. /\ Seen!Walk(e) = Ip!ScanPlace /\ Seen!Depth(e) = 0
      /\ Ip!ScanPlace \in Ip!Place /\ Ip!ScanInsn = seen.code[Ip!ScanPlace]
  BY <1>1, <1>2, <1>3, <1>4, OneMorePlace
<1>6. Seen!Reach = e
  BY <1>2, <1>3, <1>4, <1>5, ReachIsFirst DEF Scanning, Walked
<1>7. ~Seen!TooDeep /\ Seen!Place = Ip!ScanPlace
  BY <1>2, <1>5, <1>6, RingSizes
  DEF Seen!TooDeep, Seen!Place, Scanning, Kept
<1>8. Kept'
  BY <1>1, <1>2, KeptOn DEF Scanning, ScanMatch, Ip!ScanMove, queueVars
<1>9. Fetched'
  BY <1>1, <1>2, <1>5, <1>7, <1>8, SeenKept, CodeKept
  DEF Fetched, Scanning, ScanMatch, Ip!ScanMove, queueVars, Ip!Place
<1> QED
  BY <1>1, <1>2, <1>9 DEF HistInv, ScanMatch, Ip!ScanMove, Between

(* A fetch while loading moves IP to where the programmer has it already. *)
LEMMA LoadFetchSeen ==
  ASSUME Base, HistInv, LoadFetch, seen' = seen
  PROVE  HistInv'
<1> USE DEF Ip!loopVars
<1>1. /\ seen = Now /\ loading /\ loading' = loading
      /\ phase = "FETCH" /\ phase' = "INSN" /\ ipCounted'
      /\ scan' = "none" /\ call' = "insn"
  BY DEF LoadFetch, AtFetch, HistInv, Ip!LoadFetch, Between
<1>2. NextPlace' = NextPlace
  BY <1>1 DEF NextPlace, LoadFetch, Ip!LoadFetch, Ip!WrapInc, WrapInc
<1>3. Tape' = Tape /\ UNCHANGED <<dataMem, ap, data>>
  BY DEF LoadFetch, apVars, Tape, Ap!CellValue
<1>4. Code' = Code
  BY CodeKept DEF LoadFetch, Ip!LoadFetch
<1>5. UNCHANGED <<mode, halted, overflow, rx, insnIn, tx>>
  BY DEF LoadFetch, Ip!LoadFetch, queueVars
<1>6. Now' = Now
  BY <1>1, <1>2, <1>3, <1>4, <1>5 DEF Now, NextPlace, Tape, Code
<1> QED
  BY <1>1, <1>6 DEF HistInv

LEMMA TakeInsnSeen ==
  ASSUME Base, HistInv, TakeInsn, seen' = seen
  PROVE  HistInv'
<1> USE DEF Ip!loopVars
<1>1. /\ SeesNow /\ phase = "INSN" /\ halted = FALSE /\ loading
  <2>1. halted \in BOOLEAN
    BY DEF Base, ControlInv, TypeInv, ControlTypes
  <2> QED
    BY <2>1, CallStarts
    DEF TakeInsn, AtInsn, Base, ControlInv, CallInv, WaitIsConsistent
<1>2. Kept /\ seen.branch = FALSE /\ seen.pc = ip
  BY <1>1 DEF SeesNow, Kept, Pending, NextPlace
<1>3. /\ loading' = loading /\ ip' = ip /\ insn' = Head(insnIn)
      /\ insnIn # <<>> /\ insnIn' = Tail(insnIn) /\ scan' = "none"
  BY DEF TakeInsn, Ip!TakeInsn
<1>4. Kept'
  BY <1>2, <1>3, KeptOn DEF TakeInsn, Ip!TakeInsn
<1>5. IsEot(insn)' <=> IsEot(Head(insnIn))
  BY <1>3 DEF IsEot, TakeInsn
<1>6. Code' = IF IsEot(insn)' \/ ip >= BootBase THEN Code
              ELSE [Code EXCEPT ![ip] = insn']
  <2>1. ip \in Ip!Place /\ codeRam \in [Ip!RamPlace -> Ip!Opcode]
    BY DEF Base, ControlInv, TypeInv, LineInv, Ip!TypeOK
  <2>2. CASE IsEot(insn)' \/ ip >= BootBase
    <3>1. UNCHANGED <<codeRam, bootRom>>
      BY <1>5, <2>1, <2>2, RingSizes
      DEF TakeInsn, Ip!TakeInsn, Ip!WriteCode
    <3> QED
      BY <2>2, <3>1, CodeKept DEF Ip!memVars
  <2>3. CASE ~(IsEot(insn)' \/ ip >= BootBase)
    <3>1. bootRom' = bootRom /\ codeRam' = [codeRam EXCEPT ![ip] = insn']
      BY <1>3, <1>5, <2>1, <2>3, RingSizes
      DEF TakeInsn, Ip!TakeInsn, Ip!WriteCode
    <3>2. \A a \in Ip!Place : Ip!ReadCode(a)' =
            IF a = ip THEN insn' ELSE Ip!ReadCode(a)
      BY <2>1, <2>3, <3>1, RingSizes DEF Ip!ReadCode, Ip!RamPlace
    <3> QED
      BY <2>1, <2>3, <3>2 DEF Code, Ip!Place
  <2> QED
    BY <2>2, <2>3
<1>7. Taken'
  BY <1>1, <1>2, <1>3, <1>4, <1>6 DEF Taken, SeesNow
<1> QED
  BY <1>1, <1>3, <1>7 DEF HistInv, TakeInsn, Between

LEMMA DecodeCinSeen ==
  ASSUME Base, HistInv, DecodeCin, seen' = seen
  PROVE  HistInv'
<1>1. ~loading /\ Fetched /\ Operation(mode, insn) = "CIN" /\ scan = "none"
  BY DEF DecodeCin, Decodes, HistInv, Base, ControlInv, CallInv
<1>2. UNCHANGED ipVars /\ UNCHANGED <<apVars, mode, halted, queueVars, tx>>
  BY DEF DecodeCin
<1>3. Kept'
  BY <1>1, <1>2, KeptOn DEF Fetched, ipVars, queueVars
<1>4. Fetched'
  BY <1>1, <1>2, <1>3, SeenKept, CodeKept
  DEF Fetched, ipVars, queueVars, Ip!memVars, Ip!Place
<1> QED
  BY <1>1, <1>2, <1>4 DEF HistInv, DecodeCin, ipVars, Between

-----------------------------------------------------------------------------
(* The steps that return: each is a step of Architecture, or is not seen.  *)

(* Nothing is done to the cells. *)
LEMMA CellsKept ==
  ASSUME Base, CellsSeen, CellsSeen', UNCHANGED apVars
  PROVE  UNCHANGED Seen!cells
BY CellOperations DEF Base, ControlInv, TypeInv, LineInv

LEMMA OverflowFails ==
  ASSUME Base, HistInv, Overflow, seen' = Now'
  PROVE  HistInv' /\ Seen!Fail
<1>1. /\ UNCHANGED <<apVars, mode, call, cfg, queueVars, tx>>
      /\ UNCHANGED Ip!memVars /\ loading' = loading
      /\ halted' = TRUE /\ overflow' = TRUE /\ phase' = "FETCH"
      /\ ipCounted' = FALSE
  BY DEF Overflow, Ip!StartOverflow, Ip!ScanOverflow
<1>2. scan' = "none" /\ call = "none" /\ ~loading /\ Kept /\ seen.code = Code
        /\ seen.insnIn = insnIn
  <2>1. CASE AtFetch /\ Ip!StartOverflow(LoopValZero)
    <3>1. SeesNow
      BY <2>1, CallStarts DEF AtFetch
    <3> QED
      BY <2>1, <3>1, Decision DEF Ip!StartOverflow, Ip!AtNext, AtFetch,
                                  Between, SeesNow
  <2>2. CASE Ip!ScanOverflow
    BY <2>2, InScan DEF Ip!ScanOverflow, Scanning
  <2> QED
    BY <2>1, <2>2 DEF Overflow
<1>3. HistInv' /\ SeesNow'
  BY <1>1, <1>2, Returned DEF Between
<1>4. /\ Seen!TooDeep
      /\ ip' = IF seen.error THEN seen.pc ELSE Seen!After(Seen!Place)
  <2>1. CASE AtFetch /\ Ip!StartOverflow(LoopValZero)
    <3>1. SeesNow /\ scan = "none" /\ phase = "FETCH"
      BY <2>1, CallStarts DEF AtFetch, Between
    <3>2. Seen!Jumps
      BY <2>1, <3>1, Decision DEF Ip!StartOverflow
    <3>3. overflow = TRUE
      <4>1. overflow \in BOOLEAN /\ ((loop = 0 /\ ~overflow) \/ overflow)
        BY <3>1 DEF Base, ControlInv, TypeInv, LineInv, Ip!TypeOK,
                    Ip!LoopCounterClean
      <4>2. Ip!LoopTop # 0
        BY RingSizes
      <4> QED
        BY <2>1, <4>1, <4>2 DEF Ip!StartOverflow
    <3>4. ip' = NextPlace
      BY <2>1, <3>1 DEF Ip!StartOverflow, Ip!AtNext, Ip!HaltPlace, NextPlace,
                        Ip!WrapInc, WrapInc
    <3> QED
      BY <3>1, <3>2, <3>3, <3>4 DEF SeesNow, Seen!TooDeep
  <2>2. CASE Ip!ScanOverflow
    <3>1. /\ scan # "none" /\ Ip!ScanInsn = Ip!Own /\ loop = Ip!LoopTop
          /\ ip' = Ip!HaltPlace(Ip!ScanPlace)
      BY <2>2 DEF Ip!ScanOverflow
    <3>2. Scanning /\ overflow = FALSE /\ ipCounted
      BY <3>1, InScan
    <3>3. PICK m \in Nat : Walked(m)
      BY <3>2 DEF Scanning
    <3>4. PICK e \in Nat : e = m + 1
      OBVIOUS
    <3>5. Seen!Walk(e) = Ip!ScanPlace /\ Seen!Depth(e) = LoopSize
      BY <3>1, <3>2, <3>3, <3>4, OneMorePlace, RingSizes
    <3>6. Seen!Reach = e
      BY <3>2, <3>3, <3>4, <3>5, ReachIsFirst DEF Scanning, Walked
    <3>7. Seen!TooDeep /\ Seen!Place = Ip!ScanPlace
      BY <3>2, <3>5, <3>6 DEF Seen!TooDeep, Seen!Place, Scanning
    <3>8. ip' = Seen!After(Seen!Place)
      BY <3>1, <3>2, <3>7 DEF Seen!After, Ip!HaltPlace, Ip!WrapInc
    <3> QED
      BY <3>2, <3>7, <3>8 DEF Scanning, Kept
  <2> QED
    BY <2>1, <2>2 DEF Overflow
<1>5. UNCHANGED Seen!cells
  BY <1>1, <1>2, <1>3, CellsKept DEF Kept, SeesNow
<1>6. UNCHANGED <<seen.code, seen.mode, seen.loading, seen.waiting>>
  BY <1>1, <1>2, <1>3, CodeKept DEF Kept, SeesNow
<1>7. UNCHANGED Seen!queues /\ UNCHANGED cfg
  BY <1>1, <1>2, <1>3 DEF Kept, SeesNow, Seen!queues, queueVars
<1>8. /\ seen.pc' = ip' /\ seen.halted' = TRUE /\ seen.error' = TRUE
      /\ seen.branch' = FALSE
  BY <1>1, <1>3 DEF SeesNow, NextPlace, Pending
<1>9. Seen!Running /\ ~seen.loading
  BY <1>2 DEF Kept, Seen!Running
<1> QED
  BY <1>3, <1>4, <1>5, <1>6, <1>7, <1>8, <1>9 DEF Seen!Fail

(* A machine that waits again is still where it waited. *)
LEMMA SameNow ==
  ASSUME UNCHANGED <<apVars, ipVars, cfg, mode, halted, phase, queueVars, tx>>
  PROVE  Now' = Now
<1>1. Tape' = Tape /\ UNCHANGED <<dataMem, ap, data>>
  BY DEF apVars, Tape, Ap!CellValue
<1>2. Code' = Code
  BY CodeKept DEF ipVars, Ip!memVars
<1> QED
  BY <1>1, <1>2 DEF Now, Tape, Code, ipVars, queueVars

LEMMA WaitInsnHidden ==
  ASSUME Base, HistInv, WaitInsn, seen' = Now'
  PROVE  HistInv' /\ UNCHANGED Seen!vars
<1>1. Between' /\ seen = Now
  BY DEF WaitInsn, AtInsn, Between, HistInv, Base, ControlInv, CallInv, ipVars
<1>2. Now' = Now
  BY SameNow DEF WaitInsn
<1> QED
  BY <1>1, <1>2, Returned, NotSeen DEF WaitInsn

-----------------------------------------------------------------------------
(* The opcodes mean what they mean to MachineCtrl. *)
LEMMA SameOperation ==
  ASSUME NEW isa, NEW op
  PROVE  Seen!Operation(isa, op) = Operation(isa, op)
BY DEF Operation, Seen!Operation, ISA_BF, Seen!ISA_BF, ISA_DEBUG,
       Seen!ISA_DEBUG, OP_HALT, Seen!OP_HALT, OP_CLRD, Seen!OP_CLRD, OP_ISA0,
       Seen!OP_ISA0, OP_ISA1, Seen!OP_ISA1, BF_LBEG, Seen!BF_LBEG, BF_LEND,
       Seen!BF_LEND, DBG_BELL, Seen!DBG_BELL, DBG_SOT, Seen!DBG_SOT, DBG_CLRL,
       Seen!DBG_CLRL, DBG_CLRI, Seen!DBG_CLRI, DBG_CLRA, Seen!DBG_CLRA,
       DBG_HRST, Seen!DBG_HRST, DBG_SRST, Seen!DBG_SRST, BF_INC, Seen!BF_INC,
       BF_DEC, Seen!BF_DEC, BF_AINC, Seen!BF_AINC, BF_ADEC, Seen!BF_ADEC,
       BF_COUT, Seen!BF_COUT, BF_CIN, Seen!BF_CIN, BF_CLRML, Seen!BF_CLRML,
       BF_LOAD, Seen!BF_LOAD, BF_STORE, Seen!BF_STORE

(* Which opcodes an operation can come from, as far as the proofs ask. *)
LEMMA OperationOpcodes ==
  ASSUME NEW isa \in Isas, NEW op \in Opcode
  PROVE  /\ Operation(isa, op) = "ISA0" <=> op = OP_ISA0
         /\ Operation(isa, op) = "ISA1" <=> op = OP_ISA1
         /\ Operation(isa, op) = "INC" => op = BF_INC
         /\ Operation(isa, op) = "DEC" => op = BF_DEC
         /\ Operation(isa, op) = "AINC" => op = BF_AINC
         /\ Operation(isa, op) = "ADEC" => op = BF_ADEC
         /\ op \in {BF_LBEG, BF_LEND} => Operation(isa, op) \in {"TEST", "NOP"}
<1> USE DEF Operation, OP_HALT, OP_CLRD, OP_ISA0, OP_ISA1, BF_LBEG, BF_LEND,
            BF_INC, BF_DEC, BF_AINC, BF_ADEC, BF_COUT, BF_CIN, BF_CLRML,
            BF_LOAD, BF_STORE, DBG_BELL, DBG_SOT, DBG_CLRL, DBG_CLRI,
            DBG_CLRA, DBG_HRST, DBG_SRST, ISA_BF, ISA_DEBUG
<1>1. op = OP_ISA0 => Operation(isa, op) = "ISA0"
  OBVIOUS
<1>8. op = OP_ISA1 => Operation(isa, op) = "ISA1"
  OBVIOUS
<1>9. op \in {BF_LBEG, BF_LEND} => Operation(isa, op) \in {"TEST", "NOP"}
  OBVIOUS
<1>2. Operation(isa, op) = "ISA0" => op = OP_ISA0
  OBVIOUS
<1>3. Operation(isa, op) = "ISA1" => op = OP_ISA1
  OBVIOUS
<1>4. Operation(isa, op) = "INC" => op = BF_INC
  OBVIOUS
<1>5. Operation(isa, op) = "DEC" => op = BF_DEC
  OBVIOUS
<1>6. Operation(isa, op) = "AINC" => op = BF_AINC
  OBVIOUS
<1>7. Operation(isa, op) = "ADEC" => op = BF_ADEC
  OBVIOUS
<1> HIDE DEF Operation
<1> QED
  BY <1>1, <1>2, <1>3, <1>4, <1>5, <1>6, <1>7, <1>8, <1>9

LEMMA IsaOf ==
  ASSUME NEW isa \in Isas, NEW op \in Opcode
  PROVE  Seen!Isa(Seen!Operation(isa, op)) =
           IF op = OP_ISA0 THEN ISA_DEBUG
           ELSE IF op = OP_ISA1 THEN ISA_BF ELSE seen.mode
BY SameOperation, OperationOpcodes
DEF Seen!Isa, Seen!ISA_DEBUG, Seen!ISA_BF, ISA_DEBUG, ISA_BF, OP_ISA0, OP_ISA1

(* A reset of the machine is the reset of Architecture, whatever it was    *)
(* doing.                                                                  *)
LEMMA ResetRefines ==
  ASSUME Base, CellsSeen, SeesNow', NEW hard \in BOOLEAN, Ap!ApReset,
         Ip!ResetLines(hard), mode' = IF hard THEN ISA_DEBUG ELSE ISA_BF,
         halted' = ~(IF hard THEN cfg.runOnHardRst ELSE cfg.runOnSoftRst),
         phase' = "FETCH"
  PROVE  Seen!Reset(hard)
<1>1. Seen!Cells!Reset
  BY CellOperations DEF Base, ControlInv, TypeInv, LineInv, SeesNow
<1>2. /\ seen.pc' = IF hard THEN BootBase ELSE 0
      /\ seen.branch' = FALSE /\ seen.error' = FALSE
      /\ seen.loading' = FALSE /\ seen.waiting' = FALSE
  BY DEF SeesNow, NextPlace, Pending, Ip!ResetLines
<1>3. seen.mode' = mode' /\ seen.halted' = halted'
  BY DEF SeesNow
<1> QED
  BY <1>1, <1>2, <1>3
  DEF Seen!Reset, Seen!ISA_DEBUG, Seen!ISA_BF, ISA_DEBUG, ISA_BF

(* The decode of an opcode of a load ends the call that took it. *)
LEMMA LoadDecodes ==
  ASSUME Base, HistInv, DecodeEot \/ DecodeIsa \/ DecodeStored, loading,
         seen' = Now'
  PROVE  HistInv' /\ Seen!LoadOne
<1> DEFINE end == mode = ISA_DEBUG /\ insn = DBG_EOT
<1>1. /\ call = "decode" /\ call' = "none" /\ UNCHANGED <<cfg, queueVars>>
      /\ UNCHANGED tx
  BY DEF DecodeEot, DecodeIsa, DecodeStored, Retire
<1>2. /\ Taken /\ Kept /\ scan = "none" /\ phase = "FETCH" /\ ipCounted = TRUE
      /\ cfg.softRstOnEot \in BOOLEAN
  BY <1>1
  DEF HistInv, Taken, Base, ControlInv, CallInv, TypeInv, ControlTypes,
      LineInv, Ip!TypeOK, Switches
<1>3. scan' = "none" /\ phase' = "FETCH" /\ UNCHANGED Ip!memVars
  BY <1>2
  DEF DecodeEot, DecodeIsa, DecodeStored, Ip!EndLoading, ipVars, Ip!memVars
<1>4. HistInv' /\ SeesNow'
  BY <1>1, <1>3, Returned DEF Between
<1>5. mode \in Isas /\ insn \in Opcode /\ ip \in Ip!Place
  BY DEF Base, ControlInv, TypeInv, ControlTypes, LineInv, Ip!TypeOK,
         Ip!Opcode, Opcode
<1>6. /\ UNCHANGED <<cfg, seen.rx, seen.tx>>
      /\ Seen!Running /\ seen.loading /\ seen.insnIn # <<>>
      /\ seen.insnIn' = Tail(seen.insnIn)
      /\ Head(seen.insnIn) = insn
  BY <1>1, <1>2, <1>4 DEF Taken, Kept, SeesNow, queueVars, Seen!Running
<1>7. (seen.mode = Seen!ISA_DEBUG /\ insn = Seen!DBG_EOT) <=> end
  BY <1>2 DEF Kept, Seen!ISA_DEBUG, ISA_DEBUG, Seen!DBG_EOT, DBG_EOT
<1>8. seen.code' = IF end \/ seen.pc >= BootBase THEN seen.code
                   ELSE [seen.code EXCEPT ![seen.pc] = insn]
  BY <1>2, <1>3, <1>4, CodeKept DEF Taken, SeesNow, IsEot
<1>9. IF end /\ cfg.softRstOnEot THEN Seen!Reset(FALSE)
      ELSE /\ seen.pc' = Seen!After(seen.pc)
           /\ seen.mode' = Seen!Isa(Seen!Operation(seen.mode, insn))
           /\ seen.halted' = end
           /\ seen.loading' = ~end
           /\ UNCHANGED <<Seen!cells, seen.branch, seen.error, seen.waiting>>
  <2>1. ASSUME UNCHANGED apVars
        PROVE  UNCHANGED Seen!cells
    BY <1>2, <1>4, <2>1, CellsKept DEF Kept, SeesNow
  <2>2. /\ seen.mode = mode /\ seen.mode' = mode' /\ seen.pc = ip
        /\ seen.branch = FALSE /\ seen.error = overflow
        /\ seen.error' = overflow' /\ seen.waiting = FALSE
        /\ seen.waiting' = FALSE /\ seen.halted = FALSE /\ halted = FALSE
        /\ seen.halted' = halted' /\ seen.loading' = loading'
        /\ seen.pc' = IF ipCounted' THEN WrapInc(ip', IpSize) ELSE ip'
        /\ seen.branch' = Pending'
    BY <1>2, <1>3, <1>4 DEF Taken, Kept, SeesNow, NextPlace
  <2>3. CASE DecodeEot
    <3>1. end
      BY <2>3 DEF DecodeEot, IsEot
    <3>2. CASE cfg.softRstOnEot
      <4>1. /\ Ap!ApReset /\ mode' = ISA_BF /\ halted' = ~cfg.runOnSoftRst
            /\ Ip!ResetLines(FALSE)
        BY <2>3, <3>2 DEF DecodeEot, Ip!EndLoading
      <4> QED
        BY <1>2, <1>3, <1>4, <3>1, <3>2, <4>1, ResetRefines DEF Kept
    <3>3. CASE ~cfg.softRstOnEot
      <4>1. /\ ip' = WrapInc(ip, IpSize) /\ ipCounted' = FALSE
            /\ loading' = FALSE /\ overflow' = overflow
            /\ UNCHANGED <<apVars, mode>> /\ halted' = TRUE
        BY <1>2, <2>3, <3>3
        DEF DecodeEot, Ip!EndLoading, Ip!HaltPlace, Ip!WrapInc, WrapInc
      <4>2. Seen!Isa(Seen!Operation(seen.mode, insn)) = seen.mode
        BY <1>5, <2>2, <3>1, IsaOf, OperationOpcodes
        DEF DBG_EOT, OP_ISA0, OP_ISA1
      <4>3. seen.branch' = FALSE
        BY <2>2, <4>1 DEF Pending
      <4> QED
        BY <2>1, <2>2, <3>1, <3>3, <4>1, <4>2, <4>3 DEF Seen!After, WrapInc
    <3> QED
      BY <3>2, <3>3
  <2>4. CASE DecodeIsa \/ DecodeStored
    <3>1. ~end /\ UNCHANGED <<apVars, halted>> /\ UNCHANGED ipVars
      BY <2>4 DEF DecodeIsa, DecodeStored, IsEot, OP_ISA0, OP_ISA1, DBG_EOT
    <3>2. mode' = Seen!Isa(Seen!Operation(seen.mode, insn))
      BY <1>5, <2>2, <2>4, IsaOf, OperationOpcodes
      DEF DecodeIsa, DecodeStored, OP_ISA0, OP_ISA1
    <3>3. loading' = TRUE /\ seen.branch' = FALSE
      <4>1. loading \in BOOLEAN
        BY DEF Base, ControlInv, TypeInv, LineInv, Ip!TypeOK
      <4> QED
        BY <2>2, <3>1, <4>1 DEF Pending, ipVars
    <3>4. seen.pc' = Seen!After(seen.pc) /\ overflow' = overflow
      BY <1>2, <2>2, <3>1 DEF ipVars, Seen!After, WrapInc
    <3> QED
      BY <2>1, <2>2, <3>1, <3>2, <3>3, <3>4
  <2> QED
    BY <2>3, <2>4
<1> QED
  BY <1>4, <1>6, <1>7, <1>8, <1>9 DEF Seen!LoadOne

-----------------------------------------------------------------------------
(* The decode of an instruction, and a CIN with its character or without,  *)
(* ends a call that executes the instruction that was next.                *)

(* What Architecture asks of any such call. *)
LEMMA ExecuteReady ==
  ASSUME Base, Fetched, SeesNow', UNCHANGED Ip!memVars,
         UNCHANGED <<cfg, insnIn>>
  PROVE  /\ UNCHANGED <<seen.code, cfg, seen.insnIn>>
         /\ Seen!Running /\ ~seen.loading /\ ~Seen!TooDeep
         /\ seen.code[Seen!Place] = insn
         /\ seen.mode = mode
         /\ Seen!Operation(seen.mode, insn) = Operation(mode, insn)
         /\ Seen!After(Seen!Place) = WrapInc(ip, IpSize)
         /\ Seen!Brackets = {BF_LBEG, BF_LEND}
         /\ insn \in Opcode /\ mode \in Isas
<1>1. insn \in Opcode /\ mode \in Isas
  BY DEF Base, ControlInv, TypeInv, ControlTypes, LineInv, Ip!TypeOK,
         Ip!Opcode, Opcode
<1>2. Code' = Code
  BY CodeKept
<1> QED
  BY <1>1, <1>2, SameOperation
  DEF Fetched, Kept, SeesNow, Seen!Running, Seen!After, WrapInc,
      Seen!Brackets, Seen!BF_LBEG, Seen!BF_LEND, BF_LBEG, BF_LEND

(* An instruction that leaves the instruction side alone. *)
LEMMA GoesOn ==
  ASSUME Base, Fetched, SeesNow', UNCHANGED ipVars, UNCHANGED <<cfg, insnIn>>,
         ipCounted, phase' # "INSN"
  PROVE  /\ seen.pc' = Seen!After(Seen!Place)
         /\ seen.branch' = (insn \in Seen!Brackets)
         /\ UNCHANGED <<seen.loading, seen.error>>
<1>1. UNCHANGED Ip!memVars /\ ipCounted' /\ ~loading'
  BY DEF ipVars, Ip!memVars, Fetched
<1>2. seen.branch' = (insn \in {BF_LBEG, BF_LEND})
  BY <1>1 DEF SeesNow, Pending, ipVars
<1> QED
  BY <1>1, <1>2, ExecuteReady
  DEF SeesNow, NextPlace, Fetched, Kept, ipVars

(* The start of a decode. *)
LEMMA AtDecode ==
  ASSUME Base, HistInv, call = "decode"
  PROVE  /\ scan = "none" /\ phase = "FETCH" /\ ipCounted = TRUE
         /\ halted = FALSE
         /\ ~loading => Fetched
BY DEF HistInv, Base, ControlInv, CallInv, TypeInv, ControlTypes, LineInv,
       Ip!TypeOK

LEMMA ControlExecutes ==
  ASSUME Base, HistInv, ~loading, call = "decode", call' = "none",
         UNCHANGED <<cfg, queueVars, tx>>, seen' = Now',
         CellsSeen' => UNCHANGED Seen!cells,
         UNCHANGED Ip!memVars, scan' = scan, insn' = insn, phase' = "FETCH",
         Operation(mode, insn) \in {"NOP", "TEST", "BELL", "HALT", "ISA0",
                                    "ISA1", "SOT", "CLRL", "CLRI"},
         halted' = (Operation(mode, insn) = "HALT"),
         mode' = IF insn = OP_ISA0 THEN ISA_DEBUG
                 ELSE IF insn = OP_ISA1 THEN ISA_BF ELSE mode,
         loading' = (Operation(mode, insn) = "SOT"),
         overflow' = (overflow /\ Operation(mode, insn) # "CLRL"),
         ip' = IF Operation(mode, insn) = "CLRI" THEN 0
               ELSE IF Operation(mode, insn) = "HALT"
               THEN WrapInc(ip, IpSize) ELSE ip,
         ipCounted' = (Operation(mode, insn) \notin {"CLRI", "HALT"})
  PROVE  HistInv' /\ Seen!Execute
<1> DEFINE operation == Operation(mode, insn)
<1>1. Fetched /\ scan = "none" /\ Kept
  BY AtDecode DEF Fetched
<1>2. HistInv' /\ SeesNow'
  BY <1>1, Returned DEF Between
<1>3. /\ UNCHANGED <<seen.code, cfg, seen.insnIn>>
      /\ Seen!Running /\ ~seen.loading /\ ~Seen!TooDeep
      /\ seen.code[Seen!Place] = insn
      /\ Seen!Operation(seen.mode, insn) = operation
      /\ Seen!After(Seen!Place) = WrapInc(ip, IpSize)
      /\ Seen!Brackets = {BF_LBEG, BF_LEND} /\ seen.mode = mode
      /\ insn \in Opcode /\ mode \in Isas
  BY <1>1, <1>2, ExecuteReady DEF queueVars
<1>4. seen.pc' = IF operation = "CLRI" THEN 0 ELSE Seen!After(Seen!Place)
  BY <1>2, <1>3 DEF SeesNow, NextPlace
<1>5. seen.branch' = (insn \in Seen!Brackets)
  <2>1. insn \in {BF_LBEG, BF_LEND} => operation \in {"TEST", "NOP"}
    BY <1>3, OperationOpcodes
  <2>2. seen.branch' = (ipCounted' /\ ~loading' /\ insn \in {BF_LBEG, BF_LEND})
    BY <1>2 DEF SeesNow, Pending
  <2>3. insn \in {BF_LBEG, BF_LEND} => ipCounted' /\ ~loading'
    BY <2>1
  <2>4. seen.branch' = (insn \in {BF_LBEG, BF_LEND})
    BY <2>2, <2>3
  <2> QED
    BY <1>3, <2>4
<1>6. Seen!OnControl(operation)
  <2>1. seen.halted' = (operation = "HALT")
    BY <1>2 DEF SeesNow
  <2>2. seen.mode' = Seen!Isa(operation)
    <3>1. Seen!Isa(Seen!Operation(mode, insn)) = mode'
      BY <1>3, IsaOf
    <3> QED
      BY <1>2, <1>3, <3>1 DEF SeesNow
  <2>3. /\ seen.loading' = (operation = "SOT")
        /\ seen.error' = (seen.error /\ operation # "CLRL")
    BY <1>1, <1>2 DEF SeesNow, Kept
  <2> QED
    BY <2>1, <2>2, <2>3 DEF Seen!OnControl
<1>7. UNCHANGED <<Seen!cells, seen.waiting, seen.rx, seen.tx>>
  BY <1>1, <1>2 DEF SeesNow, Kept, queueVars
<1> QED
  BY <1>2, <1>3, <1>4, <1>5, <1>6, <1>7 DEF Seen!Execute

LEMMA CellsExecute ==
  ASSUME Base, HistInv, ~loading, call = "decode", call' = "none",
         UNCHANGED <<cfg, queueVars, mode, halted, phase>>,
         UNCHANGED ipVars, seen' = Now',
         \/ tx' = tx /\ (CellsSeen' => Seen!OnCells(Operation(mode, insn)))
         \/ /\ Operation(mode, insn) = "COUT"
            /\ Sent(data')
            /\ CellsSeen' => Seen!Cells!Emit
  PROVE  HistInv' /\ Seen!Execute
<1> DEFINE operation == Operation(mode, insn)
<1>1. Fetched /\ scan = "none" /\ Kept /\ ipCounted /\ phase = "FETCH"
  BY AtDecode DEF Fetched
<1>2. HistInv' /\ SeesNow'
  BY <1>1, Returned DEF Between, ipVars
<1>3. /\ UNCHANGED <<seen.code, cfg, seen.insnIn>>
      /\ Seen!Running /\ ~seen.loading /\ ~Seen!TooDeep
      /\ seen.code[Seen!Place] = insn
      /\ Seen!Operation(seen.mode, insn) = operation
  BY <1>1, <1>2, ExecuteReady DEF queueVars, ipVars, Ip!memVars
<1>4. /\ seen.pc' = Seen!After(Seen!Place)
      /\ seen.branch' = (insn \in Seen!Brackets)
      /\ UNCHANGED <<seen.loading, seen.error>>
  BY <1>1, <1>2, GoesOn DEF queueVars
<1>5. /\ UNCHANGED <<seen.halted, seen.mode, seen.waiting, seen.rx>>
      /\ CellsSeen' /\ tx = seen.tx /\ tx' = seen.tx' /\ data' = seen.acc'
  BY <1>1, <1>2 DEF SeesNow, Kept, CellsSeen, queueVars
<1>6. operation # "CLRI"
  BY <1>5 DEF Seen!OnCells
<1>7. \/ Seen!OnCells(operation) /\ UNCHANGED <<seen.waiting, seen.rx, seen.tx>>
      \/ /\ operation = "COUT"
         /\ Seen!Cells!Emit
         /\ seen.tx' = Seen!Shown(seen.acc')
         /\ UNCHANGED <<seen.waiting, seen.rx>>
  <2>1. ASSUME Sent(data') PROVE seen.tx' = Seen!Shown(seen.acc')
    <3>1. tx \in Seq(Ap!Byte) /\ MaxTx \in Nat
      BY DekatronPCAssumption DEF Base, ControlInv, TypeInv, ControlTypes
    <3>2. Len(Append(tx, data')) = Len(tx) + 1 /\ Len(tx) \in Nat
      BY <3>1
    <3> QED
      BY <1>5, <2>1, <3>1, <3>2 DEF Sent, Seen!Shown
  <2> QED
    BY <1>5, <2>1
<1> QED
  BY <1>2, <1>3, <1>4, <1>5, <1>6, <1>7 DEF Seen!Execute

LEMMA DecodeControl ==
  ASSUME Base, HistInv, ~loading, seen' = Now',
         DecodeIsa \/ DecodeNop \/ DecodeHalt \/ DecodeBell \/ DecodeIp
  PROVE  HistInv' /\ Seen!Execute
<1> DEFINE operation == Operation(mode, insn)
<1> USE DEF Retire, Ip!loopVars
<1>1. /\ call = "decode" /\ call' = "none" /\ UNCHANGED <<cfg, queueVars, tx>>
      /\ UNCHANGED apVars
  BY DEF DecodeIsa, DecodeNop, DecodeHalt, DecodeBell, DecodeIp
<1>2. /\ Fetched /\ phase = "FETCH" /\ ipCounted = TRUE /\ halted = FALSE
      /\ loading = FALSE /\ overflow \in BOOLEAN
      /\ mode \in Isas /\ insn \in Opcode
  BY <1>1, AtDecode
  DEF Base, ControlInv, TypeInv, ControlTypes, LineInv, Ip!TypeOK, Ip!Opcode,
      Opcode
<1>3. CellsSeen' => UNCHANGED Seen!cells
  BY <1>1, <1>2, CellsKept DEF Fetched, Kept
<1>4. UNCHANGED Ip!memVars /\ scan' = scan /\ insn' = insn /\ phase' = "FETCH"
  BY <1>2
  DEF DecodeIsa, DecodeNop, DecodeHalt, DecodeBell, DecodeIp, EnterHalt,
      Ip!EnterHalt, Ip!StartLoading, Ip!ClrL, Ip!ClrI, ipVars, Ip!memVars
<1>5. insn = OP_ISA0 <=> operation = "ISA0"
  BY <1>2, OperationOpcodes
<1>6. insn = OP_ISA1 <=> operation = "ISA1"
  BY <1>2, OperationOpcodes
<1>7. CASE DecodeIsa \/ DecodeNop \/ DecodeBell
  <2>1. operation \in {"ISA0", "ISA1", "NOP", "BELL"}
    BY <1>5, <1>6, <1>7 DEF DecodeIsa, DecodeNop, DecodeBell, Decodes
  <2>2. UNCHANGED ipVars /\ UNCHANGED halted
    BY <1>7 DEF DecodeIsa, DecodeNop, DecodeBell
  <2>3. mode' = IF insn = OP_ISA0 THEN ISA_DEBUG
                ELSE IF insn = OP_ISA1 THEN ISA_BF ELSE mode
    BY <1>5, <1>6, <1>7
    DEF DecodeIsa, DecodeNop, DecodeBell, Decodes, OP_ISA0, OP_ISA1
  <2> HIDE DEF operation
  <2>4. /\ halted' = (operation = "HALT") /\ loading' = (operation = "SOT")
        /\ overflow' = (overflow /\ operation # "CLRL")
        /\ ip' = IF operation = "CLRI" THEN 0
                 ELSE IF operation = "HALT" THEN WrapInc(ip, IpSize) ELSE ip
        /\ ipCounted' = (operation \notin {"CLRI", "HALT"})
        /\ operation \in {"NOP", "TEST", "BELL", "HALT", "ISA0", "ISA1", "SOT",
                          "CLRL", "CLRI"}
    BY <1>2, <2>1, <2>2 DEF ipVars
  <2> QED
    BY <1>1, <1>3, <1>4, <2>3, <2>4, ControlExecutes DEF operation
<1>8. CASE DecodeHalt \/ DecodeIp
  <2>1. operation \in {"HALT", "SOT", "CLRL", "CLRI"} /\ UNCHANGED mode
    BY <1>8 DEF DecodeHalt, DecodeIp, Decodes
  <2>2. mode' = IF insn = OP_ISA0 THEN ISA_DEBUG
                ELSE IF insn = OP_ISA1 THEN ISA_BF ELSE mode
    BY <1>5, <1>6, <2>1
  <2>3. \/ operation = "HALT" /\ Ip!EnterHalt /\ halted' = TRUE
        \/ operation = "SOT" /\ Ip!StartLoading /\ halted' = halted
        \/ operation = "CLRL" /\ Ip!ClrL /\ halted' = halted
        \/ operation = "CLRI" /\ Ip!ClrI /\ halted' = halted
    BY <1>8 DEF DecodeHalt, DecodeIp, Decodes, EnterHalt
  <2> HIDE DEF operation
  <2>4. /\ halted' = (operation = "HALT") /\ loading' = (operation = "SOT")
        /\ overflow' = (overflow /\ operation # "CLRL")
        /\ ip' = IF operation = "CLRI" THEN 0
                 ELSE IF operation = "HALT" THEN WrapInc(ip, IpSize) ELSE ip
        /\ ipCounted' = (operation \notin {"CLRI", "HALT"})
        /\ operation \in {"NOP", "TEST", "BELL", "HALT", "ISA0", "ISA1", "SOT",
                          "CLRL", "CLRI"}
    BY <1>2, <2>3
    DEF Ip!EnterHalt, Ip!StartLoading, Ip!ClrL, Ip!ClrI, Ip!HaltPlace,
        Ip!WrapInc, WrapInc
  <2> QED
    BY <1>1, <1>3, <1>4, <2>2, <2>4, ControlExecutes DEF operation
<1> QED
  BY <1>7, <1>8

LEMMA DecodeCells ==
  ASSUME Base, HistInv, seen' = Now', DecodeAp \/ DecodeCout
  PROVE  HistInv' /\ Seen!Execute
<1> DEFINE operation == Operation(mode, insn)
<1>1. /\ call = "decode" /\ call' = "none" /\ UNCHANGED <<cfg, queueVars>>
      /\ UNCHANGED <<mode, halted, phase>> /\ UNCHANGED ipVars
      /\ ~loading
  BY DEF DecodeAp, DecodeCout, Retire, Decodes
<1>2. /\ Fetched /\ phase = "FETCH" /\ ipCounted = TRUE /\ halted = FALSE
      /\ loading = FALSE /\ overflow \in BOOLEAN
      /\ mode \in Isas /\ insn \in Opcode /\ CellsSeen
  BY <1>1, AtDecode
  DEF Base, ControlInv, TypeInv, ControlTypes, LineInv, Ip!TypeOK, Ip!Opcode,
      Opcode, Fetched, Kept
<1>3. Ap!TypeOK /\ Ap!RegCoherent
  BY DEF Base, ControlInv, TypeInv, LineInv
<1>4. CASE DecodeAp /\ operation = "TEST"
  <2>1. Ap!BracketTest /\ tx' = tx
    BY <1>4 DEF DecodeAp, Decodes
  <2>2. CellsSeen' => UNCHANGED Seen!cells
    BY <1>2, <1>3, <2>1, CellOperations
  <2>3. insn # OP_ISA0 /\ insn # OP_ISA1
    BY <1>2, <1>4, OperationOpcodes
  <2> HIDE DEF operation
  <2>4. /\ halted' = (operation = "HALT") /\ loading' = (operation = "SOT")
        /\ overflow' = (overflow /\ operation # "CLRL")
        /\ ip' = IF operation = "CLRI" THEN 0
                 ELSE IF operation = "HALT" THEN WrapInc(ip, IpSize) ELSE ip
        /\ ipCounted' = (operation \notin {"CLRI", "HALT"})
        /\ operation \in {"NOP", "TEST", "BELL", "HALT", "ISA0", "ISA1", "SOT",
                          "CLRL", "CLRI"}
    BY <1>1, <1>2, <1>4 DEF ipVars
  <2>5. UNCHANGED Ip!memVars /\ scan' = scan /\ insn' = insn
    BY <1>1 DEF ipVars, Ip!memVars
  <2> QED
    BY <1>1, <1>2, <2>1, <2>2, <2>3, <2>4, <2>5, ControlExecutes DEF operation
<1>5. CASE DecodeAp /\ operation # "TEST"
  <2>1. tx' = tx
    BY <1>5 DEF DecodeAp
  <2>2. ASSUME CellsSeen' PROVE Seen!OnCells(operation)
    <3>1. \/ operation = "CLRD" /\ Ap!Take(0)
          \/ operation = "CLRA" /\ Ap!ApMove(0)
          \/ operation \in {"INC", "DEC"} /\ Ap!DataStep(insn % 2 = 1)
          \/ operation \in {"AINC", "ADEC"} /\ Ap!ApStep(insn % 2 = 1)
          \/ operation = "CLRML" /\ Ap!ClrMl
          \/ operation = "LOAD" /\ Ap!Load
          \/ operation = "STORE" /\ Ap!Store
      BY <1>5 DEF DecodeAp, Decodes, Ap!ClrD, Ap!ClrA
    <3>2. 0 \in Ap!Byte /\ 0 \in Ap!Addr
      BY DekatronPCAssumption DEF Ap!Byte, Ap!Addr
    <3>3. CASE operation = "CLRD" /\ Ap!Take(0)
      BY <1>2, <1>3, <2>2, <3>2, <3>3, CellOperations DEF Seen!OnCells
    <3>4. CASE operation = "CLRA" /\ Ap!ApMove(0)
      BY <1>2, <1>3, <2>2, <3>2, <3>4, CellOperations DEF Seen!OnCells
    <3>5. CASE operation \in {"INC", "DEC"} /\ Ap!DataStep(insn % 2 = 1)
      <4>1. (insn % 2 = 1) = (operation = "DEC")
        <5>1. insn = BF_INC \/ insn = BF_DEC
          BY <1>2, <3>5, OperationOpcodes
        <5>2. CASE insn = BF_INC
          BY <1>2, <3>5, <5>2, OperationOpcodes DEF BF_INC, BF_DEC
        <5>3. CASE insn = BF_DEC
          BY <1>2, <3>5, <5>3, OperationOpcodes DEF BF_INC, BF_DEC
        <5> QED
          BY <5>1, <5>2, <5>3
      <4>2. Seen!Cells!Count(operation = "DEC")
        BY <1>2, <1>3, <2>2, <3>5, <4>1, CellOperations
      <4> QED
        BY <3>5, <4>2 DEF Seen!OnCells
    <3>6. CASE operation \in {"AINC", "ADEC"} /\ Ap!ApStep(insn % 2 = 1)
      <4>1. (insn % 2 = 1) = (operation = "ADEC")
        <5>1. insn = BF_AINC \/ insn = BF_ADEC
          BY <1>2, <3>6, OperationOpcodes
        <5>2. CASE insn = BF_AINC
          BY <1>2, <3>6, <5>2, OperationOpcodes DEF BF_AINC, BF_ADEC
        <5>3. CASE insn = BF_ADEC
          BY <1>2, <3>6, <5>3, OperationOpcodes DEF BF_AINC, BF_ADEC
        <5> QED
          BY <5>1, <5>2, <5>3
      <4>2. PICK n \in Nat \ {0} : n = ApTop + 1
        BY DekatronPCAssumption
      <4>3. ap \in 0 .. n - 1 /\ seen.pos = ap /\ Ap!Addr = 0 .. n - 1
        BY <1>2, <1>3, <4>2, DekatronPCAssumption
        DEF Ap!TypeOK, Ap!Addr, CellsSeen
      <4>4. /\ WrapInc(ap, n) \in 0 .. n - 1 /\ WrapDec(ap, n) \in 0 .. n - 1
            /\ WrapInc(ap, n) = (ap + 1) % n
        BY <4>3, WrapIncCases, WrapDecCases DEF WrapInc
      <4>5. WrapDec(ap, n) = (ap - 1) % n
        <5>1. PICK x \in Int : x = ap - 1
          BY <4>3
        <5>2. PICK y \in Int : y = ap + n - 1 /\ y = x + n
          BY <4>3, <5>1
        <5> QED
          BY <5>1, <5>2, ModTurn DEF WrapDec
      <4>6. Ap!ApMove(IF operation = "ADEC" THEN WrapDec(ap, n)
                                            ELSE WrapInc(ap, n))
        BY <3>6, <4>1, <4>2
        DEF Ap!ApStep, Ap!WrapStep, Ap!WrapInc, Ap!WrapDec, WrapInc, WrapDec
      <4>7. \/ operation = "ADEC" /\ Seen!Cells!MoveTo((seen.pos - 1) % n)
            \/ operation = "AINC" /\ Seen!Cells!MoveTo((seen.pos + 1) % n)
        <5>1. CASE operation = "ADEC"
          <6>1. Ap!ApMove(WrapDec(ap, n)) /\ WrapDec(ap, n) \in Ap!Addr
            BY <4>3, <4>4, <4>6, <5>1
          <6>2. Seen!Cells!MoveTo(WrapDec(ap, n))
            BY <1>2, <1>3, <2>2, <6>1, CellOperations
          <6> QED
            BY <4>3, <4>5, <5>1, <6>2
        <5>2. CASE operation = "AINC"
          <6>1. Ap!ApMove(WrapInc(ap, n)) /\ WrapInc(ap, n) \in Ap!Addr
            BY <4>3, <4>4, <4>6, <5>2
          <6>2. Seen!Cells!MoveTo(WrapInc(ap, n))
            BY <1>2, <1>3, <2>2, <6>1, CellOperations
          <6> QED
            BY <4>3, <4>4, <5>2, <6>2
        <5> QED
          BY <3>6, <5>1, <5>2
      <4> QED
        BY <4>2, <4>7 DEF Seen!OnCells
    <3>7. CASE \/ operation = "CLRML" /\ Ap!ClrMl
               \/ operation = "LOAD" /\ Ap!Load
               \/ operation = "STORE" /\ Ap!Store
      BY <1>2, <1>3, <2>2, <3>7, CellOperations DEF Seen!OnCells
    <3> QED
      BY <3>1, <3>3, <3>4, <3>5, <3>6, <3>7
  <2> QED
    BY <1>1, <2>1, <2>2, CellsExecute
<1>6. CASE DecodeCout
  <2>1. Ap!Cout /\ operation = "COUT" /\ Sent(data')
    BY <1>6 DEF DecodeCout, Decodes
  <2>2. CellsSeen' => Seen!Cells!Emit
    BY <1>2, <1>3, <2>1, CellOperations
  <2> QED
    BY <1>1, <2>1, <2>2, CellsExecute
<1> QED
  BY <1>4, <1>5, <1>6

LEMMA DecodeResets ==
  ASSUME Base, HistInv, seen' = Now', DecodeReset
  PROVE  HistInv' /\ Seen!Execute
<1>1. PICK hard \in BOOLEAN :
        /\ ResetCounters(hard)
        /\ Operation(mode, insn) = IF hard THEN "HRST" ELSE "SRST"
  BY DEF DecodeReset, Decodes
<1>2. /\ call = "decode" /\ call' = "none" /\ UNCHANGED <<cfg, queueVars, tx>>
      /\ ~loading
  BY DEF DecodeReset, Retire, Decodes
<1>3. Fetched /\ scan = "none" /\ Kept
  BY <1>2, AtDecode DEF Fetched
<1>4. /\ Ap!ApReset /\ Ip!ResetLines(hard) /\ phase' = "FETCH"
      /\ mode' = IF hard THEN ISA_DEBUG ELSE ISA_BF
      /\ halted' = ~(IF hard THEN cfg.runOnHardRst ELSE cfg.runOnSoftRst)
      /\ scan' = scan /\ UNCHANGED Ip!memVars
  BY <1>1 DEF ResetCounters, Ip!IpReset
<1>5. HistInv' /\ SeesNow'
  BY <1>2, <1>3, <1>4, Returned DEF Between
<1>6. Seen!Reset(hard)
  BY <1>3, <1>4, <1>5, ResetRefines DEF Kept
<1>7. /\ UNCHANGED <<seen.code, cfg, seen.insnIn>>
      /\ Seen!Running /\ ~seen.loading /\ ~Seen!TooDeep
      /\ seen.code[Seen!Place] = insn
      /\ Seen!Operation(seen.mode, insn) = Operation(mode, insn)
  BY <1>2, <1>3, <1>4, <1>5, ExecuteReady DEF queueVars
<1>8. UNCHANGED <<seen.rx, seen.tx>>
  BY <1>2, <1>3, <1>5 DEF Kept, SeesNow, queueVars
<1>9. /\ Operation(mode, insn) \in {"HRST", "SRST"}
      /\ (Operation(mode, insn) = "HRST") = hard
  BY <1>1
<1> QED
  BY <1>5, <1>6, <1>7, <1>8, <1>9 DEF Seen!Execute

(* A character comes from the queue or from the hook. *)
LEMMA Received ==
  ASSUME Base, CellsSeen, seen.rx = rx, seen.tx = tx, SeesNow',
         NEW c \in 0 .. DataTop + 1, FinishCin(c)
  PROVE  Seen!Receive
<1>1. Ap!TypeOK /\ Ap!RegCoherent /\ rx \in Seq(Inputs)
  BY DEF Base, ControlInv, TypeInv, LineInv
<1>2. c \in Inputs \union {DataTop + 1}
  BY <1>1 DEF FinishCin, Character
<1>3. Seen!Cells!Put(c % (DataTop + 1))
  <2>1. c \in Nat
    BY DekatronPCAssumption
  <2>2. c % (DataTop + 1) \in Ap!Byte
    BY <2>1, ByteOfCharacter
  <2> QED
    BY <1>1, <2>2, CellOperations DEF FinishCin, Ap!Cin, SeesNow
<1>4. /\ seen.rx' = rx' /\ seen.tx' = tx' /\ seen.acc' = data'
      /\ seen.waiting' = FALSE
  BY DEF SeesNow, CellsSeen, FinishCin
<1>5. IF cfg.onCin THEN UNCHANGED seen.rx
      ELSE /\ seen.rx # <<>> /\ c = Head(seen.rx)
           /\ seen.rx' = Tail(seen.rx)
  BY <1>4 DEF FinishCin, Character
<1>6. seen.tx' = IF cfg.echoMode THEN Seen!Shown(seen.acc') ELSE seen.tx
  <2>1. ASSUME Sent(data') PROVE seen.tx' = Seen!Shown(seen.acc')
    <3>1. tx \in Seq(Ap!Byte) /\ MaxTx \in Nat
      BY DekatronPCAssumption DEF Base, ControlInv, TypeInv, ControlTypes
    <3>2. Len(Append(tx, data')) = Len(tx) + 1 /\ Len(tx) \in Nat
      BY <3>1
    <3> QED
      BY <1>4, <2>1, <3>1, <3>2 DEF Sent, Seen!Shown
  <2> QED
    BY <1>4, <2>1 DEF FinishCin
<1> QED
  BY <1>2, <1>3, <1>4, <1>5, <1>6 DEF Seen!Receive

LEMMA NotReceived ==
  ASSUME Base, CellsSeen, seen.rx = rx, seen.tx = tx, SeesNow', WaitCin,
         phase = "CIN"
  PROVE  Seen!Receive
<1>1. UNCHANGED Seen!cells
  BY CellsKept DEF WaitCin, SeesNow
<1>2. cfg.onCin \/ seen.rx = <<>>
  BY DEF WaitCin
<1>3. seen.waiting' = TRUE /\ UNCHANGED <<seen.rx, seen.tx>>
  BY DEF WaitCin, SeesNow, queueVars
<1> QED
  BY <1>1, <1>2, <1>3 DEF Seen!Receive

LEMMA CinReturns ==
  ASSUME Base, HistInv, seen' = Now',
         WaitCin \/ \E c \in 0 .. DataTop + 1 : FinishCin(c)
  PROVE  HistInv' /\ (Seen!Execute \/ Seen!Await)
<1>1. /\ AtCin /\ call' = "none" /\ phase' \in {"FETCH", "CIN"}
      /\ UNCHANGED ipVars /\ UNCHANGED <<mode, halted, cfg, insnIn>>
  BY DEF WaitCin, FinishCin, queueVars, AtCin, Base, ControlInv, CallInv
<1>2. phase = "CIN" /\ ipCounted = TRUE /\ halted = FALSE /\ scan = "none"
  <2>1. halted \in BOOLEAN /\ ipCounted \in BOOLEAN
    BY DEF Base, ControlInv, TypeInv, ControlTypes, LineInv, Ip!TypeOK
  <2> QED
    BY <1>1, <2>1
    DEF AtCin, Between, Base, ControlInv, CallInv, WaitIsConsistent
<1>3. HistInv' /\ SeesNow'
  BY <1>1, <1>2, Returned DEF Between, ipVars
<1>4. CellsSeen /\ seen.rx = rx /\ seen.tx = tx
  BY <1>1, CallStarts DEF HistInv, AtCin, Fetched, Kept, SeesNow
<1>5. Seen!Receive
  BY <1>2, <1>3, <1>4, Received, NotReceived
<1>6. CASE call = "cin"
  <2>1. Fetched /\ Operation(mode, insn) = "CIN"
    BY <1>6 DEF HistInv
  <2>2. /\ UNCHANGED <<seen.code, cfg, seen.insnIn>>
        /\ Seen!Running /\ ~seen.loading /\ ~Seen!TooDeep
        /\ seen.code[Seen!Place] = insn
        /\ Seen!Operation(seen.mode, insn) = "CIN"
    BY <1>1, <1>3, <2>1, ExecuteReady DEF ipVars, Ip!memVars
  <2>3. /\ seen.pc' = Seen!After(Seen!Place)
        /\ seen.branch' = (insn \in Seen!Brackets)
        /\ UNCHANGED <<seen.loading, seen.error>>
    BY <1>1, <1>2, <1>3, <2>1, GoesOn
  <2>4. UNCHANGED <<seen.halted, seen.mode>>
    BY <1>1, <1>3, <2>1 DEF Fetched, Kept, SeesNow
  <2>5. Seen!Execute
    BY <1>5, <2>2, <2>3, <2>4 DEF Seen!Execute
  <2> QED
    BY <1>3, <2>5
<1>7. CASE call # "cin"
  <2>1. SeesNow /\ Between /\ ~halted
    BY <1>1, <1>7, CallStarts DEF AtCin
  <2>2. Code' = Code
    BY <1>1, CodeKept DEF ipVars, Ip!memVars
  <2>3. NextPlace' = NextPlace /\ Pending' = Pending
    BY <1>1, <1>2 DEF NextPlace, Pending, ipVars
  <2>4. UNCHANGED <<seen.code, seen.pc, seen.branch, seen.mode, seen.halted,
                    seen.error, seen.loading, cfg, seen.insnIn>>
    BY <1>1, <1>3, <2>1, <2>2, <2>3 DEF SeesNow, ipVars
  <2>5. ~seen.halted /\ seen.waiting
    BY <1>2, <2>1 DEF SeesNow
  <2>6. Seen!Await
    BY <1>5, <2>4, <2>5 DEF Seen!Await
  <2> QED
    BY <1>3, <2>6
<1> QED
  BY <1>6, <1>7

-----------------------------------------------------------------------------
(* The panel and the host *)

LEMMA PanelRefines ==
  ASSUME Base, HistInv, seen' = Now', Panel
  PROVE  HistInv' /\ Seen!Panel
<1>1. Between /\ UNCHANGED <<call, cfg, queueVars, tx>>
  BY DEF Panel, HardReset, SoftReset, Run, StartLoading
<1>2. SeesNow
  BY <1>1, CallStarts
<1>3. scan' = scan /\ UNCHANGED Ip!memVars
  BY DEF Panel, HardReset, SoftReset, Run, StartLoading, ResetCounters,
         Ip!IpReset, Ip!StartLoading, Ip!loopVars, ipVars, Ip!memVars
<1>4. HistInv' /\ SeesNow'
  BY <1>1, <1>3, Returned DEF Between
<1>5. UNCHANGED <<seen.code, cfg, Seen!queues>>
  BY <1>1, <1>2, <1>3, <1>4, CodeKept DEF SeesNow, Seen!queues, queueVars
<1>6. ASSUME NEW hard \in BOOLEAN, ResetCounters(hard)
      PROVE  Seen!Reset(hard)
  BY <1>2, <1>4, <1>6, ResetRefines
  DEF ResetCounters, Ip!IpReset, SeesNow
<1>7. CASE Run \/ StartLoading
  <2>1. /\ UNCHANGED <<apVars, mode, phase>> /\ halted' = FALSE
        /\ UNCHANGED <<ip, insn, ipCounted, overflow>>
    BY <1>7 DEF Run, StartLoading, Ip!StartLoading, Ip!loopVars, ipVars
  <2>2. UNCHANGED Seen!cells
    BY <1>2, <1>4, <2>1, CellsKept DEF SeesNow
  <2>3. /\ UNCHANGED <<seen.pc, seen.mode, seen.error, seen.waiting>>
        /\ seen.halted' = FALSE
    BY <1>2, <1>4, <2>1 DEF SeesNow, NextPlace
  <2>4. \/ UNCHANGED <<seen.branch, seen.loading>>
        \/ seen.branch' = FALSE /\ seen.loading' = TRUE
    <3>1. CASE Run
      BY <1>2, <1>4, <2>1, <3>1 DEF SeesNow, Pending, Run, ipVars
    <3>2. CASE StartLoading
      BY <1>4, <3>2 DEF SeesNow, Pending, StartLoading, Ip!StartLoading
    <3> QED
      BY <1>7, <3>1, <3>2
  <2> QED
    BY <1>4, <1>5, <2>2, <2>3, <2>4 DEF Seen!Panel
<1>8. CASE HardReset \/ SoftReset
  <2>1. PICK hard \in BOOLEAN : ResetCounters(hard)
    BY <1>8 DEF HardReset, SoftReset
  <2>2. Seen!Reset(hard)
    BY <1>6, <2>1
  <2> QED
    BY <1>4, <1>5, <2>2 DEF Seen!Panel
<1> QED
  BY <1>7, <1>8 DEF Panel

(* The last opcode of a program that belongs in a place, counted from the  *)
(* end of the program.                                                     *)
LEMMA LoadedIndex ==
  ASSUME NEW code \in Seq(Opcode), NEW base \in Ip!Place, NEW a \in Ip!Place,
         NEW i, i = Len(code) - ((base + Len(code) - 1 - a) % IpSize)
  PROVE  /\ i \in Int /\ i <= Len(code)
         /\ Ip!LoadedAt(code, base, a) = IF i > 0 THEN i ELSE 0
<1> DEFINE hits == {j \in DOMAIN code : (base + j - 1) % IpSize = a}
<1>1. /\ IpSize \in Nat \ {0} /\ base \in 0 .. IpSize - 1
      /\ a \in 0 .. IpSize - 1
  BY RingSizes
<1>2. PICK n \in Nat : n = Len(code) /\ DOMAIN code = 1 .. n
  OBVIOUS
<1>3. PICK x \in Int : x = base + n - 1 - a
  BY <1>1
<1>4. PICK k \in Int, r \in 0 .. IpSize - 1 :
        x = k * IpSize + r /\ x % IpSize = r
  BY <1>1, <1>3, ModExists
<1>5. i = n - r /\ i \in Int /\ i <= n
  BY <1>2, <1>3, <1>4, <1>1
<1>6. k * IpSize \in Int
  BY <1>1, Multiple
<1>7. ASSUME i > 0 PROVE i \in hits
  <2>1. PICK y \in Int : y = base + i - 1
    <3>1. base \in Int /\ i \in Int
      BY <1>1, <1>5
    <3>2. base + i - 1 \in Int
      BY <3>1
    <3> QED
      BY <3>2
  <2>2. y = k * IpSize + a
    BY <1>1, <1>3, <1>4, <1>5, <1>6, <2>1
  <2>3. y % IpSize = a
    BY <1>1, <2>2, ModUnique
  <2> QED
    BY <1>2, <1>5, <1>7, <2>1, <2>3
<1>8. ASSUME NEW j \in hits PROVE j <= i
  <2>1. j \in 1 .. n /\ (base + j - 1) % IpSize = a
    BY <1>2
  <2>2. PICK y \in Int : y = base + j - 1
    BY <1>1, <2>1
  <2>3. PICK q \in Int : y = q * IpSize + a
    BY <1>1, <2>1, <2>2, ModExists
  <2>4. q * IpSize \in Int /\ (k - q) * IpSize = k * IpSize - q * IpSize
    BY <1>1, Multiple, Distribute
  <2>5. n - j = (k - q) * IpSize + r
    BY <1>1, <1>3, <1>4, <1>6, <2>1, <2>2, <2>3, <2>4
  <2>6. PICK d \in Int : d = k - q
    OBVIOUS
  <2>7. d >= 0
    <3>1. d <= -1 => d * IpSize <= -IpSize
      BY <1>1, <2>6, Multiple
    <3>2. n - j = d * IpSize + r /\ d * IpSize \in Int
      BY <1>1, <2>5, <2>6, Multiple
    <3> QED
      BY <1>1, <1>4, <2>1, <3>1, <3>2, <2>6
  <2>8. d * IpSize >= 0
    BY <1>1, <2>6, <2>7
  <2>9. d * IpSize \in Int
    BY <1>1, <2>6, Multiple
  <2> QED
    BY <1>5, <2>1, <2>5, <2>6, <2>8, <2>9
<1>9. CASE i > 0
  <2>1. hits # {} /\ \A j \in hits : j <= i
    BY <1>7, <1>8, <1>9
  <2>2. Ip!LoadedAt(code, base, a) =
          CHOOSE h \in hits : \A j \in hits : j <= h
    BY <2>1 DEF Ip!LoadedAt
  <2>3. \A h \in hits : (\A j \in hits : j <= h) => h = i
    BY <1>2, <1>5, <1>7, <1>8, <1>9
  <2> HIDE DEF hits
  <2> QED
    BY <1>2, <1>5, <1>7, <1>9, <2>1, <2>2, <2>3
<1>10. CASE ~(i > 0)
  <2>1. hits = {}
    BY <1>2, <1>5, <1>8, <1>10
  <2>2. Ip!LoadedAt(code, base, a) = 0
    BY <2>1 DEF Ip!LoadedAt
  <2> QED
    BY <1>2, <1>5, <1>10, <2>2
<1> QED
  BY <1>9, <1>10

(* A load of program memory, or of the bootloader ROM, from outside. *)
LEMMA LoadRefines ==
  ASSUME Ip!HostLoad, seen.code = Code, seen.code' = Code'
  PROVE  /\ DOMAIN seen.code' = DOMAIN seen.code
         /\ \/ \E p \in Programs, base \in DOMAIN seen.code :
                 \A a \in DOMAIN seen.code :
                   LET i == Len(p) - ((base + Len(p) - 1 - a) % IpSize)
                   IN  seen.code'[a] = IF i > 0 /\ a < BootBase THEN p[i]
                                       ELSE seen.code[a]
            \/ \E p \in Programs : \A a \in DOMAIN seen.code :
                 LET i == a - BootBase
                 IN  seen.code'[a] = IF i < 0 THEN seen.code[a]
                                     ELSE IF i < Len(p) THEN p[i + 1]
                                     ELSE OP_NOP
<1>1. DOMAIN seen.code = Ip!Place /\ DOMAIN seen.code' = Ip!Place
  BY DEF Code, Ip!Place
<1>2. /\ \A a \in Ip!Place : a < BootBase => a \in Ip!RamPlace
      /\ \A a \in Ip!Place : a >= BootBase => a - BootBase \in Ip!RomPlace
      /\ Ip!Place \subseteq Int /\ BootBase \in Int
  BY RingSizes DEF Ip!Place, Ip!RamPlace, Ip!RomPlace
<1>3. ASSUME NEW a \in Ip!Place
      PROVE  /\ seen.code[a] = Ip!ReadCode(a)
             /\ seen.code'[a] = IF a >= BootBase THEN bootRom'[a - BootBase]
                                ELSE codeRam'[a]
  BY <1>3 DEF Code, Ip!Place, Ip!ReadCode
<1>4. ASSUME NEW p \in Programs, NEW base \in Ip!Place, Ip!LoadCode(p, base),
             NEW a \in Ip!Place, NEW i,
             i = Len(p) - ((base + Len(p) - 1 - a) % IpSize)
      PROVE  seen.code'[a] = IF i > 0 /\ a < BootBase THEN p[i]
                             ELSE seen.code[a]
  <2>1. p \in Seq(Opcode)
    BY DekatronPCAssumption
  <2>2. i \in Int /\ Ip!LoadedAt(p, base, a) = IF i > 0 THEN i ELSE 0
    BY <1>4, <2>1, LoadedIndex
  <2>3. bootRom' = bootRom
    BY <1>4 DEF Ip!LoadCode
  <2>4. a < BootBase =>
          codeRam'[a] = IF i > 0 THEN p[i] ELSE codeRam[a]
    <3>1. a < BootBase =>
            codeRam'[a] = LET j == Ip!LoadedAt(p, base, a)
                          IN  IF j = 0 THEN codeRam[a] ELSE p[j]
      BY <1>2, <1>4 DEF Ip!LoadCode
    <3> QED
      BY <2>2, <3>1
  <2> QED
    BY <1>2, <1>3, <2>2, <2>3, <2>4 DEF Ip!ReadCode
<1>5. ASSUME NEW p \in Programs, Ip!SetBootRom(p), NEW a \in Ip!Place
      PROVE  seen.code'[a] = IF a - BootBase < 0 THEN seen.code[a]
                             ELSE IF a - BootBase < Len(p)
                             THEN p[(a - BootBase) + 1] ELSE OP_NOP
  <2>1. codeRam' = codeRam
    BY <1>5 DEF Ip!SetBootRom
  <2>2. a >= BootBase =>
          bootRom'[a - BootBase] = IF a - BootBase < Len(p)
                                   THEN p[(a - BootBase) + 1] ELSE OP_NOP
    BY <1>2, <1>5 DEF Ip!SetBootRom, Ip!OP_NOP, OP_NOP
  <2> QED
    BY <1>2, <1>3, <2>1, <2>2 DEF Ip!ReadCode
<1>6. CASE \E code \in Programs, base \in Ip!Place : Ip!LoadCode(code, base)
  BY <1>1, <1>4, <1>6
<1>7. CASE \E rom \in Programs : Ip!SetBootRom(rom)
  BY <1>1, <1>5, <1>7
<1> QED
  BY <1>1, <1>6, <1>7 DEF Ip!HostLoad

LEMMA HostRefines ==
  ASSUME Base, HistInv, seen' = Now', Host
  PROVE  HistInv' /\ Seen!Host
<1>1. Between /\ UNCHANGED <<ctrlVars, cfg>>
  BY DEF Host, PushInput, PushInsn, SetCell, LoadMemory, ClearOutput
<1>2. UNCHANGED <<ip, insn, ipCounted, overflow, scan, loading>>
  BY DEF Host, PushInput, PushInsn, SetCell, LoadMemory, ClearOutput, ipVars,
         Ip!HostLoad, Ip!LoadCode, Ip!SetBootRom, Ip!loopVars
<1>3. SeesNow
  BY <1>1, CallStarts
<1>4. HistInv' /\ SeesNow'
  BY <1>1, <1>2, Returned DEF Between, ctrlVars
<1>5. UNCHANGED Seen!control
  BY <1>1, <1>2, <1>3, <1>4
  DEF SeesNow, NextPlace, Pending, Seen!control, ctrlVars
<1>6. UNCHANGED apVars => UNCHANGED Seen!cells
  BY <1>3, <1>4, CellsKept DEF SeesNow
<1>7. UNCHANGED ipVars => UNCHANGED seen.code
  BY <1>3, <1>4, CodeKept DEF SeesNow, ipVars, Ip!memVars
<1>8. seen.rx = rx /\ seen.rx' = rx' /\ seen.insnIn = insnIn
        /\ seen.insnIn' = insnIn' /\ seen.tx = tx /\ seen.tx' = tx'
  BY <1>3, <1>4 DEF SeesNow
<1>9. ASSUME NEW c \in Inputs, PushInput(c) PROVE Seen!Queue
  BY <1>5, <1>6, <1>7, <1>8, <1>9 DEF PushInput, Seen!Queue
<1>10. ASSUME NEW op \in Insns, PushInsn(op) PROVE Seen!Queue
  BY <1>5, <1>6, <1>7, <1>8, <1>10 DEF PushInsn, Seen!Queue
<1>11. ASSUME ClearOutput PROVE Seen!Queue
  BY <1>5, <1>6, <1>7, <1>8, <1>11 DEF ClearOutput, queueVars, Seen!Queue
<1>12. ASSUME NEW a \in Ap!Addr, NEW v \in Inputs, SetCell(a, v)
       PROVE  Seen!Poke
  <2>1. Ap!TypeOK /\ Ap!RegCoherent /\ v \in Ap!Byte
    BY InputsAreBytes DEF Base, ControlInv, TypeInv, LineInv
  <2>2. Seen!Cells!Poke(a, v)
    BY <1>3, <1>4, <1>12, <2>1, CellOperations DEF SetCell, SeesNow
  <2>3. a \in 0 .. ApTop /\ UNCHANGED Seen!queues
    BY <1>8, <1>12 DEF Ap!Addr, SetCell, queueVars, Seen!queues
  <2> QED
    BY <1>5, <1>7, <1>12, <2>2, <2>3 DEF SetCell, Seen!Poke
<1>13. CASE LoadMemory
  <2>1. UNCHANGED Seen!queues /\ UNCHANGED Seen!cells
    BY <1>6, <1>8, <1>13 DEF LoadMemory, queueVars, Seen!queues
  <2>2. Ip!HostLoad /\ seen.code = Code /\ seen.code' = Code'
    BY <1>3, <1>4, <1>13 DEF LoadMemory, SeesNow
  <2>3. Seen!LoadProgram \/ Seen!LoadRom
    BY <1>5, <2>1, <2>2, LoadRefines
    DEF Seen!LoadProgram, Seen!LoadRom, Seen!OP_NOP, OP_NOP
  <2> QED
    BY <1>1, <1>4, <2>3 DEF Seen!Host
<1>14. Seen!Queue \/ Seen!Poke => Seen!Host
  BY <1>1 DEF Seen!Host
<1>15. CASE Host /\ ~LoadMemory
  BY <1>4, <1>9, <1>10, <1>11, <1>12, <1>14, <1>15 DEF Host
<1> QED
  BY <1>13, <1>15

-----------------------------------------------------------------------------
(* Which steps return. *)
Goes == Fetch \/ StartScan \/ LoadFetch \/ Scan \/ ScanMatch \/ TakeInsn
          \/ DecodeCin

Returns ==
  \/ Overflow \/ WaitInsn \/ WaitCin
  \/ Decode /\ ~DecodeCin
  \/ \E c \in 0 .. DataTop + 1 : FinishCin(c)
  \/ Panel
  \/ Host

LEMMA EveryStep == Next => Goes \/ Returns
BY DEF Next, Step, Continue, Goes, Returns

LEMMA GoesGoes ==
  ASSUME Goes
  PROVE  ~Between' /\ cfg' = cfg
BY DEF Goes, Fetch, StartScan, LoadFetch, Scan, ScanMatch, TakeInsn,
       DecodeCin, Between, Ip!ScanStart, Ip!ScanPass, Ip!ScanOwn,
       Ip!ScanOther

LEMMA ReturnsReturns ==
  ASSUME Base, Returns
  PROVE  Between'
<1> USE DEF Between, CallInv, ipVars, Ip!loopVars, ctrlVars
<1>0. CallInv
  BY DEF Base, ControlInv
<1>1. CASE Overflow
  BY <1>0, <1>1 DEF Overflow, AtFetch, Ip!StartOverflow, Ip!ScanOverflow
<1>2. CASE WaitInsn \/ WaitCin
  BY <1>0, <1>2 DEF WaitInsn, WaitCin, AtInsn, AtCin
<1>3. ASSUME NEW c, FinishCin(c) PROVE Between'
  BY <1>0, <1>3 DEF FinishCin, AtCin
<1>4. CASE Decode /\ ~DecodeCin
  <2>1. call' = "none" /\ scan = "none"
    BY <1>0, <1>4
    DEF Decode, DecodeEot, DecodeIsa, DecodeStored, DecodeNop, DecodeHalt,
        DecodeBell, DecodeReset, DecodeIp, DecodeAp, DecodeCout, Retire
  <2>2. scan' = scan
    BY <1>4
    DEF Decode, DecodeEot, DecodeIsa, DecodeStored, DecodeNop, DecodeHalt,
        DecodeBell, DecodeReset, DecodeIp, DecodeAp, DecodeCout,
        ResetCounters, EnterHalt, Ip!EndLoading, Ip!EnterHalt,
        Ip!StartLoading, Ip!ClrL, Ip!ClrI, Ip!IpReset
  <2> QED
    BY <2>1, <2>2
<1>5. CASE Panel
  BY <1>5 DEF Panel, HardReset, SoftReset, Run, StartLoading, ResetCounters,
              Ip!IpReset, Ip!StartLoading
<1>6. CASE Host
  BY <1>6 DEF Host, PushInput, PushInsn, SetCell, LoadMemory, ClearOutput,
              Ip!HostLoad, Ip!LoadCode, Ip!SetBootRom
<1> QED
  BY <1>1, <1>2, <1>3, <1>4, <1>5, <1>6 DEF Returns

LEMMA NothingHappens ==
  ASSUME HistInv, UNCHANGED historyVars
  PROVE  HistInv' /\ UNCHANGED Seen!vars
<1>1. /\ seen' = seen
      /\ UNCHANGED <<apVars, ipVars, ctrlVars, cfg, queueVars, tx>>
  BY DEF historyVars
<1>2. /\ UNCHANGED <<mode, halted, phase, call, rx, insnIn>>
      /\ UNCHANGED <<ip, insn, ipCounted, loop, overflow, scan, loading>>
      /\ UNCHANGED Ip!memVars
  BY <1>1 DEF ipVars, ctrlVars, queueVars, Ip!memVars
<1>3. Now' = Now
  BY <1>1, <1>2, SameNow
<1>4. Code' = Code
  BY <1>2, CodeKept
<1>5. Kept => Kept'
  BY <1>1, <1>2, KeptOn
<1>6. Fetched => Fetched'
  BY <1>1, <1>2, <1>4, <1>5, SeenKept DEF Fetched, Ip!Place
<1>7. Aligned => Aligned'
  BY <1>1, <1>2, <1>4, SeenKept DEF Aligned, Ip!Place
<1>8. ASSUME NEW m \in Nat, Walked(m) PROVE Walked(m)'
  <2>1. Ip!LoopTop' = Ip!LoopTop
    BY DEF Ip!LoopTop
  <2> QED
    BY <1>1, <1>2, <1>8, <2>1, SeenKept DEF Walked
<1>9. Scanning => Scanning'
  BY <1>1, <1>2, <1>4, <1>5, <1>7, <1>8, SeenKept DEF Scanning
<1>10. Taken => Taken'
  BY <1>1, <1>2, <1>4, <1>5 DEF Taken, IsEot
<1> QED
  BY <1>1, <1>2, <1>3, <1>6, <1>9, <1>10, NotSeen DEF HistInv, Between

(* Every step of the machine, whichever part of a call it is, keeps the    *)
(* invariant and is a step of Architecture or is not seen.                 *)
LEMMA NextHistory ==
  ASSUME Base, HistInv, [HistoryNext]_historyVars
  PROVE  HistInv' /\ [Seen!Next]_(Seen!vars)
<1>1. CASE UNCHANGED historyVars
  BY <1>1, NothingHappens
<1>2. CASE HistoryNext /\ Goes
  <2>1. seen' = seen /\ cfg' = cfg
    BY <1>2, GoesGoes DEF HistoryNext
  <2>2. UNCHANGED Seen!vars
    BY <2>1, NotSeen
  <2>3. HistInv'
    BY <1>2, <2>1, FetchSeen, StartScanSeen, LoadFetchSeen, ScanSeen,
       ScanMatchSeen, TakeInsnSeen, DecodeCinSeen DEF Goes
  <2> QED
    BY <2>2, <2>3
<1>3. CASE HistoryNext /\ Returns
  <2>1. seen' = Now'
    BY <1>3, ReturnsReturns DEF HistoryNext
  <2> USE DEF Seen!Next, Seen!Step
  <2>2. CASE Overflow
    BY <2>1, <2>2, OverflowFails
  <2>3. CASE WaitInsn
    BY <2>1, <2>3, WaitInsnHidden
  <2>4. CASE WaitCin \/ \E c \in 0 .. DataTop + 1 : FinishCin(c)
    BY <2>1, <2>4, CinReturns
  <2>5. CASE DecodeEot \/ DecodeStored
    BY <2>1, <2>5, LoadDecodes DEF DecodeEot, DecodeStored
  <2>6. CASE DecodeIsa /\ loading
    BY <2>1, <2>6, LoadDecodes
  <2>7. CASE (DecodeIsa /\ ~loading) \/ DecodeNop \/ DecodeHalt \/ DecodeBell
               \/ DecodeIp
    <3>1. ~loading
      BY <2>7 DEF DecodeNop, DecodeHalt, DecodeBell, DecodeIp, Decodes
    <3> QED
      BY <2>1, <2>7, <3>1, DecodeControl
  <2>8. CASE DecodeReset
    BY <2>1, <2>8, DecodeResets
  <2>9. CASE DecodeAp \/ DecodeCout
    BY <2>1, <2>9, DecodeCells
  <2>10. CASE Panel
    BY <2>1, <2>10, PanelRefines
  <2>11. CASE Host
    BY <2>1, <2>11, HostRefines
  <2> QED
    BY <1>3, <2>2, <2>3, <2>4, <2>5, <2>6, <2>7, <2>8, <2>9, <2>10, <2>11
    DEF Returns, Decode
<1> QED
  BY <1>1, <1>2, <1>3, EveryStep DEF HistoryNext

(* What was typed stays what was typed. *)
LEMMA NextInputs ==
  ASSUME rx \in Seq(Inputs), [HistoryNext]_historyVars
  PROVE  rx' \in Seq(Inputs)
<1> USE DEF queueVars
<1>1. CASE UNCHANGED historyVars
  BY <1>1 DEF historyVars
<1>2. ASSUME NEW c, FinishCin(c) PROVE rx' \in Seq(Inputs)
  BY <1>2 DEF FinishCin, Character
<1>3. ASSUME NEW c \in Inputs, PushInput(c) PROVE rx' \in Seq(Inputs)
  BY <1>3 DEF PushInput
<1>4. CASE Fetch \/ StartScan \/ LoadFetch \/ Scan \/ ScanMatch \/ Overflow
             \/ TakeInsn \/ WaitInsn \/ WaitCin
  BY <1>4 DEF Fetch, StartScan, LoadFetch, Scan, ScanMatch, Overflow,
              TakeInsn, WaitInsn, WaitCin
<1>5. CASE Decode
  BY <1>5 DEF Decode, DecodeEot, DecodeIsa, DecodeStored, DecodeNop,
              DecodeHalt, DecodeBell, DecodeReset, DecodeIp, DecodeAp,
              DecodeCout, DecodeCin, Retire
<1>6. CASE Panel
  BY <1>6 DEF Panel, HardReset, SoftReset, Run, StartLoading
<1>7. ASSUME NEW x, NEW y, PushInsn(x) \/ SetCell(x, y) \/ LoadMemory
                             \/ ClearOutput
      PROVE  rx' \in Seq(Inputs)
  BY <1>7 DEF PushInsn, SetCell, LoadMemory, ClearOutput
<1> QED
  BY <1>1, <1>2, <1>3, <1>4, <1>5, <1>6, <1>7
  DEF HistoryNext, Next, Step, Continue, Host

LEMMA InitHistory == HistoryInit => HistInv /\ Seen!Init /\ rx \in Seq(Inputs)
<1> SUFFICES ASSUME HistoryInit PROVE HistInv /\ Seen!Init /\ rx \in Seq(Inputs)
  OBVIOUS
<1>1. Init /\ seen = Now /\ SeesNow
  BY NowIsSeen DEF HistoryInit, Shown
<1>2. HistInv
  BY <1>1 DEF HistInv, Init, Ip!Init
<1>3. Seen!Cells!Init
  <2>1. /\ dataMem = [a \in Ap!Addr |-> 0] /\ ap = 0 /\ data = 0
        /\ lock = FALSE
    BY <1>1 DEF Init, Ap!Init
  <2>2. 0 \in Ap!Byte
    BY DekatronPCAssumption DEF Ap!Byte
  <2>3. Tape = dataMem
    BY <2>1 DEF Tape, Ap!CellValue
  <2> QED
    BY <1>1, <2>1, <2>2, <2>3
    DEF SeesNow, CellsSeen, Seen!Cells!Init, Seen!Cells!Addr, Seen!Cells!Byte,
        Ap!Addr, Ap!Byte
<1>4. seen.code = [a \in 0 .. IpSize - 1 |-> Seen!OP_NOP]
  <2>1. ASSUME NEW a \in Ip!Place PROVE Ip!ReadCode(a) = OP_NOP
    BY <1>1, <2>1, RingSizes
    DEF Init, Ip!Init, Ip!ReadCode, Ip!Place, Ip!RamPlace, Ip!RomPlace,
        Ip!OP_NOP, OP_NOP
  <2> QED
    BY <1>1, <2>1, RingSizes DEF SeesNow, Code, Seen!OP_NOP, OP_NOP
<1>5. /\ seen.pc = 0 /\ seen.branch = FALSE
  BY <1>1 DEF SeesNow, NextPlace, Pending, Init, Ip!Init
<1>6. /\ seen.mode = Seen!ISA_DEBUG /\ seen.halted = TRUE
      /\ seen.error = FALSE /\ seen.loading = FALSE /\ seen.waiting = FALSE
      /\ seen.rx = <<>> /\ seen.insnIn = <<>> /\ seen.tx = <<>>
  BY <1>1 DEF SeesNow, Init, Ip!Init, Seen!ISA_DEBUG, ISA_DEBUG
<1> QED
  BY <1>1, <1>2, <1>3, <1>4, <1>5, <1>6 DEF Seen!Init, Init

LEMMA HistoryIsMachine == HistorySpec => Spec
<1>1. HistoryInit => Init
  BY DEF HistoryInit
<1>2. [HistoryNext]_historyVars => [Next]_vars
  BY DEF HistoryNext, historyVars, vars
<1> QED
  BY <1>1, <1>2, PTL DEF HistorySpec, Spec

(* Whatever calls an instruction is spread over, the fetch, the scan on    *)
(* the ring, the delayed decision of a bracket, MemLock and the lazy read  *)
(* cannot be told from a machine that does the whole instruction at once,  *)
(* for every size, program, panel and use of the queues                    *)
(* (dpcrun.cpp:161-213, 298-602).                                          *)
THEOREM RefinesArchitecture == HistorySpec => ImplementsArchitecture
<1> DEFINE Typed == rx \in Seq(Inputs)
<1>1. HistoryInit => HistInv /\ Seen!Init /\ Typed
  BY InitHistory
<1>2. Typed /\ [HistoryNext]_historyVars => Typed'
  BY NextInputs
<1>3. ControlInv /\ PendingTestValid /\ Typed => Base
  BY DEF Base
<1>4. Base /\ HistInv /\ [HistoryNext]_historyVars
        => HistInv' /\ [Seen!Next]_(Seen!vars)
  BY NextHistory
<1> HIDE DEF Typed
<1> QED
  BY <1>1, <1>2, <1>3, <1>4, HistoryIsMachine, ControlInvariance,
     ZeroFlagIsValid, PTL
  DEF HistorySpec, ImplementsArchitecture, Seen!Spec
=============================================================================
