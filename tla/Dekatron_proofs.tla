-------------------------- MODULE Dekatron_proofs ---------------------------
(***************************************************************************)
(* What a ring counter guarantees, for every size, and the arithmetic of a *)
(* ring: induction on the natural numbers, multiples and remainders. Then  *)
(* what a list has at some places, and how brackets nest in it.            *)
(***************************************************************************)
EXTENDS Dekatron, Places, Integers, WellFoundedInduction, FiniteSetTheorems,
        TLAPS

(* A counter that steps stays on its ring (dpcrun.cpp:117-118). *)
LEMMA WrapStepRange ==
  ASSUME NEW size \in Nat \ {0}, NEW v \in 0 .. size - 1, NEW dec \in BOOLEAN
  PROVE  WrapStep(v, dec, size) \in 0 .. size - 1
BY DEF WrapStep, WrapInc, WrapDec

(* wrapInc and wrapDec written without the remainder. *)
LEMMA WrapIncCases ==
  ASSUME NEW size \in Nat \ {0}, NEW v \in 0 .. size - 1
  PROVE  WrapInc(v, size) = IF v = size - 1 THEN 0 ELSE v + 1
BY DEF WrapInc

LEMMA WrapDecCases ==
  ASSUME NEW size \in Nat \ {0}, NEW v \in 0 .. size - 1
  PROVE  WrapDec(v, size) = IF v = 0 THEN size - 1 ELSE v - 1
BY DEF WrapDec

(* > undoes < and + undoes - in every position, the wrap included: a       *)
(* decrement flag read the wrong way round is the only difference between  *)
(* the two directions (dpcrun.cpp:117-118).                                *)
THEOREM WrapStepInverse ==
  ASSUME NEW size \in Nat \ {0}, NEW v \in 0 .. size - 1, NEW dec \in BOOLEAN
  PROVE  WrapStep(WrapStep(v, dec, size), ~dec, size) = v
BY WrapStepRange, WrapIncCases, WrapDecCases DEF WrapStep

-----------------------------------------------------------------------------
(* Induction on the natural numbers, for a set that is closed under +1. *)
LEMMA NatClosed ==
  ASSUME NEW S, 0 \in S, \A n \in S \cap Nat : n + 1 \in S
  PROVE  Nat \subseteq S
<1> DEFINE T == Nat \ S
<1> SUFFICES ASSUME NEW m \in T PROVE FALSE
  OBVIOUS
<1>1. PICK x \in T : \A y \in T : ~(<<y, x>> \in OpToRel(<, Nat))
  <2>1. T \subseteq Nat
    OBVIOUS
  <2> HIDE DEF T
  <2> QED
    BY <2>1, NatLessThanWellFounded, WFMin
<1>2. x \in Nat /\ x # 0 /\ x - 1 \in Nat
  OBVIOUS
<1>3. ~(x - 1 \in T)
  <2>1. <<x - 1, x>> \in {z \in Nat \X Nat : z[1] < z[2]}
    BY <1>2
  <2> QED
    BY <1>1, <2>1 DEF OpToRel
<1>4. x - 1 + 1 \in S
  BY <1>2, <1>3
<1> QED
  BY <1>2, <1>4

(* The remainder is the only place of the ring at a whole number of turns. *)
LEMMA Multiple ==
  ASSUME NEW n \in Nat \ {0}, NEW q \in Int
  PROVE  /\ q * n \in Int
         /\ q >= 1 => q * n >= n
         /\ q <= -1 => q * n <= -n
         /\ (q + 1) * n = q * n + n
         /\ (q - 1) * n = q * n - n
OBVIOUS

LEMMA Distribute ==
  ASSUME NEW n \in Int, NEW p \in Int, NEW q \in Int
  PROVE  (q - p) * n = q * n - p * n
OBVIOUS

LEMMA ModExists ==
  ASSUME NEW n \in Nat \ {0}, NEW x \in Int
  PROVE  \E q \in Int, r \in 0 .. n - 1 : x = q * n + r /\ x % n = r
<1>1. x \div n \in Int
  OBVIOUS
<1>2. x % n \in 0 .. n - 1
  OBVIOUS
<1>3. x = (x \div n) * n + (x % n)
  OBVIOUS
<1> QED
  BY <1>1, <1>2, <1>3

LEMMA ModUnique ==
  ASSUME NEW n \in Nat \ {0}, NEW x \in Int, NEW q \in Int,
         NEW r \in 0 .. n - 1, x = q * n + r
  PROVE  x % n = r
<1>1. PICK p \in Int, s \in 0 .. n - 1 : x = p * n + s /\ x % n = s
  BY ModExists
<1>2. (q - p) * n = q * n - p * n
  BY Distribute
<1>3. q * n \in Int /\ p * n \in Int
  BY Multiple
<1>4. (q - p) * n = s - r
  BY <1>1, <1>2, <1>3
<1>5. q - p \in Int /\ ~(q - p >= 1) /\ ~(q - p <= -1)
  BY <1>4, Multiple
<1>6. q = p
  BY <1>5
<1> QED
  BY <1>1, <1>3, <1>6

(* Places that are a whole turn apart are the same.  (The provers find the *)
(* instances of a lemma about remainders by the names of its terms, not by *)
(* sums: each sum gets a name here.)                                       *)
LEMMA ModTurn ==
  ASSUME NEW n \in Nat \ {0}, NEW x \in Int, NEW y \in Int, y = x + n
  PROVE  y % n = x % n
<1>1. PICK q \in Int, r \in 0 .. n - 1 : x = q * n + r /\ x % n = r
  BY ModExists
<1>2. q * n \in Int /\ (q + 1) * n = q * n + n
  BY Multiple
<1>3. y = (q + 1) * n + r
  BY <1>1, <1>2
<1> QED
  BY <1>1, <1>3, ModUnique

(* A step of IP from a place of the walk is a step of the walk. *)
LEMMA ModInc ==
  ASSUME NEW n \in Nat \ {0}, NEW x \in Int, NEW y \in Int, y = x + 1
  PROVE  WrapInc(x % n, n) = y % n
<1>1. PICK q \in Int, r \in 0 .. n - 1 : x = q * n + r /\ x % n = r
  BY ModExists
<1>2. q * n \in Int /\ q + 1 \in Int /\ (q + 1) * n = q * n + n
  BY Multiple
<1>3. PICK s \in 0 .. n - 1 : s = WrapInc(r, n)
  BY WrapIncCases
<1>4. s = IF r = n - 1 THEN 0 ELSE r + 1
  BY <1>3, WrapIncCases
<1>5. y = q * n + s \/ y = (q + 1) * n + s
  BY <1>1, <1>2, <1>4
<1> QED
  BY <1>1, <1>2, <1>3, <1>5, ModUnique

LEMMA ModDec ==
  ASSUME NEW n \in Nat \ {0}, NEW x \in Int, NEW y \in Int, y = x - 1
  PROVE  WrapDec(x % n, n) = y % n
<1>1. PICK q \in Int, r \in 0 .. n - 1 : x = q * n + r /\ x % n = r
  BY ModExists
<1>2. q * n \in Int /\ q - 1 \in Int /\ (q - 1) * n = q * n - n
  BY Multiple
<1>3. PICK s \in 0 .. n - 1 : s = WrapDec(r, n)
  BY WrapDecCases
<1>4. s = IF r = 0 THEN n - 1 ELSE r - 1
  BY <1>3, WrapDecCases
<1>5. y = q * n + s \/ y = (q - 1) * n + s
  BY <1>1, <1>2, <1>4
<1> QED
  BY <1>1, <1>2, <1>3, <1>5, ModUnique

(* A sum may be cut to the ring before the last term is added. *)
LEMMA ModAdd ==
  ASSUME NEW n \in Nat \ {0}, NEW x \in Int, NEW d \in Int
  PROVE  ((x % n) + d) % n = (x + d) % n
<1>1. PICK q \in Int, r \in 0 .. n - 1 : x = q * n + r /\ x % n = r
  BY ModExists
<1>2. PICK y \in Int : y = r + d
  OBVIOUS
<1>3. PICK p \in Int, s \in 0 .. n - 1 : y = p * n + s /\ y % n = s
  BY <1>2, ModExists
<1>4. PICK z \in Int : z = x + d
  OBVIOUS
<1>5. q * n \in Int /\ p * n \in Int /\ (p - (-q)) * n = p * n - (-q) * n
      /\ (-q) * n = -(q * n)
  BY Multiple, Distribute
<1>6. z = (p + q) * n + s
  BY <1>1, <1>2, <1>3, <1>4, <1>5
<1>7. z % n = s
  BY <1>6, ModUnique
<1> QED
  BY <1>1, <1>2, <1>3, <1>4, <1>7

-----------------------------------------------------------------------------
(* The recursion of At, which is defined for every sequence. *)
UpTo(seq, places, f, n) ==
  IF n = 0 THEN <<>>
  ELSE f[n - 1] \o (IF n \in places THEN <<seq[n]>> ELSE <<>>)

LEMMA UpToExists ==
  ASSUME NEW seq, NEW places, NEW len \in Nat
  PROVE  \E f : f = [n \in 0 .. len |-> UpTo(seq, places, f, n)]
<1> DEFINE S == {k \in Nat : \E f : /\ f = [n \in 0 .. k |-> f[n]]
                                    /\ \A n \in 0 .. k :
                                         f[n] = UpTo(seq, places, f, n)}
<1>1. 0 \in S
  <2>1. PICK f : f = [n \in 0 .. 0 |-> <<>>]
    OBVIOUS
  <2>2. f = [n \in 0 .. 0 |-> f[n]]
    BY <2>1
  <2>3. \A n \in 0 .. 0 : f[n] = UpTo(seq, places, f, n)
    BY <2>1 DEF UpTo
  <2> QED
    BY <2>2, <2>3
<1>2. ASSUME NEW k \in S \cap Nat PROVE k + 1 \in S
  <2>1. PICK f : /\ f = [n \in 0 .. k |-> f[n]]
                 /\ \A n \in 0 .. k : f[n] = UpTo(seq, places, f, n)
    OBVIOUS
  <2>2. PICK g : g = [n \in 0 .. k + 1 |->
                        IF n <= k THEN f[n] ELSE UpTo(seq, places, f, n)]
    OBVIOUS
  <2>3. g = [n \in 0 .. k + 1 |-> g[n]]
    BY <2>2
  <2>4. ASSUME NEW n \in 0 .. k + 1 PROVE g[n] = UpTo(seq, places, f, n)
    BY <2>1, <2>2
  <2>5. ASSUME NEW n \in 0 .. k + 1
        PROVE  UpTo(seq, places, f, n) = UpTo(seq, places, g, n)
    <3>1. CASE n = 0
      BY <3>1 DEF UpTo
    <3>2. CASE n # 0
      <4>1. n - 1 \in 0 .. k + 1 /\ n - 1 <= k
        BY <3>2
      <4>2. g[n - 1] = f[n - 1]
        BY <2>2, <4>1
      <4> QED
        BY <4>2 DEF UpTo
    <3> QED
      BY <3>1, <3>2
  <2> QED
    BY <2>3, <2>4, <2>5
<1>3. Nat \subseteq S
  <2> HIDE DEF S
  <2> QED
    BY <1>1, <1>2, NatClosed
<1>4. PICK f : /\ f = [n \in 0 .. len |-> f[n]]
               /\ \A n \in 0 .. len : f[n] = UpTo(seq, places, f, n)
  BY <1>3
<1>5. f = [n \in 0 .. len |-> UpTo(seq, places, f, n)]
  BY <1>4
<1> QED
  BY <1>5

(* The places in their order: at has one for every element of a list that  *)
(* was taken from the first n of a sequence.                               *)
Orders(at, list, seq, places, n) ==
  /\ Len(list) <= n
  /\ at \in [1 .. Len(list) -> places \cap (1 .. n)]
  /\ \A k \in 1 .. Len(list) : list[k] = seq[at[k]]
  /\ \A k, l \in 1 .. Len(list) : k < l => at[k] < at[l]
  /\ \A i \in places \cap (1 .. n) : \E k \in 1 .. Len(list) : at[k] = i

LEMMA AtType ==
  ASSUME NEW A, NEW seq \in Seq(A), NEW places \in SUBSET (1 .. Len(seq))
  PROVE  /\ At(seq, places) \in Seq(A)
         /\ \E at : Orders(at, At(seq, places), seq, places, Len(seq))
<1> DEFINE len == Len(seq)
<1>0. len \in Nat
  OBVIOUS
<1>1. PICK f : /\ At(seq, places) = f[len]
               /\ \A n \in 0 .. len : f[n] = UpTo(seq, places, f, n)
  <2>1. \E f : f = [n \in 0 .. len |-> UpTo(seq, places, f, n)]
    BY <1>0, UpToExists
  <2>2. PICK f : /\ f = [n \in 0 .. len |-> UpTo(seq, places, f, n)]
                 /\ At(seq, places) = f[len]
    BY <2>1 DEF At, UpTo
  <2> QED
    BY <2>2
<1> DEFINE S == {n \in Nat : n <= len =>
                   /\ f[n] \in Seq(A)
                   /\ \E at : Orders(at, f[n], seq, places, n)}
<1>2. 0 \in S
  <2>1. f[0] = <<>>
    <3>1. 0 \in 0 .. len
      BY <1>0
    <3>2. f[0] = UpTo(seq, places, f, 0)
      BY <1>1, <3>1
    <3>3. UpTo(seq, places, f, 0) = <<>>
      BY DEF UpTo
    <3> QED
      BY <3>2, <3>3
  <2>2. Orders(<<>>, <<>>, seq, places, 0)
    BY DEF Orders
  <2>3. \E at : Orders(at, f[0], seq, places, 0)
    BY <2>1, <2>2
  <2>4. f[0] \in Seq(A)
    BY <2>1
  <2> QED
    BY <2>3, <2>4
<1>3. ASSUME NEW m \in S \cap Nat PROVE m + 1 \in S
  <2>1. SUFFICES ASSUME m + 1 <= len
                 PROVE  /\ f[m + 1] \in Seq(A)
                        /\ \E at : Orders(at, f[m + 1], seq, places, m + 1)
    OBVIOUS
  <2>2. PICK n \in Nat : n = m + 1
    OBVIOUS
  <2>3. f[m] \in Seq(A) /\ m \in 0 .. len /\ n \in 0 .. len /\ n - 1 = m
          /\ n # 0
    BY <1>0, <2>1, <2>2
  <2>4. PICK at : Orders(at, f[m], seq, places, m)
    BY <2>1
  <2>5. PICK size \in Nat : size = Len(f[m])
    BY <2>3
  <2>6. CASE n \in places
    <3>1. f[n] = f[m] \o <<seq[n]>>
      BY <1>1, <2>3, <2>6 DEF UpTo
    <3>2. seq[n] \in A
      BY <2>2, <2>3
    <3>3. /\ f[n] \in Seq(A) /\ Len(f[n]) = size + 1
          /\ \A k \in 1 .. size : f[n][k] = f[m][k]
          /\ f[n][size + 1] = seq[n]
      BY <2>3, <2>5, <3>1, <3>2
    <3>4. PICK to : to = [k \in 1 .. size + 1 |->
                            IF k <= size THEN at[k] ELSE n]
      OBVIOUS
    <3>5. /\ size <= m
          /\ at \in [1 .. size -> places \cap (1 .. m)]
          /\ \A k \in 1 .. size : f[m][k] = seq[at[k]]
          /\ \A k, l \in 1 .. size : k < l => at[k] < at[l]
          /\ \A i \in places \cap (1 .. m) : \E k \in 1 .. size : at[k] = i
      BY <2>4, <2>5 DEF Orders
    <3>6. size + 1 <= n
      BY <2>2, <3>5
    <3>7. to \in [1 .. size + 1 -> places \cap (1 .. n)]
      BY <2>2, <2>6, <3>4, <3>5
    <3>8. ASSUME NEW k \in 1 .. size + 1 PROVE f[n][k] = seq[to[k]]
      BY <3>3, <3>4, <3>5
    <3>9. ASSUME NEW k \in 1 .. size + 1, NEW l \in 1 .. size + 1, k < l
          PROVE  to[k] < to[l]
      <4>1. k \in 1 .. size /\ to[k] = at[k] /\ at[k] \in 1 .. m
        BY <3>4, <3>5, <3>9
      <4> QED
        BY <2>2, <3>4, <3>5, <3>9, <4>1
    <3>10. ASSUME NEW i \in places \cap (1 .. n)
           PROVE  \E k \in 1 .. size + 1 : to[k] = i
      <4>1. CASE i = n
        BY <3>4, <4>1
      <4>2. CASE i # n
        <5>1. PICK k \in 1 .. size : at[k] = i
          BY <2>2, <3>5, <4>2
        <5> QED
          BY <3>4, <5>1
      <4> QED
        BY <4>1, <4>2
    <3>11. Orders(to, f[n], seq, places, n)
      BY <3>3, <3>6, <3>7, <3>8, <3>9, <3>10 DEF Orders
    <3> QED
      BY <2>2, <3>3, <3>11
  <2>7. CASE n \notin places
    <3>1. f[n] = f[m]
      <4>1. f[n] = f[m] \o <<>>
        BY <1>1, <2>3, <2>7 DEF UpTo
      <4> QED
        BY <2>3, <4>1
    <3>2. places \cap (1 .. n) = places \cap (1 .. m)
      BY <2>2, <2>7
    <3>3. Orders(at, f[n], seq, places, n)
      BY <2>2, <2>4, <2>5, <3>1, <3>2 DEF Orders
    <3> QED
      BY <2>2, <2>3, <3>1, <3>3
  <2> QED
    BY <2>6, <2>7
<1>4. Nat \subseteq S
  <2> HIDE DEF S
  <2> QED
    BY <1>2, <1>3, NatClosed
<1>5. len \in S
  BY <1>0, <1>4
<1> QED
  BY <1>0, <1>1, <1>5

-----------------------------------------------------------------------------
(* Brackets in a program: how many of one kind the places from i to j have,*)
(* and how many loops are open after k, of those that were opened from i   *)
(* on.  Two places are a pair when nothing is open after the second, and   *)
(* something is from the first up to it.                                   *)
BracketsIn(code, b, i, j) == Cardinality({k \in i .. j : code[k] = b})

Open(code, i, k) == BracketsIn(code, "[", i, k) - BracketsIn(code, "]", i, k)

Pairs(code, i, j) ==
  /\ code[i] = "[" /\ code[j] = "]" /\ i < j
  /\ Open(code, i, j) = 0
  /\ \A k \in i .. j - 1 : Open(code, i, k) >= 1

LEMMA BracketsType ==
  ASSUME NEW code, NEW b, NEW i \in Int, NEW j \in Int
  PROVE  /\ BracketsIn(code, b, i, j) \in Nat
         /\ j < i => BracketsIn(code, b, i, j) = 0
<1> DEFINE S == {k \in i .. j : code[k] = b}
<1>1. IsFiniteSet(S)
  <2>1. S \in SUBSET (i .. j) /\ IsFiniteSet(i .. j)
    BY FS_Interval
  <2> QED
    BY <2>1, FS_Subset
<1>2. j < i => S = {}
  OBVIOUS
<1>3. BracketsIn(code, b, i, j) = Cardinality(S)
  BY DEF BracketsIn
<1> QED
  BY <1>1, <1>2, <1>3, FS_CardinalityType, FS_EmptySet

LEMMA BracketsSplit ==
  ASSUME NEW code, NEW b, NEW i \in Int, NEW j \in Int, NEW k \in Int,
         i <= k + 1, k <= j
  PROVE  BracketsIn(code, b, i, j)
           = BracketsIn(code, b, i, k) + BracketsIn(code, b, k + 1, j)
<1> DEFINE S == {l \in i .. k : code[l] = b}
           T == {l \in k + 1 .. j : code[l] = b}
<1>1. IsFiniteSet(S) /\ IsFiniteSet(T)
  <2>1. /\ S \in SUBSET (i .. k) /\ IsFiniteSet(i .. k)
        /\ T \in SUBSET (k + 1 .. j) /\ IsFiniteSet(k + 1 .. j)
    BY FS_Interval
  <2> QED
    BY <2>1, FS_Subset
<1>2. S \cap T = {} /\ S \cup T = {l \in i .. j : code[l] = b}
  OBVIOUS
<1>3. /\ BracketsIn(code, b, i, k) = Cardinality(S)
      /\ BracketsIn(code, b, k + 1, j) = Cardinality(T)
      /\ BracketsIn(code, b, i, j) = Cardinality(S \cup T)
  BY <1>2 DEF BracketsIn
<1> HIDE DEF S, T
<1>4. Cardinality(S \cup T) = Cardinality(S) + Cardinality(T)
  <2>1. Cardinality(S \cap T) = 0
    BY <1>2, FS_EmptySet
  <2>2. Cardinality(S \cup T)
          = Cardinality(S) + Cardinality(T) - Cardinality(S \cap T)
    BY <1>1, FS_Union
  <2>3. Cardinality(S) \in Nat /\ Cardinality(T) \in Nat
    BY <1>1, FS_CardinalityType
  <2> QED
    BY <2>1, <2>2, <2>3
<1> QED
  BY <1>3, <1>4

LEMMA BracketsAt ==
  ASSUME NEW code, NEW b, NEW i \in Int
  PROVE  BracketsIn(code, b, i, i) = IF code[i] = b THEN 1 ELSE 0
<1> DEFINE S == {l \in i .. i : code[l] = b}
<1>1. BracketsIn(code, b, i, i) = Cardinality(S)
  BY DEF BracketsIn
<1>2. code[i] = b => S = {i}
  OBVIOUS
<1>3. code[i] # b => S = {}
  OBVIOUS
<1> HIDE DEF S
<1> QED
  BY <1>1, <1>2, <1>3, FS_Singleton, FS_EmptySet

(* One place more, and two stretches put together.                         *)
LEMMA OpenStep ==
  ASSUME NEW code, NEW i \in Int, NEW k \in Int, i <= k + 1
  PROVE  /\ Open(code, i, k) \in Int
         /\ code[k + 1] = "[" => Open(code, i, k + 1) = Open(code, i, k) + 1
         /\ code[k + 1] = "]" => Open(code, i, k + 1) = Open(code, i, k) - 1
         /\ code[k + 1] \notin {"[", "]"} =>
              Open(code, i, k + 1) = Open(code, i, k)
<1>1. PICK j \in Int : j = k + 1
  OBVIOUS
<1>2. /\ BracketsIn(code, "[", i, k) \in Nat
      /\ BracketsIn(code, "]", i, k) \in Nat
  BY BracketsType
<1>3. /\ BracketsIn(code, "[", i, j)
           = BracketsIn(code, "[", i, k) + BracketsIn(code, "[", j, j)
      /\ BracketsIn(code, "]", i, j)
           = BracketsIn(code, "]", i, k) + BracketsIn(code, "]", j, j)
  BY <1>1, BracketsSplit
<1>4. /\ BracketsIn(code, "[", j, j) = IF code[j] = "[" THEN 1 ELSE 0
      /\ BracketsIn(code, "]", j, j) = IF code[j] = "]" THEN 1 ELSE 0
  BY BracketsAt
<1> QED
  BY <1>1, <1>2, <1>3, <1>4 DEF Open

LEMMA OpenSplit ==
  ASSUME NEW code, NEW i \in Int, NEW j \in Int, NEW k \in Int,
         i <= k + 1, k <= j
  PROVE  /\ Open(code, i, j) = Open(code, i, k) + Open(code, k + 1, j)
         /\ Open(code, i, k) \in Int /\ Open(code, k + 1, j) \in Int
<1>1. PICK l \in Int : l = k + 1
  OBVIOUS
<1>2. /\ BracketsIn(code, "[", i, k) \in Nat
      /\ BracketsIn(code, "]", i, k) \in Nat
      /\ BracketsIn(code, "[", l, j) \in Nat
      /\ BracketsIn(code, "]", l, j) \in Nat
  BY BracketsType
<1>3. /\ BracketsIn(code, "[", i, j)
           = BracketsIn(code, "[", i, k) + BracketsIn(code, "[", l, j)
      /\ BracketsIn(code, "]", i, j)
           = BracketsIn(code, "]", i, k) + BracketsIn(code, "]", l, j)
  BY <1>1, BracketsSplit
<1> QED
  BY <1>1, <1>2, <1>3 DEF Open

LEMMA OpenAtStart ==
  ASSUME NEW code, NEW i \in Int, code[i] = "["
  PROVE  Open(code, i, i) = 1
<1>1. PICK h \in Int : h = i - 1 /\ h < i /\ i <= h + 1 /\ h + 1 = i
  OBVIOUS
<1>2. Open(code, i, h) = 0
  BY <1>1, BracketsType DEF Open
<1>3. Open(code, i, i) = Open(code, i, h) + 1
  BY <1>1, OpenStep
<1> QED
  BY <1>2, <1>3

(* A count that is never 0 is never below.                                 *)
LEMMA NeverClosed ==
  ASSUME NEW code, NEW i \in Int, NEW n \in Int, code[i] = "[",
         \A k \in i + 1 .. n : Open(code, i, k) # 0,
         NEW l \in i .. n
  PROVE  Open(code, i, l) >= 1
<1> DEFINE S == {d \in Nat : i + d <= n => Open(code, i, i + d) >= 1}
<1>1. 0 \in S
  <2>1. i + 0 = i
    OBVIOUS
  <2> QED
    BY <2>1, OpenAtStart
<1>2. ASSUME NEW d \in S \cap Nat PROVE d + 1 \in S
  <2>1. SUFFICES ASSUME i + (d + 1) <= n
                 PROVE  Open(code, i, i + (d + 1)) >= 1
    OBVIOUS
  <2>2. PICK k \in Int : k = i + d /\ k + 1 = i + (d + 1) /\ i <= k + 1
          /\ k <= n /\ k + 1 \in i + 1 .. n
    BY <2>1
  <2>3. Open(code, i, k) >= 1
    BY <2>2
  <2>4. Open(code, i, k + 1) \in Int
          /\ Open(code, i, k + 1) >= Open(code, i, k) - 1
    BY <2>2, <2>3, OpenStep
  <2>5. Open(code, i, k + 1) # 0
    BY <2>2
  <2>6. Open(code, i, k) \in Int
    BY <2>2, OpenStep
  <2> QED
    BY <2>2, <2>3, <2>4, <2>5, <2>6
<1>3. Nat \subseteq S
  <2> HIDE DEF S
  <2> QED
    BY <1>1, <1>2, NatClosed
<1>4. PICK d \in Nat : i + d = l
  <2>1. l - i \in Nat /\ i + (l - i) = l
    OBVIOUS
  <2> QED
    BY <2>1
<1> QED
  BY <1>3, <1>4

(* The end of a loop is the first place where nothing is open any more.    *)
LEMMA FirstClosed ==
  ASSUME NEW code, NEW i \in Int, NEW j \in Int, code[i] = "[", i < j,
         Open(code, i, j) = 0,
         \A k \in i + 1 .. j - 1 : Open(code, i, k) # 0
  PROVE  Pairs(code, i, j)
<1>1. PICK h \in Int : h = j - 1 /\ h + 1 = j /\ i <= h + 1 /\ h \in i .. h
  OBVIOUS
<1>2. ASSUME NEW l \in i .. h PROVE Open(code, i, l) >= 1
  BY <1>1, NeverClosed
<1>3. code[j] = "]"
  <2>1. Open(code, i, h) >= 1 /\ Open(code, i, h) \in Int
    BY <1>1, <1>2, OpenStep
  <2> QED
    BY <1>1, <2>1, OpenStep
<1> QED
  BY <1>1, <1>2, <1>3 DEF Pairs

(* A bracket has one match.                                                *)
LEMMA OneMatch ==
  ASSUME NEW code, NEW i \in Int, NEW h \in Int, NEW j \in Int,
         Pairs(code, i, j), Pairs(code, h, j)
  PROVE  i = h
<1>1. ASSUME NEW a \in Int, NEW b \in Int,
             Pairs(code, a, j), Pairs(code, b, j)
      PROVE  ~(a < b)
  <2>1. SUFFICES ASSUME a < b PROVE FALSE
    OBVIOUS
  <2>2. b < j /\ Open(code, a, j) = 0 /\ Open(code, b, j) = 0
          /\ \A k \in a .. j - 1 : Open(code, a, k) >= 1
    BY <1>1 DEF Pairs
  <2>3. PICK k \in Int :
          k = b - 1 /\ k + 1 = b /\ a <= k + 1 /\ k <= j /\ k \in a .. j - 1
    BY <2>1, <2>2
  <2>4. Open(code, a, j) = Open(code, a, k) + Open(code, b, j)
          /\ Open(code, a, k) \in Int
    BY <2>3, OpenSplit
  <2>5. Open(code, a, k) >= 1
    BY <2>2, <2>3
  <2> QED
    BY <2>2, <2>4, <2>5
<1> QED
  BY <1>1
=============================================================================
