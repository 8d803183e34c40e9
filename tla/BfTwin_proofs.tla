--------------------------- MODULE BfTwin_proofs ----------------------------
(***************************************************************************)
(* bfrun in step with the language, for every source and every input: what *)
(* each instruction leaves for the language to do, what each command does  *)
(* of it, and that the two meet before the next instruction.               *)
(***************************************************************************)
EXTENDS BfPc_proofs

-----------------------------------------------------------------------------
(* The input: the console after a number of characters.                    *)

(* Where the parts of a flattened sequence begin.                          *)
Begins(start, seqs, all) ==
  /\ start \in [0 .. Len(seqs) -> Nat] /\ start[0] = 0
  /\ \A i \in 1 .. Len(seqs) : start[i] = start[i - 1] + Len(seqs[i])
  /\ Len(all) = start[Len(seqs)]
  /\ \A i \in 1 .. Len(seqs) : \A k \in 1 .. Len(seqs[i]) :
       /\ start[i - 1] + k <= Len(all)
       /\ all[start[i - 1] + k] = seqs[i][k]

LEMMA FlattenBegins ==
  ASSUME NEW A, NEW seqs \in Seq(Seq(A)), seqs # <<>>
  PROVE  \E start : Begins(start, seqs, FlattenSeq(seqs))
<1>1. PICK n \in Nat \ {0} : n = Len(seqs)
  OBVIOUS
<1>2. PICK f : FlattenSeq(seqs) = f[n] /\ Joins(f, seqs, n)
  BY ONLY <1>1, FlattenIs
<1>3. \A i \in 1 .. n : seqs[i] \in Seq(A) /\ Len(seqs[i]) \in Nat
  BY <1>1
<1> DEFINE start == [i \in 0 .. n |-> IF i = 0 THEN 0 ELSE Len(f[i])]
           Good1(i) ==
             /\ f[i] \in Seq(A) /\ start[i] \in Nat
             /\ start[i] = start[i - 1] + Len(seqs[i])
             /\ start[i - 1] \in Nat
             /\ \A j \in 1 .. i : \A k \in 1 .. Len(seqs[j]) :
                  /\ start[j - 1] + k \in 1 .. start[i]
                  /\ f[i][start[j - 1] + k] = seqs[j][k]
           S == {i \in Nat : i # 0 /\ i <= n => Good1(i)}
<1>4. 0 \in S
  OBVIOUS
<1> HIDE DEF Good1
<1>5. ASSUME NEW m \in S \cap Nat PROVE m + 1 \in S
  <2>1. SUFFICES ASSUME NEW i \in 1 .. n, i = m + 1 PROVE Good1(i)
    BY <1>1
  <2>2. PICK t \in Seq(A) : t = seqs[i]
    BY <1>3
  <2>3. CASE i = 1
    <3>1. f[i] = t
      BY <1>2, <2>2, <2>3 DEF Joins
    <3>2. start[0] = 0 /\ start[i] = Len(t) /\ i - 1 = 0
      BY <2>3, <3>1
    <3>3. \A j \in 1 .. i : j = 1
      BY <2>3
    <3> HIDE DEF start
    <3> QED
      BY <2>2, <2>3, <3>1, <3>2, <3>3 DEF Good1
  <2>4. CASE i # 1
    <3>1. PICK l \in 1 .. n : l = i - 1 /\ l = m /\ l # 0 /\ l <= n
      BY <2>1, <2>4
    <3>2. f[i] = f[l] \o t
      BY <1>2, <2>2, <2>4, <3>1 DEF Joins
    <3>3. Good1(l)
      BY <3>1
    <3>4. PICK s \in Seq(A) : s = f[l]
      BY <3>3 DEF Good1
    <3>5. start[l] = Len(s) /\ start[i] = Len(f[i])
      BY <3>1, <3>4
    <3>6. /\ s \o t \in Seq(A) /\ Len(s \o t) = Len(s) + Len(t)
          /\ \A x \in 1 .. Len(s) : (s \o t)[x] = s[x]
          /\ \A x \in 1 .. Len(t) : (s \o t)[Len(s) + x] = t[x]
      BY ConcatAt
    <3>7. PICK u \in Seq(A) : u = s \o t /\ u = f[i]
      BY <3>2, <3>4, <3>6
    <3> HIDE DEF start
    <3>8. ASSUME NEW j \in 1 .. i, NEW k \in 1 .. Len(seqs[j])
          PROVE  /\ start[j - 1] + k \in 1 .. start[i]
                 /\ f[i][start[j - 1] + k] = seqs[j][k]
      <4>1. CASE j \in 1 .. l
        <5>1. PICK x \in 1 .. Len(s) : x = start[j - 1] + k
                /\ f[l][x] = seqs[j][k]
          BY <3>3, <3>5, <4>1 DEF Good1
        <5>2. f[i][x] = s[x] /\ x \in 1 .. start[i]
          <6>1. f[i][x] = s[x]
            BY <3>6, <3>7
          <6>2. start[i] = Len(s) + Len(t)
            BY <3>5, <3>6, <3>7
          <6>3. Len(s) \in Nat /\ Len(t) \in Nat
            OBVIOUS
          <6>4. x \in 1 .. start[i]
            BY ONLY <6>2, <6>3, x \in 1 .. Len(s)
          <6> QED
            BY <6>1, <6>4
        <5> QED
          BY <3>4, <5>1, <5>2
      <4>2. CASE j = i
        <5>1. k \in 1 .. Len(t) /\ start[j - 1] = Len(s)
          BY <2>2, <3>1, <3>5, <4>2
        <5>2. f[i][Len(s) + k] = t[k]
          BY <3>6, <3>7, <5>1
        <5>3. start[j - 1] + k = Len(s) + k /\ start[i] = Len(s) + Len(t)
          BY <3>5, <3>6, <3>7, <5>1
        <5>4. Len(s) + k \in 1 .. Len(s) + Len(t)
          BY <5>1
        <5> QED
          BY <2>2, <4>2, <5>2, <5>3, <5>4
      <4> QED
        BY <3>1, <4>1, <4>2
    <3>9. /\ f[i] \in Seq(A) /\ start[i] \in Nat /\ start[i - 1] \in Nat
          /\ start[i] = start[i - 1] + Len(seqs[i])
      <4>1. start[i - 1] = Len(s)
        BY <3>1, <3>5
      <4>2. start[i] = Len(s) + Len(t) /\ f[i] \in Seq(A)
        BY <3>5, <3>6, <3>7
      <4>3. Len(s) \in Nat /\ Len(t) \in Nat
        OBVIOUS
      <4> QED
        BY <2>2, <4>1, <4>2, <4>3
    <3> QED
      BY <3>8, <3>9 DEF Good1
  <2> QED
    BY <2>3, <2>4
<1>6. Nat \subseteq S
  <2> HIDE DEF S
  <2> QED
    BY <1>4, <1>5, NatClosed
<1>7. \A i \in 1 .. n : Good1(i)
  BY <1>6
<1>8. start[0] = 0 /\ start[n] = Len(f[n])
  OBVIOUS
<1>9. start \in [0 .. n -> Nat]
  <2>1. \A i \in 0 .. n : start[i] \in Nat
    <3>1. \A i \in 0 .. n : i = 0 \/ i \in 1 .. n
      OBVIOUS
    <3> HIDE DEF start
    <3>2. \A i \in 1 .. n : start[i] \in Nat
      BY <1>7 DEF Good1
    <3> QED
      BY <1>8, <3>1, <3>2
  <2> QED
    BY <2>1
<1>10. Begins(start, seqs, f[n])
  <2> HIDE DEF start
  <2>1. ASSUME NEW i \in 1 .. n, NEW k \in 1 .. Len(seqs[i])
        PROVE  start[i - 1] + k <= Len(f[n])
                 /\ f[n][start[i - 1] + k] = seqs[i][k]
    <3>1. n \in 1 .. n /\ i \in 1 .. n
      OBVIOUS
    <3>2. start[i - 1] + k \in 1 .. start[n]
            /\ f[n][start[i - 1] + k] = seqs[i][k]
      BY <1>7, <3>1 DEF Good1
    <3>3. start[n] \in Nat
      BY <1>9
    <3> QED
      BY <1>8, <3>2, <3>3
  <2>2. \A i \in 1 .. n : start[i] = start[i - 1] + Len(seqs[i])
    BY <1>7 DEF Good1
  <2> QED
    BY <1>1, <1>8, <1>9, <2>1, <2>2 DEF Begins
<1> QED
  BY <1>2, <1>10

Ended(words) == [w \in DOMAIN words |-> Append(words[w], 0)]
Start1(words) ==
  CHOOSE start : Begins(start, Ended(words), FlattenSeq(Ended(words)))

(* What a word with its zero has given in a number of turns. *)
Turns(l, turn) == turn * l

LEMMA TurnsType ==
  ASSUME NEW l \in Nat, NEW turn \in Nat
  PROVE  Turns(l, turn) \in Nat /\ (turn = 0 => Turns(l, turn) = 0)
BY DEF Turns

LEMMA TurnsStep ==
  ASSUME NEW l \in Nat, NEW turn \in Nat, NEW next \in Nat, next = turn + 1
  PROVE  Turns(l, next) = Turns(l, turn) + l
BY DEF Turns

(* The n-th character is the k-th of word w, which has its turn again.     *)
Reached(words, w, turn, k, n) ==
  /\ w \in 1 .. Len(words) /\ turn \in Nat
  /\ turn = 0 \/ w = Len(words)
  /\ k \in 1 .. Len(words[w]) + 1
  /\ n = Start1(words)[w - 1] + Turns(Len(words[w]) + 1, turn) + k

(* The console has handed out n characters of these words: the last of     *)
(* them was the k-th of word w, which was handed out turn times before.    *)
Handed(words, n) ==
  IF words = <<>>
  THEN typed = <<>> /\ InputString = <<>> /\ stringIsFree = TRUE
  ELSE \/ /\ n = 0 /\ typed = words
          /\ InputString = <<>> /\ stringIsFree = TRUE
       \/ \E w, turn, k :
            /\ Reached(words, w, turn, k, n)
            /\ Len(typed) = Len(words) - w
            /\ \A i \in 1 .. Len(words) - w : typed[i] = words[w + i]
            /\ InputString = words[w]
            /\ stringIsFree = (k = Len(words[w]) + 1)
            /\ k # Len(words[w]) + 1 => input_string_current_pos = k

IsInput(words) ==
  /\ words \in Seq(Seq(Word))
  /\ \A w \in DOMAIN words :
       words[w] # <<>> /\ words[w] \in Seq(1 .. ByteSize - 1)

LEMMA EndedIs ==
  ASSUME NEW words, IsInput(words), words # <<>>
  PROVE  /\ Len(Ended(words)) = Len(words)
         /\ Begins(Start1(words), Ended(words), FlattenSeq(Ended(words)))
         /\ \A w \in 1 .. Len(words) :
              /\ Ended(words)[w] = Append(words[w], 0)
              /\ Len(words[w]) \in Nat /\ Len(words[w]) >= 1
              /\ Len(Ended(words)[w]) = Len(words[w]) + 1
<1>1. \A w \in 1 .. Len(words) :
        words[w] \in Seq(Word) /\ words[w] # <<>> /\ Len(words[w]) \in Nat
  BY DEF IsInput
<1>2. Ended(words) \in Seq(Seq(Word)) /\ Len(Ended(words)) = Len(words)
  <2>1. \A w \in 1 .. Len(words) : Append(words[w], 0) \in Seq(Word)
    BY <1>1, FieldWords
  <2>2. DOMAIN words = 1 .. Len(words) /\ Len(words) \in Nat
    BY DEF IsInput
  <2>3. Ended(words) \in [1 .. Len(words) -> Seq(Word)]
    BY <2>1, <2>2 DEF Ended
  <2> QED
    BY <2>2, <2>3, IsASeq
<1>3. Ended(words) # <<>>
  BY <1>2 DEF IsInput
<1>4. \E start : Begins(start, Ended(words), FlattenSeq(Ended(words)))
  BY <1>2, <1>3, FlattenBegins
<1>5. \A w \in 1 .. Len(words) : Ended(words)[w] = Append(words[w], 0)
  BY DEF Ended, IsInput
<1> QED
  BY <1>1, <1>2, <1>4, <1>5 DEF Start1

(* A word ends with a zero. *)
Letter(words, w, k) == Append(words[w], 0)[k]

(* Where a character of the stream comes from. *)
LEMMA StreamIs ==
  ASSUME NEW words, IsInput(words), words # <<>>,
         NEW w, NEW turn, NEW k, NEW n, Reached(words, w, turn, k, n)
  PROVE  Stream(words, n) = Letter(words, w, k) /\ n \in Nat /\ n >= 1
<1>0. /\ w \in 1 .. Len(words) /\ turn \in Nat /\ (turn = 0 \/ w = Len(words))
      /\ k \in 1 .. Len(words[w]) + 1
      /\ n = Start1(words)[w - 1] + Turns(Len(words[w]) + 1, turn) + k
  BY DEF Reached
<1>14. turn \in Nat
  BY <1>0
<1>1. PICK start : start = Start1(words)
  OBVIOUS
<1>2. PICK all : all = FlattenSeq(Ended(words))
  OBVIOUS
<1>3. PICK len \in Nat : len = Len(words) /\ len >= 1 /\ w \in 1 .. len
  BY <1>0 DEF IsInput
<1>4. PICK l \in Nat : l = Len(words[w]) + 1 /\ Len(words[w]) \in Nat
  BY <1>0, EndedIs
<1>5. l \in Nat /\ l >= 1 /\ k \in 1 .. l
  BY <1>0, <1>4
<1>6. PICK e, last :
        /\ Len(Ended(words)) = len /\ Begins(start, Ended(words), all)
        /\ e = Ended(words)[w] /\ Len(e) = l /\ e = Append(words[w], 0)
        /\ last = Append(Last(words), 0) /\ (w = len => last = e)
  <2>1. /\ Len(Ended(words)) = len /\ Begins(start, Ended(words), all)
        /\ Ended(words)[w] = Append(words[w], 0)
        /\ Len(Ended(words)[w]) = l
    BY <1>1, <1>2, <1>3, <1>4, EndedIs
  <2>2. w = len => Last(words) = words[w]
    BY <1>3 DEF Last
  <2> QED
    BY <2>1, <2>2
<1>7. PICK b \in Nat, size \in Nat :
        /\ b = start[w - 1] /\ size = Len(all) /\ start[len] = size
        /\ start[w] = b + l /\ all[b + k] = e[k] /\ b + k <= size
  <2>1. PICK seqs : seqs = Ended(words) /\ Len(seqs) = len /\ Len(seqs[w]) = l
                    /\ seqs[w] = e /\ Begins(start, seqs, all)
    BY <1>6
  <2>2. w - 1 \in 0 .. len /\ len \in 0 .. len
    BY <1>3
  <2>3. /\ start[w - 1] \in Nat /\ start[len] \in Nat /\ Len(all) = start[len]
        /\ start[w] = start[w - 1] + l
        /\ start[w - 1] + k <= Len(all)
        /\ all[start[w - 1] + k] = e[k]
    BY ONLY <1>3, <1>5, <2>1, <2>2 DEF Begins
  <2> QED
    BY ONLY <2>3
<1>8. (w = len => size = b + l) /\ b + k <= size
  BY ONLY <1>7
<1>9. Stream(words, n) =
        IF n <= size THEN all[n]
        ELSE last[((n - size - 1) % Len(last)) + 1]
  BY <1>2, <1>6, <1>7 DEF Stream, Ended
<1>10. PICK m \in Nat, next \in Nat :
         m = Turns(l, turn) /\ n = b + m + k /\ next = turn + 1
  <2>1. turn + 1 \in Nat /\ Turns(l, turn) \in Nat
    BY ONLY <1>5, <1>14, TurnsType
  <2>2. n = b + Turns(l, turn) + k
    BY <1>0, <1>1, <1>4, <1>7
  <2> QED
    BY <2>1, <2>2
<1>11. n = b + m + k /\ n \in Nat /\ n >= 1
  BY ONLY <1>5, <1>10
<1>12. CASE turn = 0
  <2>1. m = 0
    BY ONLY <1>0, <1>4, <1>10, <1>12, TurnsType, TurnsStep
  <2>2. n = b + k /\ n <= size
    BY ONLY <1>5, <1>8, <1>11, <2>1
  <2>3. Stream(words, n) = e[k]
    BY ONLY <1>7, <1>9, <2>2
  <2> QED
    BY <1>6, <1>11, <2>3 DEF Letter
<1>13. CASE turn # 0
  <2>1. w = len
    BY <1>0, <1>3, <1>13
  <2>2. PICK q \in Nat : turn = q + 1
    <3>1. turn - 1 \in Nat /\ (turn - 1) + 1 = turn
      BY ONLY <1>13, <1>14
    <3> QED
      BY <3>1
  <2>9. PICK p \in Nat : p = q * l
    <3>1. \A i \in Nat : i * l \in Nat
      OBVIOUS
    <3> QED
      BY <3>1
  <2>3. m = p + l
    <3>1. /\ Turns(l, q) \in Nat
          /\ Turns(l, turn) = Turns(l, q) + l
      BY ONLY <1>5, <1>14, <2>2, TurnsType, TurnsStep
    <3>2. Turns(l, q) = p
      BY ONLY <2>9 DEF Turns
    <3> QED
      BY ONLY <1>10, <3>1, <3>2
  <2>4. n = size + p + k
    BY ONLY <1>5, <1>8, <1>11, <2>1, <2>3
  <2>5. ~(n <= size) /\ n - size - 1 = p + (k - 1) /\ k - 1 \in 0 .. l - 1
    BY ONLY <1>5, <2>4
  <2>6. (n - size - 1) % l = k - 1
    <3>1. PICK x \in Int : x = n - size - 1 /\ x = p + (k - 1)
      BY ONLY <1>5, <2>5
    <3>2. x = q * l + (k - 1) /\ l \in Nat \ {0} /\ q \in Int
      BY ONLY <1>5, <2>9, <3>1
    <3>3. x % l = k - 1
      BY ONLY <2>5, <3>2, ModUnique
    <3> QED
      BY ONLY <3>1, <3>3
  <2>7. Stream(words, n) = e[(k - 1) + 1]
    BY ONLY <1>6, <1>9, <2>1, <2>5, <2>6
  <2>8. (k - 1) + 1 = k
    BY <1>5
  <2> QED
    BY <1>6, <1>11, <2>7, <2>8 DEF Letter
<1> QED
  BY <1>12, <1>13

LEMMA HandedInit ==
  ASSUME NEW words, ConsoleInit(words)
  PROVE  Handed(words, 0)
BY DEF ConsoleInit, Handed

LEMMA WordIs ==
  ASSUME NEW words, IsInput(words), words # <<>>, NEW w \in 1 .. Len(words)
  PROVE  \E l \in Nat, b \in Nat :
           /\ l = Len(words[w]) + 1 /\ l >= 2
           /\ b = Start1(words)[w - 1]
           /\ Start1(words)[w] = b + l /\ Start1(words)[0] = 0
           /\ words[w] \in Seq(1 .. ByteSize - 1)
<1>0. /\ Begins(Start1(words), Ended(words), FlattenSeq(Ended(words)))
      /\ Len(Ended(words)) = Len(words)
      /\ Len(Ended(words)[w]) = Len(words[w]) + 1
      /\ Len(words) \in Nat
  BY EndedIs DEF IsInput
<1>6. PICK len \in Nat : len = Len(words)
  BY <1>0
<1>7. PICK seqs : seqs = Ended(words)
  OBVIOUS
<1>8. PICK start : start = Start1(words)
  OBVIOUS
<1>9. PICK all : all = FlattenSeq(Ended(words))
  OBVIOUS
<1>1. /\ seqs = Ended(words) /\ start = Start1(words) /\ len = Len(words)
      /\ Begins(start, seqs, all) /\ Len(seqs) = len
      /\ Len(seqs[w]) = Len(words[w]) + 1
  BY ONLY <1>0, <1>6, <1>7, <1>8, <1>9
<1>2. PICK l \in Nat : l = Len(words[w]) + 1 /\ l >= 2
  BY EndedIs
<1>3. w - 1 \in 0 .. len /\ w \in 1 .. len
  BY <1>1
<1>4. start[w - 1] \in Nat /\ start[0] = 0 /\ start[w] = start[w - 1] + l
  <2>1. /\ start \in [0 .. len -> Nat] /\ start[0] = 0
        /\ \A i \in 1 .. len : start[i] = start[i - 1] + Len(seqs[i])
    BY ONLY <1>1 DEF Begins
  <2>2. start[w] = start[w - 1] + Len(seqs[w])
    BY ONLY <1>3, <2>1
  <2> QED
    BY ONLY <1>1, <1>2, <1>3, <2>1, <2>2
<1>5. words[w] \in Seq(1 .. ByteSize - 1)
  BY ONLY <1>1, <1>3, IsInput(words), w \in 1 .. Len(words) DEF IsInput
<1> QED
  BY <1>1, <1>2, <1>4, <1>5

(* The next word is scanned. *)
LEMMA HandedFirst ==
  ASSUME NEW words, IsInput(words), words # <<>>,
         NEW w, NEW turn, NEW n, Reached(words, w, turn, 1, n),
         In, stringIsFree, Scanned = words[w],
         Len(typed') = Len(words) - w,
         \A i \in 1 .. Len(words) - w : typed'[i] = words[w + i]
  PROVE  Val = Stream(words, n) /\ Handed(words, n)'
<1>0. w \in 1 .. Len(words)
  BY DEF Reached
<1>1. PICK word \in Seq(1 .. ByteSize - 1), l \in Nat :
        word = words[w] /\ l = Len(words[w]) + 1 /\ l >= 2
  BY <1>0, WordIs
<1>2. 1 # Len(words[w]) + 1
  BY <1>1
<1>3. Stream(words, n) = Letter(words, w, 1)
  BY StreamIs
<1>4. Val = word[1] /\ Append(word, 0)[1] = word[1]
  BY <1>1 DEF Val, CharAt
<1>5. InNewWord
  BY DEF In, InSameWord
<1>6. words[w] # <<>>
  BY <1>1
<1>7. /\ InputString' = words[w] /\ input_string_current_pos' = 1
      /\ stringIsFree' = FALSE
  BY <1>5, <1>6 DEF InNewWord
<1>8. Handed(words, n)'
  BY <1>2, <1>7 DEF Handed
<1> QED
  BY <1>1, <1>3, <1>4, <1>8 DEF Letter

(* A character is the next of the stream. *)
LEMMA HandedStep ==
  ASSUME NEW words, IsInput(words), NEW n \in Nat, Handed(words, n),
         ConsoleType, In
  PROVE  Val = Stream(words, n + 1) /\ Handed(words, n + 1)'
<1>1. CASE words = <<>>
  <2>1. typed = <<>> /\ InputString = <<>> /\ stringIsFree = TRUE
    BY <1>1 DEF Handed
  <2>2. Scanned = <<>> /\ Exhausted /\ Val = 0 /\ InNewWord
    BY <2>1 DEF Scanned, Exhausted, Val, CharAt, In, InSameWord
  <2>3. typed' = <<>> /\ InputString' = <<>> /\ stringIsFree' = TRUE
    BY <2>1, <2>2 DEF InNewWord
  <2>4. Stream(words, n + 1) = 0
    <3>1. Len(FlattenSeq([i \in DOMAIN words |-> Append(words[i], 0)])) = 0
      BY <1>1 DEF FlattenSeq
    <3>2. Stream(words, n + 1) = <<0>>[((n + 1 - 0 - 1) % 1) + 1]
      BY <1>1, <3>1 DEF Stream
    <3>3. ((n + 1 - 0 - 1) % 1) + 1 = 1
      OBVIOUS
    <3> QED
      BY <3>2, <3>3
  <2>5. Handed(words, n + 1)'
    BY <1>1, <2>3 DEF Handed
  <2> QED
    BY <1>1, <2>2, <2>4, <2>5
<1>2. CASE words # <<>>
  <2> DEFINE start == Start1(words)
  <2>1. PICK len \in Nat : len = Len(words) /\ len >= 1
    BY <1>2 DEF IsInput
  <2>2. CASE n = 0 /\ typed = words /\ InputString = <<>> /\ stringIsFree = TRUE
    <3>1. /\ ~Exhausted /\ Scanned = words[1] /\ InNewWord
          /\ typed' = Tail(words)
      BY <1>2, <2>2 DEF Exhausted, Scanned, In, InSameWord, InNewWord
    <3>2. /\ Len(typed') = Len(words) - 1
          /\ \A i \in 1 .. Len(words) - 1 : typed'[i] = words[1 + i]
      BY <2>1, <3>1 DEF IsInput
    <3>3. 1 \in 1 .. Len(words) /\ 0 \in Nat /\ 1 \in Nat /\ 1 - 1 = 0
      BY <2>1
    <3>4. PICK l \in Nat : l = Len(words[1]) + 1 /\ l >= 2 /\ start[0] = 0
      BY <1>2, <3>3, WordIs
    <3>5. Turns(l, 0) = 0
      BY DEF Turns
    <3>6. Reached(words, 1, 0, 1, n + 1)
      <4>1. n + 1 = start[1 - 1] + Turns(l, 0) + 1 /\ 1 \in 1 .. l
        BY <2>2, <3>3, <3>4, <3>5
      <4> QED
        BY <3>3, <3>4, <4>1 DEF Reached
    <3> QED
      BY <1>2, <2>2, <3>1, <3>2, <3>6, HandedFirst
  <2>3. ASSUME NEW w, NEW turn, NEW k, Reached(words, w, turn, k, n),
               Len(typed) = len - w,
               \A i \in 1 .. len - w : typed[i] = words[w + i],
               InputString = words[w],
               stringIsFree = (k = Len(words[w]) + 1),
               k # Len(words[w]) + 1 => input_string_current_pos = k
        PROVE  Val = Stream(words, n + 1) /\ Handed(words, n + 1)'
    <3>0. /\ w \in 1 .. Len(words) /\ turn \in Nat
          /\ (turn = 0 \/ w = Len(words)) /\ k \in 1 .. Len(words[w]) + 1
          /\ n = start[w - 1] + Turns(Len(words[w]) + 1, turn) + k
      BY <2>3 DEF Reached
    <3>1. PICK l \in Nat, b \in Nat :
            /\ l = Len(words[w]) + 1 /\ l >= 2 /\ b = start[w - 1]
            /\ start[w] = b + l /\ words[w] \in Seq(1 .. ByteSize - 1)
      BY ONLY <1>2, <3>0, WordIs, IsInput(words)
    <3>7. k \in 1 .. l /\ w \in 1 .. len /\ (turn = 0 \/ w = len)
      BY <2>1, <3>0, <3>1
    <3>8. PICK next \in Nat : next = turn + 1
      BY <3>0
    <3>11. turn \in Nat /\ l \in Nat
      BY <3>0, <3>1
    <3>2. PICK m \in Nat :
            /\ m = Turns(l, turn) /\ Turns(l, next) = m + l
            /\ turn = 0 => m = 0
      <4>1. Turns(l, turn) \in Nat /\ (turn = 0 => Turns(l, turn) = 0)
        BY ONLY <3>11, TurnsType
      <4>2. Turns(l, next) = Turns(l, turn) + l
        BY ONLY <3>8, <3>11, TurnsStep
      <4> QED
        BY ONLY <4>1, <4>2
    <3>3. n = b + m + k
      BY <3>0, <3>1, <3>2
    <3>9. PICK word \in Seq(1 .. ByteSize - 1) : word = words[w]
      BY <3>1
    <3>10. l = Len(word) + 1
      BY <3>1, <3>9
    <3>4. CASE k # l
      <4>1. PICK c \in 1 .. l : c = k + 1 /\ k \in 1 .. l - 1
        BY ONLY <3>7, <3>4
      <4>2. n + 1 = b + m + c
        BY ONLY <3>3, <3>7, <4>1
      <4>3. Reached(words, w, turn, c, n + 1)
        BY ONLY <3>0, <3>1, <3>2, <4>1, <4>2 DEF Reached
      <4>4. Stream(words, n + 1) = Letter(words, w, c)
        <5>1. PICK x : x = n + 1
          OBVIOUS
        <5>2. Reached(words, w, turn, c, x)
          BY ONLY <4>3, <5>1
        <5>3. Stream(words, x) = Letter(words, w, c)
          BY ONLY <1>2, <5>2, StreamIs, IsInput(words)
        <5> QED
          BY <5>1, <5>3
      <4>5. Val = CharAt(word, k) /\ InSameWord
        BY <2>3, <3>1, <3>9, <3>4 DEF Val, In, InNewWord
      <4>6. CharAt(word, k) = Append(word, 0)[c]
        BY ONLY <3>10, <3>9, <4>1 DEF CharAt
      <4>7. /\ InputString' = words[w] /\ typed' = typed
            /\ input_string_current_pos' = c
            /\ stringIsFree' = (Val = 0)
        BY <2>3, <3>1, <3>4, <4>1, <4>5 DEF InSameWord
      <4>8. Val = 0 <=> c = l
        <5>1. c = l => CharAt(word, k) = 0
          BY ONLY <3>10, <3>9, <4>1 DEF CharAt
        <5>2. ASSUME c # l PROVE CharAt(word, k) # 0
          <6>1. k + 1 \in 1 .. Len(word) /\ k < Len(word)
            BY ONLY <3>10, <4>1, <5>2
          <6>2. PICK top \in Nat : top = ByteSize
            BY Sizes
          <6>3. word \in Seq(1 .. top - 1)
            BY <3>9, <6>2
          <6>4. word[k + 1] \in 1 .. top - 1
            BY ONLY <6>1, <6>2, <6>3
          <6> QED
            BY ONLY <6>1, <6>2, <6>4 DEF CharAt
        <5> QED
          BY <4>5, <5>1, <5>2
      <4>9. stringIsFree' = (c = Len(words[w]) + 1)
        BY <3>1, <4>7, <4>8
      <4>10. Handed(words, n + 1)'
        BY <1>2, <2>1, <2>3, <4>3, <4>7, <4>9 DEF Handed
      <4> QED
        BY <3>9, <4>4, <4>5, <4>6, <4>10 DEF Letter
    <3>5. CASE k = l /\ w # len
      <4>1. PICK v \in 1 .. len : v = w + 1 /\ turn = 0 /\ v - 1 = w
        BY <2>1, <3>5, <3>7
      <4>2. PICK x \in Nat : x = Len(words[v]) + 1 /\ x >= 2
        BY <1>2, <2>1, <4>1, WordIs
      <4>3. Reached(words, v, 0, 1, n + 1)
        <5>1. n = b + 0 + l /\ start[w] = b + l
          BY <3>1, <3>2, <3>3, <3>5, <4>1
        <5>2. n + 1 = start[w] + 0 + 1
          BY ONLY <3>1, <5>1
        <5>3. Turns(x, 0) = 0
          BY DEF Turns
        <5> QED
          BY <2>1, <4>1, <4>2, <5>2, <5>3 DEF Reached
      <4>4. Len(typed) >= 1 /\ typed \in Seq(Seq(Word)) /\ stringIsFree
        <5>1. len - w >= 1
          BY <2>1, <3>5, <3>7
        <5> QED
          BY <2>3, <3>1, <3>5, <5>1 DEF ConsoleType
      <4>5. Head(typed) = words[v]
        <5>1. 1 \in 1 .. len - w /\ w + 1 = v
          BY <2>1, <3>5, <3>7, <4>1
        <5> QED
          BY <2>3, <4>4, <5>1
      <4>6. InNewWord /\ ~Exhausted /\ typed' = Tail(typed)
        BY <4>4 DEF In, InSameWord, InNewWord, Exhausted
      <4>7. Len(typed') = Len(words) - v
        <5>1. Len(typed') = Len(typed) - 1
          BY ONLY <4>4, <4>6
        <5> QED
          BY <2>1, <2>3, <4>1, <5>1
      <4>8. ASSUME NEW i \in 1 .. Len(words) - v
            PROVE  typed'[i] = words[v + i]
        <5>1. PICK j \in 1 .. len - w : j = i + 1 /\ w + j = v + i
          BY <2>1, <3>7, <4>1
        <5>2. typed'[i] = typed[j]
          BY <2>1, <2>3, <4>4, <4>6, <5>1
        <5> QED
          BY <2>3, <5>1, <5>2
      <4>9. Scanned = words[v]
        BY <4>5, <4>6 DEF Scanned
      <4> QED
        BY <1>2, <2>1, <4>1, <4>3, <4>4, <4>7, <4>8, <4>9, HandedFirst
    <3>6. CASE k = l /\ w = len
      <4>1. Reached(words, w, next, 1, n + 1)
        <5>1. n + 1 = b + (m + l) + 1
          BY ONLY <3>1, <3>2, <3>3, <3>6
        <5> QED
          BY <2>1, <3>0, <3>1, <3>2, <3>6, <3>8, <5>1 DEF Reached
      <4>2. Len(typed) = 0 /\ typed \in Seq(Seq(Word)) /\ stringIsFree
        <5>1. len - w = 0
          BY <2>1, <3>6
        <5> QED
          BY <2>3, <3>1, <3>6, <5>1 DEF ConsoleType
      <4>3. InNewWord /\ Exhausted /\ typed' = typed
        BY <4>2 DEF In, InSameWord, InNewWord, Exhausted
      <4>4. Scanned = words[w]
        BY <2>3, <4>3 DEF Scanned
      <4>5. w \in 1 .. Len(words) /\ w = Len(words)
            /\ Len(typed') = Len(words) - w
            /\ \A i \in 1 .. Len(words) - w : typed'[i] = words[w + i]
        BY <2>1, <2>3, <3>0, <3>6, <4>3
      <4> QED
        BY <1>2, <4>1, <4>2, <4>4, <4>5, HandedFirst
    <3> QED
      BY <3>4, <3>5, <3>6
  <2> QED
    BY <1>2, <2>1, <2>2, <2>3 DEF Handed
<1> QED
  BY <1>1, <1>2

LEMMA EndedBytes ==
  ASSUME NEW words, IsInput(words), NEW w \in DOMAIN words,
         NEW k \in 1 .. Len(words[w]) + 1
  PROVE  Append(words[w], 0)[k] \in Bytes
<1>0. PICK A : A = 1 .. ByteSize - 1
  OBVIOUS
<1>1. PICK s \in Seq(A) : s = words[w]
  BY <1>0 DEF IsInput
<1>2. PICK n \in Nat : n = Len(s)
  BY <1>1
<1>3. k \in 1 .. n + 1
  BY <1>1, <1>2
<1>4. k <= n => Append(s, 0)[k] = s[k] /\ s[k] \in A
  BY ONLY <1>1, <1>2, <1>3
<1>5. k = n + 1 => Append(s, 0)[k] = 0
  BY ONLY <1>1, <1>2, <1>3
<1>6. 0 \in Bytes /\ 1 .. ByteSize - 1 \subseteq Bytes
  BY Sizes DEF Bytes
<1> QED
  BY <1>0, <1>1, <1>3, <1>4, <1>5, <1>6

(* A place of a flattened sequence. *)
IsWithin(start, seqs, all, len, n) ==
  /\ len = Len(seqs) /\ Begins(start, seqs, all)
  /\ \A i \in 1 .. len : Len(seqs[i]) \in Nat
  /\ n >= 1 /\ n <= Len(all)

(* A place in a flattened sequence is a place in one of its parts.         *)
LEMMA BeginsAt ==
  ASSUME NEW start, NEW seqs, NEW all, NEW len \in Nat, NEW n \in Nat,
         IsWithin(start, seqs, all, len, n)
  PROVE  \E i \in 1 .. len : \E k \in 1 .. Len(seqs[i]) : all[n] = seqs[i][k]
<1> DEFINE S == {i \in 0 .. len : n <= start[i]}
<1>1. /\ start \in [0 .. len -> Nat] /\ start[0] = 0 /\ Len(all) = start[len]
      /\ \A i \in 1 .. len : start[i] = start[i - 1] + Len(seqs[i])
      /\ \A i \in 1 .. len : Len(seqs[i]) \in Nat
      /\ len = Len(seqs) /\ n >= 1 /\ n <= Len(all)
      /\ Begins(start, seqs, all)
  BY DEF Begins, IsWithin
<1>2. S \subseteq Nat /\ len \in S
  BY <1>1
<1>3. PICK i \in S : \A x \in S : i <= x
  <2> HIDE DEF S
  <2>1. Min(S) \in S /\ \A x \in S : Min(S) <= x
    BY <1>2, MinOf
  <2> QED
    BY <2>1
<1>4. i \in 0 .. len /\ n <= start[i] /\ i # 0
  BY <1>1, <1>3
<1>5. i \in 1 .. len /\ i - 1 \in 0 .. len /\ i - 1 \notin S
  BY <1>3, <1>4
<1>6. PICK b \in Nat, l \in Nat :
        b = start[i - 1] /\ l = Len(seqs[i]) /\ start[i] = b + l
  BY <1>1, <1>5
<1>7. ~(n <= b)
  BY <1>5, <1>6
<1>8. PICK k \in 1 .. l : n = b + k
  <2>1. n - b \in 1 .. l /\ n = b + (n - b)
    BY ONLY <1>4, <1>6, <1>7, n \in Nat
  <2> QED
    BY <2>1
<1>9. all[b + k] = seqs[i][k]
  BY <1>1, <1>5, <1>6 DEF Begins
<1> QED
  BY <1>5, <1>6, <1>8, <1>9

(* The console gives bytes. *)
LEMMA StreamBytes ==
  ASSUME NEW words, IsInput(words), NEW n \in Nat, n >= 1
  PROVE  Stream(words, n) \in Bytes
<1>1. CASE words = <<>>
  <2>1. PICK all, last : all = FlattenSeq(Ended(words)) /\ last = <<0>>
    OBVIOUS
  <2>2. FlattenSeq(Ended(words)) = <<>>
    <3>1. Ended(words) = <<>>
      BY <1>1 DEF Ended
    <3>2. FlattenSeq(<<>>) = <<>>
      BY DEF FlattenSeq
    <3> QED
      BY <3>1, <3>2
  <2>3. Len(FlattenSeq(Ended(words))) = 0
    BY <2>2
  <2>4. Stream(words, n) = <<0>>[((n - 0 - 1) % Len(<<0>>)) + 1]
    <3>1. Stream(words, n) =
            IF n <= Len(FlattenSeq(Ended(words)))
            THEN FlattenSeq(Ended(words))[n]
            ELSE <<0>>[((n - Len(FlattenSeq(Ended(words))) - 1)
                          % Len(<<0>>)) + 1]
      BY <1>1 DEF Stream, Ended
    <3>2. ~(n <= 0)
      OBVIOUS
    <3> QED
      BY <2>3, <3>1, <3>2
  <2>5. (n - 0 - 1) % Len(<<0>>) = 0
    OBVIOUS
  <2>6. Stream(words, n) = 0
    BY <2>4, <2>5
  <2> QED
    BY <2>6, Sizes DEF Bytes
<1>2. CASE words # <<>>
  <2>1. PICK len \in Nat :
          len = Len(words) /\ len >= 1 /\ DOMAIN words = 1 .. len
    BY <1>2 DEF IsInput
  <2>2. PICK seqs, all, start :
          seqs = Ended(words) /\ all = FlattenSeq(seqs) /\ start = Start1(words)
    OBVIOUS
  <2>3. /\ len = Len(seqs) /\ Begins(start, seqs, all)
        /\ \A w \in 1 .. len : /\ seqs[w] = Append(words[w], 0)
                               /\ Len(words[w]) \in Nat
                               /\ Len(seqs[w]) = Len(words[w]) + 1
    BY <1>2, <2>1, <2>2, EndedIs
  <2>4. \A w \in 1 .. len : \A k \in 1 .. Len(seqs[w]) : seqs[w][k] \in Bytes
    BY <2>1, <2>3, EndedBytes
  <2>5. PICK size \in Nat : size = Len(all)
    <3>1. len \in 0 .. len
      OBVIOUS
    <3> QED
      BY <2>3, <3>1 DEF Begins
  <2>6. PICK l \in Nat : l = Len(seqs[len]) /\ l >= 1
                         /\ Append(Last(words), 0) = seqs[len]
    <3>1. Last(words) = words[len]
      BY <2>1 DEF Last
    <3>2. len \in 1 .. len
      BY <2>1
    <3> QED
      BY <2>3, <3>1, <3>2
  <2>7. Stream(words, n) = IF n <= size THEN all[n]
                           ELSE seqs[len][((n - size - 1) % l) + 1]
    BY <1>2, <2>2, <2>5, <2>6 DEF Stream, Ended
  <2>8. CASE n <= size
    <3>1. \A i \in 1 .. len : Len(seqs[i]) \in Nat
      BY <2>3
    <3>3. IsWithin(start, seqs, all, len, n)
      BY <2>3, <2>5, <2>8, <3>1 DEF IsWithin
    <3>2. PICK i \in 1 .. len : \E k \in 1 .. Len(seqs[i]) :
            all[n] = seqs[i][k]
      BY <3>3, BeginsAt
    <3>4. PICK k \in 1 .. Len(seqs[i]) : all[n] = seqs[i][k]
      BY <3>2
    <3>5. seqs[i][k] \in Bytes
      BY <2>4
    <3>6. Stream(words, n) = all[n]
      BY <2>7, <2>8
    <3> QED
      BY <3>4, <3>5, <3>6
  <2>9. CASE ~(n <= size)
    <3>1. PICK x \in Int : x = n - size - 1
      OBVIOUS
    <3>5. l \in Nat /\ l >= 1 /\ x \in Int
      BY <2>6
    <3>2. x % l \in 0 .. l - 1
      BY ONLY <3>5
    <3>3. (x % l) + 1 \in 1 .. l
      BY ONLY <3>5, <3>2
    <3>4. len \in 1 .. len
      BY <2>1
    <3> QED
      BY <2>4, <2>6, <2>7, <2>9, <3>1, <3>3, <3>4
  <2> QED
    BY <2>8, <2>9
<1> QED
  BY <1>1, <1>2

-----------------------------------------------------------------------------
(* The commands of the language.                                           *)

(* What one command of the language does. *)
LanguageType(size) ==
  /\ lptr \in Word /\ ltape \in [Word -> 0 .. size - 1]
  /\ lout \in Seq(Word) /\ linput \in Seq(Bytes)

Counted(v) ==
  /\ ltape' = [ltape EXCEPT ![lptr] = v]
  /\ lpc' = lpc + 1 /\ UNCHANGED <<lptr, linput, lout>>
Moved(p) ==
  lptr' = p /\ lpc' = lpc + 1 /\ UNCHANGED <<ltape, linput, lout>>
Written ==
  /\ lout' = Keep(Append(lout, ltape[lptr]))
  /\ lpc' = lpc + 1 /\ UNCHANGED <<ltape, lptr, linput>>
Taken1 ==
  /\ ltape' = [ltape EXCEPT ![lptr] = Head(linput)] /\ linput' = Tail(linput)
  /\ lpc' = lpc + 1 /\ UNCHANGED <<lptr, lout>>
Decided(jumps) ==
  /\ jumps => lpc' \in {L!Match(lpc + 1) - 1, LWord!Match(lpc + 1) - 1}
  /\ ~jumps => lpc' = lpc + 1
  /\ UNCHANGED <<ltape, lptr, linput, lout>>

Steps(c, size) ==
  /\ c = "+" => Counted((ltape[lptr] + 1) % size)
  /\ c = "-" => Counted((ltape[lptr] - 1) % size)
  /\ c = ">" => Moved(Int16(lptr + 1))
  /\ c = "<" => Moved(Int16(lptr - 1))
  /\ c = "." => Written
  /\ c = "," /\ linput # <<>> => Taken1
  /\ c = "[" => Decided(ltape[lptr] = 0)
  /\ c = "]" => Decided(ltape[lptr] # 0)

LEMMA Wraps ==
  ASSUME NEW size \in Nat \ {0}, NEW v \in 0 .. size - 1
  PROVE  /\ (v + 1) % size = IF v = size - 1 THEN 0 ELSE v + 1
         /\ (v - 1) % size = IF v = 0 THEN size - 1 ELSE v - 1
<1>1. CASE v = size - 1
  <2>1. v + 1 = size /\ size % size = 0
    <3>1. size = 1 * size + 0 /\ 0 \in 0 .. size - 1
      OBVIOUS
    <3> QED
      BY <1>1, <3>1, ModUnique
  <2>2. v # 0 => (v - 1) % size = v - 1
    BY <1>1
  <2>3. v = 0 => (v - 1) % size = size - 1
    <3>1. v = 0 => v - 1 = -1 /\ size = 1
      BY <1>1
    <3>2. -1 = (-1) * 1 + 0 /\ 0 \in 0 .. 1 - 1
      OBVIOUS
    <3>3. (-1) % 1 = 0
      BY <3>2, ModUnique
    <3> QED
      BY <3>1, <3>3
  <2> QED
    BY <1>1, <2>1, <2>2, <2>3
<1>2. CASE v # size - 1
  <2>1. (v + 1) % size = v + 1
    BY <1>2
  <2>2. v # 0 => (v - 1) % size = v - 1
    BY <1>2
  <2>3. v = 0 => (v - 1) % size = size - 1
    <3>1. -1 = (-1) * size + (size - 1) /\ size - 1 \in 0 .. size - 1
      OBVIOUS
    <3>2. (-1) % size = size - 1
      BY <3>1, ModUnique
    <3>3. v = 0 => v - 1 = -1
      OBVIOUS
    <3> QED
      BY <3>2, <3>3
  <2> QED
    BY <1>2, <2>1, <2>2, <2>3
<1> QED
  BY <1>1, <1>2

LEMMA ByteSteps ==
  ASSUME L!Next, LanguageType(ByteSize)
  PROVE  Steps(program[lpc + 1], ByteSize) /\ lpc # Len(program)
<1>1. ByteSize \in Nat \ {0} /\ WordSize \in Nat \ {0}
  BY Sizes
<1>2. lptr \in 0 .. WordSize - 1 /\ ltape[lptr] \in 0 .. ByteSize - 1
  BY DEF LanguageType, Word
<1>3. /\ (ltape[lptr] + 1) % ByteSize
           = IF ltape[lptr] = ByteSize - 1 THEN 0 ELSE ltape[lptr] + 1
      /\ (ltape[lptr] - 1) % ByteSize
           = IF ltape[lptr] = 0 THEN ByteSize - 1 ELSE ltape[lptr] - 1
      /\ Int16(lptr + 1) = IF lptr = WordSize - 1 THEN 0 ELSE lptr + 1
      /\ Int16(lptr - 1) = IF lptr = 0 THEN WordSize - 1 ELSE lptr - 1
  BY <1>1, <1>2, Wraps DEF Int16
<1>4. lpc # Len(program)
  BY DEF L!Next, L!Count, L!Move, L!Put, L!Get, L!Branch, L!Done
<1>5. PICK c : c = program[lpc + 1] /\ c = L!Command
  BY DEF L!Command
<1>6. c = "+" => Counted((ltape[lptr] + 1) % ByteSize)
  BY <1>3, <1>5 DEF L!Next, L!Count, L!Move, L!Put, L!Get, L!Branch, L!Advance,
                    L!Cell, Counted
<1>7. c = "-" => Counted((ltape[lptr] - 1) % ByteSize)
  BY <1>3, <1>5 DEF L!Next, L!Count, L!Move, L!Put, L!Get, L!Branch, L!Advance,
                    L!Cell, Counted
<1>8. c = ">" => Moved(Int16(lptr + 1))
  BY <1>3, <1>5 DEF L!Next, L!Count, L!Move, L!Put, L!Get, L!Branch, L!Advance,
                    Moved
<1>9. c = "<" => Moved(Int16(lptr - 1))
  BY <1>3, <1>5 DEF L!Next, L!Count, L!Move, L!Put, L!Get, L!Branch, L!Advance,
                    Moved
<1>10. c = "." => Written
  BY <1>5 DEF L!Next, L!Count, L!Move, L!Put, L!Get, L!Branch, L!Advance,
              L!Cell, L!Show, Keep, Written
<1>11. c = "," /\ linput # <<>> => Taken1
  BY <1>5 DEF L!Next, L!Count, L!Move, L!Put, L!Get, L!Branch, L!Advance,
              L!Character, Taken1
<1>12. c = "[" => Decided(ltape[lptr] = 0)
  BY <1>5 DEF L!Next, L!Count, L!Move, L!Put, L!Get, L!Branch, L!Advance,
              L!Cell, Decided
<1>13. c = "]" => Decided(ltape[lptr] # 0)
  BY <1>5 DEF L!Next, L!Count, L!Move, L!Put, L!Get, L!Branch, L!Advance,
              L!Cell, Decided
<1> QED
  BY <1>4, <1>5, <1>6, <1>7, <1>8, <1>9, <1>10, <1>11, <1>12, <1>13 DEF Steps
LEMMA WordSteps ==
  ASSUME LWord!Next, LanguageType(WordSize)
  PROVE  Steps(program[lpc + 1], WordSize) /\ lpc # Len(program)
<1>1. WordSize \in Nat \ {0}
  BY Sizes
<1>2. lptr \in 0 .. WordSize - 1 /\ ltape[lptr] \in 0 .. WordSize - 1
  BY DEF LanguageType, Word
<1>3. /\ (ltape[lptr] + 1) % WordSize
           = IF ltape[lptr] = WordSize - 1 THEN 0 ELSE ltape[lptr] + 1
      /\ (ltape[lptr] - 1) % WordSize
           = IF ltape[lptr] = 0 THEN WordSize - 1 ELSE ltape[lptr] - 1
      /\ Int16(lptr + 1) = IF lptr = WordSize - 1 THEN 0 ELSE lptr + 1
      /\ Int16(lptr - 1) = IF lptr = 0 THEN WordSize - 1 ELSE lptr - 1
  BY <1>1, <1>2, Wraps DEF Int16
<1>4. lpc # Len(program)
  BY DEF LWord!Next, LWord!Count, LWord!Move, LWord!Put, LWord!Get,
         LWord!Branch, LWord!Done
<1>5. PICK c : c = program[lpc + 1] /\ c = LWord!Command
  BY DEF LWord!Command
<1>6. c = "+" => Counted((ltape[lptr] + 1) % WordSize)
  BY <1>3, <1>5 DEF LWord!Next, LWord!Count, LWord!Move, LWord!Put,
                    LWord!Get, LWord!Branch, LWord!Advance,
                    LWord!Cell, Counted
<1>7. c = "-" => Counted((ltape[lptr] - 1) % WordSize)
  BY <1>3, <1>5 DEF LWord!Next, LWord!Count, LWord!Move, LWord!Put,
                    LWord!Get, LWord!Branch, LWord!Advance,
                    LWord!Cell, Counted
<1>8. c = ">" => Moved(Int16(lptr + 1))
  BY <1>3, <1>5 DEF LWord!Next, LWord!Count, LWord!Move, LWord!Put,
                    LWord!Get, LWord!Branch, LWord!Advance,
                    Moved
<1>9. c = "<" => Moved(Int16(lptr - 1))
  BY <1>3, <1>5 DEF LWord!Next, LWord!Count, LWord!Move, LWord!Put,
                    LWord!Get, LWord!Branch, LWord!Advance,
                    Moved
<1>10. c = "." => Written
  BY <1>5 DEF LWord!Next, LWord!Count, LWord!Move, LWord!Put, LWord!Get,
              LWord!Branch, LWord!Advance,
              LWord!Cell, LWord!Show, Keep, Written
<1>11. c = "," /\ linput # <<>> => Taken1
  BY <1>5 DEF LWord!Next, LWord!Count, LWord!Move, LWord!Put, LWord!Get,
              LWord!Branch, LWord!Advance,
              LWord!Character, Taken1
<1>12. c = "[" => Decided(ltape[lptr] = 0)
  BY <1>5 DEF LWord!Next, LWord!Count, LWord!Move, LWord!Put, LWord!Get,
              LWord!Branch, LWord!Advance,
              LWord!Cell, Decided
<1>13. c = "]" => Decided(ltape[lptr] # 0)
  BY <1>5 DEF LWord!Next, LWord!Count, LWord!Move, LWord!Put, LWord!Get,
              LWord!Branch, LWord!Advance,
              LWord!Cell, Decided
<1> QED
  BY <1>4, <1>5, <1>6, <1>7, <1>8, <1>9, <1>10, <1>11, <1>12, <1>13 DEF Steps

LEMMA LanguageIs ==
  ASSUME LanguageStep, NEW size, size = CellSize, LanguageType(size)
  PROVE  Steps(program[lpc + 1], size) /\ lpc # Len(program)
<1>1. CASE WordModeEnabled
  <2>1. size = WordSize /\ LWord!Next
    BY <1>1 DEF CellSize, LanguageStep
  <2> QED
    BY <2>1, WordSteps
<1>2. CASE ~WordModeEnabled
  <2>1. size = ByteSize /\ L!Next
    BY <1>2 DEF CellSize, LanguageStep
  <2> QED
    BY <2>1, ByteSteps
<1> QED
  BY <1>1, <1>2

LEMMA KeepSeq ==
  ASSUME NEW A, NEW s \in Seq(A), NEW e \in A
  PROVE  Keep(Append(s, e)) \in Seq(A)
<1>1. PICK all : all = Append(s, e)
  OBVIOUS
<1>2. all \in Seq(A) /\ Len(all) = Len(s) + 1 /\ Len(s) \in Nat
  BY <1>1
<1>3. all # <<>>
  BY <1>2
<1>4. Tail(all) \in Seq(A)
  BY <1>2, <1>3
<1> QED
  BY <1>1, <1>2, <1>4 DEF Keep

LEMMA HeadTail ==
  ASSUME NEW A, NEW s \in Seq(A), s # <<>>
  PROVE  Head(s) \in A /\ Tail(s) \in Seq(A)
OBVIOUS

LEMMA StepType ==
  ASSUME NEW size \in Nat \ {0}, ByteSize <= size, size <= WordSize,
         LanguageType(size), NEW c, Steps(c, size),
         c \in {"+", "-", ">", "<", ".", ",", "[", "]"},
         c = "," => linput # <<>>
  PROVE  LanguageType(size)'
<1> USE DEF LanguageType
<1>8. PICK b \in Nat, w \in Nat : b = ByteSize /\ w = WordSize
  BY Sizes
<1>9. Word = 0 .. w - 1 /\ Bytes = 0 .. b - 1 /\ b <= size /\ size <= w
  BY <1>8 DEF Word, Bytes
<1>10. 0 .. size - 1 \subseteq 0 .. w - 1 /\ 0 .. b - 1 \subseteq 0 .. size - 1
  BY ONLY <1>8, <1>9, size \in Nat \ {0}
<1>11. lptr \in 0 .. w - 1 /\ ltape[lptr] \in 0 .. size - 1
  BY <1>9
<1>12. lptr \in Int /\ ltape[lptr] \in Int
  BY ONLY <1>8, <1>11, size \in Nat \ {0}
<1>1. /\ ltape[lptr] \in 0 .. size - 1 /\ lptr \in Int
      /\ 0 .. size - 1 \subseteq Word /\ Bytes \subseteq 0 .. size - 1
      /\ ltape[lptr] \in Int
  BY <1>9, <1>10, <1>11, <1>12
<1>2. ASSUME NEW v \in 0 .. size - 1, Counted(v) PROVE LanguageType(size)'
  BY <1>2 DEF Counted
<1>3. CASE c \in {"+", "-"}
  <2>1. /\ (ltape[lptr] + 1) % size \in 0 .. size - 1
        /\ (ltape[lptr] - 1) % size \in 0 .. size - 1
    <3>1. \A x \in Int : x % size \in 0 .. size - 1
      BY ONLY size \in Nat \ {0}
    <3>2. ltape[lptr] + 1 \in Int /\ ltape[lptr] - 1 \in Int
      BY ONLY <1>12
    <3> QED
      BY ONLY <3>1, <3>2
  <2> QED
    BY <1>2, <1>3, <2>1 DEF Steps
<1>4. CASE c \in {">", "<"}
  <2>1. Int16(lptr + 1) \in Word /\ Int16(lptr - 1) \in Word
    <3>1. lptr + 1 \in Int /\ lptr - 1 \in Int
      BY ONLY <1>12
    <3> QED
      BY <3>1, Int16Range
  <2> QED
    BY <1>4, <2>1 DEF Steps, Moved
<1>5. CASE c = "."
  <2>1. Keep(Append(lout, ltape[lptr])) \in Seq(Word)
    <3>1. lout \in Seq(Word) /\ ltape[lptr] \in Word
      BY <1>1
    <3> QED
      BY ONLY <3>1, KeepSeq
  <2> QED
    BY <1>5, <2>1 DEF Steps, Written
<1>6. CASE c = ","
  <2>1. Head(linput) \in 0 .. size - 1 /\ Tail(linput) \in Seq(Bytes)
    <3>1. linput \in Seq(Bytes) /\ linput # <<>>
      BY <1>6
    <3>2. Head(linput) \in Bytes /\ Tail(linput) \in Seq(Bytes)
      BY ONLY <3>1, HeadTail
    <3> QED
      BY <1>1, <3>2
  <2> QED
    BY <1>6, <2>1 DEF Steps, Taken1
<1>7. CASE c \in {"[", "]"}
  BY <1>7 DEF Steps, Decided
<1> QED
  BY <1>3, <1>4, <1>5, <1>6, <1>7

-----------------------------------------------------------------------------
(* The ring of cells, and the output.                                      *)

LEMMA ModNear ==
  ASSUME NEW n \in Nat \ {0}, NEW x \in Int
  PROVE  /\ x \in 0 .. n - 1 => x % n = x
         /\ x \in -n .. -1 => x % n = x + n
         /\ x \in n .. 2 * n - 1 => x % n = x - n
<1>1. ASSUME x \in -n .. -1 PROVE x % n = x + n
  <2>1. x = (-1) * n + (x + n) /\ x + n \in 0 .. n - 1
    BY <1>1
  <2> QED
    BY <2>1, ModUnique
<1>2. ASSUME x \in n .. 2 * n - 1 PROVE x % n = x - n
  <2>1. x = 1 * n + (x - n) /\ x - n \in 0 .. n - 1
    BY <1>2
  <2> QED
    BY <2>1, ModUnique
<1>3. x \in 0 .. n - 1 => x % n = x
  OBVIOUS
<1> QED
  BY <1>1, <1>2, <1>3

(* Where a cell of the language is, and which cell is there.               *)
LEMMA Around ==
  ASSUME NEW o \in Word, NEW p \in Word, NEW a \in Word
  PROVE  Int16(a - o) = p <=> a = Int16(o + p)
<1>1. PICK w \in Nat \ {0} : w = WordSize
  BY Sizes
<1>2. o \in 0 .. w - 1 /\ p \in 0 .. w - 1 /\ a \in 0 .. w - 1
  BY <1>1 DEF Word
<1>3. PICK d \in Int, s \in Int : d = a - o /\ s = o + p
  BY <1>2
<1>4. /\ d \in 0 .. w - 1 => d % w = d
      /\ d \in -w .. -1 => d % w = d + w
      /\ s \in 0 .. w - 1 => s % w = s
      /\ s \in w .. 2 * w - 1 => s % w = s - w
  BY ModNear
<1>5. (d \in 0 .. w - 1 \/ d \in -w .. -1)
        /\ (s \in 0 .. w - 1 \/ s \in w .. 2 * w - 1)
  BY <1>2, <1>3
<1>6. d % w = p <=> a = s % w
  BY <1>2, <1>3, <1>4, <1>5
<1> QED
  BY <1>1, <1>3, <1>6 DEF Int16

(* A sum is cut once. *)
LEMMA CutOnce ==
  ASSUME NEW x \in Int, NEW y \in Int
  PROVE  Int16(Int16(x) + y) = Int16(x + y)
BY Sizes, ModAdd DEF Int16

Shown(s) == [i \in DOMAIN s |-> LowByte(s[i])]

LEMMA ShownType ==
  ASSUME NEW s \in Seq(Word)
  PROVE  Shown(s) \in Seq(Bytes) /\ Len(Shown(s)) = Len(s)
<1>1. PICK n \in Nat : n = Len(s) /\ DOMAIN s = 1 .. n
  OBVIOUS
<1>2. ASSUME NEW i \in 1 .. n PROVE LowByte(s[i]) \in Bytes
  <2>3. s[i] \in Word
    BY <1>1
  <2>1. s[i] \in Int
    BY ONLY <2>3, WordIsInt
  <2> QED
    BY <2>1, LowByteRange
<1>3. Shown(s) = [i \in 1 .. n |-> LowByte(s[i])]
  BY <1>1 DEF Shown
<1>4. Shown(s) \in [1 .. n -> Bytes]
  BY <1>2, <1>3
<1> QED
  BY <1>1, <1>4

LEMMA AppendIs ==
  ASSUME NEW A, NEW s \in Seq(A), NEW e \in A, NEW n \in Nat, n = Len(s)
  PROVE  /\ Append(s, e) \in Seq(A) /\ Len(Append(s, e)) = n + 1
         /\ Append(s, e)[n + 1] = e
         /\ \A i \in 1 .. n : Append(s, e)[i] = s[i]
OBVIOUS

LEMMA TailIs ==
  ASSUME NEW A, NEW s \in Seq(A), NEW n \in Nat, n + 1 = Len(s)
  PROVE  /\ Tail(s) \in Seq(A) /\ Len(Tail(s)) = n
         /\ \A i \in 1 .. n : Tail(s)[i] = s[i + 1]
OBVIOUS

LEMMA SameSeq ==
  ASSUME NEW A, NEW s \in Seq(A), NEW t \in Seq(A), NEW n \in Nat,
         Len(s) = n, Len(t) = n, \A i \in 1 .. n : s[i] = t[i]
  PROVE  s = t
OBVIOUS

LEMMA ShownAppend ==
  ASSUME NEW s \in Seq(Word), NEW v \in Word
  PROVE  Shown(Append(s, v)) = Append(Shown(s), LowByte(v))
<1>1. PICK n \in Nat : n = Len(s)
  OBVIOUS
<1>2. v \in Int /\ LowByte(v) \in Bytes
  BY WordIsInt, LowByteRange
<1>3. /\ Append(s, v) \in Seq(Word) /\ Len(Append(s, v)) = n + 1
      /\ Append(s, v)[n + 1] = v /\ \A i \in 1 .. n : Append(s, v)[i] = s[i]
  BY ONLY <1>1, AppendIs, s \in Seq(Word), v \in Word
<1>4. Shown(s) \in Seq(Bytes) /\ Len(Shown(s)) = n
  BY <1>1, ShownType
<1>5. PICK t : t = Append(Shown(s), LowByte(v))
  OBVIOUS
<1>6. /\ t \in Seq(Bytes) /\ Len(t) = n + 1 /\ t[n + 1] = LowByte(v)
      /\ \A i \in 1 .. n : t[i] = Shown(s)[i]
  BY ONLY <1>1, <1>2, <1>4, <1>5, AppendIs
<1>7. PICK u : u = Shown(Append(s, v))
  OBVIOUS
<1>8. u \in Seq(Bytes) /\ Len(u) = n + 1
  BY <1>3, <1>7, ShownType
<1>9. ASSUME NEW i \in 1 .. n + 1 PROVE u[i] = t[i]
  <2>1. DOMAIN Append(s, v) = 1 .. n + 1 /\ DOMAIN s = 1 .. n
    BY <1>1, <1>3
  <2>2. u[i] = LowByte(Append(s, v)[i])
    BY <1>7, <2>1 DEF Shown
  <2>3. CASE i = n + 1
    BY <1>3, <1>6, <2>2, <2>3
  <2>4. CASE i # n + 1
    <3>1. i \in 1 .. n
      BY <2>4
    <3>2. Shown(s)[i] = LowByte(s[i])
      BY <2>1, <3>1 DEF Shown
    <3> QED
      BY <1>3, <1>6, <2>2, <3>1, <3>2
  <2> QED
    BY <2>3, <2>4
<1>10. n + 1 \in Nat
  OBVIOUS
<1>11. u = t
  BY ONLY <1>6, <1>8, <1>9, <1>10, SameSeq
<1> QED
  BY <1>5, <1>7, <1>11

LEMMA ShownTail ==
  ASSUME NEW s \in Seq(Word), s # <<>>
  PROVE  Shown(Tail(s)) = Tail(Shown(s))
<1>1. PICK n \in Nat : n + 1 = Len(s)
  <2>1. Len(s) \in Nat /\ Len(s) # 0
    OBVIOUS
  <2>2. Len(s) - 1 \in Nat /\ (Len(s) - 1) + 1 = Len(s)
    BY <2>1
  <2> QED
    BY <2>2
<1>2. /\ Tail(s) \in Seq(Word) /\ Len(Tail(s)) = n
      /\ \A i \in 1 .. n : Tail(s)[i] = s[i + 1]
  BY ONLY <1>1, TailIs, s \in Seq(Word)
<1>3. Shown(s) \in Seq(Bytes) /\ Len(Shown(s)) = n + 1
  BY <1>1, ShownType
<1>4. PICK t : t = Tail(Shown(s))
  OBVIOUS
<1>5. /\ t \in Seq(Bytes) /\ Len(t) = n
      /\ \A i \in 1 .. n : t[i] = Shown(s)[i + 1]
  BY ONLY <1>1, <1>3, <1>4, TailIs
<1>6. PICK u : u = Shown(Tail(s))
  OBVIOUS
<1>7. u \in Seq(Bytes) /\ Len(u) = n
  BY <1>2, <1>6, ShownType
<1>8. ASSUME NEW i \in 1 .. n PROVE u[i] = t[i]
  <2>1. DOMAIN Tail(s) = 1 .. n /\ DOMAIN s = 1 .. n + 1 /\ i + 1 \in 1 .. n + 1
    BY <1>1, <1>2
  <2>2. u[i] = LowByte(Tail(s)[i])
    BY <1>6, <2>1 DEF Shown
  <2>3. Shown(s)[i + 1] = LowByte(s[i + 1])
    BY <2>1 DEF Shown
  <2> QED
    BY <1>2, <1>5, <2>2, <2>3
<1>9. u = t
  BY ONLY <1>5, <1>7, <1>8, SameSeq, n \in Nat
<1> QED
  BY <1>4, <1>6, <1>9

(* What both keep of their output stays the same.                          *)
LEMMA ShownKeep ==
  ASSUME NEW s \in Seq(Word), NEW v \in Word
  PROVE  Shown(Keep(Append(s, v))) = Keep(Append(Shown(s), LowByte(v)))
<1>1. PICK all : all = Append(s, v)
  OBVIOUS
<1>2. /\ all \in Seq(Word) /\ all # <<>>
      /\ Shown(all) = Append(Shown(s), LowByte(v))
  BY <1>1, ShownAppend
<1>3. Len(Shown(all)) = Len(all) /\ Shown(Tail(all)) = Tail(Shown(all))
  BY <1>2, ShownType, ShownTail
<1> QED
  BY <1>1, <1>2, <1>3 DEF Keep

-----------------------------------------------------------------------------
(* The two side by side.                                                   *)

(* What stays as it is while a program runs.                               *)
Frame(P, first, n, origin, size) ==
  /\ OnCode(P, cmds, first, n, program)
  /\ LaidOut(P, cmds, first, n, program, job.wordMode)
  /\ first = Prologue /\ first \in {1, 2} /\ 2 * n < WordSize
  /\ cmds[first].c = ">" /\ cmds[first].bias = ApShift
  /\ first = 2 => cmds[1].c = Blank
  /\ array => first = 2 /\ HaltsAtEnd(cmds, n)
  /\ origin = Origin /\ origin \in Word
  /\ size = CellSize /\ WordModeEnabled = job.wordMode
  /\ AP_MAX = n /\ L!Balanced(program)

SameCell(a, origin, size) == mem[a] % size = ltape[Int16(a - origin)]
CellsAgree(n, origin, size) ==
  \A a \in n .. WordSize - 1 : SameCell(a, origin, size)
OthersAgree(n, origin, size) ==
  \A a \in n .. WordSize - 1 : a # AP => SameCell(a, origin, size)
AtCell(n, origin) == AP = Int16(origin + lptr) /\ AP \in n .. WordSize - 1

(* What the program has not read of its input, after k characters.         *)
Unread(k) ==
  /\ k \in 0 .. MaxReads /\ Len(linput) = MaxReads - k
  /\ \A i \in 1 .. MaxReads - k : linput[i] = Stream(job.words, k + i)
InStep == \E k \in 0 .. MaxReads : Unread(k) /\ Handed(job.words, k)
Quiet == out = Shown(lout) /\ InStep

Together(P, first, n, origin, size) ==
  /\ Here \in first .. n /\ lpc = P[Here]
  /\ AP = Int16(origin + lptr) /\ CellsAgree(n, origin, size) /\ Quiet

Fresh(n) ==
  /\ lpc = 0 /\ lptr = 0 /\ ltape = [p \in Word |-> 0]
  /\ \A a \in n .. WordSize - 1 : mem[a] = 0
  /\ AP = (IF array THEN 0 ELSE ApEntry(n)) /\ (array => Here = 1)
  /\ Quiet

Pace(n) == running <=> Here < n

(* What the language still has to do of an instruction, by its kind.       *)
OwesCount(P, n, origin, size, h) ==
  /\ cmds[h].c \in {"+", "-"} /\ Here = h
  /\ AtCell(n, origin) /\ OthersAgree(n, origin, size) /\ Quiet
  /\ mem[AP] % size = (IF cmds[h].c = "+" THEN ltape[lptr] + (P[h] - lpc)
                       ELSE ltape[lptr] - (P[h] - lpc)) % size
OwesMove(P, n, origin, size, h) ==
  /\ cmds[h].c \in {">", "<"} /\ Here = h
  /\ AP = Int16(IF cmds[h].c = ">" THEN (origin + lptr) + (P[h] - lpc)
                ELSE (origin + lptr) - (P[h] - lpc))
  /\ CellsAgree(n, origin, size) /\ Quiet
OwesWrite(P, n, origin, size, h) ==
  /\ cmds[h].c = "." /\ Here = h
  /\ AtCell(n, origin) /\ CellsAgree(n, origin, size) /\ InStep
  /\ out = Keep(Append(Shown(lout), LowByte(ltape[lptr])))
OwesRead(P, n, origin, size, h) ==
  /\ cmds[h].c = "," /\ Here = h
  /\ AtCell(n, origin) /\ OthersAgree(n, origin, size) /\ out = Shown(lout)
  /\ linput # <<>> /\ mem[AP] = Head(linput)
  /\ \E k \in 0 .. MaxReads : Unread(k) /\ Handed(job.words, k + 1)
OwesLoop(P, n, origin, size, h) ==
  /\ cmds[h].c = "0" /\ Here = h
  /\ AtCell(n, origin) /\ OthersAgree(n, origin, size) /\ Quiet
  /\ mem[AP] = 0
OwesJump(P, n, origin, size, h, first) ==
  /\ cmds[h].c \in {"[", "]"}
  /\ AtCell(n, origin) /\ CellsAgree(n, origin, size) /\ Quiet
  /\ \/ Here = h /\ (cmds[h].c = "[" <=> ltape[lptr] # 0)
     \/ /\ Here \in first + 1 .. n /\ Mates(P, h, Here)
        /\ cmds[h].c = "[" <=> ltape[lptr] = 0

Owes(P, first, n, origin, size, h) ==
  /\ h \in first + 1 .. n
  /\ lpc \in Nat /\ P[h - 1] <= lpc /\ lpc < P[h]
  /\ \/ OwesCount(P, n, origin, size, h)
     \/ OwesMove(P, n, origin, size, h)
     \/ OwesWrite(P, n, origin, size, h)
     \/ OwesRead(P, n, origin, size, h)
     \/ OwesLoop(P, n, origin, size, h)
     \/ OwesJump(P, n, origin, size, h, first)

Twin(P, first, n, origin, size) ==
  /\ Frame(P, first, n, origin, size) /\ LanguageType(size)
  /\ stage \in {"execute", "language"} => Pace(n)
  /\ stage = "execute" => IF Here < first THEN Fresh(n)
                          ELSE Together(P, first, n, origin, size)
  /\ stage = "language" => \E h : Owes(P, first, n, origin, size, h)
  /\ Ran => Here = n /\ Together(P, first, n, origin, size)

-----------------------------------------------------------------------------
LEMMA FrameIs ==
  ASSUME NEW P, NEW first, NEW n, NEW origin, NEW size,
         Frame(P, first, n, origin, size)
  PROVE  /\ cmds \in Seq(Command) /\ n \in Nat /\ n = Len(cmds)
         /\ first \in 1 .. n /\ first \in Nat /\ 2 * n < WordSize
         /\ program \in Seq(STRING) /\ origin \in Word
         /\ size \in Nat \ {0} /\ ByteSize <= size /\ size <= WordSize
         /\ P[first] = 0 /\ P[n] = Len(program)
         /\ size = WordSize \/ size = ByteSize
<1>1. /\ cmds \in Seq(Command) /\ n \in Nat /\ n = Len(cmds)
      /\ program \in Seq(STRING) /\ first \in 0 .. n
  BY DEF Frame, OnCode
<1>2. first \in {1, 2} /\ 2 * n < WordSize /\ origin \in Word
  BY DEF Frame
<1>3. size = WordSize \/ size = ByteSize
  BY DEF Frame, CellSize
<1>4. P[first] = 0 /\ P[n] = Len(program)
  BY DEF Frame, LaidOut
<1>5. size \in Nat \ {0} /\ ByteSize <= size /\ size <= WordSize
  BY <1>3, Sizes
<1> QED
  BY <1>1, <1>2, <1>3, <1>4, <1>5

LEMMA FrameKept ==
  ASSUME NEW P, NEW first, NEW n, NEW origin, NEW size,
         Frame(P, first, n, origin, size),
         UNCHANGED <<cmds, job, program, array, WordModeEnabled, AP_MAX>>
  PROVE  Frame(P, first, n, origin, size)'
<1>1. Prologue' = Prologue /\ Origin' = Origin /\ CellSize' = CellSize
  BY DEF Prologue, Origin, CellSize
<1>2. L!Balanced(program)' <=> L!Balanced(program)
  OBVIOUS
<1> QED
  BY <1>1, <1>2 DEF Frame

LEMMA HandedKept ==
  ASSUME UNCHANGED consoleVars, UNCHANGED job, NEW k, Handed(job.words, k)
  PROVE  Handed(job.words, k)'
BY DEF consoleVars, Handed

LEMMA UnreadKept ==
  ASSUME UNCHANGED <<linput, job>>, NEW k, Unread(k)
  PROVE  Unread(k)'
BY DEF Unread

LEMMA InStepKept ==
  ASSUME UNCHANGED consoleVars, UNCHANGED <<linput, job>>, InStep
  PROVE  InStep'
<1>1. PICK k \in 0 .. MaxReads : Unread(k) /\ Handed(job.words, k)
  BY DEF InStep
<1>2. Unread(k)' /\ Handed(job.words, k)'
  BY <1>1, HandedKept, UnreadKept
<1> QED
  BY <1>2 DEF InStep

LEMMA QuietKept ==
  ASSUME UNCHANGED consoleVars, UNCHANGED <<linput, job, out, lout>>, Quiet
  PROVE  Quiet'
BY InStepKept DEF Quiet

LEMMA CellsKept ==
  ASSUME NEW n, NEW origin, NEW size, UNCHANGED <<mem, ltape>>
  PROVE  /\ CellsAgree(n, origin, size) => CellsAgree(n, origin, size)'
         /\ UNCHANGED AP /\ OthersAgree(n, origin, size) =>
              OthersAgree(n, origin, size)'
BY DEF CellsAgree, OthersAgree, SameCell

(* Only the cell at AP is written. *)
LEMMA CellWritten ==
  ASSUME NEW n \in Nat, NEW origin, NEW size, UNCHANGED <<ltape, AP>>,
         mem \in [Word -> Word], NEW v, mem' = [mem EXCEPT ![AP] = v],
         CellsAgree(n, origin, size)
  PROVE  OthersAgree(n, origin, size)'
<1>1. ASSUME NEW a \in n .. WordSize - 1, a # AP
      PROVE  mem'[a] = mem[a]
  <2>1. a \in Word
    BY Sizes DEF Word
  <2> QED
    BY <1>1, <2>1
<1> QED
  BY <1>1 DEF CellsAgree, OthersAgree, SameCell

(* The cell at AP is the one that the language is at.                      *)
LEMMA CellAt ==
  ASSUME NEW n \in Nat, NEW origin \in Word, NEW size, AtCell(n, origin),
         lptr \in Word
  PROVE  /\ CellsAgree(n, origin, size) => mem[AP] % size = ltape[lptr]
         /\ OthersAgree(n, origin, size) /\ mem[AP] % size = ltape[lptr] =>
              CellsAgree(n, origin, size)
<1>1. AP \in Word
  BY Sizes DEF AtCell, Word
<1>2. Int16(AP - origin) = lptr
  BY <1>1, Around DEF AtCell
<1> QED
  BY <1>2 DEF AtCell, CellsAgree, OthersAgree, SameCell

-----------------------------------------------------------------------------
(* Before an instruction.                                                  *)

(* A byte of a word is a byte of what was cut to it.                       *)
LEMMA LowOfWord ==
  ASSUME NEW x \in Int
  PROVE  Int16(x) % ByteSize = x % ByteSize
<1>1. PICK k \in Nat \ {0} : WordSize = (16 * k) * ByteSize
  BY ByteParts
<1>2. PICK b \in Nat \ {0}, w \in Nat \ {0} : b = ByteSize /\ w = WordSize
  BY Sizes
<1>3. PICK q \in Int, r \in 0 .. w - 1 : x = q * w + r /\ x % w = r
  BY ModExists
<1>4. PICK t \in Int : t = q * (16 * k)
  OBVIOUS
<1>5. x = r + t * b
  <2>1. q * w = q * ((16 * k) * b)
    BY <1>1, <1>2
  <2>2. q * ((16 * k) * b) = (q * (16 * k)) * b
    OBVIOUS
  <2>3. PICK m \in Int : m = t * b /\ q * w = m
    BY <1>4, <2>1, <2>2
  <2> QED
    BY <1>3, <2>3
<1>6. x % b = r % b
  <2>1. b \in Nat \ {0} /\ r \in Int /\ t \in Int
    BY <1>2, <1>3, <1>4
  <2> QED
    BY ONLY <1>5, <2>1, x \in Int, Congruent
<1> QED
  BY <1>2, <1>3, <1>6 DEF Int16

(* The cell after a run of + or -. *)
LEMMA CountedCell ==
  ASSUME NEW cmd \in Command, cmd.c \in {"+", "-"}, NEW d \in Nat,
         cmd.bias = Cmd(cmd.c, d).bias, NEW wide, d < Room(cmd.c, wide),
         NEW size, size = (IF wide THEN WordSize ELSE ByteSize),
         NEW x \in Word, NEW v \in Int, x % size = v
  PROVE  Int16(x + Bias(GetCmd(cmd))) % size
           = (IF cmd.c = "+" THEN v + d ELSE v - d) % size
<1>1. PICK s \in Int : s = IF cmd.c = "+" THEN d ELSE -d
  OBVIOUS
<1>2. x \in Int /\ GetCmd(cmd) \in Word
  BY WordIsInt, GetCmdRange
<1>3. PICK all \in Int, sum \in Int :
        all = x + s /\ sum = x + Bias(GetCmd(cmd))
  <2>1. Bias(GetCmd(cmd)) \in Int
    BY <1>2, BiasRange, WordIsInt
  <2>2. x + s \in Int /\ x + Bias(GetCmd(cmd)) \in Int
    BY ONLY <1>1, <1>2, <2>1
  <2> QED
    BY ONLY <2>2
<1>4. /\ sum % ByteSize = all % ByteSize
      /\ d < BiasHalf => Int16(sum) = Int16(all)
  <2>1. cmd.c \in Incrementers /\ d \in Int /\ d >= 0
    BY DEF Incrementers
  <2>2. all = IF cmd.c \in {"<", "-"} THEN x - d ELSE x + d
    BY <1>1, <1>2, <1>3
  <2> QED
    BY <1>2, <1>3, <2>1, <2>2, CountOf
<1>5. (IF cmd.c = "+" THEN v + d ELSE v - d) = v + s
  BY <1>1
<1>6. CASE wide
  <2>1. size = WordSize /\ d < BiasHalf
    BY <1>6 DEF Room
  <2>2. (v + s) % size = all % size
    BY <1>1, <1>2, <1>3, <2>1, ModAdd, Sizes
  <2>3. Int16(sum) = all % size /\ Int16(Int16(all)) = Int16(all)
    <3>1. Int16(all) \in Word
      BY Int16Range
    <3> QED
      BY <1>4, <2>1, <3>1, Int16Word DEF Int16
  <2> QED
    BY <1>3, <1>5, <2>1, <2>2, <2>3, <1>4 DEF Int16
<1>7. CASE ~wide
  <2>1. size = ByteSize
    BY <1>7
  <2>2. (v + s) % size = all % size
    BY <1>1, <1>2, <1>3, <2>1, ModAdd, Sizes
  <2>3. Int16(sum) % size = sum % size
    BY <2>1, LowOfWord
  <2> QED
    BY <1>3, <1>4, <1>5, <2>1, <2>2, <2>3
<1> QED
  BY <1>6, <1>7

-----------------------------------------------------------------------------
(* The instruction that is next, at h, stands for the commands that are    *)
(* next; AP is on the data.                                                *)
Ready(P, first, n, origin, size, h) ==
  /\ Frame(P, first, n, origin, size) /\ LanguageType(size)
  /\ MachineType /\ ConsoleType
  /\ h \in first + 1 .. n /\ Here = h - 1
  /\ Bits = GetCmd(cmds[h]) /\ AP \in n .. WordSize - 1
  /\ Together(P, first, n, origin, size)

Goes(k, n) ==
  /\ Here' = k /\ running' = (k < n)
  /\ UNCHANGED <<array, AP_MAX, WordModeEnabled>>

(* Where bfrun goes on.  It does ++IP after the instruction, or before it. *)
LEMMA RetireAt ==
  ASSUME MachineType, NEW n \in Nat, AP_MAX = n, 2 * n < WordSize,
         NEW ip \in Int, NEW k \in 1 .. n, Int16(ip + 1) = k,
         array => k < n, Retire(ip)
  PROVE  Goes(k, n)
<1>1. PICK w \in Nat \ {0} : w = WordSize /\ 2 * n < w
  BY Sizes
<1>2. UNCHANGED <<array, AP_MAX, WordModeEnabled>>
  BY DEF Retire
<1>3. CASE ~array
  <2>1. IP' = k /\ running' = (IP' < n)
    BY <1>3 DEF Retire
  <2>2. Here' = k
    BY <1>2, <1>3, <2>1 DEF Here
  <2> QED
    BY <1>2, <2>1, <2>2 DEF Goes
<1>4. CASE array
  <2>1. IP' = Int16(ip) /\ running' = (IP' < n)
    BY <1>4 DEF Retire
  <2>2. PICK r \in 0 .. w - 1 : r = Int16(ip)
    BY <1>1, Int16Range DEF Word
  <2>3. Int16(r + 1) = k
    BY <2>2, CutOnce
  <2>4. (r + 1) % w = IF r = w - 1 THEN 0 ELSE r + 1
    BY <1>1, Wraps
  <2>5. (r + 1) % w = k
    BY <1>1, <2>3 DEF Int16
  <2>6. r + 1 = k /\ r < n
    BY ONLY <1>1, <2>2, <2>4, <2>5, n \in Nat, k \in 1 .. n
  <2>7. Here' = k
    BY <1>2, <1>4, <2>1, <2>2, <2>3 DEF Here
  <2>8. k < n
    BY <1>4
  <2> QED
    BY <1>2, <2>1, <2>2, <2>6, <2>7, <2>8 DEF Goes
<1> QED
  BY <1>3, <1>4

LEMMA ReadyIs ==
  ASSUME NEW P, NEW first, NEW n, NEW origin, NEW size, NEW h,
         Ready(P, first, n, origin, size, h)
  PROVE  /\ cmds[h] \in Command /\ h \in 1 .. n
         /\ n \in Nat /\ 2 * n < WordSize
         /\ Here \in Int /\ Here + 1 = h /\ AP_MAX = n
         /\ P[h - 1] \in Nat /\ P[h] \in Nat /\ lpc = P[h - 1]
         /\ array => (h < n <=> cmds[h].c # "H")
         /\ AtCell(n, origin) /\ mem[AP] % size = ltape[lptr]
         /\ mem[AP] \in Word /\ ltape[lptr] \in 0 .. size - 1 /\ AP \in Word
<1>1. /\ cmds \in Seq(Command) /\ n \in Nat /\ n = Len(cmds)
      /\ first \in 1 .. n /\ 2 * n < WordSize /\ origin \in Word
      /\ size \in Nat \ {0} /\ OnCode(P, cmds, first, n, program)
      /\ AP_MAX = n
  BY FrameIs DEF Ready, Frame
<1>2. h \in first + 1 .. n /\ Here = h - 1
  BY DEF Ready
<1>3. /\ h \in 1 .. n /\ cmds[h] \in Command /\ Here \in Int /\ Here + 1 = h
  BY <1>1, <1>2
<1>4. P[h - 1] \in Nat /\ P[h] \in Nat /\ lpc = P[h - 1]
  BY <1>1, <1>2, PlaceRises DEF Ready, Together
<1>5. AtCell(n, origin) /\ CellsAgree(n, origin, size) /\ lptr \in Word
  BY DEF Ready, Together, AtCell, LanguageType
<1>6. mem[AP] % size = ltape[lptr]
  BY <1>1, <1>5, CellAt
<1>7. mem[AP] \in Word /\ ltape[lptr] \in 0 .. size - 1 /\ AP \in Word
  BY DEF Ready, MachineType, LanguageType
<1>8. ASSUME array PROVE h < n <=> cmds[h].c # "H"
  <2>1. HaltsAtEnd(cmds, n) /\ first = 2
    BY <1>8 DEF Ready, Frame
  <2>2. h >= 3 /\ h \in Int
    BY <1>1, <1>2, <2>1
  <2>3. h < n => cmds[h].c \in Symbols
    <3>1. h < n => h \in 3 .. n - 1
      BY ONLY <1>1, <2>2
    <3>2. \A i \in 3 .. n - 1 : cmds[i].c \in Symbols
      BY <2>1 DEF HaltsAtEnd
    <3> QED
      BY <3>1, <3>2
  <2>4. h = n => cmds[h].c = "H"
    BY <2>1 DEF HaltsAtEnd
  <2>5. h < n \/ h = n
    BY <1>1, <1>3
  <2> QED
    BY <2>3, <2>4, <2>5, KindsOf
<1> QED
  BY <1>1, <1>3, <1>4, <1>5, <1>6, <1>7, <1>8

LEMMA RetireHere ==
  ASSUME NEW P, NEW first, NEW n, NEW origin, NEW size, NEW h,
         Ready(P, first, n, origin, size, h), Retire(Here),
         ~(array /\ cmds[h].c = "H")
  PROVE  Goes(h, n)
<1>1. /\ h \in 1 .. n /\ n \in Nat /\ 2 * n < WordSize /\ AP_MAX = n
      /\ Here \in Int /\ Here + 1 = h /\ MachineType
      /\ array => h < n
  BY ReadyIs DEF Ready
<1>2. h \in Word
  BY <1>1, Sizes DEF Word
<1>3. Int16(Here + 1) = h
  BY <1>1, <1>2, Int16Word
<1> QED
  BY <1>1, <1>3, RetireAt

Still == UNCHANGED <<cmds, job, program, lpc, ltape, lptr, linput, lout>>

LEMMA StandsReady ==
  ASSUME NEW P, NEW first, NEW n, NEW origin, NEW size, NEW h,
         Ready(P, first, n, origin, size, h)
  PROVE  Stands(cmds[h], program, P[h - 1], P[h], job.wordMode)
BY DEF Ready, Frame, LaidOut

LEMMA RunOf ==
  ASSUME NEW P, NEW first, NEW n, NEW origin, NEW size, NEW h,
         Ready(P, first, n, origin, size, h), cmds[h].c \in Incrementers
  PROVE  \E d \in Nat : /\ d = P[h] - P[h - 1] /\ d >= 1
                        /\ d < Room(cmds[h].c, job.wordMode)
                        /\ cmds[h].bias = Cmd(cmds[h].c, d).bias
<1>1. StandsForRun(cmds[h], program, P[h - 1], P[h], job.wordMode)
  BY StandsReady DEF Stands, StandsForOne, StandsForLoop, StandsForNothing,
                     Incrementers
<1>2. PICK p \in Nat, q \in Nat : p = P[h - 1] /\ q = P[h]
  BY ReadyIs
<1>3. /\ p < q /\ q - p < Room(cmds[h].c, job.wordMode)
      /\ cmds[h].bias = Cmd(cmds[h].c, q - p).bias
  BY <1>1, <1>2 DEF StandsForRun
<1>4. PICK d \in Nat : d = q - p /\ d >= 1
  BY <1>3
<1> QED
  BY <1>2, <1>3, <1>4

LEMMA QuietStill ==
  ASSUME NEW P, NEW first, NEW n, NEW origin, NEW size, NEW h,
         Ready(P, first, n, origin, size, h), Still, UNCHANGED consoleVars
  PROVE  InStep' /\ (UNCHANGED out => Quiet')
BY InStepKept, QuietKept DEF Ready, Together, Quiet, Still

LEMMA ExecCount ==
  ASSUME NEW P, NEW first, NEW n, NEW origin, NEW size, NEW h,
         Ready(P, first, n, origin, size, h), Still, Add,
         cmds[h].c \in {"+", "-"}
  PROVE  Goes(h, n) /\ OwesCount(P, n, origin, size, h)' /\ P[h - 1] < P[h]
<1>1. Goes(h, n) /\ UNCHANGED <<consoleVars, AP, out>>
  BY RetireHere DEF Add
<1>2. mem' = [mem EXCEPT ![AP] = Int16(mem[AP] + Bias(Bits))] /\ AP \in Word
      /\ mem \in [Word -> Word]
  BY DEF Add, Ready, MachineType
<1>3. cmds[h].c \in Incrementers
  BY DEF Incrementers
<1>4. PICK d \in Nat : /\ d = P[h] - P[h - 1] /\ d >= 1
                       /\ d < Room(cmds[h].c, job.wordMode)
                       /\ cmds[h].bias = Cmd(cmds[h].c, d).bias
  BY <1>3, RunOf
<1>5. /\ cmds[h] \in Command /\ mem[AP] \in Word /\ mem[AP] % size = ltape[lptr]
      /\ ltape[lptr] \in 0 .. size - 1 /\ AtCell(n, origin) /\ n \in Nat
      /\ P[h - 1] \in Nat /\ P[h] \in Nat /\ lpc = P[h - 1]
  BY ReadyIs
<1>6. size = (IF job.wordMode THEN WordSize ELSE ByteSize) /\ size \in Nat
  BY Sizes DEF Ready, Frame, CellSize
<1>7. Int16(mem[AP] + Bias(GetCmd(cmds[h]))) % size
        = (IF cmds[h].c = "+" THEN ltape[lptr] + d ELSE ltape[lptr] - d) % size
  <2>1. ltape[lptr] \in Int
    BY <1>5, <1>6
  <2> QED
    BY <1>4, <1>5, <1>6, <2>1, CountedCell
<1>8. mem'[AP'] = Int16(mem[AP] + Bias(GetCmd(cmds[h])))
  BY <1>1, <1>2 DEF Ready
<1>9. OthersAgree(n, origin, size)'
  BY <1>1, <1>2, <1>5, CellWritten DEF Ready, Together, Still
<1>10. AtCell(n, origin)' /\ Quiet'
  BY <1>1, <1>5, QuietStill DEF AtCell, Still
<1>11. P[h] - lpc' = d
  BY <1>4, <1>5 DEF Still
<1> QED
  BY <1>1, <1>4, <1>5, <1>7, <1>8, <1>9, <1>10, <1>11 DEF OwesCount, Goes, Still

LEMMA ExecMove ==
  ASSUME NEW P, NEW first, NEW n, NEW origin, NEW size, NEW h,
         Ready(P, first, n, origin, size, h), Still, Right,
         cmds[h].c \in {">", "<"}
  PROVE  Goes(h, n) /\ OwesMove(P, n, origin, size, h)' /\ P[h - 1] < P[h]
<1>1. Goes(h, n) /\ UNCHANGED <<consoleVars, mem, out>>
  BY RetireHere DEF Right
<1>2. AP' = Int16(AP + Bias(GetCmd(cmds[h]))) /\ AP = Int16(origin + lptr)
  BY DEF Right, Ready, Together
<1>3. cmds[h].c \in Incrementers
  BY DEF Incrementers
<1>4. PICK d \in Nat : /\ d = P[h] - P[h - 1] /\ d >= 1
                       /\ d < Room(cmds[h].c, job.wordMode)
                       /\ cmds[h].bias = Cmd(cmds[h].c, d).bias
  BY <1>3, RunOf
<1>5. /\ cmds[h] \in Command /\ AP \in Word /\ n \in Nat
      /\ P[h - 1] \in Nat /\ P[h] \in Nat /\ lpc = P[h - 1]
  BY ReadyIs
<1>6. PICK o \in Int : o = origin + lptr
  <2>1. origin \in Word /\ lptr \in Word
    BY FrameIs DEF Ready, LanguageType
  <2> QED
    BY <2>1, WordIsInt
<1>7. AP \in Int /\ d < BiasHalf
  BY <1>4, <1>5, WordIsInt DEF Room
<1>8. AP' = Int16(IF cmds[h].c = "<" THEN AP - d ELSE AP + d)
  <2>1. d \in Int /\ d >= 0
    OBVIOUS
  <2>2. PICK all \in Int :
          all = IF cmds[h].c \in {"<", "-"} THEN AP - d ELSE AP + d
    BY <1>4, <1>7
  <2>3. Int16(AP + Bias(GetCmd(cmds[h]))) = Int16(all)
    BY <1>3, <1>4, <1>5, <1>7, <2>1, <2>2, CountOf
  <2> QED
    BY <1>2, <2>2, <2>3
<1>9. Int16(AP - d) = Int16(o - d) /\ Int16(AP + d) = Int16(o + d)
  <2>1. PICK e \in Int : e = -d
    OBVIOUS
  <2>2. Int16(Int16(o) + e) = Int16(o + e) /\ Int16(Int16(o) + d) = Int16(o + d)
    BY <2>1, CutOnce
  <2>3. AP = Int16(o)
    BY <1>2, <1>6
  <2>4. AP + e = AP - d /\ o + e = o - d
    BY <1>7, <2>1
  <2> QED
    BY <2>2, <2>3, <2>4
<1>10. P[h] - lpc' = d
  BY <1>4, <1>5 DEF Still
<1>11. CellsAgree(n, origin, size)' /\ Quiet'
  BY <1>1, CellsKept, QuietStill DEF Ready, Together, Still
<1>12. AP' = Int16(IF cmds[h].c = ">" THEN o + d ELSE o - d)
  BY <1>8, <1>9
<1> QED
  BY <1>1, <1>4, <1>5, <1>6, <1>10, <1>11, <1>12 DEF OwesMove, Goes, Still

(* A command other than H stands for something.                            *)
LEMMA ReadyRises ==
  ASSUME NEW P, NEW first, NEW n, NEW origin, NEW size, NEW h,
         Ready(P, first, n, origin, size, h)
  PROVE  /\ cmds[h].c # "H" => P[h - 1] < P[h]
         /\ cmds[h].c = "H" => P[h - 1] = P[h]
         /\ Width(cmds[h]) = P[h] - P[h - 1]
<1>1. OnCode(P, cmds, first, n, program) /\ h \in first + 1 .. n
  BY DEF Ready, Frame
<1>2. cmds[h] \in Command /\ P[h - 1] \in Nat /\ P[h] \in Nat
  BY ReadyIs
<1>3. Stands(cmds[h], program, P[h - 1], P[h], job.wordMode)
  BY StandsReady
<1>4. PICK p \in Nat, q \in Nat : p = P[h - 1] /\ q = P[h]
  BY <1>2
<1>5. Width(cmds[h]) = q - p
  BY <1>2, <1>3, <1>4, WidthIs
<1>6. cmds[h].c = "H" => p = q
  BY <1>3, <1>4 DEF Stands, StandsForRun, StandsForOne, StandsForLoop,
                    StandsForNothing, Incrementers
<1> QED
  BY <1>1, <1>4, <1>5, <1>6, PlaceRises

LEMMA FirstOf ==
  ASSUME NEW A, NEW s \in Seq(A), s # <<>>
  PROVE  Len(s) \in Nat /\ Len(s) # 0 /\ Head(s) = s[1] /\ s[1] \in A
OBVIOUS

LEMMA LowOfCell ==
  ASSUME NEW x \in Word, NEW size, size = WordSize \/ size = ByteSize
  PROVE  LowByte(x % size) = LowByte(x)
<1>1. CASE size = WordSize
  <2>1. x % size = x
    BY <1>1, Int16Word DEF Int16
  <2> QED
    BY <2>1
<1>2. CASE size = ByteSize
  <2>1. x % size = LowByte(x)
    BY <1>2 DEF LowByte
  <2>2. LowByte(x) \in Bytes
    BY WordIsInt, LowByteRange
  <2> QED
    BY <2>1, <2>2, LowByteByte
<1> QED
  BY <1>1, <1>2

LEMMA ExecWrite ==
  ASSUME NEW P, NEW first, NEW n, NEW origin, NEW size, NEW h,
         Ready(P, first, n, origin, size, h), Still, Putc, cmds[h].c = "."
  PROVE  Goes(h, n) /\ OwesWrite(P, n, origin, size, h)'
<1>1. Goes(h, n) /\ UNCHANGED <<consoleVars, mem, AP>>
      /\ out' = Keep(Append(out, LowByte(mem[AP])))
  BY RetireHere DEF Putc
<1>2. AtCell(n, origin) /\ mem[AP] % size = ltape[lptr] /\ mem[AP] \in Word
  BY ReadyIs
<1>3. LowByte(ltape[lptr]) = LowByte(mem[AP])
  <2>1. size = WordSize \/ size = ByteSize
    BY FrameIs DEF Ready
  <2> QED
    BY <1>2, <2>1, LowOfCell
<1>4. out = Shown(lout) /\ CellsAgree(n, origin, size)
  BY DEF Ready, Together, Quiet
<1>5. CellsAgree(n, origin, size)' /\ InStep'
  BY <1>1, <1>4, CellsKept, QuietStill DEF Still
<1>6. AtCell(n, origin)'
  BY <1>1, <1>2 DEF AtCell, Still
<1>7. out' = Keep(Append(Shown(lout'), LowByte(ltape'[lptr'])))
  BY <1>1, <1>3, <1>4 DEF Still
<1> QED
  BY <1>1, <1>5, <1>6, <1>7 DEF OwesWrite, Goes, Still

LEMMA ExecRead ==
  ASSUME NEW P, NEW first, NEW n, NEW origin, NEW size, NEW h,
         Ready(P, first, n, origin, size, h), Still, Getc, cmds[h].c = ",",
         IsInput(job.words), linput # <<>>
  PROVE  Goes(h, n) /\ OwesRead(P, n, origin, size, h)'
<1>1. Goes(h, n) /\ UNCHANGED <<AP, out>> /\ In
      /\ mem' = [mem EXCEPT ![AP] = LowByte(Val)]
  BY RetireHere DEF Getc
<1>2. AtCell(n, origin) /\ n \in Nat /\ AP \in Word
      /\ mem \in [Word -> Word]
  BY ReadyIs DEF Ready, MachineType
<1>3. PICK words : words = job.words
  OBVIOUS
<1>4. out = Shown(lout) /\ CellsAgree(n, origin, size) /\ InStep /\ ConsoleType
      /\ linput \in Seq(Bytes)
  BY DEF Ready, Together, Quiet, LanguageType
<1>5. PICK k \in 0 .. MaxReads : Unread(k) /\ Handed(words, k)
  BY <1>3, <1>4 DEF InStep
<1>6. k \in Nat /\ k < MaxReads /\ linput[1] = Stream(words, k + 1)
      /\ linput[1] \in Bytes /\ Head(linput) = linput[1]
  <2>1. Len(linput) \in Nat /\ Len(linput) # 0 /\ Head(linput) = linput[1]
        /\ linput[1] \in Bytes
    BY <1>4, FirstOf
  <2>2. Len(linput) = MaxReads - k /\ MaxReads \in Nat
    BY <1>5, BfPcAssumption DEF Unread
  <2>3. k \in Nat /\ k < MaxReads /\ 1 \in 1 .. MaxReads - k
    BY ONLY <2>1, <2>2, k \in 0 .. MaxReads
  <2>4. linput[1] = Stream(words, k + 1)
    BY <1>3, <1>5, <2>3 DEF Unread
  <2> QED
    BY ONLY <2>1, <2>3, <2>4
<1>7. Val = linput[1] /\ Handed(words, k + 1)'
  BY <1>1, <1>3, <1>4, <1>5, <1>6, HandedStep
<1>8. LowByte(Val) = Head(linput)
  BY <1>6, <1>7, LowByteByte
<1>9. OthersAgree(n, origin, size)'
  BY <1>1, <1>2, <1>4, CellWritten DEF Still
<1>10. AtCell(n, origin)' /\ mem'[AP'] = Head(linput')
  BY <1>1, <1>2, <1>8 DEF AtCell, Still
<1>11. Unread(k)'
  BY <1>5, UnreadKept DEF Still
<1>12. \E i \in 0 .. MaxReads : Unread(i)' /\ Handed(job.words, i + 1)'
  <2>1. Handed(job.words, k + 1)'
    BY <1>3, <1>7 DEF Still, Handed
  <2> QED
    BY <1>11, <2>1
<1> QED
  BY <1>1, <1>4, <1>9, <1>10, <1>12 DEF OwesRead, Goes, Still

LEMMA ExecClear ==
  ASSUME NEW P, NEW first, NEW n, NEW origin, NEW size, NEW h,
         Ready(P, first, n, origin, size, h), Still, ClrData, cmds[h].c = "0"
  PROVE  Goes(h, n) /\ OwesLoop(P, n, origin, size, h)'
<1>1. Goes(h, n) /\ UNCHANGED <<consoleVars, AP, out>>
      /\ mem' = [mem EXCEPT ![AP] = 0]
  BY RetireHere DEF ClrData
<1>2. AtCell(n, origin) /\ n \in Nat /\ AP \in Word
      /\ mem \in [Word -> Word] /\ CellsAgree(n, origin, size)
  BY ReadyIs DEF Ready, MachineType, Together
<1>3. OthersAgree(n, origin, size)' /\ Quiet'
  BY <1>1, <1>2, CellWritten, QuietStill DEF Still
<1>4. AtCell(n, origin)' /\ mem'[AP'] = 0
  BY <1>1, <1>2 DEF AtCell, Still
<1> QED
  BY <1>1, <1>3, <1>4 DEF OwesLoop, Goes, Still

(* A jump tests the cell of the language.                                  *)
LEMMA JccIs ==
  ASSUME NEW P, NEW first, NEW n, NEW origin, NEW size, NEW h,
         Ready(P, first, n, origin, size, h)
  PROVE  JCC <=> ltape[lptr] # 0
<1>1. mem[AP] % size = ltape[lptr] /\ mem[AP] \in Word
  BY ReadyIs
<1>2. size = CellSize
  BY DEF Ready, Frame
<1>3. mem[AP] % WordSize = mem[AP]
  BY <1>1, Int16Word DEF Int16
<1> QED
  BY <1>1, <1>2, <1>3 DEF JCC, CellSize, LowByte

LEMMA KeptMates ==
  ASSUME UNCHANGED <<cmds, program>>, NEW P, NEW h, NEW j, Mates(P, h, j)
  PROVE  Mates(P, h, j)'
<1>1. \A i : L!Match(i)' = L!Match(i) /\ LWord!Match(i)' = LWord!Match(i)
  BY DEF L!Match, LWord!Match
<1> QED
  BY <1>1 DEF Mates

(* The word of a bracket leads to its match, and then one further.         *)
LEMMA JumpOf ==
  ASSUME NEW P, NEW first, NEW n, NEW origin, NEW size, NEW h,
         Ready(P, first, n, origin, size, h), LinksMatch, stage = "execute",
         cmds[h].c \in {"[", "]"}
  PROVE  \E j \in first + 1 .. n :
           /\ Mates(P, h, j) /\ (array => j < n)
           /\ Int16((Here + Bias(Bits)) + 1) = j
<1>1. /\ OnCode(P, cmds, first, n, program) /\ L!Balanced(program)
      /\ h \in first + 1 .. n
      /\ array => HaltsAtEnd(cmds, n)
      /\ Bits = GetCmd(cmds[h])
  BY DEF Ready, Frame
<1>2. PICK j \in first + 1 .. n :
        /\ Mates(P, h, j)
        /\ IF cmds[h].c = "[" THEN Pairs(KindsIn(cmds), h, j)
           ELSE Pairs(KindsIn(cmds), j, h)
  <2>1. /\ OnCode(P, cmds, first, n, program) /\ L!Balanced(program)
        /\ h \in first + 1 .. n /\ cmds[h].c \in {"[", "]"}
    BY <1>1
  <2> QED
    BY ONLY <2>1, MateOf
<1>3. /\ h \in 1 .. n /\ n \in Nat /\ Here \in Int /\ Here + 1 = h
      /\ cmds[h] \in Command /\ first \in 1 .. n /\ n = Len(cmds)
      /\ cmds \in Seq(Command)
  BY ReadyIs, FrameIs DEF Ready
<1>4. j \in 1 .. n /\ DOMAIN cmds = 1 .. n /\ j \in Int /\ h \in Int
  BY <1>3
<1>5. Bits = mem[h - 1]
  <2>1. Here = h - 1
    BY DEF Ready
  <2> QED
    BY <2>1 DEF Bits
<1>6. Int16(h + Bias(Bits)) = j
  <2>1. Kinds = KindsIn(cmds)
    BY DEF Kinds, KindsIn
  <2>2. cmds[h].c = "[" => L!Encloses(Kinds, h, j)
    BY <1>2, <1>4, <2>1, EnclosesOpen
  <2>3. cmds[h].c = "]" => L!Encloses(Kinds, j, h)
    BY <1>2, <1>4, <2>1, EnclosesOpen
  <2> QED
    BY <1>3, <1>4, <1>5, <2>2, <2>3 DEF LinksMatch
<1>7. Bias(Bits) \in Int
  BY <1>1, <1>3, GetCmdRange, BiasRange, WordIsInt
<1>8. (Here + Bias(Bits)) + 1 = h + Bias(Bits)
  BY ONLY <1>3, <1>7
<1>9. array => j # n
  <2>1. array => cmds[n].c = "H"
    BY <1>1 DEF HaltsAtEnd
  <2>2. cmds[j].c \in {"[", "]"}
    BY <1>2 DEF Mates
  <2> QED
    BY <2>1, <2>2
<1> QED
  BY <1>2, <1>3, <1>4, <1>6, <1>8, <1>9

LEMMA ExecJump ==
  ASSUME NEW P, NEW first, NEW n, NEW origin, NEW size, NEW h,
         Ready(P, first, n, origin, size, h), LinksMatch, stage = "execute",
         Still, (cmds[h].c = "[" /\ Jz) \/ (cmds[h].c = "]" /\ Jnz)
  PROVE  /\ \E k \in first .. n : Goes(k, n)
         /\ OwesJump(P, n, origin, size, h, first)'
<1>0. cmds[h].c \in {"[", "]"}
  OBVIOUS
<1>1. PICK j \in first + 1 .. n :
        /\ Mates(P, h, j) /\ (array => j < n)
        /\ Int16((Here + Bias(Bits)) + 1) = j
  BY <1>0, JumpOf
<1>2. /\ h \in 1 .. n /\ n \in Nat /\ 2 * n < WordSize /\ AP_MAX = n
      /\ Here \in Int /\ first \in 1 .. n /\ first \in Nat
      /\ cmds[h] \in Command
      /\ AtCell(n, origin) /\ CellsAgree(n, origin, size)
      /\ MachineType /\ Bits = GetCmd(cmds[h]) /\ h \in first + 1 .. n
  BY ReadyIs, FrameIs DEF Ready, Together
<1>3. UNCHANGED <<consoleVars, mem, AP, out>>
  BY DEF Jz, Jnz
<1>4. AtCell(n, origin)' /\ CellsAgree(n, origin, size)' /\ Quiet'
  BY <1>2, <1>3, CellsKept, QuietStill DEF AtCell, Still
<1>5. JCC <=> ltape[lptr] # 0
  BY JccIs
<1>6. CASE cmds[h].c = "[" <=> ltape[lptr] # 0
  <2>1. Retire(Here)
    BY <1>5, <1>6 DEF Jz, Jnz
  <2>2. Goes(h, n)
    BY <1>0, <2>1, RetireHere
  <2>3. h \in first .. n
    BY <1>2
  <2> QED
    BY <1>0, <1>4, <1>6, <2>2, <2>3 DEF OwesJump, Goes, Still
<1>7. CASE ~(cmds[h].c = "[" <=> ltape[lptr] # 0)
  <2>1. Retire(Here + Bias(Bits))
    BY <1>5, <1>7 DEF Jz, Jnz
  <2>2. Here + Bias(Bits) \in Int
    <3>1. Bits \in Word
      BY <1>2, GetCmdRange
    <3>2. Bias(Bits) \in Int
      BY <3>1, BiasRange, WordIsInt
    <3> QED
      BY <1>2, <3>2
  <2>3. j \in 1 .. n /\ j \in first .. n
    BY <1>2
  <2>4. Goes(j, n)
    BY <1>1, <1>2, <2>1, <2>2, <2>3, RetireAt
  <2>5. Mates(P, h, j)'
    BY <1>1, KeptMates DEF Still
  <2>6. Here' = j
    BY <2>4 DEF Goes
  <2> QED
    BY <1>0, <1>4, <1>7, <2>3, <2>4, <2>5, <2>6 DEF OwesJump, Still
<1> QED
  BY <1>6, <1>7

(* At a halt both are at their end.                                        *)
LEMMA ExecHalt ==
  ASSUME NEW P, NEW first, NEW n, NEW origin, NEW size, NEW h,
         Ready(P, first, n, origin, size, h), Still, cmds[h].c = "H",
         IF array THEN Halt ELSE Nop
  PROVE  Goes(h, n) /\ Together(P, first, n, origin, size)'
<1>1. UNCHANGED <<consoleVars, mem, AP, out>>
  BY DEF Halt, Nop
<1>2. /\ h \in 1 .. n /\ n \in Nat /\ Here \in Int /\ Here + 1 = h
      /\ first \in 1 .. n /\ lpc = P[h - 1] /\ P[h - 1] = P[h]
      /\ AP = Int16(origin + lptr) /\ CellsAgree(n, origin, size)
      /\ h \in first + 1 .. n /\ 2 * n < WordSize
      /\ array => (h < n <=> cmds[h].c # "H")
  <2>1. Frame(P, first, n, origin, size) /\ Together(P, first, n, origin, size)
        /\ h \in first + 1 .. n
    BY DEF Ready
  <2>2. n \in Nat /\ first \in 1 .. n /\ 2 * n < WordSize
    BY <2>1, FrameIs
  <2>3. /\ h \in 1 .. n /\ Here \in Int /\ Here + 1 = h /\ lpc = P[h - 1]
        /\ array => (h < n <=> cmds[h].c # "H")
    BY ReadyIs
  <2>4. P[h - 1] = P[h]
    BY ReadyRises
  <2>5. AP = Int16(origin + lptr) /\ CellsAgree(n, origin, size)
    BY <2>1 DEF Together
  <2> QED
    BY ONLY <2>1, <2>2, <2>3, <2>4, <2>5
<1>3. Goes(h, n)
  <2>1. CASE ~array
    BY <2>1, RetireHere DEF Nop
  <2>2. CASE array
    <3>1. IP' = Here /\ running' = FALSE
          /\ UNCHANGED <<WordModeEnabled, array, AP_MAX>>
      BY <2>2 DEF Halt
    <3>2. h \in Word
      BY <1>2, Sizes DEF Word
    <3>3. Int16(Here + 1) = h
      BY <1>2, <3>2, Int16Word
    <3>4. Here' = h
      BY <2>2, <3>1, <3>3 DEF Here
    <3>5. ~(h < n)
      BY <1>2, <2>2
    <3>7. (h < n) = FALSE
      BY <3>5
    <3>6. running' = (h < n)
      BY ONLY <3>1, <3>7
    <3> QED
      BY <3>1, <3>4, <3>6 DEF Goes
  <2> QED
    BY <2>1, <2>2
<1>4. CellsAgree(n, origin, size)' /\ Quiet'
  BY <1>1, <1>2, CellsKept, QuietStill DEF Still
<1>5. h \in first .. n
  BY <1>2
<1> QED
  BY <1>1, <1>2, <1>3, <1>4, <1>5 DEF Together, Goes, Still

(* Every instruction behind the prologue does its part, and the language   *)
(* is left with the same.                                                  *)
LEMMA InstructionOwes ==
  ASSUME NEW P, NEW first, NEW n, NEW origin, NEW size, NEW h,
         Ready(P, first, n, origin, size, h), LinksMatch, stage = "execute",
         Still, ExecCode, IsInput(job.words),
         cmds[h].c = "," => linput # <<>>
  PROVE  /\ \E k \in first .. n : Goes(k, n)
         /\ cmds[h].c # "H" => Owes(P, first, n, origin, size, h)'
         /\ cmds[h].c = "H" => Together(P, first, n, origin, size)'
<1>1. /\ cmds[h] \in Command /\ Bits = GetCmd(cmds[h]) /\ h \in first + 1 .. n
      /\ h \in first .. n /\ lpc = P[h - 1] /\ P[h - 1] \in Nat /\ P[h] \in Nat
      /\ first \in 1 .. n /\ n \in Nat
  <2>1. Frame(P, first, n, origin, size) /\ h \in first + 1 .. n
        /\ Bits = GetCmd(cmds[h])
    BY DEF Ready
  <2>2. first \in 1 .. n /\ n \in Nat
    BY <2>1, FrameIs
  <2>3. cmds[h] \in Command /\ lpc = P[h - 1] /\ P[h - 1] \in Nat
        /\ P[h] \in Nat
    BY ReadyIs
  <2>4. h \in first .. n
    BY ONLY <2>1, <2>2
  <2> QED
    BY ONLY <2>1, <2>2, <2>3, <2>4
<1>2. PICK c : c = cmds[h].c
  OBVIOUS
<1>3. \/ c \in {"+", "-"} \/ c \in {">", "<"} \/ c \in {"[", "]"}
      \/ c = "." \/ c = "," \/ c = "0" \/ c = "H"
  <2>1. Stands(cmds[h], program, P[h - 1], P[h], job.wordMode)
    BY StandsReady
  <2>2. \A p, q : StandsForRun(cmds[h], program, p, q, job.wordMode) =>
                    c \in {"+", "-", ">", "<"}
    BY <1>2 DEF StandsForRun, Incrementers
  <2>3. \A p, q : StandsForOne(cmds[h], program, p, q) =>
                    c \in {"[", "]", ".", ","}
    BY <1>2 DEF StandsForOne
  <2>4. \A p, q : StandsForLoop(cmds[h], program, p, q) => c = "0"
    BY <1>2 DEF StandsForLoop
  <2>5. \A p, q : StandsForNothing(cmds[h], p, q) => c = "H"
    BY <1>2 DEF StandsForNothing
  <2> QED
    BY <2>1, <2>2, <2>3, <2>4, <2>5 DEF Stands
<1>4. /\ c \in {"+", "-"} => Add
      /\ c \in {">", "<"} => Right
      /\ c = "[" => Jz
      /\ c = "]" => Jnz
      /\ c = "." => Putc
      /\ c = "," => Getc
      /\ c = "0" => ClrData
      /\ c = "H" => IF array THEN Halt ELSE Nop
  BY <1>1, <1>2, ExecIs
<1>5. c # "H" => P[h - 1] < P[h]
  BY <1>2, ReadyRises
<1>6. /\ c # "H" => P[h - 1] <= lpc' /\ lpc' < P[h]
      /\ cmds' = cmds /\ lpc' \in Nat
  <2>1. lpc' = P[h - 1] /\ cmds' = cmds
    BY <1>1 DEF Still
  <2> QED
    <3>1. PICK p \in Nat, q \in Nat : p = P[h - 1] /\ q = P[h]
      BY <1>1
    <3>2. c # "H" => p < q
      BY <1>5, <3>1
    <3>3. lpc' = p
      BY <2>1, <3>1
    <3>4. c # "H" => p <= lpc' /\ lpc' < q
      BY ONLY <3>2, <3>3, p \in Nat, q \in Nat
    <3> QED
      BY ONLY <2>1, <3>1, <3>4
<1>7. CASE c \in {"+", "-"}
  <2>1. Goes(h, n) /\ OwesCount(P, n, origin, size, h)'
    BY <1>2, <1>4, <1>7, ExecCount
  <2>2. c # "H"
    BY <1>7
  <2> QED
    BY <1>1, <1>2, <1>6, <2>1, <2>2 DEF Owes
<1>8. CASE c \in {">", "<"}
  <2>1. Goes(h, n) /\ OwesMove(P, n, origin, size, h)'
    BY <1>2, <1>4, <1>8, ExecMove
  <2>2. c # "H"
    BY <1>8
  <2> QED
    BY <1>1, <1>2, <1>6, <2>1, <2>2 DEF Owes
<1>9. CASE c \in {"[", "]"}
  <2>1. (\E k \in first .. n : Goes(k, n))
        /\ OwesJump(P, n, origin, size, h, first)'
    BY <1>2, <1>4, <1>9, ExecJump
  <2>2. c # "H"
    BY <1>9
  <2> QED
    BY <1>1, <1>2, <1>6, <2>1, <2>2 DEF Owes
<1>10. CASE c = "."
  <2>1. Goes(h, n) /\ OwesWrite(P, n, origin, size, h)'
    BY <1>2, <1>4, <1>10, ExecWrite
  <2>2. c # "H"
    BY <1>10
  <2> QED
    BY <1>1, <1>2, <1>6, <2>1, <2>2 DEF Owes
<1>11. CASE c = ","
  <2>1. Goes(h, n) /\ OwesRead(P, n, origin, size, h)'
    BY <1>2, <1>4, <1>11, ExecRead
  <2>2. c # "H"
    BY <1>11
  <2> QED
    BY <1>1, <1>2, <1>6, <2>1, <2>2 DEF Owes
<1>12. CASE c = "0"
  <2>1. Goes(h, n) /\ OwesLoop(P, n, origin, size, h)'
    BY <1>2, <1>4, <1>12, ExecClear
  <2>2. c # "H"
    BY <1>12
  <2> QED
    BY <1>1, <1>2, <1>6, <2>1, <2>2 DEF Owes
<1>13. CASE c = "H"
  <2>1. Goes(h, n) /\ Together(P, first, n, origin, size)'
    BY <1>2, <1>4, <1>13, ExecHalt
  <2> QED
    BY <1>1, <1>2, <1>13, <2>1
<1> QED
  BY <1>3, <1>7, <1>8, <1>9, <1>10, <1>11, <1>12, <1>13

(* Where AP is after the prologue. *)
LEMMA OriginIs ==
  ASSUME ProloguesFit, NEW P, NEW first, NEW n, NEW origin, NEW size,
         Frame(P, first, n, origin, size),
         AP = (IF array THEN 0 ELSE ApEntry(n))
  PROVE  Int16(AP + Bias(GetCmd(cmds[first]))) = origin
<1>1. /\ cmds \in Seq(Command) /\ n = Len(cmds) /\ first \in 1 .. n
      /\ origin = Origin /\ cmds[first].c = ">" /\ cmds[first].bias = ApShift
  BY FrameIs DEF Frame
<1>2. cmds[first] \in Command
  BY <1>1
<1>3. Bias(GetCmd(cmds[first])) = ApShift
  BY <1>1, <1>2, ShiftOf
<1>4. PICK a \in Int, b \in Int : a = AP /\ b = ApShift
  <2>1. ApEntry(n) \in Int
    <3>1. PICK w \in Nat : w = WordSize
      BY Sizes
    <3>2. n \in Nat /\ w - 1 \in Int
      BY <1>1
    <3>3. ((w - 1) \div 2) - (n \div 2) \in Int
      BY ONLY <3>1, <3>2
    <3> QED
      BY <3>1, <3>3, Int16Range, WordIsInt DEF ApEntry, MEMORY_PTR_MAX
  <2> QED
    BY <2>1, BfCompilerAssumption, WordIsInt
<1>5. a + b = b + a
  OBVIOUS
<1> QED
  BY <1>1, <1>3, <1>4, <1>5 DEF Origin

(* The prologue is for AP only. *)
LEMMA PrologueStep ==
  ASSUME ProloguesFit, NEW P, NEW first, NEW n, NEW origin, NEW size,
         Frame(P, first, n, origin, size), LanguageType(size), MachineType,
         Fresh(n), Here < first, Bits = GetCmd(cmds[Here + 1]),
         Still, ExecCode
  PROVE  /\ \E k \in 1 .. first : /\ Goes(k, n)
         /\ IF Here' < first THEN Fresh(n)'
            ELSE Together(P, first, n, origin, size)'
<1>1. /\ cmds \in Seq(Command) /\ n \in Nat /\ n = Len(cmds)
      /\ first \in 1 .. n /\ first \in {1, 2} /\ 2 * n < WordSize
      /\ origin \in Word /\ size \in Nat \ {0} /\ P[first] = 0 /\ AP_MAX = n
      /\ cmds[first].c = ">"
  BY FrameIs DEF Frame
<1>2. first = 2 => cmds[1].c = Blank
  BY DEF Frame
<1>3. array => first = 2 /\ n >= 3
  BY DEF Frame, HaltsAtEnd
<1>4. PICK here \in Int : here = Here /\ here >= 0 /\ here < first
  <2>1. Int16(IP + 1) \in Word /\ IP \in Word
    <3>1. IP \in Word /\ IP + 1 \in Int
      BY WordIsInt DEF MachineType
    <3> QED
      BY <3>1, Int16Range
  <2>2. Here \in Word
    BY <2>1 DEF Here
  <2> QED
    BY <2>2, Sizes DEF Word
<1>5. here \in {0, 1} /\ here + 1 \in 1 .. first /\ here + 1 \in 1 .. n
  BY <1>1, <1>4
<1>6. array => here = 1
  BY <1>4 DEF Fresh
<1>7. array => here + 1 < n
  BY <1>1, <1>3, <1>6
<1>8. Int16(here + 1) = here + 1
  <2>1. here + 1 \in Word
    BY <1>1, <1>5, Sizes DEF Word
  <2> QED
    BY <2>1, Int16Word
<1>9. Retire(Here) => Goes(here + 1, n)
  BY <1>1, <1>4, <1>5, <1>7, <1>8, RetireAt
<1>10. cmds[here + 1] \in Command
  BY <1>1, <1>5
<1>11. Quiet /\ UNCHANGED consoleVars /\ UNCHANGED out => Quiet'
  BY QuietKept DEF Still
<1>12. CASE here + 1 < first
  <2>1. here = 0 /\ first = 2 /\ cmds[here + 1].c = Blank
    BY <1>1, <1>2, <1>5, <1>12
  <2>2. Nop
    BY <1>4, <1>10, <2>1, ExecIs
  <2>3. Goes(here + 1, n) /\ UNCHANGED <<consoleVars, mem, AP, out>>
    BY <1>4, <1>9, <2>2 DEF Nop
  <2>4. Here' = here + 1 /\ array' = array /\ ~array
    BY <1>6, <2>1, <2>3 DEF Goes
  <2>5. Fresh(n)'
    BY <1>11, <2>3, <2>4 DEF Fresh, Still
  <2> QED
    BY <1>5, <1>12, <2>3, <2>4, <2>5
<1>13. CASE ~(here + 1 < first)
  <2>1. here + 1 = first
    <3>1. first \in Int
      BY <1>1
    <3> QED
      BY ONLY <1>4, <1>13, <3>1
  <2>2. Right
    BY <1>1, <1>4, <1>10, <2>1, ExecIs
  <2>3. Goes(first, n) /\ UNCHANGED <<consoleVars, mem, out>>
        /\ AP' = Int16(AP + Bias(GetCmd(cmds[first])))
    BY <1>4, <1>9, <2>1, <2>2 DEF Right
  <2>4. AP = (IF array THEN 0 ELSE ApEntry(n))
    BY DEF Fresh
  <2>5. AP' = origin
    BY <2>3, <2>4, OriginIs
  <2>6. lptr = 0 /\ Int16(origin + 0) = origin /\ origin + 0 = origin
    <3>1. origin + 0 = origin
      BY <1>1, WordIsInt
    <3> QED
      BY <1>1, <3>1, Int16Word DEF Fresh
  <2>7. CellsAgree(n, origin, size)'
    <3>1. ASSUME NEW a \in n .. WordSize - 1
          PROVE  mem'[a] % size = ltape'[Int16(a - origin)]
      <4>1. mem'[a] = 0 /\ ltape' = [p \in Word |-> 0]
        BY <2>3 DEF Fresh, Still
      <4>2. a - origin \in Int
        BY <1>1, WordIsInt, Sizes
      <4>3. Int16(a - origin) \in Word
        BY <4>2, Int16Range
      <4>4. 0 % size = 0
        BY <1>1
      <4> QED
        BY <4>1, <4>3, <4>4
    <3> QED
      BY <3>1 DEF CellsAgree, SameCell
  <2>8. Here' = first
    BY <2>3 DEF Goes
  <2>9. Quiet' /\ lpc' = 0 /\ lptr' = 0
    BY <1>11, <2>3, <2>6 DEF Fresh, Still
  <2>10. first \in first .. n /\ first \in 1 .. first
    BY <1>1
  <2>11. Together(P, first, n, origin, size)'
    BY <1>1, <2>5, <2>6, <2>7, <2>8, <2>9, <2>10 DEF Together
  <2>12. ~(first < first)
    BY <1>1
  <2> QED
    BY <2>3, <2>8, <2>10, <2>11, <2>12
<1> QED
  BY <1>12, <1>13

-----------------------------------------------------------------------------
(* The commands that an instruction stands for.                            *)

(* The language does its next command, which is one of those that the      *)
(* instruction at h stands for.                                            *)
Doing(P, first, n, origin, size, h) ==
  /\ Frame(P, first, n, origin, size) /\ LanguageType(size) /\ MachineType
  /\ h \in first + 1 .. n
  /\ lpc \in Nat /\ P[h - 1] <= lpc /\ lpc < P[h]
  /\ Steps(program[lpc + 1], size)
  /\ UNCHANGED <<job, cmds, program, bfrunVars>>

Finishes(P, first, n, origin, size) ==
  lpc' = P[Here] /\ Together(P, first, n, origin, size)'
GoesOn(P, first, n, origin, size) ==
  lpc' # P[Here] /\ \E g : Owes(P, first, n, origin, size, g)'

LEMMA DoingIs ==
  ASSUME NEW P, NEW first, NEW n, NEW origin, NEW size, NEW h,
         Doing(P, first, n, origin, size, h)
  PROVE  /\ n \in Nat /\ first \in 1 .. n /\ h \in first .. n
         /\ cmds[h] \in Command
         /\ P[h - 1] \in Nat /\ P[h] \in Nat /\ lpc \in Nat
         /\ origin \in Word /\ lptr \in Word /\ AP \in Word
         /\ size \in Nat \ {0} /\ ltape \in [Word -> 0 .. size - 1]
         /\ ltape[lptr] \in 0 .. size - 1
         /\ UNCHANGED <<mem, AP, out, Here, consoleVars>>
<1>1. /\ Frame(P, first, n, origin, size) /\ h \in first + 1 .. n
      /\ P[h - 1] <= lpc /\ lpc < P[h]
  BY DEF Doing
<1>2. /\ n \in Nat /\ first \in 1 .. n /\ origin \in Word /\ size \in Nat \ {0}
      /\ cmds \in Seq(Command) /\ n = Len(cmds)
      /\ OnCode(P, cmds, first, n, program)
  BY <1>1, FrameIs DEF Frame
<1>3. h \in first .. n /\ h \in 1 .. n
  BY ONLY <1>1, <1>2
<1>4. P[h - 1] \in Nat /\ P[h] \in Nat
  BY <1>1, <1>2, PlaceRises
<1>5. cmds[h] \in Command
  BY <1>2, <1>3
<1>6. /\ lptr \in Word /\ ltape \in [Word -> 0 .. size - 1] /\ AP \in Word
      /\ lpc \in Nat
  BY DEF Doing, LanguageType, MachineType
<1>7. UNCHANGED <<mem, AP, out, Here, consoleVars>>
  BY DEF Doing, bfrunVars, Here
<1> QED
  BY <1>2, <1>3, <1>4, <1>5, <1>6, <1>7

(* Only the cell that the language is at changes, and it is that at AP.    *)
LEMMA OthersStay ==
  ASSUME NEW n \in Nat, NEW origin \in Word, NEW size,
         AtCell(n, origin), OthersAgree(n, origin, size), lptr \in Word,
         NEW X, ltape \in [Word -> X], NEW v,
         ltape' = [ltape EXCEPT ![lptr] = v], UNCHANGED <<mem, AP>>
  PROVE  OthersAgree(n, origin, size)'
<1>1. ASSUME NEW a \in n .. WordSize - 1, a # AP
      PROVE  mem[a] % size = ltape'[Int16(a - origin)]
  <2>1. a \in Word /\ AP \in Word
    BY Sizes DEF Word, AtCell
  <2>2. Int16(a - origin) \in Word /\ Int16(a - origin) # lptr
    <3>1. a - origin \in Int
      BY <2>1, WordIsInt
    <3>2. Int16(a - origin) # lptr
      BY <1>1, <2>1, Around DEF AtCell
    <3> QED
      BY <3>1, <3>2, Int16Range
  <2>3. ltape'[Int16(a - origin)] = ltape[Int16(a - origin)]
    BY <2>2
  <2>4. mem[a] % size = ltape[Int16(a - origin)]
    BY <1>1 DEF OthersAgree, SameCell
  <2> QED
    BY <2>3, <2>4
<1> QED
  BY <1>1 DEF OthersAgree, SameCell

LEMMA CellsRejoin ==
  ASSUME NEW n \in Nat, NEW origin \in Word, NEW size,
         AtCell(n, origin), lptr \in Word, OthersAgree(n, origin, size)',
         UNCHANGED <<mem, AP>>, mem[AP] % size = ltape'[lptr]
  PROVE  CellsAgree(n, origin, size)'
<1>1. AP \in Word /\ Int16(AP - origin) = lptr
  <2>1. AP \in Word
    BY Sizes DEF Word, AtCell
  <2> QED
    BY <2>1, Around DEF AtCell
<1>2. ASSUME NEW a \in n .. WordSize - 1
      PROVE  mem[a] % size = ltape'[Int16(a - origin)]
  BY <1>1 DEF OthersAgree, SameCell
<1> QED
  BY <1>2 DEF CellsAgree, SameCell

LEMMA QuietStays ==
  ASSUME NEW P, NEW first, NEW n, NEW origin, NEW size, NEW h,
         Doing(P, first, n, origin, size, h), UNCHANGED <<linput, lout>>
  PROVE  (Quiet => Quiet') /\ (InStep => InStep')
<1>1. UNCHANGED consoleVars /\ UNCHANGED <<linput, job, out, lout>>
  BY DoingIs DEF Doing
<1> QED
  BY <1>1, QuietKept, InStepKept

(* The last command that an instruction stands for, or another of them.    *)
LEMMA DoneOrOn ==
  ASSUME NEW P, NEW first, NEW n, NEW origin, NEW size, NEW h,
         Doing(P, first, n, origin, size, h), lpc' = lpc + 1, Here = h
  PROVE  /\ lpc + 1 = P[h] /\ AP' = Int16(origin + lptr')
            /\ CellsAgree(n, origin, size)' /\ Quiet' =>
              Finishes(P, first, n, origin, size)
         /\ lpc + 1 # P[h] /\ (\/ OwesCount(P, n, origin, size, h)'
                               \/ OwesMove(P, n, origin, size, h)'
                               \/ OwesLoop(P, n, origin, size, h)') =>
              GoesOn(P, first, n, origin, size)
<1>1. /\ n \in Nat /\ h \in first .. n /\ P[h - 1] \in Nat /\ P[h] \in Nat
      /\ lpc \in Nat /\ Here' = Here
  BY DoingIs
<1>2. h \in first + 1 .. n /\ P[h - 1] <= lpc /\ lpc < P[h]
  BY DEF Doing
<1>3. PICK p \in Nat, q \in Nat, l \in Nat :
        p = P[h - 1] /\ q = P[h] /\ l = lpc /\ p <= l /\ l < q
  BY <1>1, <1>2
<1>4. l + 1 # q => p <= l + 1 /\ l + 1 < q /\ l + 1 \in Nat
  BY <1>3
<1>5. lpc' = l + 1
  BY <1>3
<1>6. l + 1 # q => P[h - 1] <= lpc' /\ lpc' < P[h] /\ lpc' \in Nat
  BY <1>3, <1>4, <1>5
<1>7. lpc + 1 = l + 1
  BY <1>3
<1> QED
  BY <1>1, <1>2, <1>3, <1>5, <1>6, <1>7 DEF Finishes, Together, GoesOn, Owes

(* How much is left of a run. *)
LEMMA RunLeft ==
  ASSUME NEW P, NEW first, NEW n, NEW origin, NEW size, NEW h,
         Doing(P, first, n, origin, size, h), cmds[h].c \in Incrementers
  PROVE  /\ program[lpc + 1] = cmds[h].c
         /\ \E d \in Nat : /\ d = P[h] - lpc - 1 /\ P[h] - lpc = d + 1
                           /\ (d = 0 <=> lpc + 1 = P[h])
                           /\ P[h] - (lpc + 1) = d
<1>1. /\ P[h - 1] \in Nat /\ P[h] \in Nat /\ lpc \in Nat
      /\ OnCode(P, cmds, first, n, program) /\ h \in first + 1 .. n
      /\ P[h - 1] <= lpc /\ lpc < P[h]
  BY DoingIs DEF Doing, Frame
<1>2. \A k \in P[h - 1] + 1 .. P[h] : program[k] = cmds[h].c
  <2>1. StandsForOne(cmds[h], program, P[h - 1], P[h]) => FALSE
    BY DEF StandsForOne, Incrementers
  <2>2. StandsForLoop(cmds[h], program, P[h - 1], P[h]) => FALSE
    BY DEF StandsForLoop, Incrementers
  <2>3. StandsForNothing(cmds[h], P[h - 1], P[h]) => FALSE
    BY DEF StandsForNothing, Incrementers
  <2> QED
    BY <1>1, <2>1, <2>2, <2>3, PlaceStep
<1>3. PICK p \in Nat, q \in Nat, l \in Nat :
        p = P[h - 1] /\ q = P[h] /\ l = lpc /\ p <= l /\ l < q
  BY <1>1
<1>4. l + 1 \in p + 1 .. q
  BY <1>3
<1>5. PICK d \in Nat : d = q - l - 1
  BY <1>3
<1>6. q - l = d + 1 /\ (d = 0 <=> l + 1 = q) /\ q - (l + 1) = d
  BY <1>5
<1> QED
  BY <1>2, <1>3, <1>4, <1>5, <1>6

LEMMA DoCount ==
  ASSUME NEW P, NEW first, NEW n, NEW origin, NEW size, NEW h,
         Doing(P, first, n, origin, size, h), OwesCount(P, n, origin, size, h)
  PROVE  \/ Finishes(P, first, n, origin, size)
         \/ GoesOn(P, first, n, origin, size)
<1>1. /\ cmds[h].c \in {"+", "-"} /\ Here = h
      /\ AtCell(n, origin) /\ OthersAgree(n, origin, size) /\ Quiet
      /\ mem[AP] % size = (IF cmds[h].c = "+" THEN ltape[lptr] + (P[h] - lpc)
                           ELSE ltape[lptr] - (P[h] - lpc)) % size
  BY DEF OwesCount
<1>2. /\ n \in Nat /\ origin \in Word /\ lptr \in Word /\ size \in Nat \ {0}
      /\ ltape \in [Word -> 0 .. size - 1] /\ ltape[lptr] \in 0 .. size - 1
      /\ UNCHANGED <<mem, AP, out, Here, consoleVars>> /\ UNCHANGED cmds
  BY DoingIs DEF Doing
<1>3. cmds[h].c \in Incrementers
  BY <1>1 DEF Incrementers
<1>0. PICK v \in Int : v = ltape[lptr]
  BY <1>2
<1>4. PICK c : c = cmds[h].c /\ v = ltape[lptr] /\ c \in {"+", "-"}
  BY <1>0, <1>1
<1>5. PICK d \in Nat : /\ d = P[h] - lpc - 1 /\ P[h] - lpc = d + 1
                       /\ (d = 0 <=> lpc + 1 = P[h]) /\ P[h] - (lpc + 1) = d
  BY <1>3, RunLeft
<1>6. Counted((IF c = "+" THEN v + 1 ELSE v - 1) % size)
  <2>1. program[lpc + 1] = c /\ Steps(program[lpc + 1], size)
    BY <1>3, <1>4, RunLeft DEF Doing
  <2> QED
    BY <1>4, <2>1 DEF Steps
<1>7. PICK w \in Int : w = (IF c = "+" THEN v + 1 ELSE v - 1) % size
  <2>1. (IF c = "+" THEN v + 1 ELSE v - 1) \in Int
    BY <1>4
  <2> QED
    BY <1>2, <2>1
<1>8. /\ ltape' = [ltape EXCEPT ![lptr] = w] /\ lpc' = lpc + 1
      /\ UNCHANGED <<lptr, linput, lout>>
  BY <1>6, <1>7 DEF Counted
<1>9. ltape'[lptr] = w /\ OthersAgree(n, origin, size)' /\ Quiet'
  BY <1>1, <1>2, <1>8, OthersStay, QuietStays
<1>10. mem[AP] % size = (IF c = "+" THEN w + d ELSE w - d) % size
  <2>1. mem[AP] % size = (IF c = "+" THEN v + (d + 1) ELSE v - (d + 1)) % size
    BY <1>1, <1>4, <1>5
  <2>2. CASE c = "+"
    <3>1. PICK u \in Int : u = v + 1 /\ u + d = v + (d + 1)
      OBVIOUS
    <3>2. w = u % size
      BY <1>7, <2>2, <3>1
    <3>4. size \in Nat \ {0} /\ u \in Int /\ d \in Int
      BY <1>2, <3>1
    <3>3. (w + d) % size = (u + d) % size
      BY ONLY <3>2, <3>4, ModAdd
    <3> QED
      BY <2>1, <2>2, <3>1, <3>3
  <2>3. CASE c = "-"
    <3>1. PICK u \in Int, e \in Int :
            u = v - 1 /\ u + e = v - (d + 1) /\ e = -d /\ w + e = w - d
      <4>1. (v - 1) + (-d) = v - (d + 1) /\ w + (-d) = w - d
        OBVIOUS
      <4> QED
        BY <4>1
    <3>2. w = u % size
      BY <1>7, <2>3, <3>1
    <3>4. size \in Nat \ {0} /\ u \in Int /\ e \in Int
      BY <1>2, <3>1
    <3>3. (w + e) % size = (u + e) % size
      BY ONLY <3>2, <3>4, ModAdd
    <3> QED
      BY <2>1, <2>3, <3>1, <3>3
  <2> QED
    BY <1>4, <2>2, <2>3
<1>11. CASE d = 0
  <2>1. mem[AP] % size = w
    <3>1. w \in 0 .. size - 1
      <4>1. (IF c = "+" THEN v + 1 ELSE v - 1) \in Int
        BY <1>4
      <4> QED
        BY <1>2, <1>7, <4>1
    <3>2. w + d = w /\ w - d = w
      BY <1>11
    <3>3. w % size = w
      BY <1>2, <3>1, ModNear
    <3> QED
      BY <1>10, <3>2, <3>3
  <2>2. CellsAgree(n, origin, size)'
    BY <1>1, <1>2, <1>9, <2>1, CellsRejoin
  <2>3. lpc + 1 = P[h] /\ AP' = Int16(origin + lptr')
    BY <1>1, <1>2, <1>5, <1>8, <1>11 DEF AtCell
  <2> QED
    BY <1>1, <1>8, <1>9, <2>2, <2>3, DoneOrOn
<1>12. CASE d # 0
  <2>1. P[h] - lpc' = d
    BY <1>5, <1>8
  <2>2. AtCell(n, origin)'
    BY <1>1, <1>2, <1>8 DEF AtCell
  <2>3. mem'[AP'] % size = (IF c = "+" THEN ltape'[lptr'] + (P[h] - lpc')
                            ELSE ltape'[lptr'] - (P[h] - lpc')) % size
    BY <1>2, <1>8, <1>9, <1>10, <2>1
  <2>4. OwesCount(P, n, origin, size, h)'
    BY <1>1, <1>2, <1>4, <1>9, <2>2, <2>3 DEF OwesCount
  <2> QED
    BY <1>1, <1>5, <1>8, <1>12, <2>4, DoneOrOn
<1> QED
  BY <1>11, <1>12

LEMMA DoMove ==
  ASSUME NEW P, NEW first, NEW n, NEW origin, NEW size, NEW h,
         Doing(P, first, n, origin, size, h), OwesMove(P, n, origin, size, h)
  PROVE  \/ Finishes(P, first, n, origin, size)
         \/ GoesOn(P, first, n, origin, size)
<1>1. /\ cmds[h].c \in {">", "<"} /\ Here = h
      /\ CellsAgree(n, origin, size) /\ Quiet
      /\ AP = Int16(IF cmds[h].c = ">" THEN (origin + lptr) + (P[h] - lpc)
                    ELSE (origin + lptr) - (P[h] - lpc))
  BY DEF OwesMove
<1>2. /\ n \in Nat /\ origin \in Word /\ lptr \in Word
      /\ UNCHANGED <<mem, AP, out, Here, consoleVars>> /\ UNCHANGED cmds
  BY DoingIs DEF Doing
<1>3. cmds[h].c \in Incrementers
  BY <1>1 DEF Incrementers
<1>4. PICK o \in Int, p \in Int : o = origin /\ p = lptr
  BY <1>2, WordIsInt
<1>5. PICK d \in Nat : /\ d = P[h] - lpc - 1 /\ P[h] - lpc = d + 1
                       /\ (d = 0 <=> lpc + 1 = P[h]) /\ P[h] - (lpc + 1) = d
  BY <1>3, RunLeft
<1>6. Moved(IF cmds[h].c = ">" THEN Int16(p + 1) ELSE Int16(p - 1))
  <2>1. program[lpc + 1] = cmds[h].c /\ Steps(program[lpc + 1], size)
    BY <1>3, RunLeft DEF Doing
  <2> QED
    BY <1>1, <1>4, <2>1 DEF Steps
<1>7. /\ lptr' = (IF cmds[h].c = ">" THEN Int16(p + 1) ELSE Int16(p - 1))
      /\ lpc' = lpc + 1 /\ UNCHANGED <<ltape, linput, lout>>
  BY <1>6 DEF Moved
<1>8. CellsAgree(n, origin, size)' /\ Quiet'
  BY <1>1, <1>2, <1>7, CellsKept, QuietStays
<1>9. AP = Int16(IF cmds[h].c = ">" THEN (o + lptr') + d ELSE (o + lptr') - d)
  <2>1. CASE cmds[h].c = ">"
    <3>1. PICK x \in Int, y \in Int : x = p + 1 /\ y = o + d
      OBVIOUS
    <3>2. Int16(Int16(x) + y) = Int16(x + y)
      BY CutOnce
    <3>3. PICK r \in Int : r = Int16(x)
      BY Int16Range, WordIsInt
    <3>4. (o + r) + d = r + y /\ x + y = (o + p) + (d + 1)
      BY <3>1
    <3>5. lptr' = r /\ AP = Int16((o + p) + (d + 1))
      BY <1>1, <1>4, <1>5, <1>7, <2>1, <3>1, <3>3
    <3> QED
      BY <2>1, <3>2, <3>3, <3>4, <3>5
  <2>2. CASE cmds[h].c = "<"
    <3>1. PICK x \in Int, y \in Int : x = p - 1 /\ y = o - d
      OBVIOUS
    <3>2. Int16(Int16(x) + y) = Int16(x + y)
      BY CutOnce
    <3>3. PICK r \in Int : r = Int16(x)
      BY Int16Range, WordIsInt
    <3>4. (o + r) - d = r + y /\ x + y = (o + p) - (d + 1)
      BY <3>1
    <3>5. lptr' = r /\ AP = Int16((o + p) - (d + 1))
      BY <1>1, <1>4, <1>5, <1>7, <2>2, <3>1, <3>3
    <3> QED
      BY <2>2, <3>2, <3>3, <3>4, <3>5
  <2> QED
    BY <1>1, <2>1, <2>2
<1>10. CASE d = 0
  <2>1. o + lptr' \in Int
    <3>1. lptr' \in Word
      <4>1. p + 1 \in Int /\ p - 1 \in Int
        OBVIOUS
      <4> QED
        BY <1>7, <4>1, Int16Range
    <3> QED
      BY <3>1, WordIsInt
  <2>2. AP' = Int16(origin + lptr')
    <3>1. (o + lptr') + d = o + lptr' /\ (o + lptr') - d = o + lptr'
      BY <1>10, <2>1
    <3> QED
      BY <1>2, <1>4, <1>9, <3>1
  <2> QED
    BY <1>1, <1>5, <1>7, <1>8, <1>10, <2>2, DoneOrOn
<1>11. CASE d # 0
  <2>1. P[h] - lpc' = d
    BY <1>5, <1>7
  <2>2. OwesMove(P, n, origin, size, h)'
    BY <1>1, <1>2, <1>4, <1>8, <1>9, <2>1 DEF OwesMove
  <2> QED
    BY <1>1, <1>5, <1>7, <1>11, <2>2, DoneOrOn
<1> QED
  BY <1>10, <1>11

(* An instruction for one command. *)
Single == {".", ",", "[", "]"}

LEMMA OneLeft ==
  ASSUME NEW P, NEW first, NEW n, NEW origin, NEW size, NEW h,
         Doing(P, first, n, origin, size, h), cmds[h].c \in Single
  PROVE  /\ program[lpc + 1] = cmds[h].c /\ lpc = P[h - 1] /\ lpc + 1 = P[h]
         /\ lpc \in Nat
<1>1. /\ P[h - 1] \in Nat /\ P[h] \in Nat /\ lpc \in Nat
      /\ OnCode(P, cmds, first, n, program) /\ h \in first + 1 .. n
      /\ P[h - 1] <= lpc /\ lpc < P[h]
  BY DoingIs DEF Doing, Frame
<1>2. StandsForOne(cmds[h], program, P[h - 1], P[h])
  <2>1. cmds[h].c \notin Incrementers
    BY DEF Incrementers, Single
  <2>2. StandsForLoop(cmds[h], program, P[h - 1], P[h]) => FALSE
    BY DEF StandsForLoop, Single
  <2>3. StandsForNothing(cmds[h], P[h - 1], P[h]) => FALSE
    BY DEF StandsForNothing, Single
  <2> QED
    BY <1>1, <2>1, <2>2, <2>3, PlaceStep
<1>3. PICK p \in Nat, q \in Nat, l \in Nat :
        p = P[h - 1] /\ q = P[h] /\ l = lpc /\ p <= l /\ l < q
  BY <1>1
<1>4. q = p + 1 /\ program[q] = cmds[h].c
  BY <1>2, <1>3 DEF StandsForOne
<1>5. l = p /\ l + 1 = q
  BY ONLY <1>3, <1>4, p \in Nat, q \in Nat, l \in Nat
<1> QED
  BY <1>3, <1>4, <1>5

LEMMA DoWrite ==
  ASSUME NEW P, NEW first, NEW n, NEW origin, NEW size, NEW h,
         Doing(P, first, n, origin, size, h), OwesWrite(P, n, origin, size, h)
  PROVE  Finishes(P, first, n, origin, size)
<1>1. /\ cmds[h].c = "." /\ Here = h
      /\ AtCell(n, origin) /\ CellsAgree(n, origin, size) /\ InStep
      /\ out = Keep(Append(Shown(lout), LowByte(ltape[lptr])))
  BY DEF OwesWrite
<1>2. /\ n \in Nat /\ origin \in Word /\ lptr \in Word
      /\ size \in Nat \ {0} /\ ltape[lptr] \in 0 .. size - 1
      /\ UNCHANGED <<mem, AP, out, Here, consoleVars>> /\ UNCHANGED cmds
  BY DoingIs DEF Doing
<1>3. program[lpc + 1] = "." /\ lpc + 1 = P[h]
  <2>1. cmds[h].c \in Single
    BY <1>1 DEF Single
  <2>2. program[lpc + 1] = cmds[h].c /\ lpc + 1 = P[h]
    BY <2>1, OneLeft
  <2> QED
    BY <1>1, <2>2
<1>4. /\ lout' = Keep(Append(lout, ltape[lptr]))
      /\ lpc' = lpc + 1 /\ UNCHANGED <<ltape, lptr, linput>>
  BY <1>3 DEF Doing, Steps, Written
<1>5. ltape[lptr] \in Word /\ lout \in Seq(Word)
  <2>1. size <= WordSize /\ WordSize \in Nat
    BY Sizes, FrameIs DEF Doing
  <2>2. ltape[lptr] \in Word
    BY <1>2, <2>1 DEF Word
  <2> QED
    BY <2>2 DEF Doing, LanguageType
<1>6. out' = Shown(lout')
  BY <1>1, <1>2, <1>4, <1>5, ShownKeep
<1>7. InStep'
  <2>1. UNCHANGED consoleVars /\ UNCHANGED <<linput, job>>
    BY <1>2, <1>4 DEF Doing
  <2> QED
    BY <1>1, <2>1, InStepKept
<1>8. CellsAgree(n, origin, size)' /\ AP' = Int16(origin + lptr')
  BY <1>1, <1>2, <1>4, CellsKept DEF AtCell
<1> QED
  BY <1>1, <1>3, <1>4, <1>6, <1>7, <1>8, DoneOrOn DEF Quiet

LEMMA DoRead ==
  ASSUME NEW P, NEW first, NEW n, NEW origin, NEW size, NEW h,
         Doing(P, first, n, origin, size, h), OwesRead(P, n, origin, size, h)
  PROVE  Finishes(P, first, n, origin, size)
<1>1. /\ cmds[h].c = "," /\ Here = h
      /\ AtCell(n, origin) /\ OthersAgree(n, origin, size) /\ out = Shown(lout)
      /\ linput # <<>> /\ mem[AP] = Head(linput)
  BY DEF OwesRead
<1>2. PICK k \in 0 .. MaxReads : Unread(k) /\ Handed(job.words, k + 1)
  BY DEF OwesRead
<1>3. /\ n \in Nat /\ origin \in Word /\ lptr \in Word
      /\ size \in Nat \ {0} /\ ltape \in [Word -> 0 .. size - 1]
      /\ UNCHANGED <<mem, AP, out, Here, consoleVars>> /\ UNCHANGED cmds
      /\ UNCHANGED job
  BY DoingIs DEF Doing
<1>4. program[lpc + 1] = "," /\ lpc + 1 = P[h]
  <2>1. cmds[h].c \in Single
    BY <1>1 DEF Single
  <2>2. program[lpc + 1] = cmds[h].c /\ lpc + 1 = P[h]
    BY <2>1, OneLeft
  <2> QED
    BY <1>1, <2>2
<1>5. /\ ltape' = [ltape EXCEPT ![lptr] = Head(linput)]
      /\ linput' = Tail(linput)
      /\ lpc' = lpc + 1 /\ UNCHANGED <<lptr, lout>>
  BY <1>1, <1>4 DEF Doing, Steps, Taken1
<1>6. linput \in Seq(Bytes) /\ Head(linput) \in Bytes
  BY <1>1, FirstOf DEF Doing, LanguageType
<1>7. mem[AP] % size = ltape'[lptr]
  <2>1. PICK v \in Nat : v = Head(linput) /\ v < ByteSize
    BY <1>6, Sizes DEF Bytes
  <2>2. ByteSize <= size /\ ByteSize \in Nat
    BY FrameIs, Sizes DEF Doing
  <2>3. v \in 0 .. size - 1
    BY <1>3, <2>1, <2>2
  <2>4. v % size = v
    <3>1. size \in Nat \ {0} /\ v \in Int
      BY <1>3
    <3> QED
      BY ONLY <2>3, <3>1, ModNear
  <2> QED
    BY <1>1, <1>3, <1>5, <2>1, <2>4
<1>8. CellsAgree(n, origin, size)' /\ AP' = Int16(origin + lptr')
  <2>1. OthersAgree(n, origin, size)'
    BY <1>1, <1>3, <1>5, OthersStay
  <2> QED
    BY <1>1, <1>3, <1>5, <1>7, <2>1, CellsRejoin DEF AtCell
<1>9. Handed(job.words, k + 1)'
  <2>1. PICK i : i = k + 1
    OBVIOUS
  <2>2. Handed(job.words, i)'
    BY <1>2, <1>3, <2>1, HandedKept
  <2> QED
    BY <2>1, <2>2
<1>10. k + 1 \in 0 .. MaxReads /\ Unread(k + 1)'
  <2>1. /\ Len(linput) = MaxReads - k
        /\ \A i \in 1 .. MaxReads - k : linput[i] = Stream(job.words, k + i)
    BY <1>2 DEF Unread
  <2>2. Len(linput) \in Nat /\ Len(linput) # 0 /\ MaxReads \in Nat
    BY <1>1, <1>6, FirstOf, BfPcAssumption
  <2>3. k + 1 \in 0 .. MaxReads
    BY ONLY <2>1, <2>2, k \in 0 .. MaxReads
  <2>4. PICK m \in Nat : m = MaxReads - (k + 1) /\ m + 1 = MaxReads - k
    <3>1. MaxReads - (k + 1) \in Nat
          /\ (MaxReads - (k + 1)) + 1 = MaxReads - k
      BY ONLY <2>2, <2>3, k \in 0 .. MaxReads
    <3> QED
      BY <3>1
  <2>5. Len(Tail(linput)) = m
        /\ \A i \in 1 .. m : Tail(linput)[i] = linput[i + 1]
    BY <1>6, <2>1, <2>4, TailIs
  <2>6. ASSUME NEW i \in 1 .. m
        PROVE  linput'[i] = Stream(job.words, (k + 1) + i)
    <3>1. i + 1 \in 1 .. MaxReads - k /\ k + (i + 1) = (k + 1) + i
      BY ONLY <2>4, i \in 1 .. m, m \in Nat, k \in 0 .. MaxReads
    <3>2. linput[i + 1] = Stream(job.words, (k + 1) + i)
      BY <2>1, <3>1
    <3> QED
      BY <1>5, <2>5, <3>2
  <2>7. job.words' = job.words
    BY <1>3
  <2> QED
    BY <1>5, <2>3, <2>4, <2>5, <2>6, <2>7 DEF Unread
<1>11. Quiet'
  BY <1>1, <1>3, <1>5, <1>9, <1>10 DEF Quiet, InStep
<1> QED
  BY <1>1, <1>4, <1>5, <1>8, <1>11, DoneOrOn

(* The loop of a clear instruction. *)
LEMMA LoopIs ==
  ASSUME NEW p \in Nat, program \in Seq(STRING), p + 3 <= Len(program),
         program[p + 1] = "[", program[p + 2] \in {"+", "-"},
         program[p + 3] = "]"
  PROVE  /\ L!Match(p + 1) = p + 3 /\ L!Match(p + 3) = p + 1
         /\ LWord!Match(p + 1) = p + 3 /\ LWord!Match(p + 3) = p + 1
<1>1. PICK i \in Nat, m \in Nat, j \in Nat :
        i = p + 1 /\ m = p + 2 /\ j = p + 3 /\ m = i + 1 /\ j = m + 1
  OBVIOUS
<1>2. Open(program, i, i) = 1
  BY <1>1, OpenAtStart
<1>3. Open(program, i, i + 1) = Open(program, i, i)
  <2>1. program[i + 1] \notin {"[", "]"}
    BY <1>1
  <2> QED
    BY <2>1, <1>1, OpenStep
<1>4. Open(program, i, m) = 1
  BY <1>1, <1>2, <1>3
<1>5. Open(program, i, m + 1) = Open(program, i, m) - 1
  <2>1. program[m + 1] = "]" /\ i <= m + 1
    BY <1>1
  <2> QED
    BY <2>1, OpenStep
<1>6. Open(program, i, j) = 0
  BY <1>1, <1>4, <1>5
<1>7. \A k \in i + 1 .. j - 1 : Open(program, i, k) # 0
  <2>1. \A k \in i + 1 .. j - 1 : k = m
    BY ONLY <1>1, i \in Nat, m \in Nat, j \in Nat
  <2> QED
    BY <1>4, <2>1
<1>8. Pairs(program, i, j)
  <2>1. program[i] = "[" /\ i < j
    BY <1>1
  <2> QED
    BY <1>6, <1>7, <2>1, FirstClosed
<1>9. i \in 1 .. Len(program) /\ j \in 1 .. Len(program)
  BY <1>1
<1> QED
  BY <1>1, <1>8, <1>9, MatchIs

LEMMA LoopLeft ==
  ASSUME NEW P, NEW first, NEW n, NEW origin, NEW size, NEW h,
         Doing(P, first, n, origin, size, h), cmds[h].c = "0"
  PROVE  \E p \in Nat :
           /\ p = P[h - 1] /\ P[h] = p + 3 /\ lpc \in {p, p + 1, p + 2}
           /\ program[p + 1] = "[" /\ program[p + 2] \in {"+", "-"}
           /\ program[p + 3] = "]"
           /\ L!Match(p + 1) = p + 3 /\ L!Match(p + 3) = p + 1
           /\ LWord!Match(p + 1) = p + 3 /\ LWord!Match(p + 3) = p + 1
<1>1. /\ P[h - 1] \in Nat /\ P[h] \in Nat /\ lpc \in Nat
      /\ OnCode(P, cmds, first, n, program) /\ h \in first + 1 .. n
      /\ P[h - 1] <= lpc /\ lpc < P[h] /\ h \in first .. n /\ n \in Nat
      /\ first \in 1 .. n
  BY DoingIs DEF Doing, Frame
<1>2. StandsForLoop(cmds[h], program, P[h - 1], P[h])
  <2>1. cmds[h].c \notin Incrementers
    BY DEF Incrementers
  <2>2. StandsForOne(cmds[h], program, P[h - 1], P[h]) => FALSE
    BY DEF StandsForOne
  <2>3. StandsForNothing(cmds[h], P[h - 1], P[h]) => FALSE
    BY DEF StandsForNothing
  <2> QED
    BY <1>1, <2>1, <2>2, <2>3, PlaceStep
<1>3. PICK p \in Nat, q \in Nat, l \in Nat :
        p = P[h - 1] /\ q = P[h] /\ l = lpc /\ p <= l /\ l < q
  BY <1>1
<1>4. /\ q = p + 3 /\ program[p + 1] = "[" /\ program[p + 2] \in {"+", "-"}
      /\ program[p + 3] = "]"
  BY <1>2, <1>3 DEF StandsForLoop
<1>5. l \in {p, p + 1, p + 2}
  BY ONLY <1>3, <1>4, p \in Nat, l \in Nat, q \in Nat
<1>6. program \in Seq(STRING) /\ p + 3 <= Len(program)
  <2>1. n \in h .. n
    BY <1>1
  <2>2. P[h] <= P[n]
    BY <1>1, <2>1, PlaceOrder
  <2>3. P[n] = Len(program) /\ program \in Seq(STRING)
    BY FrameIs DEF Doing
  <2> QED
    BY <1>3, <1>4, <2>2, <2>3
<1>7. /\ L!Match(p + 1) = p + 3 /\ L!Match(p + 3) = p + 1
      /\ LWord!Match(p + 1) = p + 3 /\ LWord!Match(p + 3) = p + 1
  BY <1>4, <1>6, LoopIs
<1>8. lpc \in {p, p + 1, p + 2} /\ p = P[h - 1] /\ P[h] = p + 3
  BY <1>3, <1>4, <1>5
<1> QED
  BY <1>4, <1>7, <1>8

LEMMA DoLoop ==
  ASSUME NEW P, NEW first, NEW n, NEW origin, NEW size, NEW h,
         Doing(P, first, n, origin, size, h), OwesLoop(P, n, origin, size, h)
  PROVE  \/ Finishes(P, first, n, origin, size)
         \/ GoesOn(P, first, n, origin, size)
<1>1. /\ cmds[h].c = "0" /\ Here = h
      /\ AtCell(n, origin) /\ OthersAgree(n, origin, size) /\ Quiet
      /\ mem[AP] = 0
  BY DEF OwesLoop
<1>2. /\ n \in Nat /\ origin \in Word /\ lptr \in Word /\ h \in first + 1 .. n
      /\ h \in first .. n
      /\ size \in Nat \ {0} /\ ltape \in [Word -> 0 .. size - 1]
      /\ ltape[lptr] \in 0 .. size - 1
      /\ UNCHANGED <<mem, AP, out, Here, consoleVars>> /\ UNCHANGED cmds
  BY DoingIs DEF Doing
<1>3. PICK p \in Nat :
        /\ p = P[h - 1] /\ P[h] = p + 3 /\ lpc \in {p, p + 1, p + 2}
        /\ program[p + 1] = "[" /\ program[p + 2] \in {"+", "-"}
        /\ program[p + 3] = "]"
        /\ L!Match(p + 1) = p + 3 /\ L!Match(p + 3) = p + 1
        /\ LWord!Match(p + 1) = p + 3 /\ LWord!Match(p + 3) = p + 1
  BY <1>1, LoopLeft
<1>4. Steps(program[lpc + 1], size)
  BY DEF Doing
<1>5. ASSUME UNCHANGED <<lptr, linput, lout>>, OthersAgree(n, origin, size)',
             lpc' \in {p, p + 1, p + 2}
      PROVE  GoesOn(P, first, n, origin, size)
  <2>1. AtCell(n, origin)' /\ Quiet'
    BY <1>1, <1>2, <1>5, QuietStays DEF AtCell
  <2>2. OwesLoop(P, n, origin, size, h)'
    BY <1>1, <1>2, <1>5, <2>1 DEF OwesLoop
  <2>3. p <= lpc' /\ lpc' < p + 3 /\ lpc' \in Nat /\ lpc' # p + 3
    BY ONLY <1>5, p \in Nat
  <2>4. P[h - 1] <= lpc' /\ lpc' < P[h] /\ lpc' \in Nat /\ lpc' # P[Here]
    BY <1>1, <1>3, <2>3
  <2> QED
    BY <1>2, <2>2, <2>4 DEF GoesOn, Owes
<1>6. CASE lpc = p
  <2>1. Decided(ltape[lptr] = 0)
    BY <1>3, <1>4, <1>6 DEF Steps
  <2>2. L!Match(lpc + 1) - 1 = p + 2 /\ LWord!Match(lpc + 1) - 1 = p + 2
    BY <1>3, <1>6
  <2>3. UNCHANGED <<ltape, lptr, linput, lout>> /\ lpc' \in {p, p + 1, p + 2}
    BY <1>6, <2>1, <2>2 DEF Decided
  <2>4. OthersAgree(n, origin, size)'
    BY <1>1, <1>2, <2>3, CellsKept
  <2> QED
    BY <1>5, <2>3, <2>4
<1>7. CASE lpc = p + 1
  <2>1. program[lpc + 1] \in {"+", "-"} /\ lpc + 1 = p + 2
    <3>1. lpc + 1 = p + 2
      BY <1>7
    <3> QED
      BY <1>3, <3>1
  <2>2. PICK v : Counted(v)
    BY <1>4, <2>1 DEF Steps
  <2>3. /\ ltape' = [ltape EXCEPT ![lptr] = v] /\ lpc' = p + 2
        /\ UNCHANGED <<lptr, linput, lout>>
    BY <2>1, <2>2 DEF Counted
  <2>4. OthersAgree(n, origin, size)'
    BY <1>1, <1>2, <2>3, OthersStay
  <2> QED
    BY <1>5, <2>3, <2>4
<1>8. CASE lpc = p + 2
  <2>0. lpc + 1 = p + 3
    BY <1>8
  <2>1. Decided(ltape[lptr] # 0)
    BY <1>3, <1>4, <2>0 DEF Steps
  <2>2. L!Match(lpc + 1) - 1 = p /\ LWord!Match(lpc + 1) - 1 = p
    BY <1>3, <2>0
  <2>3. UNCHANGED <<ltape, lptr, linput, lout>>
    BY <2>1 DEF Decided
  <2>4. OthersAgree(n, origin, size)'
    BY <1>1, <1>2, <2>3, CellsKept
  <2>5. CASE ltape[lptr] # 0
    <3>1. lpc' = p
      BY <2>1, <2>2, <2>5 DEF Decided
    <3> QED
      BY <1>5, <2>3, <2>4, <3>1
  <2>6. CASE ltape[lptr] = 0
    <3>1. lpc' = p + 3 /\ lpc' = lpc + 1
      BY <2>0, <2>1, <2>6 DEF Decided
    <3>2. mem[AP] % size = ltape'[lptr]
      <4>1. 0 % size = 0
        BY <1>2
      <4> QED
        BY <1>1, <2>3, <2>6, <4>1
    <3>3. CellsAgree(n, origin, size)'
      BY <1>1, <1>2, <2>4, <3>2, CellsRejoin
    <3>4. AP' = Int16(origin + lptr') /\ Quiet'
      BY <1>1, <1>2, <2>3, QuietStays DEF AtCell
    <3>5. lpc + 1 = P[h]
      BY <1>3, <2>0
    <3> QED
      BY <1>1, <3>1, <3>3, <3>4, <3>5, DoneOrOn
  <2> QED
    BY <2>5, <2>6
<1> QED
  BY <1>3, <1>6, <1>7, <1>8

LEMMA DoJump ==
  ASSUME NEW P, NEW first, NEW n, NEW origin, NEW size, NEW h,
         Doing(P, first, n, origin, size, h),
         OwesJump(P, n, origin, size, h, first)
  PROVE  \/ Finishes(P, first, n, origin, size)
         \/ GoesOn(P, first, n, origin, size)
<1>1. /\ cmds[h].c \in {"[", "]"}
      /\ AtCell(n, origin) /\ CellsAgree(n, origin, size) /\ Quiet
      /\ \/ Here = h /\ (cmds[h].c = "[" <=> ltape[lptr] # 0)
         \/ /\ Here \in first + 1 .. n /\ Mates(P, h, Here)
            /\ cmds[h].c = "[" <=> ltape[lptr] = 0
  BY DEF OwesJump
<1>2. /\ n \in Nat /\ origin \in Word /\ lptr \in Word /\ first \in 1 .. n
      /\ UNCHANGED <<mem, AP, out, Here, consoleVars>>
      /\ UNCHANGED <<cmds, program>>
      /\ Frame(P, first, n, origin, size)
  BY DoingIs DEF Doing
<1>3. program[lpc + 1] = cmds[h].c /\ lpc + 1 = P[h] /\ lpc \in Nat
  <2>1. cmds[h].c \in Single
    BY <1>1 DEF Single
  <2> QED
    BY <2>1, OneLeft
<1>4. PICK jumps : jumps = IF cmds[h].c = "[" THEN ltape[lptr] = 0
                           ELSE ltape[lptr] # 0
  OBVIOUS
<1>5. Decided(jumps)
  <2>1. Steps(program[lpc + 1], size)
    BY DEF Doing
  <2> QED
    BY <1>1, <1>3, <1>4, <2>1 DEF Steps
<1>6. UNCHANGED <<ltape, lptr, linput, lout>>
  BY <1>5 DEF Decided
<1>7. /\ AtCell(n, origin)' /\ CellsAgree(n, origin, size)' /\ Quiet'
      /\ AP' = Int16(origin + lptr')
  BY <1>1, <1>2, <1>6, CellsKept, QuietStays DEF AtCell
<1>8. CASE Here = h /\ (cmds[h].c = "[" <=> ltape[lptr] # 0)
  <2>1. ~jumps
    BY <1>1, <1>4, <1>8
  <2>2. lpc' = lpc + 1
    BY <1>5, <2>1 DEF Decided
  <2> QED
    BY <1>3, <1>7, <1>8, <2>2, DoneOrOn
<1>9. CASE /\ Here \in first + 1 .. n /\ Mates(P, h, Here)
           /\ cmds[h].c = "[" <=> ltape[lptr] = 0
  <2>1. jumps
    BY <1>1, <1>4, <1>9
  <2>2. PICK j \in first + 1 .. n : j = Here /\ Mates(P, h, j)
    BY <1>9
  <2>3. /\ \/ cmds[h].c = "[" /\ cmds[j].c = "]"
           \/ cmds[h].c = "]" /\ cmds[j].c = "["
        /\ L!Match(P[h]) = P[j] /\ LWord!Match(P[h]) = P[j]
    BY <2>2 DEF Mates
  <2>4. P[j - 1] \in Nat /\ P[j] \in Nat /\ P[j] = P[j - 1] + 1
    <3>1. OnCode(P, cmds, first, n, program)
      BY <1>2 DEF Frame
    <3>2. P[j - 1] \in Nat /\ P[j] \in Nat
      BY <3>1, PlaceRises
    <3>3. cmds[j].c \notin Incrementers /\ cmds[j].c \in {"[", "]"}
      BY <2>3 DEF Incrementers
    <3>4. StandsForLoop(cmds[j], program, P[j - 1], P[j]) => FALSE
      BY <3>3 DEF StandsForLoop
    <3>5. StandsForNothing(cmds[j], P[j - 1], P[j]) => FALSE
      BY <3>3 DEF StandsForNothing
    <3>6. StandsForOne(cmds[j], program, P[j - 1], P[j])
      BY <3>1, <3>3, <3>4, <3>5, PlaceStep
    <3> QED
      BY <3>2, <3>6 DEF StandsForOne
  <2>5. lpc' = P[j - 1]
    <3>1. lpc' = P[j] - 1
      BY <1>3, <1>5, <2>1, <2>3 DEF Decided
    <3> QED
      BY <2>4, <3>1
  <2>6. OwesJump(P, n, origin, size, j, first)'
    <3>1. Here' = j /\ cmds' = cmds /\ ltape'[lptr'] = ltape[lptr]
      BY <1>2, <1>6, <2>2
    <3>2. cmds[j].c \in {"[", "]"} /\ (cmds[j].c = "[" <=> ltape[lptr] # 0)
      BY <1>9, <2>3
    <3> QED
      BY <1>7, <3>1, <3>2 DEF OwesJump
  <2>7. lpc' \in Nat /\ P[j - 1] <= lpc' /\ lpc' < P[j] /\ lpc' # P[j]
    BY <2>4, <2>5
  <2> QED
    BY <2>2, <2>6, <2>7 DEF GoesOn, Owes
<1> QED
  BY <1>1, <1>8, <1>9

(* The language comes to the place of the next instruction, with the same  *)
(* pointer, cells, input and output.                                       *)
LEMMA DoCommand ==
  ASSUME NEW P, NEW first, NEW n, NEW origin, NEW size, NEW h,
         Doing(P, first, n, origin, size, h),
         Owes(P, first, n, origin, size, h)
  PROVE  \/ Finishes(P, first, n, origin, size)
         \/ GoesOn(P, first, n, origin, size)
BY DoCount, DoMove, DoWrite, DoRead, DoLoop, DoJump DEF Owes

-----------------------------------------------------------------------------
(* The start.                                                              *)

LEMMA JobInput ==
  ASSUME InputsFit, job \in Jobs
  PROVE  IsInput(job.words)
<1>1. job.words \in Seq(Seq(Word))
  BY JobType
<1>2. \A w \in DOMAIN job.words :
        job.words[w] # <<>> /\ job.words[w] \in Seq(1 .. ByteSize - 1)
  BY DEF InputsFit
<1> QED
  BY <1>1, <1>2 DEF IsInput

LEMMA CharactersAre ==
  ASSUME InputsFit, job \in Jobs
  PROVE  /\ Characters \in Seq(Bytes) /\ Len(Characters) = MaxReads
         /\ \A i \in 1 .. MaxReads : Characters[i] = Stream(job.words, i)
<1>1. PICK words : words = job.words /\ IsInput(words)
  BY JobInput
<1>2. MaxReads \in Nat
  BY BfPcAssumption
<1>3. \A i \in 1 .. MaxReads : Stream(words, i) \in Bytes
  <2>1. \A i \in 1 .. MaxReads : i \in Nat /\ i >= 1
    BY <1>2
  <2> QED
    BY <1>1, <2>1, StreamBytes
<1>4. Characters \in [1 .. MaxReads -> Bytes]
  BY <1>1, <1>3 DEF Characters
<1> QED
  BY <1>2, <1>4, IsASeq DEF Characters

(* Where main() of bfrun begins. *)
LEMMA StartIs ==
  ASSUME FilesFit, TypeInv, CodeInv, Start, NEW n \in Nat, n = Len(cmds)
  PROVE  /\ 2 * n < WordSize
         /\ IP' = 0 /\ AP_MAX' = n /\ running' = TRUE
         /\ AP' = IF array THEN 0 ELSE ApEntry(n)
         /\ UNCHANGED <<WordModeEnabled, array, consoleVars, out>>
<1>1. Good(file) /\ file = SaveOutput(cmds, job.format) /\ cmds \in Seq(Command)
  BY DEF Start, TypeInv, CompiledType, Good
<1>2. 2 * n < WordSize
  <2>1. stage = "compiled" /\ job \in Jobs
    BY DEF Start, TypeInv, CompiledType
  <2>2. cmds = Linking(Output(job)) /\ Output(job) # <<>>
    BY <2>1 DEF CodeInv, IsCompiled
  <2>3. Len(cmds) = Len(Output(job))
    BY <2>2, CompiledIs
  <2> QED
    BY <2>1, <2>3 DEF FilesFit
<1>3. Int16(n) = n
  <2>1. n \in Word
    BY <1>2, Sizes DEF Word
  <2> QED
    BY <2>1, Int16Word
<1>4. CASE array
  <2>1. file = Encode(cmds) /\ LoadArray(file)
    BY <1>1, <1>4 DEF SaveOutput, TypeInv, CompiledType, Start
  <2>2. Len(file) = n
    BY <1>1, <2>1, EncodeType
  <2> QED
    BY <1>2, <1>3, <1>4, <2>1, <2>2 DEF LoadArray
<1>5. CASE ~array
  <2>1. ~Wrong(file) /\ Load(ReadImage(file))
    BY <1>5 DEF Start
  <2>2. job.format = "image"
    <3>1. job.format \in {"image", "text"}
      BY <1>5, JobType DEF TypeInv, CompiledType
    <3>2. job.format # "text"
      BY <1>1, <2>1, ListingIsWrong
    <3> QED
      BY <3>1, <3>2
  <2>3. file = Write(NewImage(cmds))
    BY <1>1, <2>2 DEF SaveOutput
  <2>4. PICK code : code = ReadImage(file).Sections[1]
          /\ code.MemoryBase = 0 /\ code.MemorySize = Int16(n)
    BY <1>1, <2>3, ReadImageIs, ReadSectionIs
  <2>5. ReadImage(file).IpEntry = 0 /\ ReadImage(file).ApEntry = ApEntry(n)
    BY <1>1, <2>3, ReadImageIs
  <2>6. Int16(code.MemoryBase + code.MemorySize) = n
    <3>1. code.MemoryBase + code.MemorySize = n
      BY <1>3, <2>4
    <3> QED
      BY <1>3, <3>1
  <2> QED
    BY <1>2, <1>5, <2>1, <2>4, <2>5, <2>6 DEF Load
<1> QED
  BY <1>4, <1>5

(* What stays as it is. *)
LEMMA StartFrame ==
  ASSUME FilesFit, RunsFit, ProloguesFit, TypeInv, CodeInv, RejectInv, Start,
         WordModeEnabled = job.wordMode, L!Balanced(program),
         NEW n \in Nat, n = Len(cmds)
  PROVE  \E P, first, origin, size : Frame(P, first, n, origin, size)'
<1>1. PICK first \in Nat : first = Prologue /\ first \in {1, 2}
  BY DEF Prologue
<1>2. Compiled
  <2>1. stage = "compiled"
    BY DEF Start
  <2> QED
    BY <2>1 DEF CodeInv, IsCompiled, Compiled
<1>3. /\ cmds \in Seq(Command) /\ first \in 1 .. n
      /\ cmds[first].c = ">" /\ cmds[first].bias = ApShift
      /\ job.level = 0 => first = 2 /\ HaltsAtEnd(cmds, n)
      /\ job.level = 1 => first = 1
  BY <1>1, <1>2, LayoutOf
<1>4. PICK P : LaidOut(P, cmds, first, n, program, job.wordMode)
  <2>1. program = Source
    BY DEF RejectInv
  <2> QED
    BY <1>1, <1>2, <2>1, LayoutOf
<1>5. job \in Jobs /\ job.level \in {0, 1} /\ array = (job.format = "hex")
  BY JobType DEF TypeInv, CompiledType
<1>6. first = 2 => cmds[1].c = Blank
  BY <1>3, <1>5 DEF HaltsAtEnd
<1>7. array => first = 2 /\ HaltsAtEnd(cmds, n)
  BY <1>3, <1>5 DEF ProloguesFit
<1>8. OnCode(P, cmds, first, n, program)
  <2>1. job.source \in Seq(STRING)
    BY <1>5, JobType
  <2>2. program \in Seq(STRING)
    <3>1. Code(job.source) \in Seq(STRING)
      BY <2>1, CodeOfText
    <3> QED
      BY <3>1 DEF RejectInv, Source, Code
  <2>3. first \in 0 .. n
    BY <1>3
  <2> QED
    BY <1>3, <1>4, <2>2, <2>3 DEF OnCode
<1>9. /\ 2 * n < WordSize /\ AP_MAX' = n
      /\ UNCHANGED <<WordModeEnabled, array>>
  BY StartIs
<1>10. UNCHANGED <<job, cmds, program>>
  BY DEF Start, languageVars
<1>11. PICK origin \in Word : origin = Origin
  <2>1. Origin \in Word
    <3>1. PICK w \in Nat : w = WordSize
      BY Sizes
    <3>2. ((w - 1) \div 2) - (n \div 2) \in Int
      BY ONLY <3>1, n \in Nat
    <3>3. ApEntry(n) \in Int
      BY <3>1, <3>2, Int16Range, WordIsInt DEF ApEntry, MEMORY_PTR_MAX
    <3>4. ApShift \in Int
      BY BfCompilerAssumption, WordIsInt
    <3>5. (ApShift + IF array THEN 0 ELSE ApEntry(n)) \in Int
      BY <3>3, <3>4
    <3> QED
      BY <3>5, Int16Range DEF Origin
  <2> QED
    BY <2>1
<1>14. PICK size : size = CellSize
  OBVIOUS
<1>15. Prologue' = first /\ Origin' = origin /\ CellSize' = size
  BY <1>1, <1>9, <1>10, <1>11, <1>14 DEF Prologue, Origin, CellSize
<1>12. Frame(P, first, n, origin, size)'
  <2>2. L!Balanced(program)'
    BY <1>10
  <2> QED
    BY <1>1, <1>3, <1>4, <1>6, <1>7, <1>8, <1>9, <1>10, <1>11, <1>15, <2>2
    DEF Frame
<1> QED
  BY <1>12

-----------------------------------------------------------------------------
(* The inductive invariant.                                                *)

(* The language before bfrun starts. *)
Begun ==
  stage \in {"source", "compiled"} =>
    /\ lpc = 0 /\ lptr = 0 /\ lout = <<>> /\ out = <<>>
    /\ ltape = [p \in Word |-> 0] /\ linput = Characters
    /\ Handed(job.words, 0)

(* A program that has left its data. *)
LeftData ==
  stage = "beyond" =>
    /\ 2 * Len(cmds) < WordSize /\ lptr \in Word
    /\ Here >= Prologue => AP = Int16(Origin + lptr)

Twins == \E P, first, n, origin, size : Twin(P, first, n, origin, size)

TwinInv ==
  /\ Begun /\ LeftData /\ WordModeEnabled = job.wordMode
  /\ Runs => Twins

Fits == FilesFit /\ LoopsFit /\ RunsFit /\ ProloguesFit /\ InputsFit

LEMMA TwinInit == Init => TwinInv
<1> SUFFICES ASSUME Init PROVE TwinInv
  OBVIOUS
<1>1. stage = "source" /\ status = 0
  BY DEF Init
<1>2. ConsoleInit(job.words) /\ WordModeEnabled = job.wordMode /\ out = <<>>
  BY DEF Init, BfRunInit
<1>3. Handed(job.words, 0)
  BY <1>2, HandedInit
<1>4. Begun
  BY <1>2, <1>3 DEF Init, Begun
<1> QED
  BY <1>1, <1>2, <1>4 DEF TwinInv, LeftData, Runs, Ran

(* A step that leaves the console and the language alone, before the start.*)
LEMMA TwinBfpp ==
  ASSUME TwinInv, BfppMain
  PROVE  TwinInv'
<1>1. /\ UNCHANGED <<job, languageVars, bfrunVars>> /\ stage = "source"
      /\ stage' = "compiled" \/ (stage' = "ended" /\ status' # 0)
  <2>1. stage' = "compiled" \/ (stage' = "ended" /\ status' = -2)
    BY DEF BfppMain
  <2>2. UNCHANGED <<job, languageVars, bfrunVars>> /\ stage = "source"
    BY DEF BfppMain
  <2>3. -2 # 0
    OBVIOUS
  <2> QED
    BY <2>1, <2>2, <2>3
<1>2. Begun'
  <2>1. UNCHANGED <<lpc, lptr, lout, out, ltape, linput, job>>
        /\ UNCHANGED consoleVars
    BY <1>1 DEF languageVars, bfrunVars
  <2>2. Handed(job.words, 0)'
    BY <1>1, <2>1, HandedKept DEF TwinInv, Begun
  <2>3. Characters' = Characters
    BY <2>1 DEF Characters
  <2> QED
    BY <1>1, <2>1, <2>2, <2>3 DEF TwinInv, Begun
<1>3. WordModeEnabled' = job'.wordMode
  BY <1>1 DEF TwinInv, bfrunVars
<1>4. stage' # "beyond" /\ stage' \notin {"execute", "language"}
      /\ ~(stage' = "ended" /\ status' = 0)
  BY <1>1
<1> QED
  BY <1>2, <1>3, <1>4 DEF TwinInv, LeftData, Runs, Ran

LEMMA TwinStart ==
  ASSUME Fits, TypeInv, CodeInv, RejectInv, TwinInv, Start
  PROVE  TwinInv'
<1>1. PICK n \in Nat : n = Len(cmds)
  BY DEF TypeInv, CompiledType
<1>2. /\ stage = "compiled" /\ UNCHANGED <<job, cmds, languageVars>>
      /\ stage' = IF L!Balanced(program) THEN "execute" ELSE "beyond"
  BY DEF Start
<1>3. /\ 2 * n < WordSize /\ n \in Word /\ 1 \in Word
      /\ IP' = 0 /\ AP_MAX' = n /\ running' = TRUE
      /\ AP' = IF array THEN 0 ELSE ApEntry(n)
      /\ UNCHANGED <<WordModeEnabled, array, consoleVars, out>>
  <2>1. /\ 2 * n < WordSize
        /\ IP' = 0 /\ AP_MAX' = n /\ running' = TRUE
        /\ AP' = IF array THEN 0 ELSE ApEntry(n)
        /\ UNCHANGED <<WordModeEnabled, array, consoleVars, out>>
    BY <1>1, StartIs DEF Fits
  <2>2. n \in Word /\ 1 \in Word
    BY <2>1, Sizes DEF Word
  <2> QED
    BY <2>1, <2>2
<1>4. Here' = (IF array THEN 1 ELSE 0)
  <2>1. Int16(0 + 1) = 1
    <3>1. 0 + 1 = 1
      OBVIOUS
    <3> QED
      BY <1>3, <3>1, Int16Word
  <2> QED
    BY <1>3, <2>1 DEF Here
<1>5. array => Prologue = 2
  <2>1. job \in Jobs /\ array = (job.format = "hex")
    BY DEF TypeInv, CompiledType
  <2>2. array => job.level = 0
    BY <2>1 DEF Fits, ProloguesFit
  <2> QED
    BY <2>2 DEF Prologue
<1>6. Prologue' = Prologue /\ Prologue \in {1, 2}
  BY <1>2 DEF Prologue
<1>7. ~(Here' >= Prologue') /\ Here' < Prologue'
  BY <1>4, <1>5, <1>6
<1>8. Begun' /\ WordModeEnabled' = job'.wordMode
  BY <1>2, <1>3 DEF TwinInv, Begun
<1>9. Begun
  BY DEF TwinInv
<1>10. lptr \in Word /\ lptr = 0
  BY <1>2, <1>9, Sizes DEF Begun, Word
<1>11. CASE ~L!Balanced(program)
  <2>1. stage' = "beyond"
    BY <1>2, <1>11
  <2>2. LeftData'
    BY <1>1, <1>2, <1>3, <1>7, <1>10 DEF LeftData, languageVars
  <2> QED
    BY <1>8, <2>1, <2>2 DEF TwinInv, Runs, Ran
<1>12. CASE L!Balanced(program)
  <2>1. stage' = "execute"
    BY <1>2, <1>12
  <2>2. PICK P, first, origin, size : Frame(P, first, n, origin, size)'
    BY <1>1, <1>12, StartFrame DEF Fits, TwinInv
  <2>3. /\ size = WordSize \/ size = ByteSize
        /\ first = Prologue' /\ n = Len(cmds') /\ first \in 0 .. n
    BY <2>2 DEF Frame, OnCode, CellSize
  <2>4. /\ lpc' = 0 /\ lptr' = 0 /\ lout' = <<>> /\ linput' = Characters
        /\ ltape' = [p \in Word |-> 0] /\ UNCHANGED out /\ out = <<>>
        /\ UNCHANGED consoleVars
    BY <1>2, <1>3, <1>9 DEF Begun, languageVars
  <2>5. /\ Characters \in Seq(Bytes) /\ Len(Characters) = MaxReads
        /\ \A i \in 1 .. MaxReads : Characters[i] = Stream(job.words, i)
    BY CharactersAre DEF Fits, TypeInv, CompiledType
  <2>6. LanguageType(size)'
    <3>1. 0 \in Word /\ 0 \in 0 .. size - 1
      BY <2>3, Sizes DEF Word
    <3>2. <<>> \in Seq(Word)
      OBVIOUS
    <3> QED
      BY <2>4, <2>5, <3>1, <3>2 DEF LanguageType
  <2>7. Quiet'
    <3>1. Unread(0)'
      <4>1. MaxReads \in Nat /\ MaxReads - 0 = MaxReads /\ 0 \in 0 .. MaxReads
        BY BfPcAssumption
      <4>2. \A i \in 1 .. MaxReads - 0 : linput'[i] = Stream(job'.words, 0 + i)
        BY <1>2, <2>4, <2>5, <4>1
      <4> QED
        BY <2>4, <2>5, <4>1, <4>2 DEF Unread
    <3>2. Handed(job.words, 0)'
      BY <1>2, <1>9, <2>4, HandedKept DEF Begun
    <3>3. 0 \in 0 .. MaxReads
      BY BfPcAssumption
    <3>4. InStep'
      BY <3>1, <3>2, <3>3 DEF InStep
    <3>5. Shown(<<>>) = <<>>
      BY DEF Shown
    <3> QED
      BY <2>4, <3>4, <3>5 DEF Quiet
  <2>8. \A a \in n .. WordSize - 1 : mem'[a] = 0
    <3>1. mem' = Loaded(cmds)
      BY StartLoads DEF Fits
    <3>2. \A a \in n .. WordSize - 1 : a \in Word /\ ~(a < n)
      BY <1>1, Sizes DEF Word
    <3> QED
      BY <1>1, <3>1, <3>2 DEF Loaded
  <2>9. Fresh(n)'
    BY <1>3, <1>4, <2>4, <2>7, <2>8 DEF Fresh
  <2>10. Pace(n)'
    <3>1. Here' < n
      BY <1>4, <1>7, <2>3
    <3> QED
      BY <1>3, <3>1 DEF Pace
  <2>11. Here' < first
    BY <1>7, <2>3
  <2>12. Twin(P, first, n, origin, size)'
    BY <2>1, <2>2, <2>6, <2>9, <2>10, <2>11 DEF Twin, Ran
  <2> QED
    BY <1>8, <2>1, <2>12 DEF TwinInv, Twins, LeftData
<1> QED
  BY <1>11, <1>12

(* What the next turn of bfrun's loop begins with. *)
LEMMA TurnIs ==
  ASSUME Fits, TypeInv, CodeInv, TwinInv, Instruction
  PROVE  \E P, first, n, origin, size :
           /\ Twin(P, first, n, origin, size)
           /\ stage = "execute" /\ Frame(P, first, n, origin, size)
           /\ LanguageType(size) /\ Here \in Nat /\ Here < n
           /\ first = Prologue /\ n = Len(cmds) /\ cmds \in Seq(Command)
           /\ Bits = GetCmd(cmds[Here + 1]) /\ cmds[Here + 1] \in Command
           /\ Still /\ ExecCode
<1>1. /\ stage = "execute" /\ running /\ ExecCode
      /\ UNCHANGED <<job, cmds, languageVars>>
  BY DEF Instruction
<1>2. Still
  BY <1>1 DEF Still, languageVars
<1>3. PICK P, first, n, origin, size : Twin(P, first, n, origin, size)
  BY <1>1 DEF TwinInv, Twins, Runs
<1>4. Frame(P, first, n, origin, size) /\ LanguageType(size) /\ Here < n
  BY <1>1, <1>3 DEF Twin, Pace
<1>5. first = Prologue /\ n = Len(cmds) /\ n \in Nat /\ cmds \in Seq(Command)
  BY <1>4 DEF Frame, OnCode
<1>6. Here \in Nat
  <2>1. Here \in Word
    BY HereType DEF TypeInv
  <2> QED
    BY <2>1 DEF Word
<1>7. PICK i \in 1 .. n : i = Here + 1 /\ i - 1 = Here
  BY <1>4, <1>5, <1>6
<1>8. mem[i - 1] = GetCmd(cmds[i]) /\ cmds[i] \in Command
  BY <1>1, <1>5, <1>7 DEF CodeInv, CodeIsKept, Runs
<1> QED
  BY <1>1, <1>2, <1>3, <1>4, <1>5, <1>6, <1>7, <1>8 DEF Bits

LEMMA PrologueTwin ==
  ASSUME Fits, TypeInv, Instruction, Still, ExecCode, stage = "execute",
         NEW P, NEW first, NEW n, NEW origin, NEW size,
         Twin(P, first, n, origin, size), Here < first, first = Prologue,
         Bits = GetCmd(cmds[Here + 1])
  PROVE  Twin(P, first, n, origin, size)' /\ WordModeEnabled' = WordModeEnabled
           /\ stage' = "execute"
<1>1. Frame(P, first, n, origin, size) /\ LanguageType(size) /\ Fresh(n)
  BY DEF Twin
<1>2. PICK k \in 1 .. first : Goes(k, n)
  BY <1>1, PrologueStep DEF Fits, TypeInv
<1>3. IF Here' < first THEN Fresh(n)' ELSE Together(P, first, n, origin, size)'
  BY <1>1, PrologueStep DEF Fits, TypeInv
<1>4. Frame(P, first, n, origin, size)'
  BY <1>1, <1>2, FrameKept DEF Still, Goes
<1>5. LanguageType(size)'
  BY <1>1 DEF LanguageType, Still
<1>6. stage' = "execute"
  BY DEF Instruction, Idle
<1>7. Pace(n)'
  BY <1>2 DEF Pace, Goes
<1> QED
  BY <1>2, <1>3, <1>4, <1>5, <1>6, <1>7 DEF Twin, Goes, Ran

LEMMA ReadyTwin ==
  ASSUME Fits, TypeInv, CodeInv, Instruction, Still, ExecCode,
         stage = "execute",
         NEW P, NEW first, NEW n, NEW origin, NEW size,
         Twin(P, first, n, origin, size), ~(Here < first), first = Prologue,
         n = Len(cmds), Here \in Nat, Here < n,
         Bits = GetCmd(cmds[Here + 1]), cmds[Here + 1] \in Command
  PROVE  Twin(P, first, n, origin, size)' /\ WordModeEnabled' = WordModeEnabled
           /\ stage' \in {"execute", "language"}
<1>1. /\ Frame(P, first, n, origin, size) /\ LanguageType(size)
      /\ Together(P, first, n, origin, size)
  BY DEF Twin
<1>2. PICK h \in first + 1 .. n : h = Here + 1 /\ Here = h - 1
  <2>1. first \in Nat /\ n \in Nat
    BY <1>1, FrameIs
  <2> QED
    BY <2>1
<1>3. AP \in n .. WordSize - 1
  <2>1. ~Beyond /\ Here >= Prologue
    <3>1. first \in Nat
      BY <1>1, FrameIs
    <3> QED
      BY <3>1 DEF Instruction
  <2> QED
    BY <2>1 DEF Beyond, InData
<1>4. cmds[h].c = "," => linput # <<>>
  <2>1. SUFFICES ASSUME cmds[h].c = "," PROVE IsIO(CMD_INPUT_MASK)
    BY DEF Instruction, Beyond
  <2>2. Operation(Bits) = BiasHalf /\ Has(Bits, CMD_INPUT_MASK)
    BY <1>2, <2>1, OperationOf, MasksOf
  <2> QED
    BY <2>2 DEF IsIO, CMD_IO
<1>5. Ready(P, first, n, origin, size, h)
  BY <1>1, <1>2, <1>3 DEF Ready, TypeInv
<1>6. LinksMatch
  BY CodeGivesLinks DEF Fits
<1>7. IsInput(job.words)
  BY JobInput DEF Fits, TypeInv, CompiledType
<1>8. /\ \E k \in first .. n : Goes(k, n)
      /\ cmds[h].c # "H" => Owes(P, first, n, origin, size, h)'
      /\ cmds[h].c = "H" => Together(P, first, n, origin, size)'
  BY <1>4, <1>5, <1>6, <1>7, InstructionOwes
<1>9. PICK k \in first .. n : Goes(k, n)
  BY <1>8
<1>10. Frame(P, first, n, origin, size)'
  BY <1>1, <1>9, FrameKept DEF Still, Goes
<1>11. LanguageType(size)'
  BY <1>1 DEF LanguageType, Still
<1>12. Pace(n)'
  BY <1>9 DEF Pace, Goes
<1>13. WordModeEnabled' = WordModeEnabled
  BY <1>9 DEF Goes
<1>14. Idle <=> cmds[h].c = "H"
  <2>1. PICK p \in Nat, q \in Nat : p = P[h - 1] /\ q = P[h]
    BY <1>5, ReadyIs
  <2>2. /\ cmds[h].c # "H" => p < q
        /\ cmds[h].c = "H" => p = q
        /\ Width(cmds[h]) = q - p
    BY <1>5, <2>1, ReadyRises
  <2>3. Width(cmds[h]) = 0 <=> cmds[h].c = "H"
    BY <2>2
  <2> QED
    BY <1>2, <2>3 DEF Idle
<1>15. CASE cmds[h].c = "H"
  <2>1. stage' = "execute"
    BY <1>14, <1>15 DEF Instruction
  <2>2. ~(Here' < first)
    <3>1. Here' = k /\ first \in Nat /\ n \in Nat
      BY <1>1, <1>9, FrameIs DEF Goes
    <3> QED
      BY <3>1
  <2> QED
    BY <1>8, <1>10, <1>11, <1>12, <1>13, <1>15, <2>1, <2>2 DEF Twin, Ran
<1>16. CASE cmds[h].c # "H"
  <2>1. stage' = "language"
    BY <1>14, <1>16 DEF Instruction
  <2> QED
    BY <1>8, <1>10, <1>11, <1>12, <1>13, <1>16, <2>1 DEF Twin, Ran
<1> QED
  BY <1>15, <1>16

LEMMA TwinInstruction ==
  ASSUME Fits, TypeInv, CodeInv, TwinInv, Instruction
  PROVE  TwinInv'
<1>1. PICK P, first, n, origin, size :
        /\ Twin(P, first, n, origin, size)
        /\ stage = "execute" /\ Frame(P, first, n, origin, size)
        /\ LanguageType(size) /\ Here \in Nat /\ Here < n
        /\ first = Prologue /\ n = Len(cmds) /\ cmds \in Seq(Command)
        /\ Bits = GetCmd(cmds[Here + 1]) /\ cmds[Here + 1] \in Command
        /\ Still /\ ExecCode
  BY TurnIs
<1>2. Twin(P, first, n, origin, size)' /\ WordModeEnabled' = WordModeEnabled
        /\ stage' \in {"execute", "language"}
  <2>1. CASE Here < first
    BY <1>1, <2>1, PrologueTwin
  <2>2. CASE ~(Here < first)
    BY <1>1, <2>2, ReadyTwin
  <2> QED
    BY <2>1, <2>2
<1>3. Twins'
  BY <1>2 DEF Twins
<1>4. WordModeEnabled' = job'.wordMode
  BY <1>1, <1>2 DEF TwinInv, Still
<1> QED
  BY <1>2, <1>3, <1>4 DEF TwinInv, Begun, LeftData

LEMMA TwinLeave ==
  ASSUME TypeInv, TwinInv, Leave
  PROVE  TwinInv'
<1>1. /\ stage = "execute" /\ stage' = "beyond"
      /\ UNCHANGED <<job, cmds, languageVars, bfrunVars>>
  BY DEF Leave
<1>2. PICK P, first, n, origin, size : Twin(P, first, n, origin, size)
  BY <1>1 DEF TwinInv, Twins, Runs
<1>3. Frame(P, first, n, origin, size) /\ LanguageType(size)
  BY <1>2 DEF Twin
<1>4. first = Prologue /\ n = Len(cmds) /\ 2 * n < WordSize /\ origin = Origin
      /\ first \in {1, 2}
  BY <1>3 DEF Frame, OnCode
<1>5. Here >= Prologue => AP = Int16(Origin + lptr)
  <2>1. Here \in Nat
    BY HereType DEF TypeInv, Word
  <2>2. Here >= Prologue => ~(Here < first)
    BY <1>4, <2>1
  <2> QED
    BY <1>1, <1>2, <1>4, <2>2 DEF Twin, Together
<1>6. /\ UNCHANGED <<array, WordModeEnabled, IP, AP, lptr>>
      /\ Prologue' = Prologue /\ Origin' = Origin
  BY <1>1 DEF languageVars, bfrunVars, Prologue, Origin
<1>7. Here' = Here
  BY <1>6 DEF Here
<1>8. LeftData'
  BY <1>1, <1>3, <1>4, <1>5, <1>6, <1>7 DEF LeftData, LanguageType
<1> QED
  BY <1>1, <1>6, <1>8 DEF TwinInv, Begun, Runs, Ran

(* The next command of the program is one that the instruction stands for. *)
LEMMA CommandOwed ==
  ASSUME NEW P, NEW first, NEW n, NEW origin, NEW size, NEW h,
         Doing(P, first, n, origin, size, h),
         Owes(P, first, n, origin, size, h)
  PROVE  /\ program[lpc + 1] \in {"+", "-", ">", "<", ".", ",", "[", "]"}
         /\ program[lpc + 1] = "," => linput # <<>>
         /\ Here \in first .. n
<1>1. \/ OwesCount(P, n, origin, size, h)
      \/ OwesMove(P, n, origin, size, h)
      \/ OwesWrite(P, n, origin, size, h)
      \/ OwesRead(P, n, origin, size, h)
      \/ OwesLoop(P, n, origin, size, h)
      \/ OwesJump(P, n, origin, size, h, first)
  BY DEF Owes
<1>2. h \in first .. n /\ n \in Nat /\ first \in 1 .. n
  BY DoingIs
<1>3. Here \in first .. n
  <2>1. Here = h \/ Here \in first + 1 .. n
    BY <1>1 DEF OwesCount, OwesMove, OwesWrite, OwesRead, OwesLoop, OwesJump
  <2>2. first \in Int
    BY <1>2
  <2> QED
    BY ONLY <1>2, <2>1, <2>2
<1>4. PICK c : c = program[lpc + 1]
  OBVIOUS
<1>5. CASE cmds[h].c \in {"+", "-", ">", "<"}
  <2>1. c = cmds[h].c
    BY <1>4, <1>5, RunLeft DEF Incrementers
  <2> QED
    BY <1>3, <1>4, <1>5, <2>1
<1>6. CASE cmds[h].c \in {".", ",", "[", "]"}
  <2>1. c = cmds[h].c
    <3>1. cmds[h].c \in Single
      BY <1>6 DEF Single
    <3> QED
      BY <1>4, <3>1, OneLeft
  <2>2. cmds[h].c = "," => linput # <<>>
    BY <1>1 DEF OwesCount, OwesMove, OwesWrite, OwesRead, OwesLoop, OwesJump
  <2> QED
    BY <1>3, <1>4, <1>6, <2>1, <2>2
<1>7. CASE cmds[h].c = "0"
  <2>1. PICK p \in Nat :
          /\ p = P[h - 1] /\ P[h] = p + 3 /\ lpc \in {p, p + 1, p + 2}
          /\ program[p + 1] = "[" /\ program[p + 2] \in {"+", "-"}
          /\ program[p + 3] = "]"
    BY <1>7, LoopLeft
  <2>2. c \in {program[p + 1], program[p + 2], program[p + 3]}
    <3>1. lpc + 1 \in {p + 1, p + 2, p + 3}
      BY <2>1
    <3> QED
      BY <1>4, <3>1
  <2>3. c \in {"[", "+", "-", "]"}
    BY <2>1, <2>2
  <2> QED
    BY <1>3, <1>4, <2>3
<1>8. cmds[h].c \in {"+", "-", ">", "<", ".", ",", "0", "[", "]"}
  BY <1>1 DEF OwesCount, OwesMove, OwesWrite, OwesRead, OwesLoop, OwesJump
<1> QED
  BY <1>5, <1>6, <1>7, <1>8

LEMMA TwinLanguage ==
  ASSUME TypeInv, TwinInv, LanguageStep
  PROVE  TwinInv'
<1>1. stage = "language" /\ UNCHANGED <<job, cmds, program, bfrunVars>>
  BY LanguageKeeps DEF LanguageStep
<1>2. PICK P, first, n, origin, size : Twin(P, first, n, origin, size)
  BY <1>1 DEF TwinInv, Twins, Runs
<1>3. Frame(P, first, n, origin, size) /\ LanguageType(size) /\ Pace(n)
  BY <1>1, <1>2 DEF Twin
<1>4. PICK h : Owes(P, first, n, origin, size, h)
  BY <1>1, <1>2 DEF Twin
<1>5. Steps(program[lpc + 1], size)
  BY <1>3, LanguageIs DEF Frame
<1>6. Doing(P, first, n, origin, size, h)
  BY <1>1, <1>3, <1>4, <1>5 DEF Doing, Owes, TypeInv
<1>7. /\ program[lpc + 1] \in {"+", "-", ">", "<", ".", ",", "[", "]"}
      /\ program[lpc + 1] = "," => linput # <<>>
      /\ Here \in first .. n
  BY <1>4, <1>6, CommandOwed
<1>8. size \in Nat \ {0} /\ ByteSize <= size /\ size <= WordSize
      /\ first = Prologue /\ first \in Nat /\ n \in Nat /\ n = Len(cmds)
      /\ cmds \in Seq(Command)
  BY <1>3, FrameIs DEF Frame
<1>9. LanguageType(size)'
  <2>1. PICK c : c = program[lpc + 1]
    OBVIOUS
  <2> QED
    BY <1>3, <1>5, <1>7, <1>8, <2>1, StepType
<1>10. UNCHANGED <<array, WordModeEnabled, AP_MAX, IP, running>>
  BY <1>1 DEF bfrunVars
<1>11. Frame(P, first, n, origin, size)'
  BY <1>1, <1>3, <1>10, FrameKept
<1>12. Here' = Here /\ Pace(n)'
  BY <1>3, <1>10 DEF Here, Pace
<1>13. Place(Here) = P[Here]
  <2>1. LaidOut(P, cmds, first, n, program, job.wordMode)
    BY <1>3 DEF Frame
  <2> QED
    BY <1>7, <1>8, <2>1, PlaceIs
<1>14. stage' = IF lpc' = P[Here] THEN "execute" ELSE "language"
  BY <1>13 DEF LanguageStep
<1>15. CASE Finishes(P, first, n, origin, size)
  <2>1. stage' = "execute" /\ Together(P, first, n, origin, size)'
    BY <1>14, <1>15 DEF Finishes
  <2>2. ~(Here' < first)
    <3>1. PICK here \in first .. n : here = Here
      BY <1>7
    <3>2. ~(here < first)
      BY ONLY <1>8, <3>1
    <3> QED
      BY <1>12, <3>1, <3>2
  <2> QED
    BY <1>1, <1>9, <1>10, <1>11, <1>12, <2>1, <2>2
    DEF Twin, Ran, TwinInv, Twins, Begun, LeftData
<1>16. CASE GoesOn(P, first, n, origin, size)
  <2>1. stage' = "language" /\ \E g : Owes(P, first, n, origin, size, g)'
    BY <1>14, <1>16 DEF GoesOn
  <2> QED
    BY <1>1, <1>9, <1>10, <1>11, <1>12, <2>1
    DEF Twin, Ran, TwinInv, Twins, Begun, LeftData
<1> QED
  BY <1>4, <1>6, <1>15, <1>16, DoCommand

(* bfrun is at its end, and the language with it. *)
LEMMA TwinExit ==
  ASSUME TypeInv, TwinInv, Exit
  PROVE  TwinInv'
<1>1. /\ stage = "execute" /\ stage' = "ended" /\ status' = 0 /\ ~running
      /\ UNCHANGED <<job, cmds, file, languageVars, bfrunVars>>
  BY DEF Exit
<1>2. PICK P, first, n, origin, size : Twin(P, first, n, origin, size)
  BY <1>1 DEF TwinInv, Twins, Runs
<1>3. Frame(P, first, n, origin, size) /\ LanguageType(size) /\ ~(Here < n)
  BY <1>1, <1>2 DEF Twin, Pace
<1>4. n \in Nat /\ first \in 1 .. n
  BY <1>3, FrameIs
<1>5. Here \in Nat
  BY HereType DEF TypeInv, Word
<1>6. Together(P, first, n, origin, size)
  BY <1>1, <1>2, <1>3, <1>4, <1>5 DEF Twin
<1>7. Here = n
  BY <1>3, <1>4, <1>5, <1>6 DEF Together
<1>8. UNCHANGED <<cmds, job, program, array, WordModeEnabled, AP_MAX, IP, AP,
                  mem, out, consoleVars, lpc, ltape, lptr, linput, lout>>
  BY <1>1 DEF languageVars, bfrunVars
<1>9. Frame(P, first, n, origin, size)'
  BY <1>3, <1>8, FrameKept
<1>10. LanguageType(size)' /\ Here' = Here
  BY <1>3, <1>8 DEF LanguageType, Here
<1>11. Together(P, first, n, origin, size)'
  <2>1. Quiet' /\ CellsAgree(n, origin, size)'
    BY <1>6, <1>8, QuietKept, CellsKept DEF Together
  <2> QED
    BY <1>6, <1>8, <1>10, <2>1 DEF Together
<1>12. Twin(P, first, n, origin, size)'
  BY <1>1, <1>7, <1>9, <1>10, <1>11 DEF Twin
<1> QED
  BY <1>1, <1>8, <1>12 DEF TwinInv, Twins, Begun, LeftData

LEMMA TwinStutter ==
  ASSUME TwinInv, UNCHANGED vars
  PROVE  TwinInv'
<1>1. UNCHANGED <<job, cmds, stage, status, program, lpc, ltape, lptr, linput,
                  lout, WordModeEnabled, array, mem, IP, AP, AP_MAX, running,
                  out>> /\ UNCHANGED consoleVars
  BY DEF vars, languageVars, bfrunVars
<1>2. /\ Here' = Here /\ Prologue' = Prologue /\ Origin' = Origin
      /\ Characters' = Characters
  BY <1>1 DEF Here, Prologue, Origin, Characters
<1>3. Begun' /\ LeftData'
  BY <1>1, <1>2, HandedKept DEF TwinInv, Begun, LeftData
<1>4. Runs => Twins'
  <2>1. SUFFICES ASSUME Runs PROVE Twins'
    OBVIOUS
  <2>2. PICK P, first, n, origin, size : Twin(P, first, n, origin, size)
    BY <2>1 DEF TwinInv, Twins
  <2>3. Frame(P, first, n, origin, size) /\ LanguageType(size)
    BY <2>2 DEF Twin
  <2>4. Frame(P, first, n, origin, size)'
    BY <1>1, <2>3, FrameKept
  <2>5. LanguageType(size)' /\ (Pace(n) => Pace(n)')
    BY <1>1, <1>2, <2>3 DEF LanguageType, Pace
  <2>6. Fresh(n) => Fresh(n)'
    BY <1>1, <1>2, QuietKept DEF Fresh
  <2>7. Together(P, first, n, origin, size)
          => Together(P, first, n, origin, size)'
    BY <1>1, <1>2, QuietKept, CellsKept DEF Together
  <2>8. ASSUME NEW h, Owes(P, first, n, origin, size, h)
        PROVE  Owes(P, first, n, origin, size, h)'
    <3>1. (Quiet => Quiet') /\ (InStep => InStep')
      BY <1>1, QuietKept, InStepKept
    <3>2. /\ AtCell(n, origin) => AtCell(n, origin)'
          /\ OthersAgree(n, origin, size) => OthersAgree(n, origin, size)'
          /\ CellsAgree(n, origin, size) => CellsAgree(n, origin, size)'
      BY <1>1, CellsKept DEF AtCell
    <3>3. OwesCount(P, n, origin, size, h) => OwesCount(P, n, origin, size, h)'
      BY <1>1, <1>2, <3>1, <3>2 DEF OwesCount
    <3>4. OwesMove(P, n, origin, size, h) => OwesMove(P, n, origin, size, h)'
      BY <1>1, <1>2, <3>1, <3>2 DEF OwesMove
    <3>5. OwesWrite(P, n, origin, size, h) => OwesWrite(P, n, origin, size, h)'
      BY <1>1, <1>2, <3>1, <3>2 DEF OwesWrite
    <3>6. OwesLoop(P, n, origin, size, h) => OwesLoop(P, n, origin, size, h)'
      BY <1>1, <1>2, <3>1, <3>2 DEF OwesLoop
    <3>7. OwesRead(P, n, origin, size, h) => OwesRead(P, n, origin, size, h)'
      <4>1. SUFFICES ASSUME OwesRead(P, n, origin, size, h)
                     PROVE  OwesRead(P, n, origin, size, h)'
        OBVIOUS
      <4>2. PICK k \in 0 .. MaxReads :
              Unread(k) /\ Handed(job.words, k + 1)
        BY <4>1 DEF OwesRead
      <4>3. Unread(k)' /\ Handed(job.words, k + 1)'
        BY <1>1, <4>2, UnreadKept, HandedKept
      <4> QED
        BY <1>1, <1>2, <3>2, <4>1, <4>3 DEF OwesRead
    <3>8. OwesJump(P, n, origin, size, h, first)
            => OwesJump(P, n, origin, size, h, first)'
      <4>1. Mates(P, h, Here) => Mates(P, h, Here)'
        BY <1>1, <1>2, KeptMates
      <4> QED
        BY <1>1, <1>2, <3>1, <3>2, <4>1 DEF OwesJump
    <3> QED
      BY <1>1, <2>8, <3>3, <3>4, <3>5, <3>6, <3>7, <3>8 DEF Owes
  <2> QED
    BY <1>1, <1>2, <2>2, <2>4, <2>5, <2>6, <2>7, <2>8 DEF Twin, Twins, Ran
<1>5. Runs' => Runs
  BY <1>1 DEF Runs, Ran
<1> QED
  BY <1>1, <1>3, <1>4, <1>5 DEF TwinInv

LEMMA TwinNext ==
  ASSUME Fits, TypeInv, CodeInv, RejectInv, TwinInv, [Next]_vars
  PROVE  TwinInv'
<1>1. CASE BfppMain
  BY <1>1, TwinBfpp
<1>2. CASE Start
  BY <1>2, TwinStart
<1>3. CASE Refuse
  <2>1. stage' = "ended" /\ status' # 0 /\ UNCHANGED <<job, bfrunVars>>
    <3>1. status' = -1 \/ status' = CRASH
      BY <1>3 DEF Refuse
    <3>2. -1 # 0 /\ CRASH # 0
      BY DEF CRASH
    <3>3. stage' = "ended" /\ UNCHANGED <<job, bfrunVars>>
      BY <1>3 DEF Refuse
    <3> QED
      BY <3>1, <3>2, <3>3
  <2>2. WordModeEnabled' = job'.wordMode
    BY <2>1 DEF TwinInv, bfrunVars
  <2> QED
    BY <2>1, <2>2 DEF TwinInv, Begun, LeftData, Runs, Ran
<1>4. CASE Instruction
  BY <1>4, TwinInstruction
<1>5. CASE Leave
  BY <1>5, TwinLeave
<1>6. CASE LanguageStep
  BY <1>6, TwinLanguage
<1>7. CASE Exit
  BY <1>7, TwinExit
<1>8. CASE UNCHANGED vars
  BY <1>8, TwinStutter
<1> QED
  BY <1>1, <1>2, <1>3, <1>4, <1>5, <1>6, <1>7, <1>8 DEF Next

LEMMA TwinAlways ==
  ASSUME Fits
  PROVE  Spec => []TwinInv
<1>1. TypeInv /\ CodeInv /\ RejectInv /\ TwinInv /\ [Next]_vars => TwinInv'
  BY TwinNext
<1>2. FilesFit
  BY DEF Fits
<1>3. RejectInv /\ [Next]_vars => RejectInv'
  BY RejectNext
<1>4. TypeInv /\ CodeInv /\ [Next]_vars => CodeInv'
  BY <1>2, CodeNext
<1> QED
  BY <1>1, <1>3, <1>4, TwinInit, CodeInit, RejectInit, TypeAlways, PTL DEF Spec

-----------------------------------------------------------------------------
(* What it gives.                                                          *)

(* A program that is over, or before its next instruction.                 *)
LEMMA TwinAt ==
  ASSUME TypeInv, TwinInv, stage = "execute" \/ Ran, Here >= Prologue \/ Ran
  PROVE  \E P, first, n, origin, size :
           /\ Frame(P, first, n, origin, size) /\ LanguageType(size)
           /\ Together(P, first, n, origin, size) /\ (Ran => Here = n)
<1>1. PICK P, first, n, origin, size : Twin(P, first, n, origin, size)
  BY DEF TwinInv, Twins, Runs
<1>2. Frame(P, first, n, origin, size) /\ LanguageType(size)
  BY <1>1 DEF Twin
<1>3. Together(P, first, n, origin, size) /\ (Ran => Here = n)
  <2>1. CASE Ran
    BY <1>1, <2>1 DEF Twin
  <2>2. CASE stage = "execute" /\ Here >= Prologue
    <3>1. first = Prologue /\ first \in Nat
      BY <1>2, FrameIs DEF Frame
    <3>2. Here \in Nat
      BY HereType DEF TypeInv, Word
    <3>3. ~(Here < first)
      BY <2>2, <3>1, <3>2
    <3>4. ~Ran
      BY <2>2 DEF Ran
    <3> QED
      BY <1>1, <2>2, <3>3, <3>4 DEF Twin
  <2> QED
    BY <2>1, <2>2 DEF Ran
<1> QED
  BY <1>2, <1>3

LEMMA TwinGives == TypeInv /\ TwinInv => SameCells
<1> SUFFICES ASSUME TypeInv, TwinInv, stage = "execute" \/ Ran
             PROVE  /\ Ran => L!Done
                    /\ Here >= Prologue =>
                         /\ lpc = Place(Here)
                         /\ AP = Int16(Origin + lptr)
                         /\ \A a \in Len(cmds) .. WordSize - 1 :
                              mem[a] % CellSize = ltape[Int16(a - Origin)]
                         /\ out = [i \in DOMAIN lout |-> LowByte(lout[i])]
  BY DEF SameCells
<1>1. SUFFICES ASSUME Here >= Prologue \/ Ran
               PROVE  /\ Ran => L!Done
                      /\ lpc = Place(Here)
                      /\ AP = Int16(Origin + lptr)
                      /\ \A a \in Len(cmds) .. WordSize - 1 :
                           mem[a] % CellSize = ltape[Int16(a - Origin)]
                      /\ out = [i \in DOMAIN lout |-> LowByte(lout[i])]
  OBVIOUS
<1>2. PICK P, first, n, origin, size :
        /\ Frame(P, first, n, origin, size) /\ LanguageType(size)
        /\ Together(P, first, n, origin, size) /\ (Ran => Here = n)
  BY <1>1, TwinAt
<1>3. /\ first = Prologue /\ n = Len(cmds) /\ origin = Origin /\ size = CellSize
      /\ LaidOut(P, cmds, first, n, program, job.wordMode)
  BY <1>2 DEF Frame, OnCode
<1>4. /\ cmds \in Seq(Command) /\ n \in Nat /\ first \in Nat
      /\ P[n] = Len(program)
  BY <1>2, FrameIs
<1>5. Here \in first .. n /\ lpc = P[Here]
  BY <1>2 DEF Together
<1>6. Place(Here) = P[Here]
  BY <1>3, <1>4, <1>5, PlaceIs
<1>7. Ran => L!Done
  BY <1>2, <1>4, <1>5 DEF L!Done
<1> QED
  BY <1>2, <1>3, <1>5, <1>6, <1>7
  DEF Together, CellsAgree, SameCell, Quiet, Shown

-----------------------------------------------------------------------------
(* A ring of w words with the code in the first n: from the word o one has *)
(* to go this far to come to the code, forwards or backwards.              *)
LEMMA FarEnough ==
  ASSUME NEW w \in Nat \ {0}, NEW n \in Nat, NEW o \in 0 .. w - 1,
         NEW p \in 0 .. w - 1, NEW r \in Int, (o + p) % w < n,
         \/ o = r + n /\ 2 * r + n + 1 <= w
         \/ r < 0
         \/ o = w - (r + 1) /\ n <= o /\ n + 2 * (r + 1) <= w
  PROVE  p \in r + 1 .. w - r - 1
<1>1. PICK x \in Int : x = o + p /\ x >= 0 /\ x < 2 * w
  OBVIOUS
<1>2. /\ x < w => x < n
      /\ x >= w => x - w < n
  BY <1>1, ModNear
<1> QED
  BY ONLY <1>1, <1>2, w \in Nat, n \in Nat, o \in 0 .. w - 1, p \in 0 .. w - 1,
     r \in Int,
     \/ o = r + n /\ 2 * r + n + 1 <= w
     \/ r < 0
     \/ o = w - (r + 1) /\ n <= o /\ n + 2 * (r + 1) <= w

LEMMA FarFromCode ==
  ASSUME ProloguesFit, NEW n \in Nat, n = Len(cmds), 2 * n < WordSize,
         lptr \in Word, AP \in Word, ~InData(AP), AP = Int16(Origin + lptr)
  PROVE  lptr \in Reach + 1 .. WordSize - Reach - 1
<1>1. PICK b \in Nat : b = BiasHalf /\ b >= 16 /\ WordSize = 16 * b
  BY Sizes
<1>2. PICK w \in Nat \ {0} : w = WordSize /\ w = 16 * b
  BY <1>1
<1>3. PICK s \in Nat : s = w - ApShift /\ s >= 1 /\ s <= b /\ ApShift = w - s
  <2>1. ApShift \in 0 .. w - 1 /\ ApShift >= w - b
    BY <1>1, <1>2, BfCompilerAssumption DEF Word, ProloguesFit
  <2>2. PICK a \in 0 .. w - 1 : a = ApShift /\ a >= w - b
    BY <2>1
  <2>3. PICK s \in Nat : s = w - a /\ s >= 1 /\ s <= b /\ a = w - s
    <3>1. w - a \in Nat /\ w - a >= 1 /\ w - a <= b /\ a = w - (w - a)
      BY ONLY <1>1, <1>2, <2>2
    <3> QED
      BY <3>1
  <2> QED
    BY <2>2, <2>3
<1>4. AP < n
  <2>1. AP \in 0 .. w - 1 /\ ~(AP \in n .. w - 1)
    BY <1>2 DEF Word, InData
  <2> QED
    BY <2>1
<1>5. PICK p \in 0 .. w - 1 : p = lptr
  BY <1>2 DEF Word
<1>6. CASE array
  <2>1. PICK o \in 0 .. w - 1 : o = w - s
    BY <1>2, <1>3
  <2>2. Origin = o
    <3>1. ApShift + 0 = o /\ o \in Word
      BY <1>2, <1>3, <2>1 DEF Word
    <3> QED
      BY <1>6, <3>1, Int16Word DEF Origin
  <2>3. PICK r \in Int : r = s - 1 /\ Reach = r
    BY <1>2, <1>3, <1>6 DEF Reach
  <2>4. o = w - (r + 1) /\ n <= o /\ n + 2 * (r + 1) <= w
    BY <1>1, <1>2, <1>3, <2>1, <2>3
  <2>5. (o + p) % w < n
    BY <1>2, <1>4, <1>5, <2>2 DEF Int16
  <2>6. p \in r + 1 .. w - r - 1
    BY ONLY <2>4, <2>5, w \in Nat \ {0}, n \in Nat, o \in 0 .. w - 1,
       p \in 0 .. w - 1, r \in Int, FarEnough
  <2> QED
    BY <1>2, <1>5, <2>3, <2>6
<1>7. CASE ~array
  <2>1. PICK m \in Nat : m = n \div 2 /\ 2 * m <= n
    OBVIOUS
  <2>2. PICK h \in Nat : h = 8 * b - 1 /\ h = (w - 1) \div 2
          /\ h + 1 = w \div 2
    BY <1>1, <1>2
  <2>3. h - m \in 0 .. w - 1
    BY <1>1, <1>2, <2>1, <2>2
  <2>4. ApEntry(n) = h - m
    <3>1. h - m \in Word
      BY <1>2, <2>3 DEF Word
    <3> QED
      BY <1>2, <2>1, <2>2, <3>1, Int16Word DEF ApEntry, MEMORY_PTR_MAX
  <2>5. PICK o \in 0 .. w - 1 : o = h - m - s
    <3>1. 2 * n < w
      BY <1>2
    <3>2. h - m - s >= 0 /\ h - m - s <= w - 1
      BY ONLY <3>1, <1>1, <1>2, <1>3, <2>1, <2>2, n \in Nat, m \in Nat,
         s \in Nat, b \in Nat
    <3> QED
      BY <3>2, <2>2
  <2>6. Origin = o
    <3>1. ApShift + ApEntry(n) = w + o
      BY <1>2, <1>3, <2>4, <2>5
    <3>2. (w + o) % w = o
      <4>1. PICK x \in Int : x = w + o /\ x \in w .. 2 * w - 1 /\ x - w = o
        OBVIOUS
      <4> QED
        BY <4>1, ModNear
    <3> QED
      BY <1>2, <1>7, <3>1, <3>2 DEF Origin, Int16
  <2>7. PICK r \in Int : r = h - n - m - s /\ Reach = r
    <3>1. Reach = (h + 1) - 1 - n - m - s
      BY <1>2, <1>3, <1>7, <2>1, <2>2 DEF Reach
    <3>2. h \in Int /\ (h + 1) - 1 - n - m - s = h - n - m - s
      BY <2>2
    <3>3. h - n - m - s \in Int
      BY <3>2
    <3> QED
      BY <3>1, <3>2, <3>3
  <2>8. o = r + n /\ 2 * r + n + 1 <= w
    BY <1>1, <1>2, <1>3, <2>1, <2>2, <2>5, <2>7
  <2>9. (o + p) % w < n
    BY <1>2, <1>4, <1>5, <2>6 DEF Int16
  <2>10. p \in r + 1 .. w - r - 1
    BY ONLY <2>8, <2>9, w \in Nat \ {0}, n \in Nat, o \in 0 .. w - 1,
       p \in 0 .. w - 1, r \in Int, FarEnough
  <2> QED
    BY <1>2, <1>5, <2>7, <2>10
<1> QED
  BY <1>6, <1>7

LEMMA StaysGives == Fits /\ TypeInv /\ TwinInv => StaysOnData
<1> SUFFICES ASSUME Fits, TypeInv, TwinInv, stage \in {"execute", "beyond"},
                    Here >= Prologue, ~InData(AP)
             PROVE  lptr \in Reach + 1 .. WordSize - Reach - 1
  BY DEF StaysOnData
<1>1. PICK n \in Nat : n = Len(cmds)
  BY DEF TypeInv, CompiledType
<1>2. 2 * n < WordSize /\ lptr \in Word /\ AP = Int16(Origin + lptr)
  <2>1. CASE stage = "beyond"
    BY <1>1, <2>1 DEF TwinInv, LeftData
  <2>2. CASE stage = "execute"
    <3>1. PICK P, first, k, origin, size :
            /\ Frame(P, first, k, origin, size) /\ LanguageType(size)
            /\ Together(P, first, k, origin, size)
      BY <2>2, TwinAt
    <3>2. k = Len(cmds) /\ 2 * k < WordSize /\ origin = Origin
      BY <3>1 DEF Frame, OnCode
    <3> QED
      BY <1>1, <3>1, <3>2 DEF LanguageType, Together
  <2> QED
    BY <2>1, <2>2
<1>3. AP \in Word
  BY DEF TypeInv, MachineType
<1> QED
  BY <1>1, <1>2, <1>3, FarFromCode DEF Fits

(* For every source and input that the words have room for, of any length: *)
(* after every instruction bfrun is where the language is in the source,   *)
(* with the same pointer, the same cells and the same output, and it exits *)
(* only when the program is over.  The merged runs, the clear instruction, *)
(* the jumps past a match, words for bytes, counts of 13 bits and the      *)
(* console's words show nowhere (Bf.cpp:88-265, cmd.cpp:132-180,           *)
(* Image.cpp:33-137, bfrun.cpp:112-184, Console.cpp:47-69).                *)
THEOREM RunsTheSource ==
  ASSUME FilesFit, LoopsFit, RunsFit, ProloguesFit, InputsFit
  PROVE  Spec => []SameCells
<1>1. Fits
  BY DEF Fits
<1> QED
  BY <1>1, TwinAlways, TypeAlways, TwinGives, PTL

(* README.md:133: a program that keeps to the cells that are within reach  *)
(* of its first one never has its AP in the code, in an image or in an     *)
(* array (bfpp.cpp:209-214, bfrun.cpp:155-159).                            *)
THEOREM KeepsOffTheCode ==
  ASSUME FilesFit, LoopsFit, RunsFit, ProloguesFit, InputsFit
  PROVE  Spec => []StaysOnData
<1>1. Fits
  BY DEF Fits
<1>2. TypeInv /\ TwinInv => StaysOnData
  BY <1>1, StaysGives
<1> QED
  BY <1>1, <1>2, TwinAlways, TypeAlways, PTL

(* bfpp itself, whatever runs its file: the list that it writes is a       *)
(* prologue and then, one after the other and without a gap, instructions  *)
(* that each stand for the next commands of the source: a run for that     *)
(* many, the clear instruction for its loop (Bf.cpp:88-265).               *)
StandsForSource ==
  stage = "compiled" =>
    \E P : LaidOut(P, cmds, Prologue, Len(cmds), program, job.wordMode)

IsLinked == stage = "compiled" => Compiled

LEMMA CompilesNext ==
  ASSUME TypeInv, IsLinked, [Next]_vars
  PROVE  IsLinked'
<1>1. CASE BfppMain
  <2>1. UNCHANGED job /\ stage = "source"
    BY <1>1 DEF BfppMain
  <2>2. stage' = "compiled" =>
          cmds' = Linking(Output(job)) /\ ~LinkingFails(Output(job))
    BY <1>1 DEF BfppMain, Output
  <2> QED
    BY <2>1, <2>2 DEF IsLinked, Compiled, LinkingFails
<1>2. CASE UNCHANGED vars
  BY <1>2 DEF vars, IsLinked, Compiled
<1>3. CASE Start \/ Refuse \/ Instruction \/ Leave \/ LanguageStep \/ Exit
  <2>1. stage' # "compiled"
    BY <1>3 DEF Start, Refuse, Instruction, Leave, LanguageStep, Exit
  <2> QED
    BY <2>1 DEF IsLinked
<1> QED
  BY <1>1, <1>2, <1>3 DEF Next

(* For every source whose runs the counts have room for, with any loops    *)
(* and of any size in the file (Bf.cpp:88-265, bfpp.cpp:201-222).          *)
THEOREM CompilesTheSource ==
  ASSUME RunsFit, ProloguesFit
  PROVE  Spec => []StandsForSource
<1>1. TypeInv /\ IsLinked /\ RejectInv => StandsForSource
  <2> SUFFICES ASSUME TypeInv, IsLinked, RejectInv, stage = "compiled"
               PROVE  \E P : LaidOut(P, cmds, Prologue, Len(cmds), program,
                                     job.wordMode)
    BY DEF StandsForSource
  <2>1. Compiled
    BY DEF IsLinked
  <2>2. Prologue \in Nat /\ Len(cmds) \in Nat
    BY DEF Prologue, TypeInv, CompiledType
  <2>3. program = Source
    BY DEF RejectInv
  <2> QED
    BY <2>1, <2>2, <2>3, LayoutOf
<1>2. Init => IsLinked
  BY DEF Init, IsLinked
<1>3. TypeInv /\ IsLinked /\ [Next]_vars => IsLinked'
  BY CompilesNext
<1>4. RejectInv /\ [Next]_vars => RejectInv'
  BY RejectNext
<1> QED
  BY <1>1, <1>2, <1>3, <1>4, RejectInit, TypeAlways, PTL DEF Spec
=============================================================================
