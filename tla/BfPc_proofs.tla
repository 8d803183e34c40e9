---------------------------- MODULE BfPc_proofs ----------------------------
(***************************************************************************)
(* From a source to its execution: what holds of the compiler, the image   *)
(* and the emulator for every source, whatever the sizes of a word, a      *)
(* count and a byte.                                                       *)
(***************************************************************************)
EXTENDS BfPc, Dekatron_proofs, FiniteSetTheorems,
        SequenceTheorems

-----------------------------------------------------------------------------
(* Words. *)
LEMMA Sizes ==
  /\ BiasHalf \in Nat /\ BiasHalf >= 16
  /\ BiasSize = 2 * BiasHalf /\ BiasSize \in Nat \ {0}
  /\ WordSize = 16 * BiasHalf /\ WordSize \in Nat \ {0}
  /\ ByteSize \in Nat \ {0} /\ ByteSize <= BiasHalf
  /\ HalfWord \in Nat \ {0} /\ HalfWord * HalfWord = WordSize
<1>1. /\ BiasSize \in Nat /\ BiasSize >= 32 /\ BiasSize % 32 = 0
      /\ ByteSize \in Nat \ {0} /\ (BiasSize \div 2) % ByteSize = 0
  BY BfWordsAssumption
<1>2. PICK q \in Int : BiasSize = q * 32
  <2>1. PICK q \in Int, r \in 0 .. 32 - 1 :
          BiasSize = q * 32 + r /\ BiasSize % 32 = r
    BY <1>1, ModExists
  <2> QED
    BY <1>1, <2>1
<1>3. BiasHalf = q * 16 /\ BiasSize = 2 * BiasHalf /\ BiasHalf \in Nat
        /\ BiasHalf >= 16
  BY <1>1, <1>2 DEF BiasHalf
<1>4. ByteSize <= BiasHalf
  <2>1. BiasHalf % ByteSize = 0
    BY <1>1 DEF BiasHalf
  <2>2. SUFFICES ASSUME ~(ByteSize <= BiasHalf) PROVE FALSE
    OBVIOUS
  <2>3. BiasHalf = 0 * ByteSize + BiasHalf /\ BiasHalf \in 0 .. ByteSize - 1
    BY <1>1, <1>3, <2>2
  <2>4. BiasHalf % ByteSize = BiasHalf
    BY <1>1, <1>3, <2>3, ModUnique
  <2> QED
    BY <1>3, <2>1, <2>4
<1>5. WordSize = 16 * BiasHalf /\ WordSize \in Nat \ {0}
  BY <1>3 DEF WordSize
<1>6. HalfWord \in Nat /\ HalfWord * HalfWord = WordSize
  BY BfImageAssumption
<1>7. HalfWord # 0
  BY <1>5, <1>6
<1> QED
  BY <1>1, <1>3, <1>4, <1>5, <1>6, <1>7

LEMMA Int16Range ==
  ASSUME NEW v \in Int
  PROVE  Int16(v) \in Word
<1>1. PICK r \in 0 .. WordSize - 1 : Int16(v) = r
  BY Sizes, ModExists DEF Int16
<1> QED
  BY <1>1 DEF Word

LEMMA Int16Word ==
  ASSUME NEW v \in Word
  PROVE  Int16(v) = v
<1>1. v \in 0 .. WordSize - 1 /\ v \in Int /\ v = 0 * WordSize + v
  BY Sizes DEF Word
<1> QED
  BY <1>1, Sizes, ModUnique DEF Int16

LEMMA WordIsInt == Word \subseteq Int
BY DEF Word

(* A byte is its own low byte, and a word. *)
Bytes == 0 .. ByteSize - 1

LEMMA LowByteRange ==
  ASSUME NEW v \in Int
  PROVE  LowByte(v) \in Bytes /\ LowByte(v) \in Word
<1>1. PICK r \in 0 .. ByteSize - 1 : LowByte(v) = r
  BY Sizes, ModExists DEF LowByte
<1> QED
  BY <1>1, Sizes DEF Word, Bytes

LEMMA LowByteByte ==
  ASSUME NEW v \in Bytes
  PROVE  LowByte(v) = v
<1>1. v \in 0 .. ByteSize - 1 /\ v \in Int /\ v = 0 * ByteSize + v
  BY Sizes DEF Bytes
<1> QED
  BY <1>1, Sizes, ModUnique DEF LowByte

(* A command of the compiler's list. *)
Blank == " "
CommandKinds == Symbols \union {Blank, "0", "H"}
Command == [c : CommandKinds, bias : Word]

LEMMA KindsOf ==
  /\ Symbols \subseteq CommandKinds
  /\ Blank \in CommandKinds /\ "0" \in CommandKinds /\ "H" \in CommandKinds
  /\ ">" \in CommandKinds
  /\ Blank \notin Symbols /\ "0" \notin Symbols /\ "H" \notin Symbols
  /\ Blank # "0" /\ Blank # "H"
<1>1. Blank \notin Symbols
  BY Zenon DEF Blank, Symbols
<1>2. Blank # "0" /\ Blank # "H"
  BY Zenon DEF Blank
<1> QED
  BY <1>1, <1>2 DEF CommandKinds, Symbols

LEMMA CmdType ==
  ASSUME NEW c \in CommandKinds, NEW n \in Int
  PROVE  Cmd(c, n) \in Command /\ Cmd(c, n).c = c
<1>1. Int16(n) \in Word /\ Int16(-n) \in Word
  BY Int16Range
<1> QED
  BY <1>1 DEF Cmd, Command

(* The count of a word, and the operation of the command it came from.     *)
LEMMA WordParts ==
  ASSUME NEW cmd \in Command
  PROVE  \E n \in 0 .. BiasSize - 1 :
           /\ n = cmd.bias % BiasSize
           /\ cmd.c \in {">", "<"} => GetCmd(cmd) = 4 * BiasHalf + n
           /\ cmd.c \in {"+", "-"} => GetCmd(cmd) = 2 * BiasHalf + n
           /\ cmd.c = "[" => GetCmd(cmd) = 6 * BiasHalf + n
           /\ cmd.c = "]" => GetCmd(cmd) = 8 * BiasHalf + n
           /\ cmd.c = "." => GetCmd(cmd) = BiasHalf + 2
           /\ cmd.c = "," => GetCmd(cmd) = BiasHalf + 1
           /\ cmd.c = "0" => GetCmd(cmd) = BiasHalf + 4
           /\ cmd.c = "H" => GetCmd(cmd) = BiasHalf + 8
           /\ cmd.c \notin {">", "<", "+", "-", "[", "]", ".", ",", "0", "H"}
                => GetCmd(cmd) = 0
<1>1. cmd.bias \in Int
  BY WordIsInt DEF Command
<1>2. PICK n \in 0 .. BiasSize - 1 : n = cmd.bias % BiasSize
  <2>1. PICK x \in Int : x = cmd.bias
    BY <1>1
  <2>2. x % BiasSize \in 0 .. BiasSize - 1
    BY Sizes, ModExists
  <2> QED
    BY <2>1, <2>2
<1>3. CMD_RIGHT = 4 * BiasHalf /\ CMD_ADD = 2 * BiasHalf
        /\ CMD_JZ = 6 * BiasHalf /\ CMD_JNZ = 8 * BiasHalf
  BY Sizes DEF CMD_RIGHT, CMD_ADD, CMD_JZ, CMD_JNZ
<1>4. /\ CMD_IO + CMD_OUTPUT_MASK = BiasHalf + 2
      /\ CMD_IO + CMD_INPUT_MASK = BiasHalf + 1
      /\ CMD_IO + CMD_CTRLIO_CLR_DATA = BiasHalf + 4
      /\ CMD_IO + CMD_CTRLIO_HALT = BiasHalf + 8
      /\ CMD_NOP = 0
  BY Sizes DEF CMD_IO, CMD_NOP, CMD_INPUT_MASK, CMD_OUTPUT_MASK,
               CMD_CTRLIO_CLR_DATA, CMD_CTRLIO_HALT
<1>5. cmd.c \in {">", "<"} => GetCmd(cmd) = CMD_RIGHT + n
  BY <1>2 DEF GetCmd
<1>6. cmd.c \in {"+", "-"} => GetCmd(cmd) = CMD_ADD + n
  BY <1>2 DEF GetCmd
<1>7. cmd.c = "[" => GetCmd(cmd) = CMD_JZ + n
  BY <1>2 DEF GetCmd
<1>8. cmd.c = "]" => GetCmd(cmd) = CMD_JNZ + n
  BY <1>2 DEF GetCmd
<1>9. cmd.c = "." => GetCmd(cmd) = CMD_IO + CMD_OUTPUT_MASK
  BY DEF GetCmd
<1>10. cmd.c = "," => GetCmd(cmd) = CMD_IO + CMD_INPUT_MASK
  BY DEF GetCmd
<1>11. cmd.c = "0" => GetCmd(cmd) = CMD_IO + CMD_CTRLIO_CLR_DATA
  BY DEF GetCmd
<1>12. cmd.c = "H" => GetCmd(cmd) = CMD_IO + CMD_CTRLIO_HALT
  BY DEF GetCmd
<1>13. cmd.c \notin {">", "<", "+", "-", "[", "]", ".", ",", "0", "H"}
         => GetCmd(cmd) = CMD_NOP
  BY DEF GetCmd
<1> HIDE DEF GetCmd
<1>14. /\ cmd.c \in {">", "<"} => GetCmd(cmd) = 4 * BiasHalf + n
       /\ cmd.c \in {"+", "-"} => GetCmd(cmd) = 2 * BiasHalf + n
       /\ cmd.c = "[" => GetCmd(cmd) = 6 * BiasHalf + n
       /\ cmd.c = "]" => GetCmd(cmd) = 8 * BiasHalf + n
  BY <1>3, <1>5, <1>6, <1>7, <1>8
<1>15. /\ cmd.c = "." => GetCmd(cmd) = BiasHalf + 2
       /\ cmd.c = "," => GetCmd(cmd) = BiasHalf + 1
       /\ cmd.c = "0" => GetCmd(cmd) = BiasHalf + 4
       /\ cmd.c = "H" => GetCmd(cmd) = BiasHalf + 8
  BY <1>4, <1>9, <1>10, <1>11, <1>12
<1>16. cmd.c \notin {">", "<", "+", "-", "[", "]", ".", ",", "0", "H"}
         => GetCmd(cmd) = 0
  BY <1>4, <1>13
<1> QED
  BY <1>2, <1>14, <1>15, <1>16

LEMMA GetCmdRange ==
  ASSUME NEW cmd \in Command
  PROVE  GetCmd(cmd) \in Word
<1>1. PICK h \in Nat : h = BiasHalf /\ h >= 16
  BY Sizes
<1>2. BiasSize = 2 * h /\ WordSize = 16 * h
  BY <1>1, Sizes
<1>3. \E n \in 0 .. BiasSize - 1 :
        GetCmd(cmd) \in {4 * h + n, 2 * h + n, 6 * h + n, 8 * h + n, h + 2,
                         h + 1, h + 4, h + 8, 0}
  BY <1>1, WordParts
<1> QED
  BY <1>1, <1>2, <1>3 DEF Word

LEMMA BiasRange ==
  ASSUME NEW word \in Word
  PROVE  Bias(word) \in Word
<1>1. word \in Int
  BY WordIsInt
<1>2. PICK n \in 0 .. BiasSize - 1 : n = word % BiasSize
  BY <1>1, Sizes, ModExists
<1> QED
  BY <1>2, Sizes DEF Bias, Word

LEMMA DivExists ==
  ASSUME NEW n \in Nat \ {0}, NEW x \in Int
  PROVE  \E q \in Int, r \in 0 .. n - 1 :
           x = q * n + r /\ x % n = r /\ x \div n = q
<1>1. x \div n \in Int
  OBVIOUS
<1>2. x % n \in 0 .. n - 1
  OBVIOUS
<1>3. x = (x \div n) * n + (x % n)
  OBVIOUS
<1> QED
  BY <1>1, <1>2, <1>3

LEMMA DivUnique ==
  ASSUME NEW n \in Nat \ {0}, NEW q \in Int, NEW r \in 0 .. n - 1,
         NEW x \in Int, x = q * n + r
  PROVE  x \div n = q /\ x % n = r
<1>1. PICK p \in Int, s \in 0 .. n - 1 :
        x = p * n + s /\ x % n = s /\ x \div n = p
  BY DivExists
<1>2. r = s
  BY <1>1, ModUnique
<1>3. PICK a \in Int, b \in Int : a = q * n /\ b = p * n
  BY Multiple
<1>4. (q - p) * n = a - b
  BY <1>3, Distribute
<1>5. a + r = x /\ b + s = x
  BY <1>1, <1>3
<1>6. (q - p) * n = 0
  BY <1>2, <1>3, <1>4, <1>5
<1>7. q - p \in Int /\ ~(q - p >= 1) /\ ~(q - p <= -1)
  BY <1>6, Multiple
<1> QED
  BY <1>1, <1>2, <1>7

(* The two bytes of a word, and how they change places. *)
LEMMA SwapParts ==
  ASSUME NEW w \in Word
  PROVE  \E a \in 0 .. HalfWord - 1, b \in 0 .. HalfWord - 1 :
           w = a * HalfWord + b /\ swapLEtoBE(w) = b * HalfWord + a
<1>1. PICK h \in Nat \ {0} : h = HalfWord /\ h * h = WordSize
  BY Sizes
<1>2. w \in Int /\ w >= 0 /\ w < h * h
  BY <1>1, Sizes DEF Word
<1>3. PICK a \in Int, b \in 0 .. h - 1 :
        w = a * h + b /\ w % h = b /\ w \div h = a
  BY <1>2, DivExists
<1>6. a * h \in Int /\ h * h \in Int /\ (a - h) * h = a * h - h * h
  BY <1>1, Distribute, Multiple
<1>7. ~(a - h >= 1) /\ a # h
  <2>1. a - h >= 1 => (a - h) * h >= h
    BY <1>1, Multiple
  <2> QED
    BY <1>1, <1>2, <1>3, <1>6, <2>1
<1>8. ~(a <= -1)
  <2>1. a <= -1 => a * h <= -h
    BY Multiple
  <2> QED
    BY <1>2, <1>3, <2>1
<1>9. a \in 0 .. h - 1
  BY <1>7, <1>8
<1> QED
  BY <1>1, <1>3, <1>9 DEF swapLEtoBE

LEMMA SwapRange ==
  ASSUME NEW w \in Word
  PROVE  swapLEtoBE(w) \in Word
<1>1. PICK h \in Nat \ {0} : h = HalfWord /\ h * h = WordSize
  BY Sizes
<1>2. PICK a \in 0 .. h - 1, b \in 0 .. h - 1 : swapLEtoBE(w) = b * h + a
  BY <1>1, SwapParts
<1>3. b * h \in Int /\ h * h \in Int /\ (h - b) * h = h * h - b * h
  BY Distribute, Multiple
<1>4. (h - b) * h >= h
  BY Multiple
<1>5. b * h >= 0
  BY Multiple
<1> QED
  BY <1>1, <1>2, <1>3, <1>4, <1>5 DEF Word

(* A field is written and read in the same order of bytes.                 *)
LEMMA SwapTwice ==
  ASSUME NEW w \in Word
  PROVE  swapLEtoBE(swapLEtoBE(w)) = w
<1>1. PICK h \in Nat \ {0} : h = HalfWord
  BY Sizes
<1>2. PICK a \in 0 .. h - 1, b \in 0 .. h - 1 :
        w = a * h + b /\ swapLEtoBE(w) = b * h + a
  BY <1>1, SwapParts
<1>3. PICK x \in Int : x = b * h + a
  BY Multiple
<1>4. x \div h = b /\ x % h = a
  BY <1>3, DivUnique
<1> QED
  BY <1>1, <1>2, <1>3, <1>4 DEF swapLEtoBE

-----------------------------------------------------------------------------
(* Sets of places, and what a sequence has at them. *)
LEMMA MaxOf ==
  ASSUME NEW n \in Nat, NEW S, S \subseteq 0 .. n, S # {}
  PROVE  Max(S) \in S /\ \A x \in S : Max(S) >= x
<1> DEFINE T == {m \in Nat : \A R : R \subseteq 0 .. m /\ R # {} =>
                                      \E x \in R : \A y \in R : x >= y}
<1>1. 0 \in T
  OBVIOUS
<1>2. ASSUME NEW m \in T \cap Nat PROVE m + 1 \in T
  <2>1. SUFFICES ASSUME NEW R, R \subseteq 0 .. m + 1, R # {}
                 PROVE  \E x \in R : \A y \in R : x >= y
    OBVIOUS
  <2>2. CASE m + 1 \in R
    BY <2>1, <2>2
  <2>3. CASE m + 1 \notin R
    <3>1. R \subseteq 0 .. m
      BY <2>1, <2>3
    <3> QED
      BY <2>1, <3>1
  <2> QED
    BY <2>2, <2>3
<1>3. Nat \subseteq T
  <2> HIDE DEF T
  <2> QED
    BY <1>1, <1>2, NatClosed
<1>4. \E x \in S : \A y \in S : x >= y
  BY <1>3
<1> QED
  BY <1>4 DEF Max

LEMMA MinOf ==
  ASSUME NEW S, S \subseteq Nat, S # {}
  PROVE  Min(S) \in S /\ \A x \in S : Min(S) <= x
<1>1. PICK x \in S : \A y \in S : ~(<<y, x>> \in OpToRel(<, Nat))
  BY NatLessThanWellFounded, WFMin
<1>2. ASSUME NEW y \in S PROVE x <= y
  <2>1. y < x => <<y, x>> \in {z \in Nat \X Nat : z[1] < z[2]}
    OBVIOUS
  <2> QED
    BY <1>1, <2>1 DEF OpToRel
<1> QED
  BY <1>2 DEF Min

-----------------------------------------------------------------------------
(* The lists of the compiler. *)
SymbolPlaces(source) == {i \in DOMAIN source : IsASymbol(source[i])}
Issued(text) == {i \in DOMAIN text : Issues(text, i)}
Commands(text) ==
  [i \in DOMAIN text |->
     Cmd(text[i], IF text[i] \in Incrementers THEN RunLength(text, i) ELSE 0)]

LEMMA StripType ==
  ASSUME NEW source \in Seq(STRING)
  PROVE  Strip(source) \in Seq(Symbols) /\ Len(Strip(source)) <= Len(source)
<1>1. SymbolPlaces(source) \in SUBSET (1 .. Len(source))
  BY DEF SymbolPlaces
<1>2. Strip(source) = At(source, SymbolPlaces(source))
  BY DEF Strip, SymbolPlaces
<1>3. Strip(source) \in Seq(STRING)
  BY <1>1, <1>2, AtType
<1>4. PICK at :
        Orders(at, Strip(source), source, SymbolPlaces(source), Len(source))
  BY <1>1, <1>2, AtType
<1>5. ASSUME NEW k \in 1 .. Len(Strip(source))
      PROVE  Strip(source)[k] \in Symbols
  <2>1. Strip(source)[k] = source[at[k]] /\ at[k] \in SymbolPlaces(source)
    BY <1>4 DEF Orders
  <2> QED
    BY <2>1 DEF SymbolPlaces, IsASymbol
<1>6. Len(Strip(source)) <= Len(source)
  BY <1>4 DEF Orders
<1> QED
  BY <1>3, <1>5, <1>6

LEMMA RunLengthType ==
  ASSUME NEW text \in Seq(Symbols), NEW i \in 1 .. Len(text)
  PROVE  RunLength(text, i) \in Int
<1> DEFINE S == {k \in 1 .. i : text[k] # text[i]} \union {0}
<1>1. S \subseteq 0 .. i /\ S # {} /\ i \in Nat
  OBVIOUS
<1>2. Max(S) \in S
  BY <1>1, MaxOf
<1>3. Max(S) \in Int
  BY <1>1, <1>2
<1>4. RunLength(text, i) = i - Max(S)
  BY DEF RunLength
<1> QED
  BY <1>1, <1>3, <1>4

LEMMA CommandsType ==
  ASSUME NEW text \in Seq(Symbols)
  PROVE  /\ Commands(text) \in Seq(Command)
         /\ Len(Commands(text)) = Len(text)
         /\ \A i \in 1 .. Len(text) : Commands(text)[i].c = text[i]
<1>1. ASSUME NEW i \in 1 .. Len(text)
      PROVE  Commands(text)[i] \in Command /\ Commands(text)[i].c = text[i]
  <2>1. text[i] \in CommandKinds
    <3>1. text[i] \in Symbols
      OBVIOUS
    <3> QED
      BY <3>1, KindsOf
  <2>2. PICK n \in Int :
          n = IF text[i] \in Incrementers THEN RunLength(text, i) ELSE 0
    BY RunLengthType
  <2>3. Commands(text)[i] = Cmd(text[i], n)
    BY <2>2 DEF Commands
  <2> QED
    BY <2>1, <2>3, CmdType
<1>2. Commands(text) = [i \in 1 .. Len(text) |-> Commands(text)[i]]
  BY DEF Commands
<1> QED
  BY <1>1, <1>2

(* What Translate puts around the commands of the text. *)
Head2(text) ==
  <<Cmd(Blank, 0),
    Cmd(">", IF ApShift > Len(text) THEN ApShift ELSE Len(text))>>
Issue(text) == At(Commands(text), Issued(text))

LEMMA TranslateIs ==
  ASSUME NEW source
  PROVE  Translate(source) =
           Head2(Strip(source)) \o Issue(Strip(source)) \o <<Cmd("H", 0)>>
BY DEF Translate, Head2, Issue, Commands, Issued, Blank

LEMMA IssueType ==
  ASSUME NEW text \in Seq(Symbols)
  PROVE  /\ Issue(text) \in Seq(Command)
         /\ \E at : Orders(at, Issue(text), Commands(text), Issued(text),
                           Len(text))
<1>1. Issued(text) \in SUBSET (1 .. Len(Commands(text)))
  BY CommandsType DEF Issued
<1> QED
  BY <1>1, CommandsType, AtType DEF Issue

LEMMA TranslateType ==
  ASSUME NEW source \in Seq(STRING)
  PROVE  /\ Translate(source) \in Seq(Command)
         /\ Len(Translate(source)) = Len(Issue(Strip(source))) + 3
         /\ Len(Translate(source)) <= Len(source) + 3
         /\ \A k \in 1 .. Len(Issue(Strip(source))) :
              Translate(source)[k + 2] = Issue(Strip(source))[k]
         /\ Translate(source)[1].c = Blank /\ Translate(source)[2].c = ">"
         /\ Translate(source)[Len(Translate(source))].c = "H"
         /\ Len(Strip(source)) < ApShift =>
              Translate(source)[2] = Cmd(">", ApShift)
<1>1. PICK text \in Seq(Symbols) : text = Strip(source)
  BY StripType
<1>2. Len(text) <= Len(source) /\ Len(text) \in Int
  BY <1>1, StripType
<1>3. ApShift \in Int
  BY BfCompilerAssumption, WordIsInt
<1>4. PICK h1 \in Command, h2 \in Command :
        /\ Head2(text) = <<h1, h2>> /\ h1.c = Blank /\ h2.c = ">"
        /\ Len(text) < ApShift => h2 = Cmd(">", ApShift)
  <2>1. PICK n \in Int : n = IF ApShift > Len(text) THEN ApShift ELSE Len(text)
    BY <1>2, <1>3
  <2>2. Cmd(Blank, 0) \in Command /\ Cmd(">", n) \in Command
    BY CmdType, KindsOf
  <2>3. Cmd(Blank, 0).c = Blank /\ Cmd(">", n).c = ">"
    BY CmdType, KindsOf
  <2>4. Head2(text) = <<Cmd(Blank, 0), Cmd(">", n)>>
    BY <2>1 DEF Head2
  <2>5. Len(text) < ApShift => n = ApShift
    BY <1>2, <1>3, <2>1
  <2> QED
    BY <2>2, <2>3, <2>4, <2>5
<1>5. PICK h \in Command : h = Cmd("H", 0) /\ h.c = "H"
  BY CmdType, KindsOf
<1>6. PICK list \in Seq(Command) : list = Issue(text) /\ Len(list) <= Len(text)
  BY IssueType DEF Orders
<1>7. PICK front \in Seq(Command), back \in Seq(Command) :
        /\ front = <<h1, h2>> /\ Len(front) = 2
        /\ front[1] = h1 /\ front[2] = h2
        /\ back = <<h>> /\ Len(back) = 1 /\ back[1] = h
  <2>1. <<h1, h2>> \in Seq(Command) /\ <<h>> \in Seq(Command)
    OBVIOUS
  <2> QED
    BY <2>1
<1>8. PICK all \in Seq(Command) :
        /\ all = front \o list \o back
        /\ Len(all) = Len(list) + 3 /\ all[1] = h1 /\ all[2] = h2
        /\ all[Len(list) + 3] = h
        /\ \A k \in 1 .. Len(list) : all[k + 2] = list[k]
  <2>1. PICK mid \in Seq(Command) :
          /\ mid = front \o list /\ Len(mid) = Len(list) + 2
          /\ mid[1] = front[1] /\ mid[2] = front[2]
          /\ \A k \in 1 .. Len(list) : mid[k + 2] = list[k]
    <3>1. PICK mid \in Seq(Command) : mid = front \o list
      BY ConcatProperties
    <3>2. PICK n \in Nat : n = Len(list)
      OBVIOUS
    <3>3. /\ Len(mid) = n + 2
          /\ \A i \in 1 .. n + 2 :
               mid[i] = IF i <= 2 THEN front[i] ELSE list[i - 2]
      BY <1>7, <3>1, <3>2, ConcatProperties
    <3>4. ASSUME NEW k \in 1 .. n PROVE mid[k + 2] = list[k]
      <4>1. PICK i \in 1 .. n + 2 : i = k + 2 /\ ~(i <= 2) /\ i - 2 = k
        BY <3>2
      <4> QED
        BY <3>3, <4>1
    <3>5. mid[1] = front[1] /\ mid[2] = front[2]
      BY <3>2, <3>3
    <3> QED
      BY <3>1, <3>2, <3>3, <3>4, <3>5
  <2>2. PICK all \in Seq(Command) :
          /\ all = mid \o back /\ Len(all) = Len(list) + 3
          /\ \A k \in 1 .. Len(list) + 2 : all[k] = mid[k]
          /\ all[Len(list) + 3] = back[1]
    <3>1. PICK all \in Seq(Command) : all = mid \o back
      BY ConcatProperties
    <3>2. PICK n \in Nat : n = Len(mid) /\ Len(list) + 2 = n
            /\ Len(list) + 3 = n + 1
      BY <2>1
    <3>3. /\ Len(all) = n + 1
          /\ \A i \in 1 .. n + 1 :
               all[i] = IF i <= n THEN mid[i] ELSE back[i - n]
      BY <1>7, <3>1, <3>2, ConcatProperties
    <3>4. all[n + 1] = back[1]
      BY <3>2, <3>3
    <3>5. \A k \in 1 .. n : all[k] = mid[k]
      BY <3>3
    <3>6. 1 .. Len(list) + 2 = 1 .. n /\ all[Len(list) + 3] = all[n + 1]
      BY <3>2
    <3> QED
      BY <3>1, <3>2, <3>3, <3>4, <3>5, <3>6
  <2>3. all = front \o list \o back
    BY <2>1, <2>2
  <2>4. all[1] = h1 /\ all[2] = h2 /\ all[Len(list) + 3] = h
    BY <1>7, <2>1, <2>2
  <2>5. \A k \in 1 .. Len(list) : all[k + 2] = list[k]
    BY <2>1, <2>2
  <2> QED
    BY <2>2, <2>3, <2>4, <2>5
<1>9. all = Translate(source)
  BY <1>1, <1>4, <1>5, <1>6, <1>7, <1>8, TranslateIs
<1>10. /\ Len(all) <= Len(source) + 3
       /\ all[1].c = Blank /\ all[2].c = ">" /\ all[Len(all)].c = "H"
       /\ Len(text) < ApShift => all[2] = Cmd(">", ApShift)
  BY <1>2, <1>4, <1>5, <1>6, <1>8
<1> QED
  BY <1>1, <1>6, <1>8, <1>9, <1>10

KeptPlaces(list) ==
  {i \in DOMAIN list : /\ list[i].c \in Symbols
                       /\ ~Clears(list, i - 1) /\ ~Clears(list, i - 2)}
Cleared(list) ==
  [i \in DOMAIN list |-> IF Clears(list, i) THEN Cmd("0", 0) ELSE list[i]]

LEMMA ClearedType ==
  ASSUME NEW list \in Seq(Command)
  PROVE  Cleared(list) \in Seq(Command) /\ Len(Cleared(list)) = Len(list)
<1>1. Cmd("0", 0) \in Command
  BY CmdType, KindsOf
<1>2. \A i \in 1 .. Len(list) : Cleared(list)[i] \in Command
  BY <1>1 DEF Cleared
<1>3. Cleared(list) = [i \in 1 .. Len(list) |-> Cleared(list)[i]]
  BY DEF Cleared
<1> QED
  BY <1>2, <1>3

LEMMA OptimizeDataClrType ==
  ASSUME NEW list \in Seq(Command)
  PROVE  /\ OptimizeDataClr(list) \in Seq(Command)
         /\ \E at : Orders(at, OptimizeDataClr(list), Cleared(list),
                           KeptPlaces(list), Len(list))
<1>1. KeptPlaces(list) \in SUBSET (1 .. Len(Cleared(list)))
  BY ClearedType DEF KeptPlaces
<1>2. OptimizeDataClr(list) = At(Cleared(list), KeptPlaces(list))
  BY DEF OptimizeDataClr, Cleared, KeptPlaces
<1> QED
  BY <1>1, <1>2, ClearedType, AtType

LEMMA OptimizeType ==
  ASSUME NEW list \in Seq(Command), NEW level
  PROVE  Optimize(list, level) \in Seq(Command)
         /\ Len(Optimize(list, level)) <= Len(list)
<1>1. Len(OptimizeDataClr(list)) <= Len(list)
  BY OptimizeDataClrType DEF Orders
<1> QED
  BY <1>1, OptimizeDataClrType DEF Optimize

LEMMA FindLoopEndType ==
  ASSUME NEW list \in Seq(Command), NEW i \in 1 .. Len(list)
  PROVE  FindLoopEnd(list, i) \in i + 1 .. Len(list) + 1
<1> DEFINE S == {j \in i + 1 .. Len(list) :
                   Brackets(list, "]", i, j) = Brackets(list, "[", i, j)}
                  \union {Len(list) + 1}
<1>1. S \subseteq Nat /\ S # {} /\ S \subseteq i + 1 .. Len(list) + 1
  OBVIOUS
<1>2. Min(S) \in S
  BY <1>1, MinOf
<1>3. FindLoopEnd(list, i) = Min(S)
  BY DEF FindLoopEnd
<1> QED
  BY <1>1, <1>2, <1>3

Opening(list, j) == {i \in Opens(list) : FindLoopEnd(list, i) = j}

(* Linking counts from a bracket to the other one, and leaves the rest.    *)
LEMMA LinkingIs ==
  ASSUME NEW list \in Seq(Command), NEW j \in 1 .. Len(list)
  PROVE  /\ list[j].c = "[" =>
              Linking(list)[j]
                = [list[j] EXCEPT !.bias = Int16(FindLoopEnd(list, j) - j)]
         /\ list[j].c = "]" /\ Opening(list, j) # {} =>
              Linking(list)[j]
                = [list[j] EXCEPT !.bias = Int16(Max(Opening(list, j)) - j)]
         /\ list[j].c # "[" /\ ~(list[j].c = "]" /\ Opening(list, j) # {}) =>
              Linking(list)[j] = list[j]
<1>1. Linking(list)[j] =
        CASE list[j].c = "[" ->
               [list[j] EXCEPT !.bias = Int16(FindLoopEnd(list, j) - j)]
          [] list[j].c = "]" /\ Opening(list, j) # {} ->
               [list[j] EXCEPT !.bias = Int16(Max(Opening(list, j)) - j)]
          [] OTHER -> list[j]
  BY SMTT(30) DEF Linking, Opening
<1>2. list[j].c = "[" =>
        Linking(list)[j]
          = [list[j] EXCEPT !.bias = Int16(FindLoopEnd(list, j) - j)]
  BY <1>1
<1>3. list[j].c = "]" /\ Opening(list, j) # {} =>
        Linking(list)[j]
          = [list[j] EXCEPT !.bias = Int16(Max(Opening(list, j)) - j)]
  BY <1>1
<1>4. list[j].c # "[" /\ ~(list[j].c = "]" /\ Opening(list, j) # {}) =>
        Linking(list)[j] = list[j]
  BY <1>1
<1> QED
  BY <1>2, <1>3, <1>4

LEMMA LinkingType ==
  ASSUME NEW list \in Seq(Command)
  PROVE  /\ Linking(list) \in Seq(Command)
         /\ Len(Linking(list)) = Len(list)
         /\ \A j \in 1 .. Len(list) : Linking(list)[j].c = list[j].c
<1>1. ASSUME NEW j \in 1 .. Len(list)
      PROVE  Linking(list)[j] \in Command /\ Linking(list)[j].c = list[j].c
  <2>1. list[j] \in Command
    OBVIOUS
  <2>2. CASE list[j].c = "["
    <3>1. PICK b \in Word : b = Int16(FindLoopEnd(list, j) - j)
      <4>1. FindLoopEnd(list, j) - j \in Int
        BY FindLoopEndType
      <4> QED
        BY <4>1, Int16Range
    <3>2. Linking(list)[j] = [list[j] EXCEPT !.bias = b]
      BY <2>2, <3>1, LinkingIs
    <3> QED
      BY <2>1, <3>2 DEF Command
  <2>3. CASE list[j].c = "]" /\ Opening(list, j) # {}
    <3>1. PICK b \in Word : b = Int16(Max(Opening(list, j)) - j)
      <4>1. Opening(list, j) \subseteq 0 .. Len(list)
        BY DEF Opening, Opens
      <4>2. Max(Opening(list, j)) \in Opening(list, j)
        BY <2>3, <4>1, MaxOf
      <4>3. Max(Opening(list, j)) - j \in Int
        BY <4>1, <4>2
      <4> QED
        BY <4>3, Int16Range
    <3>2. Linking(list)[j] = [list[j] EXCEPT !.bias = b]
      BY <2>3, <3>1, LinkingIs
    <3> QED
      BY <2>1, <3>2 DEF Command
  <2>4. CASE list[j].c # "[" /\ ~(list[j].c = "]" /\ Opening(list, j) # {})
    BY <2>1, <2>4, LinkingIs
  <2> QED
    BY <2>2, <2>3, <2>4
<1>2. Linking(list) = [j \in 1 .. Len(list) |-> Linking(list)[j]]
  BY DEF Linking
<1> QED
  BY <1>1, <1>2

LEMMA EncodeType ==
  ASSUME NEW list \in Seq(Command)
  PROVE  /\ Encode(list) \in Seq(Word) /\ Len(Encode(list)) = Len(list)
         /\ \A i \in 1 .. Len(list) : Encode(list)[i] = GetCmd(list[i])
<1>1. Encode(list) = [i \in 1 .. Len(list) |-> GetCmd(list[i])]
  BY DEF Encode
<1>2. \A i \in 1 .. Len(list) : GetCmd(list[i]) \in Word
  BY GetCmdRange
<1> QED
  BY <1>1, <1>2

-----------------------------------------------------------------------------
(* The file. *)

(* The recursion of FlattenSeq, which is defined for every sequence. *)
Joined(seqs, f, i) == IF i = 1 THEN seqs[i] ELSE f[i - 1] \o seqs[i]

LEMMA JoinedExists ==
  ASSUME NEW seqs, NEW len \in Nat
  PROVE  \E f : f = [i \in 1 .. len |-> Joined(seqs, f, i)]
<1> DEFINE S == {k \in Nat : \E f : \A i \in 1 .. k : f[i] = Joined(seqs, f, i)}
<1>1. 0 \in S
  OBVIOUS
<1>2. ASSUME NEW k \in S \cap Nat PROVE k + 1 \in S
  <2>1. PICK f : \A i \in 1 .. k : f[i] = Joined(seqs, f, i)
    OBVIOUS
  <2>2. PICK g : g = [i \in 1 .. k + 1 |->
                        IF i <= k THEN f[i] ELSE Joined(seqs, f, i)]
    OBVIOUS
  <2>3. ASSUME NEW i \in 1 .. k + 1 PROVE g[i] = Joined(seqs, f, i)
    BY <2>1, <2>2
  <2>4. ASSUME NEW i \in 1 .. k + 1
        PROVE  Joined(seqs, f, i) = Joined(seqs, g, i)
    <3>1. CASE i = 1
      BY <3>1 DEF Joined
    <3>2. CASE i # 1
      <4>1. i - 1 \in 1 .. k + 1 /\ i - 1 <= k
        BY <3>2
      <4>2. g[i - 1] = f[i - 1]
        BY <2>2, <4>1
      <4> QED
        BY <4>2 DEF Joined
    <3> QED
      BY <3>1, <3>2
  <2>5. \A i \in 1 .. k + 1 : g[i] = Joined(seqs, g, i)
    BY <2>3, <2>4
  <2> QED
    BY <2>5
<1>3. Nat \subseteq S
  <2> HIDE DEF S
  <2> QED
    BY <1>1, <1>2, NatClosed
<1>4. PICK f : \A i \in 1 .. len : f[i] = Joined(seqs, f, i)
  BY <1>3
<1>5. PICK g : g = [i \in 1 .. len |-> f[i]]
  OBVIOUS
<1>6. ASSUME NEW i \in 1 .. len PROVE Joined(seqs, g, i) = f[i]
  <2>1. Joined(seqs, g, i) = Joined(seqs, f, i)
    <3>1. CASE i = 1
      BY <3>1 DEF Joined
    <3>2. CASE i # 1
      <4>1. i - 1 \in 1 .. len
        BY <3>2
      <4>2. g[i - 1] = f[i - 1]
        BY <1>5, <4>1
      <4> QED
        BY <4>2 DEF Joined
    <3> QED
      BY <3>1, <3>2
  <2> QED
    BY <1>4, <2>1
<1>7. g = [i \in 1 .. len |-> Joined(seqs, g, i)]
  BY <1>5, <1>6
<1> QED
  BY <1>7

Joins(f, seqs, n) ==
  /\ f[1] = seqs[1]
  /\ \A i \in 1 .. n : i # 1 => f[i] = f[i - 1] \o seqs[i]

LEMMA FlattenIs ==
  ASSUME NEW seqs, NEW n \in Nat \ {0}, n = Len(seqs)
  PROVE  \E f : FlattenSeq(seqs) = f[n] /\ Joins(f, seqs, n)
<1>1. \E f : f = [i \in 1 .. n |-> Joined(seqs, f, i)]
  BY JoinedExists
<1>2. PICK f : /\ f = [i \in 1 .. n |-> Joined(seqs, f, i)]
               /\ FlattenSeq(seqs) = f[n]
  BY <1>1 DEF FlattenSeq, Joined
<1>3. \A i \in 1 .. n : f[i] = Joined(seqs, f, i)
  BY <1>2
<1>4. f[1] = seqs[1]
  <2>1. 1 \in 1 .. n
    OBVIOUS
  <2> QED
    BY <1>3, <2>1 DEF Joined
<1>5. \A i \in 1 .. n : i # 1 => f[i] = f[i - 1] \o seqs[i]
  BY <1>3 DEF Joined
<1> QED
  BY <1>2, <1>4, <1>5 DEF Joins

LEMMA FlattenOne ==
  ASSUME NEW s
  PROVE  FlattenSeq(<<s>>) = s
<1>1. PICK n \in Nat \ {0} : n = Len(<<s>>) /\ n = 1
  OBVIOUS
<1>2. PICK f : FlattenSeq(<<s>>) = f[n] /\ Joins(f, <<s>>, n)
  BY ONLY <1>1, FlattenIs
<1>3. f[1] = <<s>>[1]
  BY <1>2 DEF Joins
<1> QED
  BY <1>1, <1>2, <1>3

LEMMA FlattenTwo ==
  ASSUME NEW s, NEW t
  PROVE  FlattenSeq(<<s, t>>) = s \o t
<1>1. PICK n \in Nat \ {0} : n = Len(<<s, t>>) /\ n = 2
  OBVIOUS
<1>2. PICK f : FlattenSeq(<<s, t>>) = f[n] /\ Joins(f, <<s, t>>, n)
  BY ONLY <1>1, FlattenIs
<1>3. f[1] = <<s, t>>[1]
  BY <1>2 DEF Joins
<1>4. f[2] = f[2 - 1] \o <<s, t>>[2]
  <2>1. 2 \in 1 .. n /\ 2 # 1
    BY <1>1
  <2> QED
    BY <1>2, <2>1 DEF Joins
<1>5. f[n] = f[1] \o <<s, t>>[2]
  BY <1>1, <1>4
<1>6. <<s, t>>[1] = s /\ <<s, t>>[2] = t
  OBVIOUS
<1> QED
  BY <1>2, <1>3, <1>5, <1>6

(* A file of several parts begins with the first of them. *)
LEMMA FlattenFirst ==
  ASSUME NEW A, NEW seqs \in Seq(Seq(A)), seqs # <<>>, seqs[1] # <<>>
  PROVE  FlattenSeq(seqs) # <<>> /\ FlattenSeq(seqs)[1] = seqs[1][1]
<1>1. PICK n \in Nat \ {0} : n = Len(seqs)
  OBVIOUS
<1>2. PICK f : FlattenSeq(seqs) = f[n] /\ Joins(f, seqs, n)
  BY ONLY <1>1, FlattenIs
<1> DEFINE First(s) == s \in Seq(A) /\ Len(s) >= 1 /\ s[1] = seqs[1][1]
           S == {k \in Nat : k # 0 /\ k <= n => First(f[k])}
<1>3. 0 \in S
  OBVIOUS
<1>4. ASSUME NEW k \in S \cap Nat PROVE k + 1 \in S
  <2>1. SUFFICES ASSUME NEW i \in 1 .. n, i = k + 1 PROVE First(f[i])
    BY <1>1
  <2>2. CASE i = 1
    <3>1. seqs[1] \in Seq(A) /\ Len(seqs[1]) >= 1
      BY <1>1
    <3> QED
      BY <1>2, <2>2, <3>1 DEF Joins
  <2>3. CASE i # 1
    <3>1. PICK m \in 1 .. n : m = i - 1 /\ m = k /\ m # 0 /\ m <= n
      BY <2>1, <2>3
    <3>2. f[i] = f[m] \o seqs[i]
      BY <1>2, <2>3, <3>1 DEF Joins
    <3>3. First(f[m])
      BY <3>1
    <3>4. seqs[i] \in Seq(A)
      BY <1>1
    <3>5. PICK s \in Seq(A), t \in Seq(A) : s = f[m] /\ t = seqs[i]
      BY <3>3, <3>4
    <3>6. Len(s) >= 1 /\ s[1] = seqs[1][1] /\ Len(t) \in Nat /\ Len(s) \in Nat
      BY <3>3, <3>5
    <3>7. PICK u \in Seq(A) : u = s \o t
      BY ConcatProperties
    <3>8. Len(u) = Len(s) + Len(t) /\ u[1] = s[1]
      BY <3>6, <3>7, ConcatProperties
    <3>9. f[i] = u
      BY <3>2, <3>5, <3>7
    <3> QED
      BY <3>6, <3>7, <3>8, <3>9
  <2> QED
    BY <2>2, <2>3
<1>5. Nat \subseteq S
  <2> HIDE DEF S
  <2> QED
    BY <1>3, <1>4, NatClosed
<1>6. First(f[n])
  BY <1>1, <1>5
<1> QED
  BY <1>2, <1>6

(* The image of a list, section by section. *)
LEMMA NewImageIs ==
  ASSUME NEW list \in Seq(Command), NEW image, image = NewImage(list),
         NEW n \in Nat, n = Len(list)
  PROVE  /\ image.IpEntry = 0
         /\ image.ApEntry = ApEntry(n) /\ image.ApEntry \in Word
         /\ image.Sections = <<CodeSection(list), DataSection(n)>>
         /\ Len(image.Sections) = 2 /\ DOMAIN image.Sections = 1 .. 2
         /\ image.Sections[1] = CodeSection(list)
         /\ image.Sections[2] = DataSection(n)
<1>1. ApEntry(n) \in Word
  <2>1. PICK x \in Int : x = (MEMORY_PTR_MAX \div 2) - (n \div 2)
    <3>1. MEMORY_PTR_MAX \in Int
      BY Sizes DEF MEMORY_PTR_MAX
    <3>2. PICK y \in Int, z \in Int : y = MEMORY_PTR_MAX \div 2 /\ z = n \div 2
      BY <3>1
    <3> QED
      BY <3>2
  <2> QED
    BY <2>1, Int16Range DEF ApEntry
<1> QED
  BY <1>1 DEF NewImage

LEMMA CodeSectionIs ==
  ASSUME NEW list \in Seq(Command), NEW n \in Nat, n = Len(list)
  PROVE  LET code == CodeSection(list) IN
         /\ code.type = 1
         /\ code.MemoryBase = 0 /\ code.MemorySize = Int16(n)
         /\ code.FileSize = Int16(2 * n) /\ code.Data = Encode(list)
<1>1. Len(Encode(list)) = n
  BY EncodeType
<1>2. 0 \in Word
  BY Sizes DEF Word
<1>3. Int16(0) = 0
  BY <1>2, Int16Word
<1> QED
  BY <1>1, <1>3 DEF CodeSection, Section, SECTION_CODE

LEMMA DataSectionIs ==
  ASSUME NEW n \in Nat
  PROVE  LET data == DataSection(n) IN
         /\ data.type = 2
         /\ data.MemoryBase = Int16(n)
         /\ data.MemorySize = Int16(MEMORY_PTR_MAX - n)
         /\ data.FileSize = 0 /\ data.Data = <<>>
<1>1. 0 \in Word
  BY Sizes DEF Word
<1>2. Int16(2 * Len(<<>>)) = 0
  BY <1>1, Int16Word
<1> QED
  BY <1>2 DEF DataSection, Section, SECTION_DATA

(* The file has no more words of the code than the list has commands.      *)
LEMMA StoredIs ==
  ASSUME NEW list \in Seq(Command), NEW n \in Nat, n = Len(list)
  PROVE  \E m \in 0 .. n :
           /\ m = Int16(2 * n) \div 2
           /\ 2 * n < WordSize => m = n
           /\ Stored(CodeSection(list)) \in Seq(Word)
           /\ Len(Stored(CodeSection(list))) = m
           /\ \A i \in 1 .. m :
                Stored(CodeSection(list))[i] = swapLEtoBE(GetCmd(list[i]))
<1>1. PICK w \in Word : w = Int16(2 * n) /\ w <= 2 * n
                          /\ (2 * n < WordSize => w = 2 * n)
  <2>1. PICK x \in Nat : x = 2 * n
    OBVIOUS
  <2>2. PICK q \in Int, r \in 0 .. WordSize - 1 :
          x = q * WordSize + r /\ x % WordSize = r
    <3>1. PICK k \in Nat \ {0} : k = WordSize
      BY Sizes
    <3>2. x \in Int
      OBVIOUS
    <3> QED
      BY <3>1, <3>2, ModExists
  <2>3. ~(q <= -1)
    <3>1. q <= -1 => q * WordSize <= -WordSize
      BY Sizes, Multiple
    <3> QED
      BY <2>1, <2>2, <3>1, Sizes
  <2>4. q * WordSize >= 0
    BY <2>3, Sizes, Multiple
  <2>5. r \in Word /\ r = Int16(x) /\ r <= x
    BY <2>2, <2>4, Sizes, Multiple DEF Int16, Word
  <2>6. x < WordSize => Int16(x) = x
    <3>1. x < WordSize => x \in Word
      BY Sizes DEF Word
    <3> QED
      BY <3>1, Int16Word
  <2> QED
    BY <2>1, <2>5, <2>6
<1>2. PICK m \in 0 .. n : m = w \div 2 /\ (2 * n < WordSize => m = n)
  BY <1>1, Sizes DEF Word
<1>3. Stored(CodeSection(list))
        = [i \in 1 .. m |-> swapLEtoBE(Encode(list)[i])]
  <2>1. CodeSection(list).FileSize = w /\ CodeSection(list).Data = Encode(list)
    BY <1>1, CodeSectionIs
  <2> QED
    BY <1>2, <2>1 DEF Stored
<1>4. ASSUME NEW i \in 1 .. m
      PROVE  /\ swapLEtoBE(Encode(list)[i]) \in Word
             /\ Encode(list)[i] = GetCmd(list[i])
  <2>1. i \in 1 .. Len(list)
    BY <1>2
  <2> QED
    BY <2>1, EncodeType, GetCmdRange, SwapRange
<1>5. PICK stored : stored = Stored(CodeSection(list))
  OBVIOUS
<1>6. /\ stored \in Seq(Word) /\ Len(stored) = m
      /\ \A i \in 1 .. m : stored[i] = swapLEtoBE(Encode(list)[i])
  BY <1>3, <1>4, <1>5
<1>7. \A i \in 1 .. m : stored[i] = swapLEtoBE(GetCmd(list[i]))
  BY <1>4, <1>6
<1>8. m = Int16(2 * n) \div 2 /\ (2 * n < WordSize => m = n)
  BY <1>1, <1>2
<1> QED
  BY <1>5, <1>6, <1>7, <1>8

(* Small numbers are words. *)
LEMMA SmallWords ==
  ASSUME NEW v \in 0 .. 255
  PROVE  v \in Word /\ Int16(v) = v
<1>1. v \in Word
  BY Sizes DEF Word
<1> QED
  BY <1>1, Int16Word

LEMMA FieldWords ==
  0 \in Word /\ 1 \in Word /\ 2 \in Word /\ 30 \in Word /\ 66 \in Word
BY Sizes DEF Word

(* The data of the code follow the headers.                                *)
LEMMA FileBaseIs ==
  ASSUME NEW list \in Seq(Command), NEW image, image = NewImage(list)
  PROVE  FileBase(image, 1) = 30 /\ FileBase(image, 2) \in Word
<1>1. PICK n \in Nat : n = Len(list)
  OBVIOUS
<1>2. Len(image.Sections) = 2
  BY <1>1, NewImageIs
<1>3. FileBase(image, 1) = 30
  <2>1. PICK before :
          before = FlattenSeq([t \in 1 .. 1 - 1 |-> Stored(image.Sections[t])])
    OBVIOUS
  <2>2. Len(before) = 0
    <3>1. PICK none : none = [t \in 1 .. 1 - 1 |-> Stored(image.Sections[t])]
            /\ Len(none) = 0
      OBVIOUS
    <3> QED
      BY <2>1, <3>1 DEF FlattenSeq
  <2>3. FileBase(image, 1) = Int16(10 + 10 * 2 + 2 * 0)
    BY <1>2, <2>1, <2>2 DEF FileBase
  <2> QED
    BY <2>3, SmallWords
<1>4. FileBase(image, 2) \in Word
  <2>1. PICK stored \in Seq(Word) : stored = Stored(image.Sections[1])
    BY <1>1, NewImageIs, StoredIs
  <2>2. [t \in 1 .. 2 - 1 |-> Stored(image.Sections[t])] = <<stored>>
    BY <2>1
  <2>3. FileBase(image, 2) = Int16(10 + 10 * 2 + 2 * Len(stored))
    BY <1>2, <2>2, FlattenOne DEF FileBase
  <2>4. 10 + 10 * 2 + 2 * Len(stored) \in Int
    OBVIOUS
  <2> QED
    BY <2>3, <2>4, Int16Range
<1> QED
  BY <1>3, <1>4

(* The fields of the header of an image, and of each of its sections.      *)
LEMMA ImageHeaderIs ==
  ASSUME NEW list \in Seq(Command), NEW image, image = NewImage(list)
  PROVE  LET h == ImageHeader(image) IN
         /\ h \in Seq(Word) /\ Len(h) = 5
         /\ h[1] = swapLEtoBE(66) /\ h[3] = 2
         /\ h[4] = swapLEtoBE(0) /\ h[5] = swapLEtoBE(ApEntry(Len(list)))
<1>1. PICK n \in Nat : n = Len(list)
  OBVIOUS
<1>2. /\ Len(image.Sections) = 2 /\ image.IpEntry = 0
      /\ image.ApEntry = ApEntry(n) /\ ApEntry(n) \in Word
  BY <1>1, NewImageIs
<1>3. PICK a \in Word, b \in Word, c \in Word, d \in Word, e \in Word :
        /\ a = swapLEtoBE(66) /\ b = 30 /\ c = 2 /\ d = swapLEtoBE(0)
        /\ e = swapLEtoBE(ApEntry(n))
  BY <1>2, FieldWords, SwapRange
<1>4. ImageHeader(image) = <<a, b, c, d, e>>
  BY <1>2, <1>3 DEF ImageHeader, BF_MAGIC
<1>5. <<a, b, c, d, e>> \in Seq(Word)
  OBVIOUS
<1> QED
  BY <1>1, <1>3, <1>4, <1>5

LEMMA SectionHeaderIs ==
  ASSUME NEW list \in Seq(Command), NEW image, image = NewImage(list),
         NEW s \in 1 .. 2
  PROVE  LET h == SectionHeader(image, s)
             section == image.Sections[s]
         IN  /\ h \in Seq(Word) /\ Len(h) = 5
             /\ h[1] = swapLEtoBE(FileBase(image, s))
             /\ h[2] = swapLEtoBE(section.MemoryBase)
             /\ h[3] = swapLEtoBE(section.FileSize)
             /\ h[4] = swapLEtoBE(section.MemorySize)
             /\ h[5] = swapLEtoBE(section.type)
<1>1. PICK n \in Nat : n = Len(list)
  OBVIOUS
<1>2. PICK section : section = image.Sections[s]
  OBVIOUS
<1>3. FileBase(image, s) \in Word
  <2>1. FileBase(image, 1) \in Word /\ FileBase(image, 2) \in Word
    BY FileBaseIs, FieldWords
  <2>2. s = 1 \/ s = 2
    OBVIOUS
  <2> QED
    BY <2>1, <2>2
<1>4. /\ section.MemoryBase \in Word /\ section.FileSize \in Word
      /\ section.MemorySize \in Word /\ section.type \in Word
  <2>1. CASE s = 1
    <3>1. Int16(n) \in Word /\ Int16(2 * n) \in Word
      BY Int16Range
    <3>2. section = CodeSection(list)
      BY <1>1, <1>2, <2>1, NewImageIs
    <3> QED
      BY <1>1, <3>1, <3>2, CodeSectionIs, FieldWords
  <2>2. CASE s = 2
    <3>1. MEMORY_PTR_MAX - n \in Int
      BY Sizes DEF MEMORY_PTR_MAX
    <3>2. Int16(n) \in Word /\ Int16(MEMORY_PTR_MAX - n) \in Word
      BY <3>1, Int16Range
    <3>3. section = DataSection(n)
      BY <1>1, <1>2, <2>2, NewImageIs
    <3> QED
      BY <3>2, <3>3, DataSectionIs, FieldWords
  <2> QED
    BY <2>1, <2>2
<1>5. PICK a \in Word, b \in Word, c \in Word, d \in Word, e \in Word :
        /\ a = FileBase(image, s) /\ b = section.MemoryBase
        /\ c = section.FileSize /\ d = section.MemorySize
        /\ e = section.type
  BY <1>3, <1>4
<1>6. PICK fields \in Seq(Word) : fields = <<a, b, c, d, e>>
        /\ Len(fields) = 5 /\ fields[1] = a /\ fields[2] = b
        /\ fields[3] = c /\ fields[4] = d /\ fields[5] = e
  <2>1. <<a, b, c, d, e>> \in Seq(Word)
    OBVIOUS
  <2> QED
    BY <2>1
<1>7. SectionHeader(image, s)
        = [i \in 1 .. 5 |-> swapLEtoBE(fields[i])]
  BY <1>2, <1>5, <1>6 DEF SectionHeader
<1>8. \A i \in 1 .. 5 : swapLEtoBE(fields[i]) \in Word
  BY <1>6, SwapRange
<1>9. PICK h \in Seq(Word) : h = SectionHeader(image, s) /\ Len(h) = 5
        /\ \A i \in 1 .. 5 : h[i] = swapLEtoBE(fields[i])
  <2>1. PICK h : h = SectionHeader(image, s)
    OBVIOUS
  <2>2. h \in Seq(Word) /\ Len(h) = 5
    BY <1>7, <1>8, <2>1
  <2>3. \A i \in 1 .. 5 : h[i] = swapLEtoBE(fields[i])
    BY <1>7, <2>1
  <2> QED
    BY <2>1, <2>2, <2>3
<1>10. /\ 1 \in 1 .. 5 /\ 2 \in 1 .. 5 /\ 3 \in 1 .. 5
       /\ 4 \in 1 .. 5 /\ 5 \in 1 .. 5
  OBVIOUS
<1> QED
  BY <1>2, <1>5, <1>6, <1>9, <1>10

LEMMA ConcatAt ==
  ASSUME NEW A, NEW s \in Seq(A), NEW t \in Seq(A)
  PROVE  /\ s \o t \in Seq(A) /\ Len(s \o t) = Len(s) + Len(t)
         /\ \A i \in 1 .. Len(s) : (s \o t)[i] = s[i]
         /\ \A i \in 1 .. Len(t) : (s \o t)[Len(s) + i] = t[i]
<1>1. PICK u \in Seq(A) : u = s \o t
  BY ConcatProperties
<1>2. PICK m \in Nat, n \in Nat : m = Len(s) /\ n = Len(t)
  OBVIOUS
<1>3. /\ Len(u) = m + n
      /\ \A i \in 1 .. m + n : u[i] = IF i <= m THEN s[i] ELSE t[i - m]
  BY <1>1, <1>2, ConcatProperties
<1>4. ASSUME NEW i \in 1 .. n PROVE u[m + i] = t[i]
  <2>1. PICK j \in 1 .. m + n : j = m + i /\ ~(j <= m) /\ j - m = i
    OBVIOUS
  <2> QED
    BY <1>3, <2>1
<1>5. \A i \in 1 .. m : u[i] = s[i]
  BY <1>3
<1> QED
  BY <1>1, <1>2, <1>3, <1>4, <1>5

(* What is where in the file of an image.                                  *)
LEMMA WriteIs ==
  ASSUME NEW list \in Seq(Command), NEW image, image = NewImage(list),
         NEW m \in Nat, m = Len(Stored(CodeSection(list)))
  PROVE  LET all == Write(image) IN
         /\ all \in Seq(Word) /\ Len(all) = 15 + m
         /\ \A i \in 1 .. 5 : all[i] = ImageHeader(image)[i]
         /\ \A i \in 1 .. 5 : all[5 + i] = SectionHeader(image, 1)[i]
         /\ \A i \in 1 .. 5 : all[10 + i] = SectionHeader(image, 2)[i]
         /\ \A i \in 1 .. m : all[15 + i] = Stored(CodeSection(list))[i]
<1>1. PICK n \in Nat : n = Len(list)
  OBVIOUS
<1>2. PICK h \in Seq(Word) : h = ImageHeader(image) /\ Len(h) = 5
  BY ImageHeaderIs
<1>3. PICK h1 \in Seq(Word), h2 \in Seq(Word) :
        /\ h1 = SectionHeader(image, 1) /\ Len(h1) = 5
        /\ h2 = SectionHeader(image, 2) /\ Len(h2) = 5
  <2>1. 1 \in 1 .. 2 /\ 2 \in 1 .. 2
    OBVIOUS
  <2> QED
    BY <2>1, SectionHeaderIs
<1>4. PICK d \in Seq(Word) : d = Stored(CodeSection(list)) /\ Len(d) = m
  BY <1>1, StoredIs
<1>5. /\ DOMAIN image.Sections = 1 .. 2
      /\ image.Sections[1] = CodeSection(list)
      /\ image.Sections[2] = DataSection(n)
  BY <1>1, NewImageIs
<1>6. Stored(DataSection(n)) = <<>>
  <2>1. DataSection(n).FileSize = 0 /\ 0 \div 2 = 0
    BY DataSectionIs
  <2> QED
    BY <2>1 DEF Stored
<1>7. [s \in DOMAIN image.Sections |-> SectionHeader(image, s)] = <<h1, h2>>
  BY <1>3, <1>5
<1>8. [s \in DOMAIN image.Sections |-> Stored(image.Sections[s])] = <<d, <<>> >>
  <2>1. [s \in 1 .. 2 |-> Stored(image.Sections[s])]
          = <<Stored(image.Sections[1]), Stored(image.Sections[2])>>
    OBVIOUS
  <2> QED
    BY <1>4, <1>5, <1>6, <2>1
<1>9. FlattenSeq(<<h1, h2>>) = h1 \o h2 /\ FlattenSeq(<<d, <<>> >>) = d
  BY FlattenTwo, ConcatEmptySeq
<1>10. Write(image) = (h \o (h1 \o h2)) \o d
  BY <1>2, <1>7, <1>8, <1>9 DEF Write
<1>11. PICK g \in Seq(Word) : g = h1 \o h2
  BY ConcatProperties
<1>12. Len(g) = Len(h1) + Len(h2)
  BY <1>11, ConcatAt
<1>13. (\A i \in 1 .. Len(h1) : g[i] = h1[i])
         /\ (\A i \in 1 .. Len(h2) : g[Len(h1) + i] = h2[i])
  BY <1>11, ConcatAt
<1>14. PICK f \in Seq(Word) : f = h \o g
  BY ConcatProperties
<1>15. Len(f) = Len(h) + Len(g)
  BY <1>14, ConcatAt
<1>16. (\A i \in 1 .. Len(h) : f[i] = h[i])
         /\ (\A i \in 1 .. Len(g) : f[Len(h) + i] = g[i])
  BY <1>14, ConcatAt
<1>17. PICK all \in Seq(Word) : all = f \o d
  BY ConcatProperties
<1>18. Len(all) = Len(f) + Len(d)
  BY <1>17, ConcatAt
<1>19. (\A i \in 1 .. Len(f) : all[i] = f[i])
         /\ (\A i \in 1 .. Len(d) : all[Len(f) + i] = d[i])
  BY <1>17, ConcatAt
<1>20. all = Write(image)
  BY <1>10, <1>11, <1>14, <1>17
<1>21. Len(g) = 10 /\ Len(f) = 15 /\ Len(all) = 15 + m
  BY <1>2, <1>3, <1>4, <1>12, <1>15, <1>18
<1>22. /\ \A i \in 1 .. 5 : g[i] = h1[i]
       /\ \A i \in 1 .. 5 : g[5 + i] = h2[i]
  BY <1>3, <1>13
<1>23. /\ \A i \in 1 .. 5 : f[i] = h[i]
       /\ \A i \in 1 .. 10 : f[5 + i] = g[i]
  BY <1>2, <1>16, <1>21
<1>24. /\ \A i \in 1 .. 15 : all[i] = f[i]
       /\ \A i \in 1 .. m : all[15 + i] = d[i]
  BY <1>4, <1>19, <1>21
<1>25. \A i \in 1 .. 5 : all[i] = h[i]
  <2>1. \A i \in 1 .. 5 : i \in 1 .. 15
    OBVIOUS
  <2> QED
    BY <1>23, <1>24, <2>1
<1>26. ASSUME NEW i \in 1 .. 5
       PROVE  all[5 + i] = h1[i] /\ all[10 + i] = h2[i]
  <2>1. PICK j \in 1 .. 10, k \in 1 .. 10 : j = i /\ k = 5 + i
    OBVIOUS
  <2>2. PICK a \in 1 .. 15, b \in 1 .. 15 :
          a = 5 + i /\ a = 5 + j /\ b = 5 + k /\ b = 10 + i
    BY <2>1
  <2>3. g[j] = h1[i] /\ g[k] = h2[i]
    BY <1>22, <2>1
  <2>4. f[a] = g[j] /\ f[b] = g[k]
    BY <1>23, <2>2
  <2>5. all[a] = f[a] /\ all[b] = f[b]
    BY <1>24
  <2> QED
    BY <2>2, <2>3, <2>4, <2>5
<1> QED
  BY <1>2, <1>3, <1>4, <1>20, <1>21, <1>24, <1>25, <1>26

(* What bfrun reads is what bfpp wrote.                                    *)
LEMMA ReadSectionIs ==
  ASSUME NEW list \in Seq(Command), NEW n \in Nat, n = Len(list),
         NEW all, all = Write(NewImage(list))
  PROVE  /\ LET code == ReadSection(all, 10) IN
            /\ code.MemoryBase = 0 /\ code.MemorySize = Int16(n)
            /\ code.FileSize = Int16(2 * n)
            /\ code.Data \in Seq(Word)
            /\ Len(code.Data) <= n
            /\ 2 * n < WordSize => Len(code.Data) = n
            /\ \A i \in 1 .. Len(code.Data) : code.Data[i] = GetCmd(list[i])
         /\ LET data == ReadSection(all, 20) IN
            /\ data.MemoryBase = Int16(n)
            /\ data.MemorySize = Int16(MEMORY_PTR_MAX - n)
            /\ data.FileSize = 0
<1>1. PICK image : image = NewImage(list)
  OBVIOUS
<1>2. PICK m \in 0 .. n, stored \in Seq(Word) :
        /\ stored = Stored(CodeSection(list))
        /\ m = Int16(2 * n) \div 2
        /\ 2 * n < WordSize => m = n
        /\ Len(stored) = m
        /\ \A i \in 1 .. m : stored[i] = swapLEtoBE(GetCmd(list[i]))
  BY StoredIs
<1>3. PICK h1, h2 :
        /\ h1 = SectionHeader(image, 1) /\ h2 = SectionHeader(image, 2)
  OBVIOUS
<1>4. /\ \A i \in 1 .. 5 : all[5 + i] = h1[i]
      /\ \A i \in 1 .. 5 : all[10 + i] = h2[i]
      /\ \A i \in 1 .. m : all[15 + i] = stored[i]
  <2>1. PICK k \in Nat : k = Len(Stored(CodeSection(list))) /\ k = m
    BY <1>2
  <2>2. /\ \A i \in 1 .. 5 : all[5 + i] = h1[i]
        /\ \A i \in 1 .. 5 : all[10 + i] = h2[i]
        /\ \A i \in 1 .. k : all[15 + i] = Stored(CodeSection(list))[i]
    BY <1>1, <1>3, <2>1, WriteIs
  <2> QED
    BY <1>2, <2>1, <2>2
<1>5. /\ all[6] = h1[1] /\ all[7] = h1[2] /\ all[8] = h1[3] /\ all[9] = h1[4]
      /\ all[12] = h2[2] /\ all[13] = h2[3] /\ all[14] = h2[4]
  <2>1. /\ all[5 + 1] = h1[1] /\ all[5 + 2] = h1[2] /\ all[5 + 3] = h1[3]
        /\ all[5 + 4] = h1[4] /\ all[10 + 2] = h2[2] /\ all[10 + 3] = h2[3]
        /\ all[10 + 4] = h2[4]
    BY <1>4
  <2> QED
    BY <2>1
<1>6. PICK code, data : code = image.Sections[1] /\ data = image.Sections[2]
        /\ code = CodeSection(list) /\ data = DataSection(n)
  BY <1>1, NewImageIs
<1>7. /\ h1[1] = swapLEtoBE(30) /\ h1[2] = swapLEtoBE(code.MemoryBase)
      /\ h1[3] = swapLEtoBE(code.FileSize)
      /\ h1[4] = swapLEtoBE(code.MemorySize)
  <2>1. PICK s \in 1 .. 2 : s = 1
    OBVIOUS
  <2>2. LET h == SectionHeader(image, s)
            section == image.Sections[s]
        IN  /\ h[1] = swapLEtoBE(FileBase(image, s))
            /\ h[2] = swapLEtoBE(section.MemoryBase)
            /\ h[3] = swapLEtoBE(section.FileSize)
            /\ h[4] = swapLEtoBE(section.MemorySize)
    BY <1>1, SectionHeaderIs
  <2>3. FileBase(image, s) = 30
    BY <1>1, <2>1, FileBaseIs
  <2> QED
    BY <1>3, <1>6, <2>1, <2>2, <2>3
<1>8. /\ h2[2] = swapLEtoBE(data.MemoryBase)
      /\ h2[3] = swapLEtoBE(data.FileSize)
      /\ h2[4] = swapLEtoBE(data.MemorySize)
  <2>1. PICK s \in 1 .. 2 : s = 2
    OBVIOUS
  <2>2. LET h == SectionHeader(image, s)
            section == image.Sections[s]
        IN  /\ h[2] = swapLEtoBE(section.MemoryBase)
            /\ h[3] = swapLEtoBE(section.FileSize)
            /\ h[4] = swapLEtoBE(section.MemorySize)
    BY <1>1, SectionHeaderIs
  <2> QED
    BY <1>3, <1>6, <2>1, <2>2
<1>9. /\ code.MemoryBase = 0 /\ code.MemorySize = Int16(n)
      /\ code.FileSize = Int16(2 * n)
      /\ data.MemoryBase = Int16(n)
      /\ data.MemorySize = Int16(MEMORY_PTR_MAX - n)
      /\ data.FileSize = 0
  BY <1>6, CodeSectionIs, DataSectionIs
<1>10. /\ 30 \in Word /\ 0 \in Word
       /\ Int16(n) \in Word /\ Int16(2 * n) \in Word
       /\ Int16(MEMORY_PTR_MAX - n) \in Word
  <2>1. MEMORY_PTR_MAX - n \in Int
    BY Sizes DEF MEMORY_PTR_MAX
  <2> QED
    BY <2>1, Int16Range, FieldWords
<1>11. /\ Field(all, 10) = 30 /\ Field(all, 12) = 0
       /\ Field(all, 14) = Int16(2 * n) /\ Field(all, 16) = Int16(n)
  <2>1. /\ Field(all, 10) = swapLEtoBE(all[6])
        /\ Field(all, 12) = swapLEtoBE(all[7])
        /\ Field(all, 14) = swapLEtoBE(all[8])
        /\ Field(all, 16) = swapLEtoBE(all[9])
    BY DEF Field
  <2> QED
    BY <1>5, <1>7, <1>9, <1>10, <2>1, SwapTwice
<1>12. /\ Field(all, 22) = Int16(n) /\ Field(all, 24) = 0
       /\ Field(all, 26) = Int16(MEMORY_PTR_MAX - n)
  <2>1. /\ Field(all, 22) = swapLEtoBE(all[12])
        /\ Field(all, 24) = swapLEtoBE(all[13])
        /\ Field(all, 26) = swapLEtoBE(all[14])
    BY DEF Field
  <2> QED
    BY <1>5, <1>8, <1>9, <1>10, <2>1, SwapTwice
<1>13. ASSUME NEW i \in 1 .. m
       PROVE  Field(all, 30 + 2 * (i - 1)) = GetCmd(list[i])
                /\ GetCmd(list[i]) \in Word
  <2>1. PICK w \in Word : w = GetCmd(list[i])
    <3>1. list[i] \in Command
      OBVIOUS
    <3> QED
      BY <3>1, GetCmdRange
  <2>2. all[15 + i] = swapLEtoBE(w)
    BY <1>2, <1>4, <2>1
  <2>3. (30 + 2 * (i - 1)) \div 2 + 1 = 15 + i
    OBVIOUS
  <2>4. Field(all, 30 + 2 * (i - 1)) = swapLEtoBE(swapLEtoBE(w))
    BY <2>2, <2>3 DEF Field
  <2> QED
    BY <2>1, <2>4, SwapTwice
<1>14. PICK words : words = [i \in 1 .. m |-> GetCmd(list[i])]
         /\ words \in Seq(Word) /\ Len(words) = m
         /\ \A i \in 1 .. m : words[i] = GetCmd(list[i])
  <2>1. PICK words : words = [i \in 1 .. m |-> GetCmd(list[i])]
    OBVIOUS
  <2>2. words \in Seq(Word) /\ Len(words) = m
    BY <1>13, <2>1
  <2>3. \A i \in 1 .. m : words[i] = GetCmd(list[i])
    BY <2>1
  <2> QED
    BY <2>1, <2>2, <2>3
<1>15. ReadSection(all, 10)
         = [MemoryBase |-> 0, MemorySize |-> Int16(n),
            FileSize |-> Int16(2 * n), Data |-> words]
  <2>1. PICK size, base : size = Field(all, 10 + 4) /\ base = Field(all, 10)
          /\ size = Int16(2 * n) /\ base = 30 /\ size \div 2 = m
    BY <1>2, <1>11
  <2>2. [i \in 1 .. size \div 2 |-> Field(all, base + 2 * (i - 1))] = words
    BY <1>13, <1>14, <2>1
  <2>3. Field(all, 10 + 2) = 0 /\ Field(all, 10 + 6) = Int16(n)
    BY <1>11
  <2> QED
    BY <2>1, <2>2, <2>3 DEF ReadSection
<1>16. /\ ReadSection(all, 20).MemoryBase = Int16(n)
       /\ ReadSection(all, 20).MemorySize = Int16(MEMORY_PTR_MAX - n)
       /\ ReadSection(all, 20).FileSize = 0
  BY <1>12 DEF ReadSection
<1>17. PICK section : section = ReadSection(all, 10)
         /\ section.MemoryBase = 0 /\ section.MemorySize = Int16(n)
         /\ section.FileSize = Int16(2 * n) /\ section.Data = words
  BY <1>15
<1> QED
  BY <1>2, <1>14, <1>16, <1>17

LEMMA ReadImageIs ==
  ASSUME NEW list \in Seq(Command), NEW n \in Nat, n = Len(list),
         NEW all, all = Write(NewImage(list))
  PROVE  /\ Good(all) /\ ~Wrong(all)
         /\ ReadImage(all).IpEntry = 0 /\ ReadImage(all).ApEntry = ApEntry(n)
         /\ ReadImage(all).Sections
              = <<ReadSection(all, 10), ReadSection(all, 20)>>
<1>1. PICK image : image = NewImage(list)
  OBVIOUS
<1>2. PICK h \in Seq(Word) : h = ImageHeader(image)
        /\ h[1] = swapLEtoBE(66) /\ h[3] = 2
        /\ h[4] = swapLEtoBE(0) /\ h[5] = swapLEtoBE(ApEntry(n))
  BY <1>1, ImageHeaderIs
<1>3. PICK m \in Nat : m = Len(Stored(CodeSection(list)))
  BY StoredIs
<1>4. \A i \in 1 .. 5 : all[i] = h[i]
  BY <1>1, <1>2, <1>3, WriteIs
<1>5. all \in Seq(Word) /\ Len(all) = 15 + m
  BY <1>1, <1>3, WriteIs
<1>6. all[1] = h[1] /\ all[3] = h[3] /\ all[4] = h[4] /\ all[5] = h[5]
  BY <1>4
<1>7. ApEntry(n) \in Word
  BY NewImageIs
<1>8. /\ Field(all, 0) = swapLEtoBE(all[1]) /\ Byte(all, 4) = all[3]
      /\ Field(all, 6) = swapLEtoBE(all[4])
      /\ Field(all, 8) = swapLEtoBE(all[5])
  BY DEF Field, Byte
<1>9. /\ Field(all, 0) = 66 /\ Byte(all, 4) = 2
      /\ Field(all, 6) = 0 /\ Field(all, 8) = ApEntry(n)
  BY <1>2, <1>6, <1>7, <1>8, FieldWords, SwapTwice
<1>10. all # <<>>
  BY <1>5
<1>11. [s \in 1 .. 2 |-> ReadSection(all, 10 * s)]
         = <<ReadSection(all, 10), ReadSection(all, 20)>>
  OBVIOUS
<1> QED
  BY <1>9, <1>10, <1>11 DEF Good, Wrong, BF_MAGIC, ReadImage

-----------------------------------------------------------------------------
(* The memory after the load. *)

(* The code, and zeros behind it. *)
Loaded(list) ==
  [a \in Word |-> IF a < Len(list) THEN GetCmd(list[a + 1]) ELSE 0]

(* A word of memory is zero, or a section has it.                          *)
LEMMA LoadSharedAt ==
  ASSUME NEW image, NEW garbage, NEW s, NEW t, image.Sections = <<s, t>>,
         NEW a \in Word
  PROVE  /\ Covers(t, a) => LoadShared(image, garbage)[a]
                              = SectionWord(t, a - t.MemoryBase, garbage)
         /\ Covers(s, a) /\ ~Covers(t, a) =>
              LoadShared(image, garbage)[a]
                = SectionWord(s, a - s.MemoryBase, garbage)
         /\ ~Covers(s, a) /\ ~Covers(t, a) => LoadShared(image, garbage)[a] = 0
<1> DEFINE over == {i \in 1 .. 2 : Covers(image.Sections[i], a)}
<1>1. DOMAIN image.Sections = 1 .. 2 /\ image.Sections[1] = s
        /\ image.Sections[2] = t
  OBVIOUS
<1>2. LoadShared(image, garbage)[a]
        = IF over = {} THEN 0
          ELSE LET section == image.Sections[Max(over)]
               IN  SectionWord(section, a - section.MemoryBase, garbage)
  BY <1>1 DEF LoadShared
<1>3. over # {} => Max(over) \in over /\ \A x \in over : Max(over) >= x
  <2>1. over \subseteq 0 .. 2
    OBVIOUS
  <2> HIDE DEF over
  <2> QED
    BY <2>1, MaxOf
<1>4. (1 \in over <=> Covers(s, a)) /\ (2 \in over <=> Covers(t, a))
  BY <1>1
<1>5. over \subseteq 1 .. 2
  OBVIOUS
<1> HIDE DEF over
<1>6. ASSUME Covers(t, a) PROVE Max(over) = 2 /\ over # {}
  <2>1. PICK m : m = Max(over) /\ m \in over /\ m >= 2
    BY <1>3, <1>4, <1>6
  <2> QED
    BY <1>5, <2>1
<1>7. ASSUME Covers(s, a), ~Covers(t, a) PROVE Max(over) = 1 /\ over # {}
  <2>1. PICK m : m = Max(over) /\ m \in over
    BY <1>3, <1>4, <1>7
  <2>2. m # 2 /\ m \in 1 .. 2
    BY <1>4, <1>5, <1>7, <2>1
  <2> QED
    BY <2>1, <2>2
<1>8. ASSUME ~Covers(s, a), ~Covers(t, a) PROVE over = {}
  BY <1>4, <1>5, <1>8
<1> QED
  BY <1>1, <1>2, <1>6, <1>7, <1>8

LEMMA LoadSharedType ==
  ASSUME NEW list \in Seq(Command), NEW all, all = Write(NewImage(list)),
         NEW garbage \in Word
  PROVE  LoadShared(ReadImage(all), garbage) \in [Word -> Word]
<1>1. PICK n \in Nat : n = Len(list)
  OBVIOUS
<1>2. PICK s, t : s = ReadSection(all, 10) /\ t = ReadSection(all, 20)
        /\ ReadImage(all).Sections = <<s, t>>
  BY <1>1, ReadImageIs
<1>3. /\ t.FileSize = 0 /\ s.MemoryBase = 0 /\ s.Data \in Seq(Word)
  BY <1>1, <1>2, ReadSectionIs
<1>4. ASSUME NEW a \in Word
      PROVE  LoadShared(ReadImage(all), garbage)[a] \in Word
  <2>1. SectionWord(t, a - t.MemoryBase, garbage) \in Word
    BY <1>3, FieldWords DEF SectionWord
  <2>2. SectionWord(s, a - s.MemoryBase, garbage) \in Word
    <3>1. PICK k \in Nat : k = a - s.MemoryBase
      BY <1>3 DEF Word
    <3>2. k < Len(s.Data) => s.Data[k + 1] \in Word
      <4>1. k < Len(s.Data) => k + 1 \in 1 .. Len(s.Data)
        BY <1>3
      <4> QED
        BY <1>3, <4>1
    <3> QED
      BY <3>1, <3>2, FieldWords DEF SectionWord
  <2> QED
    BY <1>2, <2>1, <2>2, LoadSharedAt, FieldWords
<1>5. LoadShared(ReadImage(all), garbage)
        = [a \in Word |-> LoadShared(ReadImage(all), garbage)[a]]
  BY DEF LoadShared
<1> QED
  BY <1>4, <1>5

LEMMA LoadSharedIs ==
  ASSUME NEW list \in Seq(Command), NEW all, all = Write(NewImage(list)),
         2 * Len(list) < WordSize, NEW garbage
  PROVE  LoadShared(ReadImage(all), garbage) = Loaded(list)
<1>1. PICK n \in Nat : n = Len(list) /\ 2 * n < WordSize
  OBVIOUS
<1>2. PICK s, t : s = ReadSection(all, 10) /\ t = ReadSection(all, 20)
        /\ ReadImage(all).Sections = <<s, t>>
  BY <1>1, ReadImageIs
<1>3. /\ s.MemoryBase = 0 /\ s.MemorySize = Int16(n)
      /\ s.FileSize = Int16(2 * n) /\ Len(s.Data) = n
      /\ \A i \in 1 .. n : s.Data[i] = GetCmd(list[i])
      /\ t.MemoryBase = Int16(n) /\ t.FileSize = 0
  <2>1. /\ s.MemoryBase = 0 /\ s.MemorySize = Int16(n)
        /\ s.FileSize = Int16(2 * n)
        /\ 2 * n < WordSize => Len(s.Data) = n
        /\ \A i \in 1 .. Len(s.Data) : s.Data[i] = GetCmd(list[i])
        /\ t.MemoryBase = Int16(n) /\ t.FileSize = 0
    BY <1>1, <1>2, ReadSectionIs
  <2> QED
    BY <1>1, <2>1
<1>4. Int16(n) = n /\ Int16(2 * n) = 2 * n
  <2>1. n \in Word /\ 2 * n \in Word
    BY <1>1, Sizes DEF Word
  <2> QED
    BY <2>1, Int16Word
<1>5. ASSUME NEW a \in Word
      PROVE  LoadShared(ReadImage(all), garbage)[a] = Loaded(list)[a]
  <2>1. CASE a < n
    <3>1. Covers(s, a)
      BY <1>3, <1>4, <2>1 DEF Covers, Word
    <3>2. ~Covers(t, a)
      BY <1>3, <1>4, <2>1 DEF Covers, Word
    <3>3. SectionWord(s, a - s.MemoryBase, garbage) = GetCmd(list[a + 1])
      <4>1. a - s.MemoryBase = a /\ a + 1 \in 1 .. n /\ s.FileSize # 0
        BY <1>3, <1>4, <2>1 DEF Word
      <4>2. s.Data[a + 1] = GetCmd(list[a + 1])
        BY <1>3, <4>1
      <4> QED
        BY <1>3, <2>1, <4>1, <4>2 DEF SectionWord
    <3>4. Loaded(list)[a] = GetCmd(list[a + 1])
      BY <1>1, <2>1 DEF Loaded
    <3> QED
      BY <1>2, <3>1, <3>2, <3>3, <3>4, LoadSharedAt
  <2>2. CASE ~(a < n)
    <3>1. ~Covers(s, a)
      BY <1>3, <1>4, <2>2 DEF Covers, Word
    <3>2. SectionWord(t, a - t.MemoryBase, garbage) = 0
      BY <1>3 DEF SectionWord
    <3>3. LoadShared(ReadImage(all), garbage)[a] = 0
      BY <1>2, <3>1, <3>2, LoadSharedAt
    <3> QED
      BY <1>1, <2>2, <3>3 DEF Loaded
  <2> QED
    BY <2>1, <2>2
<1>6. LoadShared(ReadImage(all), garbage)
        = [a \in Word |-> LoadShared(ReadImage(all), garbage)[a]]
  BY DEF LoadShared
<1>7. Loaded(list) = [a \in Word |-> Loaded(list)[a]]
  BY DEF Loaded
<1> QED
  BY <1>5, <1>6, <1>7

-----------------------------------------------------------------------------
(* The types of bfpp's list and file, and of bfrun's memory and console.   *)
CompiledType ==
  /\ job \in Jobs
  /\ cmds \in Seq(Command)
  /\ file \in {<<>>, SaveOutput(cmds, job.format)}
  /\ array = (job.format = "hex")

ConsoleType ==
  /\ typed \in Seq(Seq(Word)) /\ InputString \in Seq(Word)
  /\ input_string_current_pos \in Nat

MachineType ==
  /\ mem \in [Word -> Word]
  /\ IP \in Word /\ AP \in Word /\ AP_MAX \in Word
  /\ out \in Seq(Bytes) /\ Len(out) <= MaxOut

TypeInv == CompiledType /\ ConsoleType /\ MachineType

LEMMA JobType ==
  ASSUME job \in Jobs
  PROVE  /\ job.source \in Seq(STRING) /\ job.level \in 0 .. 1
         /\ job.words \in Seq(Seq(Word))
         /\ job.format \in {"image", "hex", "text"}
BY BfPcAssumption

LEMMA TypeInit == Init => TypeInv
<1> SUFFICES ASSUME Init PROVE TypeInv
  OBVIOUS
<1> USE DEF Init, BfRunInit, ConsoleInit
<1>1. CompiledType
  BY DEF CompiledType
<1>2. ConsoleType
  BY JobType DEF ConsoleType
<1>3. MachineType
  BY FieldWords, BfRunAssumption DEF MachineType
<1> QED
  BY <1>1, <1>2, <1>3 DEF TypeInv

(* What bfpp compiles is a list of commands.                               *)
LEMMA OutputType ==
  ASSUME NEW source \in Seq(STRING), NEW level
  PROVE  LET list == Optimize(Translate(source), level) IN
         /\ list \in Seq(Command) /\ Len(list) <= Len(source) + 3
         /\ Linking(list) \in Seq(Command) /\ Len(Linking(list)) = Len(list)
<1>1. PICK input \in Seq(Command) :
        input = Translate(source) /\ Len(input) <= Len(source) + 3
  BY TranslateType
<1>2. PICK list \in Seq(Command) :
        list = Optimize(input, level) /\ Len(list) <= Len(input)
  BY OptimizeType
<1> QED
  BY <1>1, <1>2, LinkingType

LEMMA TypeBfpp ==
  ASSUME TypeInv, BfppMain
  PROVE  TypeInv'
<1>1. PICK list \in Seq(Command) :
        /\ list = Optimize(Translate(job.source), job.level)
        /\ Linking(list) \in Seq(Command)
  BY JobType, OutputType DEF TypeInv, CompiledType
<1>2. \/ UNCHANGED <<cmds, file>>
      \/ /\ cmds' = Linking(list)
         /\ file' \in {<<>>, SaveOutput(cmds', job.format)}
  BY <1>1 DEF BfppMain
<1>3. UNCHANGED <<job, bfrunVars>>
  BY DEF BfppMain
<1>4. CompiledType'
  BY <1>1, <1>2, <1>3 DEF TypeInv, CompiledType, bfrunVars
<1>5. ConsoleType' /\ MachineType'
  BY <1>3 DEF TypeInv, ConsoleType, MachineType, bfrunVars, consoleVars
<1> QED
  BY <1>4, <1>5 DEF TypeInv

(* A listing begins with a text and not with the magic of an image.        *)
LEMMA ListingIsWrong ==
  ASSUME NEW list \in Seq(Command), Good(SaveOutput(list, "text"))
  PROVE  Wrong(SaveOutput(list, "text"))
<1>1. PICK lines : lines = [i \in 1 .. Len(list) |-> Line(list, i)]
  OBVIOUS
<1>2. ASSUME NEW i \in 1 .. Len(list)
      PROVE  /\ Line(list, i) \in Seq(Int) /\ Line(list, i)[1] = 0
             /\ Line(list, i) # <<>>
  <2>1. PICK w \in Int : w = GetCmd(list[i])
    <3>1. list[i] \in Command
      OBVIOUS
    <3> QED
      BY <3>1, GetCmdRange, WordIsInt
  <2>2. Line(list, i) = <<0, i - 1, w>>
    BY <2>1 DEF Line
  <2> QED
    BY <2>2
<1>3. SaveOutput(list, "text") = FlattenSeq(lines)
  BY <1>1 DEF SaveOutput
<1>4. lines \in Seq(Seq(Int)) /\ Len(lines) = Len(list)
  BY <1>1, <1>2
<1>5. list # <<>>
  <2>1. list = <<>> => FlattenSeq(lines) = lines /\ lines = <<>>
    BY <1>4 DEF FlattenSeq
  <2> QED
    BY <1>3, <2>1 DEF Good
<1>6. lines # <<>> /\ lines[1] # <<>> /\ lines[1][1] = 0
  <2>1. 1 \in 1 .. Len(list)
    BY <1>5
  <2> QED
    BY <1>1, <1>2, <1>4, <2>1
<1>7. FlattenSeq(lines)[1] = 0
  BY <1>4, <1>6, FlattenFirst
<1>8. Field(FlattenSeq(lines), 0) = 0
  <2>1. 0 % HalfWord = 0 /\ 0 \div HalfWord = 0
    BY Sizes
  <2>2. swapLEtoBE(0) = 0
    <3>1. PICK h \in Nat \ {0} : h = HalfWord
      BY Sizes
    <3> QED
      BY <2>1, <3>1 DEF swapLEtoBE
  <2> QED
    BY <1>7, <2>2 DEF Field
<1> QED
  BY <1>3, <1>8 DEF Wrong, BF_MAGIC

LEMMA TypeStart ==
  ASSUME TypeInv, Start
  PROVE  TypeInv'
<1>1. /\ UNCHANGED <<job, cmds, file>> /\ Good(file)
      /\ file = SaveOutput(cmds, job.format)
  BY DEF Start, TypeInv, CompiledType, Good
<1>2. cmds \in Seq(Command)
  BY DEF TypeInv, CompiledType
<1>3. CASE array
  <2>1. job.format = "hex"
    BY <1>3 DEF TypeInv, CompiledType
  <2>2. file = Encode(cmds)
    BY <1>1, <2>1 DEF SaveOutput
  <2>3. LoadArray(file)
    BY <1>3 DEF Start
  <2>4. mem' \in [Word -> Word]
    <3>1. ASSUME NEW a \in Word, a < Len(file) PROVE file[a + 1] \in Word
      <4>1. file \in Seq(Word) /\ a + 1 \in 1 .. Len(file)
        BY <1>2, <2>2, <3>1, EncodeType DEF Word
      <4> QED
        BY <4>1
    <3>2. mem' = [a \in Word |-> IF a < Len(file) THEN file[a + 1] ELSE 0]
      BY <2>3 DEF LoadArray
    <3> QED
      BY <3>1, <3>2, FieldWords
  <2>5. IP' \in Word /\ AP' \in Word /\ AP_MAX' \in Word
    <3>1. PICK n \in Int : n = Len(file)
      BY <1>2, <2>2, EncodeType
    <3> QED
      BY <2>3, <3>1, FieldWords, Int16Range DEF LoadArray
  <2>6. UNCHANGED <<array, consoleVars, out>>
    BY <2>3 DEF LoadArray
  <2> QED
    BY <1>1, <2>4, <2>5, <2>6 DEF TypeInv, CompiledType, ConsoleType,
                                  MachineType, consoleVars
<1>4. CASE ~array
  <2>1. ~Wrong(file) /\ Load(ReadImage(file))
    BY <1>4 DEF Start
  <2>2. job.format = "image"
    <3>1. job.format \in {"image", "text"}
      BY <1>4, JobType DEF TypeInv, CompiledType
    <3>2. job.format # "text"
      BY <1>1, <1>2, <2>1, ListingIsWrong
    <3> QED
      BY <3>1, <3>2
  <2>3. file = Write(NewImage(cmds))
    BY <1>1, <2>2 DEF SaveOutput
  <2>4. PICK n \in Nat : n = Len(cmds)
    BY <1>2
  <2>5. PICK code : code = ReadImage(file).Sections[1]
          /\ code.MemoryBase = 0 /\ code.MemorySize = Int16(n)
    BY <1>2, <2>3, <2>4, ReadImageIs, ReadSectionIs
  <2>6. mem' \in [Word -> Word]
    <3>1. PICK garbage \in Garbage : mem' = LoadShared(ReadImage(file), garbage)
      BY <2>1 DEF Load
    <3>2. garbage \in Word
      BY BfImageAssumption
    <3> QED
      BY <1>2, <2>3, <3>1, <3>2, LoadSharedType
  <2>7. IP' \in Word
    BY <1>2, <2>1, <2>3, <2>4, ReadImageIs, FieldWords DEF Load
  <2>8. AP' \in Word
    <3>1. ApEntry(n) \in Word
      BY <1>2, <2>4, NewImageIs
    <3> QED
      BY <1>2, <2>1, <2>3, <2>4, <3>1, ReadImageIs DEF Load
  <2>9. AP_MAX' \in Word
    <3>1. PICK v \in Int : v = code.MemoryBase + code.MemorySize
      <4>1. Int16(n) \in Word
        BY <2>4, Int16Range
      <4>2. PICK k \in Int : k = Int16(n)
        BY <4>1, WordIsInt
      <4>3. code.MemoryBase + code.MemorySize = k
        BY <2>5, <4>2
      <4> QED
        BY <4>3
    <3> QED
      BY <2>1, <2>5, <3>1, Int16Range DEF Load
  <2>10. UNCHANGED <<array, consoleVars, out>>
    BY <2>1 DEF Load
  <2> QED
    BY <1>1, <2>6, <2>7, <2>8, <2>9, <2>10
       DEF TypeInv, CompiledType, ConsoleType, MachineType, consoleVars
<1> QED
  BY <1>3, <1>4

(* Where the next word is, and what is kept of the output.                 *)
LEMMA HereType ==
  ASSUME MachineType
  PROVE  Here \in Word /\ Bits \in Word /\ Bias(Bits) \in Word
           /\ mem[AP] \in Word
<1>1. IP + 1 \in Int /\ IP \in Word
  BY WordIsInt DEF MachineType
<1>2. Here \in Word
  BY <1>1, Int16Range DEF Here
<1> QED
  BY <1>2, BiasRange DEF MachineType, Bits

LEMMA RetireType ==
  ASSUME NEW ip \in Int, Retire(ip)
  PROVE  IP' \in Word /\ UNCHANGED <<WordModeEnabled, array, AP_MAX>>
<1>1. ip + 1 \in Int
  OBVIOUS
<1> QED
  BY <1>1, Int16Range DEF Retire

LEMMA KeepType ==
  ASSUME NEW A, NEW s \in Seq(A), Len(s) <= MaxOut, NEW e \in A
  PROVE  Keep(Append(s, e)) \in Seq(A) /\ Len(Keep(Append(s, e))) <= MaxOut
<1>1. PICK t \in Seq(A) : t = Append(s, e) /\ Len(t) = Len(s) + 1
  BY AppendProperties
<1>2. Tail(t) \in Seq(A) /\ Len(Tail(t)) = Len(t) - 1
  BY <1>1
<1> QED
  BY <1>1, <1>2, BfRunAssumption DEF Keep

LEMMA ValType ==
  ASSUME ConsoleType
  PROVE  Val \in Word /\ Scanned \in Seq(Word)
<1>1. Scanned \in Seq(Word)
  BY DEF ConsoleType, Scanned, Exhausted
<1>2. ASSUME NEW str \in Seq(Word), NEW pos \in Nat
      PROVE  CharAt(str, pos) \in Word
  <2>1. pos < Len(str) => pos + 1 \in 1 .. Len(str)
    OBVIOUS
  <2> QED
    BY <2>1, FieldWords DEF CharAt
<1> QED
  BY <1>1, <1>2 DEF Val, ConsoleType

LEMMA TypeIn ==
  ASSUME ConsoleType, In
  PROVE  ConsoleType'
<1>1. CASE InNewWord
  BY <1>1, ValType DEF ConsoleType, InNewWord, Exhausted
<1>2. CASE InSameWord
  BY <1>2 DEF ConsoleType, InSameWord
<1> QED
  BY <1>1, <1>2 DEF In

LEMMA TypeExec ==
  ASSUME ConsoleType, MachineType, ExecCode
  PROVE  ConsoleType' /\ MachineType' /\ UNCHANGED array
<1>1. PICK here \in Int, bias \in Int, cell \in Int :
        here = Here /\ bias = Bias(Bits) /\ cell = mem[AP]
  BY HereType, WordIsInt
<1>2. here + bias \in Int /\ AP + bias \in Int /\ cell + bias \in Int
  BY WordIsInt DEF MachineType
<1>3. LowByte(cell) \in Bytes
  BY LowByteRange
<1> USE DEF MachineType, ConsoleType, consoleVars
<1>4. CASE Nop
  BY <1>1, <1>4, RetireType DEF Nop
<1>5. CASE Getc
  <2>1. PICK v \in Word : v = LowByte(Val)
    BY ValType, LowByteRange, WordIsInt
  <2>2. mem' = [mem EXCEPT ![AP] = v]
    BY <1>5, <2>1 DEF Getc
  <2>3. ConsoleType'
    BY <1>5, TypeIn DEF Getc
  <2>4. IP' \in Word /\ UNCHANGED <<array, AP_MAX>>
    BY <1>1, <1>5, RetireType DEF Getc
  <2> QED
    BY <1>5, <2>2, <2>3, <2>4 DEF Getc
<1>6. CASE Putc
  <2>1. out' \in Seq(Bytes) /\ Len(out') <= MaxOut
    BY <1>1, <1>3, <1>6, KeepType DEF Putc
  <2> QED
    BY <1>1, <1>6, <2>1, RetireType DEF Putc
<1>7. CASE ClrData
  <2>1. mem' \in [Word -> Word]
    BY <1>7, FieldWords DEF ClrData
  <2> QED
    BY <1>1, <1>7, <2>1, RetireType DEF ClrData
<1>8. CASE Halt
  BY <1>8, HereType DEF Halt
<1>9. CASE Add
  <2>1. PICK v \in Word : v = Int16(cell + bias)
    BY <1>2, Int16Range
  <2>2. mem' = [mem EXCEPT ![AP] = v]
    BY <1>1, <1>9, <2>1 DEF Add
  <2> QED
    BY <1>1, <1>9, <2>2, RetireType DEF Add
<1>10. CASE Right
  <2>1. AP' \in Word
    BY <1>1, <1>2, <1>10, Int16Range DEF Right
  <2> QED
    BY <1>1, <1>10, <2>1, RetireType DEF Right
<1>11. CASE Jz
  <2>1. IP' \in Word /\ UNCHANGED <<array, AP_MAX>>
    BY <1>1, <1>2, <1>11, RetireType DEF Jz
  <2> QED
    BY <1>11, <2>1 DEF Jz
<1>12. CASE Jnz
  <2>1. IP' \in Word /\ UNCHANGED <<array, AP_MAX>>
    BY <1>1, <1>2, <1>12, RetireType DEF Jnz
  <2> QED
    BY <1>12, <2>1 DEF Jnz
<1> QED
  BY <1>4, <1>5, <1>6, <1>7, <1>8, <1>9, <1>10, <1>11, <1>12 DEF ExecCode

LEMMA TypeNext ==
  ASSUME TypeInv, [Next]_vars
  PROVE  TypeInv'
<1>1. CASE BfppMain
  BY <1>1, TypeBfpp
<1>2. CASE Start
  BY <1>2, TypeStart
<1>3. CASE Refuse
  BY <1>3 DEF Refuse, TypeInv, CompiledType, ConsoleType, MachineType,
              bfrunVars, consoleVars
<1>4. CASE Instruction
  BY <1>4, TypeExec DEF Instruction, TypeInv, CompiledType
<1>5. CASE Leave
  BY <1>5 DEF Leave, TypeInv, CompiledType, ConsoleType, MachineType,
              bfrunVars, consoleVars
<1>6. CASE LanguageStep
  BY <1>6 DEF LanguageStep, TypeInv, CompiledType, ConsoleType, MachineType,
              bfrunVars, consoleVars
<1>7. CASE Exit
  BY <1>7 DEF Exit, TypeInv, CompiledType, ConsoleType, MachineType,
              bfrunVars, consoleVars
<1>8. CASE UNCHANGED vars
  BY <1>8 DEF vars, TypeInv, CompiledType, ConsoleType, MachineType,
              bfrunVars, consoleVars
<1> QED
  BY <1>1, <1>2, <1>3, <1>4, <1>5, <1>6, <1>7, <1>8 DEF Next

LEMMA TypeAlways == Spec => []TypeInv
BY TypeInit, TypeNext, PTL DEF Spec

LEMMA TypeInvGives == TypeInv => TypeOK
<1> SUFFICES ASSUME TypeInv PROVE TypeOK
  OBVIOUS
<1>1. \A i \in 1 .. Len(out) : LowByte(out[i]) = out[i]
  BY LowByteByte DEF TypeInv, MachineType
<1> QED
  BY <1>1 DEF TypeInv, MachineType, TypeOK

(* Whatever the source, the options and the input: the words of bfrun's    *)
(* memory and its pointers stay in their 16 bits, although a count is      *)
(* added to them with its sign, a jump goes back by adding, and the sizes  *)
(* of a long program are cut (bfrun.cpp:112-184, Image.cpp:33-137).        *)
THEOREM WordsStayWords == Spec => []TypeOK
BY TypeAlways, TypeInvGives, PTL

-----------------------------------------------------------------------------
(* The prologue, and the code in memory while the program runs. *)

(* -O1 takes the NOP away and leaves the move to the data.                 *)
LEMMA FirstKept ==
  ASSUME NEW input \in Seq(Command), Len(input) >= 3,
         input[1].c = Blank, input[2].c = ">",
         NEW list, NEW at, NEW n \in Nat, n = Len(input),
         Orders(at, list, Cleared(input), KeptPlaces(input), n)
  PROVE  Len(list) >= 1 /\ at[1] = 2 /\ list[1] = input[2]
<1>3. 1 \notin KeptPlaces(input)
  BY KindsOf DEF KeptPlaces
<1>4. ~Clears(input, 0) /\ ~Clears(input, 1) /\ ~Clears(input, 2)
  <2>1. input[1].c # "["
    BY KindsOf DEF Symbols
  <2> QED
    BY <2>1 DEF Clears
<1>5. 2 \in KeptPlaces(input)
  <2>1. 2 \in DOMAIN input /\ input[2].c \in Symbols
    BY DEF Symbols
  <2> QED
    BY <1>4, <2>1 DEF KeptPlaces
<1>6. PICK k \in 1 .. Len(list) : at[k] = 2
  BY <1>5 DEF Orders
<1>7. k = 1
  <2>1. SUFFICES ASSUME k # 1 PROVE FALSE
    OBVIOUS
  <2>2. 1 \in 1 .. Len(list) /\ 1 < k
    BY <2>1
  <2>3. at[1] < 2 /\ at[1] \in KeptPlaces(input) /\ at[1] \in 1 .. n
    BY <1>6, <2>2 DEF Orders
  <2> QED
    BY <1>3, <2>3
<1>8. list[1] = Cleared(input)[2]
  BY <1>6, <1>7 DEF Orders
<1>9. Cleared(input)[2] = input[2]
  BY <1>4 DEF Cleared
<1> QED
  BY <1>6, <1>7, <1>8, <1>9

LEMMA PrologueIs ==
  ASSUME NEW source \in Seq(STRING), NEW level \in 0 .. 1,
         NEW list, list = Optimize(Translate(source), level)
  PROVE  /\ list \in Seq(Command)
         /\ level = 0 => /\ Len(list) >= 3
                         /\ list[1].c = Blank /\ list[2].c = ">"
                         /\ list[2] = Translate(source)[2]
         /\ level = 1 => /\ Len(list) >= 1 /\ list[1].c = ">"
                         /\ list[1] = Translate(source)[2]
<1>1. PICK input \in Seq(Command) : input = Translate(source)
        /\ Len(input) >= 3 /\ input[1].c = Blank /\ input[2].c = ">"
  <2>1. PICK n \in Nat : n = Len(Issue(Strip(source)))
    BY StripType, IssueType
  <2> QED
    BY <2>1, TranslateType
<1>2. CASE level = 0
  BY <1>1, <1>2 DEF Optimize
<1>3. CASE level # 0
  <2>1. list = OptimizeDataClr(input) /\ list \in Seq(Command)
    BY <1>1, <1>3, OptimizeDataClrType DEF Optimize
  <2>2. PICK at :
          Orders(at, list, Cleared(input), KeptPlaces(input), Len(input))
    BY <2>1, OptimizeDataClrType
  <2>3. Len(list) >= 1 /\ list[1] = input[2]
    BY <1>1, <2>2, FirstKept
  <2> QED
    BY <1>1, <1>3, <2>1, <2>3
<1> QED
  BY <1>2, <1>3

(* The operation of a word is a multiple of half a count.                  *)
LEMMA OperationIs ==
  ASSUME NEW q \in Int, NEW r \in 0 .. BiasHalf - 1,
         NEW word \in Int, word = q * BiasHalf + r
  PROVE  Operation(word) = q * BiasHalf
<1>1. PICK h \in Nat \ {0} : h = BiasHalf
  BY Sizes
<1>2. word \div h = q
  BY <1>1, DivUnique
<1> QED
  BY <1>1, <1>2 DEF Operation

(* Neither a move nor the leading NOP writes to memory.                    *)
LEMMA PrologueWrites ==
  ASSUME NEW cmd \in Command, cmd.c \in {Blank, ">"}
  PROVE  LET op == Operation(GetCmd(cmd)) IN
         op \notin {CMD_IO, CMD_ADD, CMD_ADD + BiasHalf}
<1>1. PICK h \in Nat : h = BiasHalf /\ h >= 16 /\ BiasSize = 2 * h
  BY Sizes
<1>2. CMD_IO = h /\ CMD_ADD = 2 * h
  BY <1>1 DEF CMD_IO, CMD_ADD
<1>3. CASE cmd.c = ">"
  <2>1. PICK n \in 0 .. 2 * h - 1 : GetCmd(cmd) = 4 * h + n
    BY <1>1, <1>3, WordParts
  <2>2. CASE n < h
    <3>1. PICK w \in Int : w = GetCmd(cmd) /\ w = 4 * h + n
      BY <2>1
    <3>2. Operation(w) = 4 * h
      <4>1. PICK q \in Int, r \in 0 .. h - 1 : q = 4 /\ r = n
        BY <2>2
      <4>2. w = q * h + r /\ q * h = 4 * h
        BY <3>1, <4>1
      <4> QED
        BY <1>1, <4>2, OperationIs
    <3> QED
      BY <1>1, <1>2, <3>1, <3>2
  <2>3. CASE ~(n < h)
    <3>1. PICK w \in Int, r \in 0 .. h - 1 :
            w = GetCmd(cmd) /\ r = n - h /\ w = 5 * h + r
      BY <2>1, <2>3
    <3>2. Operation(w) = 5 * h
      <4>1. PICK q \in Int : q = 5
        OBVIOUS
      <4>2. w = q * h + r /\ q * h = 5 * h
        BY <3>1, <4>1
      <4> QED
        BY <1>1, <4>2, OperationIs
    <3> QED
      BY <1>1, <1>2, <3>1, <3>2
  <2> QED
    BY <2>2, <2>3
<1>4. CASE cmd.c = Blank
  <2>1. GetCmd(cmd) = 0
    <3>1. cmd.c \notin {">", "<", "+", "-", "[", "]", ".", ",", "0", "H"}
      BY <1>4, KindsOf DEF Symbols
    <3> QED
      BY <3>1, WordParts
  <2>2. PICK w \in Int, z \in 0 .. h - 1 : w = 0 /\ z = 0 /\ w = 0 * h + z
    BY <1>1
  <2>3. Operation(w) = 0 * h
    BY <1>1, <2>2, OperationIs
  <2> QED
    BY <1>1, <1>2, <2>1, <2>2, <2>3
<1> QED
  BY <1>3, <1>4

Runs == stage \in {"execute", "language"} \/ Ran
IsCompiled ==
  stage \in {"compiled", "execute", "language"} \/ Ran =>
    cmds = Linking(Output(job)) /\ Output(job) # <<>>
CodeIsKept ==
  Runs => \A i \in 1 .. Len(cmds) : mem[i - 1] = GetCmd(cmds[i])
CodeInv == IsCompiled /\ CodeIsKept

LEMMA CodeInit == Init => CodeInv
BY DEF Init, CodeInv, IsCompiled, CodeIsKept, Runs, Ran

(* What a list keeps when its brackets are linked.                         *)
LEMMA CompiledIs ==
  ASSUME TypeInv, cmds = Linking(Output(job)), Output(job) # <<>>
  PROVE  /\ cmds \in Seq(Command) /\ Len(cmds) = Len(Output(job))
         /\ Prologue \in 1 .. Len(cmds)
         /\ \A i \in 1 .. Prologue : cmds[i].c \in {Blank, ">"}
<1>1. job.source \in Seq(STRING) /\ job.level \in 0 .. 1
  BY JobType DEF TypeInv, CompiledType
<1>2. PICK list \in Seq(Command) : list = Output(job) /\ list # <<>>
        /\ (job.level = 0 => /\ Len(list) >= 3
                             /\ list[1].c = Blank /\ list[2].c = ">")
        /\ (job.level = 1 => Len(list) >= 1 /\ list[1].c = ">")
  BY <1>1, PrologueIs DEF Output
<1>3. /\ cmds \in Seq(Command) /\ Len(cmds) = Len(list)
      /\ \A i \in 1 .. Len(list) : cmds[i].c = list[i].c
  BY <1>2, LinkingType
<1>4. CASE job.level = 0
  <2>1. Prologue = 2 /\ 1 \in 1 .. Len(list) /\ 2 \in 1 .. Len(list)
    BY <1>2, <1>4 DEF Prologue
  <2>2. cmds[1].c = Blank /\ cmds[2].c = ">"
    BY <1>2, <1>3, <1>4, <2>1
  <2>3. \A i \in 1 .. Prologue : i = 1 \/ i = 2
    BY <2>1
  <2> QED
    BY <1>2, <1>3, <2>1, <2>2, <2>3
<1>5. CASE job.level = 1
  <2>1. Prologue = 1 /\ 1 \in 1 .. Len(list)
    BY <1>2, <1>5 DEF Prologue
  <2>2. cmds[1].c = ">"
    BY <1>2, <1>3, <1>5, <2>1
  <2>3. \A i \in 1 .. Prologue : i = 1
    BY <2>1
  <2> QED
    BY <1>2, <1>3, <2>1, <2>2, <2>3
<1> QED
  BY <1>1, <1>4, <1>5

LEMMA CodeBfpp ==
  ASSUME TypeInv, CodeInv, BfppMain
  PROVE  CodeInv'
<1>1. CASE stage' = "compiled"
  <2>1. cmds' = Linking(Output(job)) /\ ~LinkingFails(Output(job))
    BY <1>1 DEF BfppMain, Output
  <2>2. job' = job
    BY DEF BfppMain
  <2>3. Output(job) # <<>>
    BY <2>1 DEF LinkingFails
  <2> QED
    BY <1>1, <2>1, <2>2, <2>3 DEF CodeInv, IsCompiled, CodeIsKept, Runs, Ran
<1>2. CASE stage' # "compiled"
  <2>1. stage' = "ended" /\ status' = -2
    BY <1>2 DEF BfppMain
  <2> QED
    BY <2>1 DEF CodeInv, IsCompiled, CodeIsKept, Runs, Ran
<1> QED
  BY <1>1, <1>2

(* An image and an array come to the same memory.                          *)
LEMMA StartLoads ==
  ASSUME FilesFit, TypeInv, CodeInv, Start
  PROVE  mem' = Loaded(cmds)
<1>1. Good(file) /\ file = SaveOutput(cmds, job.format) /\ cmds \in Seq(Command)
  BY DEF Start, TypeInv, CompiledType, Good
<1>2. 2 * Len(cmds) < WordSize
  <2>1. stage = "compiled" /\ job \in Jobs
    BY DEF Start, TypeInv, CompiledType
  <2>2. cmds = Linking(Output(job)) /\ Output(job) # <<>>
    BY <2>1 DEF CodeInv, IsCompiled
  <2>3. Len(cmds) = Len(Output(job))
    BY <2>2, CompiledIs
  <2> QED
    BY <2>1, <2>3 DEF FilesFit
<1>3. CASE array
  <2>1. file = Encode(cmds) /\ LoadArray(file)
    BY <1>1, <1>3 DEF SaveOutput, TypeInv, CompiledType, Start
  <2>2. mem' = [a \in Word |-> IF a < Len(file) THEN file[a + 1] ELSE 0]
    BY <2>1 DEF LoadArray
  <2>3. Len(file) = Len(cmds)
    BY <1>1, <2>1, EncodeType
  <2>4. ASSUME NEW a \in Word, a < Len(cmds)
        PROVE  file[a + 1] = GetCmd(cmds[a + 1])
    <3>1. a + 1 \in 1 .. Len(cmds)
      BY <1>1, <2>4 DEF Word
    <3> QED
      BY <1>1, <2>1, <3>1, EncodeType
  <2> QED
    BY <2>2, <2>3, <2>4 DEF Loaded
<1>4. CASE ~array
  <2>1. ~Wrong(file) /\ Load(ReadImage(file))
    BY <1>4 DEF Start
  <2>2. job.format = "image"
    <3>1. job.format \in {"image", "text"}
      BY <1>4, JobType DEF TypeInv, CompiledType
    <3>2. job.format # "text"
      BY <1>1, <2>1, ListingIsWrong
    <3> QED
      BY <3>1, <3>2
  <2>3. file = Write(NewImage(cmds))
    BY <1>1, <2>2 DEF SaveOutput
  <2>4. PICK garbage : mem' = LoadShared(ReadImage(file), garbage)
    BY <2>1 DEF Load
  <2> QED
    BY <1>1, <1>2, <2>3, <2>4, LoadSharedIs
<1> QED
  BY <1>3, <1>4

LEMMA CodeStart ==
  ASSUME FilesFit, TypeInv, CodeInv, Start
  PROVE  CodeInv'
<1>1. /\ UNCHANGED <<job, cmds>> /\ stage = "compiled"
      /\ stage' \in {"execute", "beyond"}
  BY DEF Start
<1>2. IsCompiled'
  BY <1>1 DEF CodeInv, IsCompiled, Ran
<1>3. ASSUME NEW i \in 1 .. Len(cmds) PROVE mem'[i - 1] = GetCmd(cmds[i])
  <2>1. cmds = Linking(Output(job)) /\ Output(job) # <<>> /\ job \in Jobs
    BY <1>1 DEF CodeInv, IsCompiled, TypeInv, CompiledType
  <2>2. Len(cmds) = Len(Output(job)) /\ cmds \in Seq(Command)
    BY <2>1, CompiledIs
  <2>3. PICK n \in Nat : n = Len(cmds) /\ 2 * n < WordSize
    BY <2>1, <2>2 DEF FilesFit
  <2>4. PICK a \in Word : a = i - 1 /\ a < n /\ a + 1 = i
    <3>1. i \in 1 .. n
      BY <2>3
    <3> QED
      BY <2>3, <3>1, Sizes DEF Word
  <2>5. mem' = Loaded(cmds)
    BY StartLoads
  <2>6. Loaded(cmds)[a] = GetCmd(cmds[a + 1])
    BY <2>3, <2>4 DEF Loaded
  <2> QED
    BY <2>4, <2>5, <2>6
<1> QED
  BY <1>1, <1>2, <1>3 DEF CodeInv, CodeIsKept

(* No instruction writes to the code, unless the program has left its data.*)
LEMMA WritesToData ==
  ASSUME TypeInv, CodeInv, Instruction, mem' # mem
  PROVE  /\ AP \in Len(cmds) .. WordSize - 1
         /\ \A a \in Word : a # AP => mem'[a] = mem[a]
<1>1. mem \in [Word -> Word] /\ AP \in Word /\ MachineType
  BY DEF TypeInv, MachineType
<1>2. stage = "execute" /\ ~Beyond /\ ExecCode
  BY DEF Instruction
<1>3. /\ \A a \in Word : a # AP => mem'[a] = mem[a]
      /\ Operation(Bits) \in {CMD_IO, CMD_ADD, CMD_ADD + BiasHalf}
  BY <1>1, <1>2 DEF ExecCode, Nop, Getc, Putc, ClrData, Halt, Add, Right, Jz,
                    Jnz, Is, IsIO
<1>4. /\ cmds \in Seq(Command) /\ Prologue \in 1 .. Len(cmds)
      /\ \A i \in 1 .. Prologue : cmds[i].c \in {Blank, ">"}
  BY <1>2, CompiledIs DEF CodeInv, IsCompiled
<1>5. PICK here \in Nat : here = Here
  BY <1>1, HereType DEF Word
<1>6. ~(here < Prologue)
  <2>1. SUFFICES ASSUME here < Prologue PROVE FALSE
    OBVIOUS
  <2>2. PICK i \in 1 .. Len(cmds) : i = here + 1 /\ i - 1 = here
          /\ i \in 1 .. Prologue
    BY <1>4, <2>1
  <2>3. Bits = GetCmd(cmds[i])
    BY <1>2, <1>5, <2>2 DEF CodeInv, CodeIsKept, Runs, Bits
  <2>4. cmds[i] \in Command /\ cmds[i].c \in {Blank, ">"}
    BY <1>4, <2>2
  <2> QED
    BY <1>3, <2>3, <2>4, PrologueWrites
<1>7. InData(AP)
  BY <1>2, <1>4, <1>5, <1>6 DEF Beyond
<1> QED
  BY <1>3, <1>7 DEF InData

LEMMA CodeInstruction ==
  ASSUME TypeInv, CodeInv, Instruction
  PROVE  CodeInv'
<1>1. /\ UNCHANGED <<job, cmds>> /\ stage = "execute"
      /\ stage' \in {"execute", "language"}
  BY DEF Instruction
<1>2. IsCompiled'
  BY <1>1 DEF CodeInv, IsCompiled, Ran
<1>3. ASSUME NEW i \in 1 .. Len(cmds) PROVE mem'[i - 1] = GetCmd(cmds[i])
  <2>1. mem[i - 1] = GetCmd(cmds[i])
    BY <1>1 DEF CodeInv, CodeIsKept, Runs
  <2>2. CASE mem' = mem
    BY <2>1, <2>2
  <2>3. CASE mem' # mem
    <3>1. AP \in Len(cmds) .. WordSize - 1
            /\ \A a \in Word : a # AP => mem'[a] = mem[a]
      BY <2>3, WritesToData
    <3>2. Len(cmds) \in Nat
      BY DEF TypeInv, CompiledType
    <3>3. i - 1 \in Word /\ i - 1 # AP
      BY <3>1, <3>2, Sizes DEF Word
    <3> QED
      BY <2>1, <3>1, <3>3
  <2> QED
    BY <2>2, <2>3
<1> QED
  BY <1>1, <1>2, <1>3 DEF CodeInv, CodeIsKept

LEMMA CodeNext ==
  ASSUME FilesFit, TypeInv, CodeInv, [Next]_vars
  PROVE  CodeInv'
<1> USE DEF CodeInv, IsCompiled, CodeIsKept, Runs, Ran
<1>1. CASE BfppMain
  BY <1>1, CodeBfpp
<1>2. CASE Start
  BY <1>2, CodeStart
<1>3. CASE Refuse
  BY <1>3 DEF Refuse, CRASH
<1>4. CASE Instruction
  BY <1>4, CodeInstruction
<1>5. CASE Leave
  BY <1>5 DEF Leave
<1>6. CASE LanguageStep
  BY <1>6 DEF LanguageStep, bfrunVars
<1>7. CASE Exit
  BY <1>7 DEF Exit, bfrunVars
<1>8. CASE UNCHANGED vars
  BY <1>8 DEF vars, bfrunVars
<1> QED
  BY <1>1, <1>2, <1>3, <1>4, <1>5, <1>6, <1>7, <1>8 DEF Next

LEMMA CodeAlways ==
  ASSUME FilesFit
  PROVE  Spec => []CodeInv
<1>1. TypeInv /\ CodeInv /\ [Next]_vars => CodeInv'
  BY CodeNext
<1> QED
  BY <1>1, CodeInit, TypeAlways, PTL DEF Spec

LEMMA CodeGives == TypeInv /\ CodeInv => ImageHolds
BY DEF TypeInv, CompiledType, CodeInv, CodeIsKept, Runs, ImageHolds

(* As long as a program runs on its data, every word of its code in memory *)
(* is the one that bfpp compiled, at the address that its jumps count on:  *)
(* through the swapped fields of the file, the sections and the loads of   *)
(* an image and of an array, and with every kind of write of ExecCode.     *)
(* The source must be no longer than a section can say in bytes            *)
(* (Image.cpp:33-137, Command.cpp:31-46, bfrun.cpp:112-184, 351-381).      *)
THEOREM CodeStaysInMemory ==
  ASSUME FilesFit
  PROVE  Spec => []ImageHolds
BY CodeAlways, CodeGives, TypeAlways, PTL

-----------------------------------------------------------------------------
(* Counting brackets. *)
(* The language counts the elements of a set as the compiler does.         *)
LEMMA SameCardinality ==
  ASSUME NEW S
  PROVE  L!Cardinality(S) = Cardinality(S)
BY DEF L!Cardinality, Cardinality

(* What encloses, said with the count of the open loops.                   *)
LEMMA EnclosesOpen ==
  ASSUME NEW code, NEW i \in Int, NEW j \in Int
  PROVE  L!Encloses(code, i, j) <=> Pairs(code, i, j)
<1>1. \A b, k : L!Brackets(code, b, i, k) = BracketsIn(code, b, i, k)
  BY SameCardinality DEF L!Brackets, BracketsIn
<1>2. \A k \in Int : /\ BracketsIn(code, "[", i, k) \in Nat
                     /\ BracketsIn(code, "]", i, k) \in Nat
  BY BracketsType
<1>3. Open(code, i, j) = 0 <=>
        BracketsIn(code, "[", i, j) = BracketsIn(code, "]", i, j)
  BY <1>2 DEF Open
<1>4. \A k \in i .. j - 1 :
        Open(code, i, k) >= 1 <=>
          BracketsIn(code, "[", i, k) > BracketsIn(code, "]", i, k)
  BY <1>2 DEF Open
<1> QED
  BY <1>1, <1>3, <1>4 DEF L!Encloses, Pairs

LEMMA KindsInType ==
  ASSUME NEW list \in Seq(Command)
  PROVE  /\ DOMAIN KindsIn(list) = 1 .. Len(list)
         /\ \A i \in 1 .. Len(list) : KindsIn(list)[i] = list[i].c
BY DEF KindsIn

(* The compiler and the language count the same brackets.                  *)
LEMMA SameBrackets ==
  ASSUME NEW list \in Seq(Command), NEW b, NEW i \in 1 .. Len(list),
         NEW j \in Int, j <= Len(list)
  PROVE  Brackets(list, b, i, j) = BracketsIn(KindsIn(list), b, i, j)
<1>1. \A k \in i .. j : KindsIn(list)[k] = list[k].c
  BY KindsInType
<1>2. {k \in i .. j : list[k].c = b} = {k \in i .. j : KindsIn(list)[k] = b}
  BY <1>1
<1> QED
  BY <1>2 DEF Brackets, BracketsIn

(* bfpp looks for the match of a bracket, and finds it if there is one.    *)
LEMMA FindsMatch ==
  ASSUME NEW list \in Seq(Command), NEW i \in 1 .. Len(list),
         list[i].c = "[", NEW j \in 1 .. Len(list)
  PROVE  L!Encloses(KindsIn(list), i, j) <=> FindLoopEnd(list, i) = j
<1> DEFINE code == KindsIn(list)
           S == {k \in i + 1 .. Len(list) :
                   Brackets(list, "]", i, k) = Brackets(list, "[", i, k)}
                  \union {Len(list) + 1}
<1>1. S \subseteq Nat /\ S # {}
  OBVIOUS
<1>2. FindLoopEnd(list, i) = Min(S)
  BY DEF FindLoopEnd
<1>3. Min(S) \in S /\ \A x \in S : Min(S) <= x
  <2> HIDE DEF S
  <2> QED
    BY <1>1, MinOf
<1>4. ASSUME NEW k \in i + 1 .. Len(list)
      PROVE  k \in S <=> Open(code, i, k) = 0
  <2>1. /\ Brackets(list, "]", i, k) = BracketsIn(code, "]", i, k)
        /\ Brackets(list, "[", i, k) = BracketsIn(code, "[", i, k)
    BY SameBrackets
  <2>2. /\ BracketsIn(code, "]", i, k) \in Nat
        /\ BracketsIn(code, "[", i, k) \in Nat
    BY BracketsType
  <2> QED
    BY <2>1, <2>2 DEF Open
<1>5. code[i] = "["
  BY KindsInType
<1> HIDE DEF S, code
<1>6. ASSUME L!Encloses(code, i, j) PROVE Min(S) = j
  <2>1. /\ i < j /\ Open(code, i, j) = 0
        /\ \A k \in i .. j - 1 : Open(code, i, k) >= 1
    BY <1>6, EnclosesOpen DEF Pairs
  <2>2. j \in S
    BY <1>4, <2>1
  <2>3. PICK m \in S : m = Min(S) /\ m <= j
    BY <1>3, <2>2
  <2>4. ~(m < j)
    <3>1. SUFFICES ASSUME m < j PROVE FALSE
      OBVIOUS
    <3>2. m \in i + 1 .. Len(list)
      BY <2>3, <3>1 DEF S
    <3>3. Open(code, i, m) = 0 /\ m \in i .. j - 1
      BY <1>4, <3>1, <3>2
    <3> QED
      BY <2>1, <3>3
  <2> QED
    BY <1>1, <2>3, <2>4
<1>7. ASSUME Min(S) = j PROVE L!Encloses(code, i, j)
  <2>1. j \in i + 1 .. Len(list) /\ j \in S
    BY <1>3, <1>7 DEF S
  <2>2. Open(code, i, j) = 0
    BY <1>4, <2>1
  <2>3. ASSUME NEW k \in i + 1 .. j - 1 PROVE Open(code, i, k) # 0
    <3>1. k \in i + 1 .. Len(list) /\ k < j
      OBVIOUS
    <3>2. k \notin S
      BY <1>3, <1>7, <3>1
    <3> QED
      BY <1>4, <3>1, <3>2
  <2> QED
    BY <1>5, <2>1, <2>2, <2>3, FirstClosed, EnclosesOpen
<1> QED
  BY <1>2, <1>6, <1>7 DEF code

(* Both brackets of a pair get the distance to the other one.              *)
LEMMA LinkedPair ==
  ASSUME NEW list \in Seq(Command),
         NEW i \in 1 .. Len(list), NEW j \in 1 .. Len(list),
         L!Encloses(KindsIn(list), i, j)
  PROVE  /\ Linking(list)[i].c = "[" /\ Linking(list)[j].c = "]"
         /\ Linking(list)[i].bias = Int16(j - i)
         /\ Linking(list)[j].bias = Int16(i - j)
<1>1. list[i].c = "[" /\ list[j].c = "]"
  BY KindsInType, EnclosesOpen DEF Pairs
<1>2. FindLoopEnd(list, i) = j
  BY <1>1, FindsMatch
<1>3. list[i] \in Command /\ list[j] \in Command
  OBVIOUS
<1>4. Linking(list)[i] = [list[i] EXCEPT !.bias = Int16(j - i)]
  BY <1>1, <1>2, LinkingIs
<1>5. Opening(list, j) = {i}
  <2>1. i \in Opening(list, j)
    BY <1>1, <1>2 DEF Opening, Opens
  <2>2. ASSUME NEW h \in Opening(list, j) PROVE h = i
    <3>1. h \in 1 .. Len(list) /\ list[h].c = "[" /\ FindLoopEnd(list, h) = j
      BY DEF Opening, Opens
    <3>2. L!Encloses(KindsIn(list), h, j)
      BY <3>1, FindsMatch
    <3> QED
      BY <3>1, <3>2, OneMatch, EnclosesOpen
  <2> QED
    BY <2>1, <2>2
<1>6. Max(Opening(list, j)) = i
  <2>1. PICK S : S = {i}
    OBVIOUS
  <2>2. PICK n \in Nat : n = Len(list) /\ S \subseteq 0 .. n /\ S # {}
    BY <2>1
  <2>3. Max(S) \in S
    BY <2>2, MaxOf
  <2> QED
    BY <1>5, <2>1, <2>3
<1>7. Linking(list)[j] = [list[j] EXCEPT !.bias = Int16(i - j)]
  BY <1>1, <1>5, <1>6, LinkingIs
<1> QED
  BY <1>1, <1>3, <1>4, <1>7 DEF Command

-----------------------------------------------------------------------------
(* The distance to a match, as ExecCode decodes it.                        *)

LEMMA ModIs ==
  ASSUME NEW n \in Nat \ {0}, NEW q \in Int, NEW r \in 0 .. n - 1,
         NEW x \in Int, x = q * n + r
  PROVE  x % n = r
BY DivUnique

LEMMA JumpForward ==
  ASSUME NEW i \in 1 .. WordSize - 1, NEW j \in 1 .. WordSize - 1,
         i < j, j - i < BiasHalf,
         NEW cmd \in Command, cmd.c = "[", cmd.bias = Int16(j - i)
  PROVE  Int16(i + Bias(GetCmd(cmd))) = j
<1>1. PICK h \in Nat : h = BiasHalf /\ h >= 16 /\ BiasSize = 2 * h
        /\ WordSize = 16 * h
  BY Sizes
<1>2. PICK d \in 0 .. h - 1 : d = j - i
  BY <1>1
<1>3. cmd.bias = d
  <2>1. d \in Word
    BY <1>1 DEF Word
  <2> QED
    BY <1>2, <2>1, Int16Word
<1>4. PICK w \in Int : w = GetCmd(cmd) /\ w = 6 * h + d
  <2>1. d % BiasSize = d
    <3>1. PICK n \in Nat \ {0} : n = BiasSize /\ d \in 0 .. n - 1
      BY <1>1
    <3>2. PICK q \in Int : q = 0 /\ d = q * n + d
      BY <3>1
    <3> QED
      BY <3>1, <3>2, ModIs
  <2>2. GetCmd(cmd) = 6 * BiasHalf + d
    BY <1>3, <2>1, WordParts
  <2> QED
    BY <1>1, <2>2
<1>5. Bias(w) = d
  <2>1. PICK n \in Nat \ {0} : n = BiasSize /\ d \in 0 .. n - 1
    BY <1>1
  <2>2. PICK q \in Int : q = 3 /\ q * n = 6 * h /\ w = q * n + d
    BY <1>1, <1>4, <2>1
  <2>3. w % BiasSize = d
    BY <2>1, <2>2, ModIs
  <2> QED
    BY <1>1, <2>3 DEF Bias
<1>6. j \in Word
  BY <1>1 DEF Word
<1> QED
  BY <1>2, <1>4, <1>5, <1>6, Int16Word

LEMMA JumpBack ==
  ASSUME NEW i \in 1 .. WordSize - 1, NEW j \in 1 .. WordSize - 1,
         i < j, j - i < BiasHalf,
         NEW cmd \in Command, cmd.c = "]", cmd.bias = Int16(i - j)
  PROVE  Int16(j + Bias(GetCmd(cmd))) = i
<1>1. PICK h \in Nat : h = BiasHalf /\ h >= 16 /\ BiasSize = 2 * h
        /\ WordSize = 16 * h
  BY Sizes
<1>2. PICK d \in 1 .. h - 1 : d = j - i
  BY <1>1
<1>3. cmd.bias = 16 * h - d
  <2>1. PICK n \in Nat \ {0}, r \in Nat, x \in Int :
          r \in 0 .. n - 1 /\ n = WordSize /\ r = 16 * h - d /\ x = i - j
    BY <1>1, <1>2
  <2>2. PICK q \in Int : q = -1 /\ q * n = -n /\ x = q * n + r
    BY <1>1, <1>2, <2>1
  <2>3. x % n = r
    BY <2>1, <2>2, ModIs
  <2> QED
    BY <2>1, <2>3 DEF Int16
<1>4. PICK w \in Int : w = GetCmd(cmd) /\ w = 10 * h - d
  <2>1. PICK n \in Nat \ {0}, r \in Nat, x \in Int :
          r \in 0 .. n - 1 /\ n = BiasSize /\ r = 2 * h - d /\ x = 16 * h - d
    BY <1>1, <1>2
  <2>2. PICK q \in Int : q = 7 /\ q * n = 14 * h /\ x = q * n + r
    BY <1>1, <2>1
  <2>3. x % n = r
    BY <2>1, <2>2, ModIs
  <2>4. GetCmd(cmd) = 8 * BiasHalf + r
    BY <1>3, <2>1, <2>3, WordParts
  <2> QED
    BY <1>1, <2>1, <2>4
<1>5. Bias(w) = 16 * h - d
  <2>1. PICK n \in Nat \ {0}, r \in Nat :
          r \in 0 .. n - 1 /\ n = BiasSize /\ r = 2 * h - d
    BY <1>1, <1>2
  <2>2. PICK q \in Int : q = 4 /\ q * n = 8 * h /\ w = q * n + r
    BY <1>1, <1>4, <2>1
  <2>3. w % BiasSize = r /\ ~(r < h)
    BY <1>2, <2>1, <2>2, ModIs
  <2> QED
    BY <1>1, <2>1, <2>3 DEF Bias
<1>6. Int16(j + Bias(w)) = i
  <2>1. PICK n \in Nat \ {0}, r \in Nat, x \in Int :
          r \in 0 .. n - 1 /\ n = WordSize /\ r = i /\ x = 16 * h + i
    BY <1>1
  <2>2. PICK q \in Int : q = 1 /\ q * n = n /\ x = q * n + r
    BY <1>1, <2>1
  <2>3. x % n = r
    BY <2>1, <2>2, ModIs
  <2>4. x = j + Bias(w)
    BY <1>2, <1>5, <2>1
  <2> QED
    BY <2>1, <2>3, <2>4 DEF Int16
<1> QED
  BY <1>4, <1>6

LEMMA CodeGivesLinks ==
  ASSUME FilesFit, LoopsFit, TypeInv, CodeInv
  PROVE  LinksMatch
<1> SUFFICES ASSUME stage \in {"execute", "language"},
                    NEW i \in DOMAIN cmds, NEW j \in DOMAIN cmds,
                    L!Encloses(Kinds, i, j)
             PROVE  /\ Int16(i + Bias(mem[i - 1])) = j
                    /\ Int16(j + Bias(mem[j - 1])) = i
  BY DEF LinksMatch
<1>1. cmds = Linking(Output(job)) /\ Output(job) # <<>> /\ job \in Jobs
  BY DEF CodeInv, IsCompiled, TypeInv, CompiledType
<1>2. PICK list \in Seq(Command) : list = Output(job)
  <2>1. job.source \in Seq(STRING)
    BY JobType DEF TypeInv, CompiledType
  <2> QED
    BY <2>1, OutputType DEF Output
<1>3. /\ cmds = Linking(list) /\ cmds \in Seq(Command)
      /\ Len(cmds) = Len(list)
      /\ \A k \in 1 .. Len(list) : cmds[k].c = list[k].c
  BY <1>1, <1>2, LinkingType
<1>4. Kinds = KindsIn(list)
  BY <1>2, <1>3 DEF Kinds, KindsIn
<1>5. i \in 1 .. Len(list) /\ j \in 1 .. Len(list) /\ 2 * Len(list) < WordSize
  <2>1. i \in 1 .. Len(cmds) /\ j \in 1 .. Len(cmds)
    BY <1>3
  <2>2. 2 * Len(Output(job)) < WordSize
    BY <1>1 DEF FilesFit
  <2> QED
    BY <1>2, <1>3, <2>1, <2>2
<1>6. i < j /\ j - i < BiasHalf
  <2>1. L!Encloses(KindsIn(Output(job)), i, j)
    BY <1>2, <1>4
  <2>2. DOMAIN Output(job) = 1 .. Len(list)
    BY <1>2
  <2>3. j - i < BiasHalf
    BY <1>1, <1>5, <2>1, <2>2 DEF LoopsFit
  <2>4. i < j
    <3>1. i \in Int /\ j \in Int
      BY <1>5
    <3> QED
      BY <2>1, <3>1, EnclosesOpen DEF Pairs
  <2> QED
    BY <2>3, <2>4
<1>7. i \in 1 .. WordSize - 1 /\ j \in 1 .. WordSize - 1
  BY <1>2, <1>5, Sizes
<1>8. /\ cmds[i].c = "[" /\ cmds[j].c = "]"
      /\ cmds[i].bias = Int16(j - i) /\ cmds[j].bias = Int16(i - j)
      /\ cmds[i] \in Command /\ cmds[j] \in Command
  BY <1>2, <1>3, <1>4, <1>5, LinkedPair
<1>9. mem[i - 1] = GetCmd(cmds[i]) /\ mem[j - 1] = GetCmd(cmds[j])
  BY <1>3, <1>5 DEF CodeInv, CodeIsKept, Runs
<1> QED
  BY <1>6, <1>7, <1>8, <1>9, JumpForward, JumpBack

(* README.md:61: every [ and ] is resolved "to a relative jump to its      *)
(* matching bracket".  The distance survives the sign that is cut to 13    *)
(* bits, the operation beside it, the file and the load, and comes out of  *)
(* ExecCode as it went in, if no loop is longer than the sign allows       *)
(* (Bf.cpp:216-265, cmd.cpp:132-180, bfrun.cpp:161-177).                   *)
THEOREM JumpsFindTheirMatch ==
  ASSUME FilesFit, LoopsFit
  PROVE  Spec => []LinksMatch
<1>1. TypeInv /\ CodeInv => LinksMatch
  BY CodeGivesLinks
<1> QED
  BY <1>1, CodeAlways, TypeAlways, PTL

-----------------------------------------------------------------------------
(* Loops that are not closed, before and after a translation. *)
Unmatched(code, n) ==
  \E i \in 1 .. n :
    code[i] = "[" /\ \A j \in 1 .. n : ~L!Encloses(code, i, j)

(* The brackets of one code are those of another, in their order.          *)
Embeds(at, code, m, whole, n) ==
  /\ at \in [1 .. m -> 1 .. n]
  /\ \A k, l \in 1 .. m : k < l => at[k] < at[l]
  /\ \A k \in 1 .. m : /\ code[k] = "[" <=> whole[at[k]] = "["
                       /\ code[k] = "]" <=> whole[at[k]] = "]"
  /\ \A i \in 1 .. n : whole[i] \in {"[", "]"} => \E k \in 1 .. m : at[k] = i

(* Between brackets nothing changes. *)
LEMMA OpenGap ==
  ASSUME NEW code, NEW i \in Int, NEW j \in Int, NEW k \in Int,
         i <= k + 1, k <= j,
         \A x \in k + 1 .. j : code[x] \notin {"[", "]"}
  PROVE  Open(code, i, j) = Open(code, i, k)
<1>1. PICK l \in Int : l = k + 1
  OBVIOUS
<1>2. {x \in l .. j : code[x] = "["} = {} /\ {x \in l .. j : code[x] = "]"} = {}
  BY <1>1
<1>3. BracketsIn(code, "[", l, j) = 0 /\ BracketsIn(code, "]", l, j) = 0
  BY <1>2, FS_EmptySet DEF BracketsIn
<1>4. Open(code, l, j) = 0
  BY <1>3 DEF Open
<1> QED
  BY <1>1, <1>4, OpenSplit

(* At the same brackets the same loops are open.                           *)
LEMMA SameOpen ==
  ASSUME NEW m \in Nat, NEW n \in Nat, NEW at, NEW code, NEW whole,
         Embeds(at, code, m, whole, n), NEW k \in 1 .. m, code[k] = "[",
         NEW l \in k .. m
  PROVE  Open(code, k, l) = Open(whole, at[k], at[l])
<1> DEFINE S == {d \in Nat : k + d <= m =>
                    Open(code, k, k + d) = Open(whole, at[k], at[k + d])}
<1>1. 0 \in S
  <2>1. whole[at[k]] = "[" /\ at[k] \in Int /\ k + 0 = k
    BY DEF Embeds
  <2> QED
    BY <2>1, OpenAtStart
<1>2. ASSUME NEW d \in S \cap Nat PROVE d + 1 \in S
  <2>1. SUFFICES ASSUME k + (d + 1) <= m
                 PROVE  Open(code, k, k + (d + 1))
                          = Open(whole, at[k], at[k + (d + 1)])
    OBVIOUS
  <2>2. PICK x \in 1 .. m, y \in 1 .. m :
          x = k + d /\ y = k + (d + 1) /\ y = x + 1 /\ k <= x
    BY <2>1
  <2>3. Open(code, k, x) = Open(whole, at[k], at[x])
    BY <2>2
  <2>4. PICK a \in 1 .. n, b \in 1 .. n, c \in 1 .. n :
          a = at[k] /\ b = at[x] /\ c = at[y] /\ a <= b /\ b < c
    <3>1. at[k] \in 1 .. n /\ at[x] \in 1 .. n /\ at[y] \in 1 .. n
      BY DEF Embeds
    <3>2. at[x] < at[y]
      BY <2>2 DEF Embeds
    <3>3. k = x \/ at[k] < at[x]
      BY <2>2 DEF Embeds
    <3> QED
      BY <3>1, <3>2, <3>3
  <2>5. PICK e \in Int : e = c - 1 /\ e + 1 = c /\ b <= e /\ a <= e + 1
          /\ a <= b + 1
    BY <2>4
  <2>6. ASSUME NEW i \in b + 1 .. e PROVE whole[i] \notin {"[", "]"}
    <3>1. SUFFICES ASSUME whole[i] \in {"[", "]"} PROVE FALSE
      OBVIOUS
    <3>2. i \in 1 .. n /\ b < i /\ i < c
      BY <2>4, <2>5
    <3>3. PICK h \in 1 .. m : at[h] = i
      BY <3>1, <3>2 DEF Embeds
    <3>4. ~(h < x) /\ h # x
      BY <2>4, <3>2, <3>3 DEF Embeds
    <3>5. ~(y < h) /\ h # y
      BY <2>4, <3>2, <3>3 DEF Embeds
    <3> QED
      BY <2>2, <3>4, <3>5
  <2>7. Open(whole, a, e) = Open(whole, a, b)
    BY <2>5, <2>6, OpenGap
  <2>8. /\ code[y] = "[" <=> whole[c] = "["
        /\ code[y] = "]" <=> whole[c] = "]"
    BY <2>4 DEF Embeds
  <2>9. /\ Open(whole, a, e) \in Int
        /\ whole[c] = "[" => Open(whole, a, c) = Open(whole, a, e) + 1
        /\ whole[c] = "]" => Open(whole, a, c) = Open(whole, a, e) - 1
        /\ whole[c] \notin {"[", "]"} => Open(whole, a, c) = Open(whole, a, e)
    BY <2>5, OpenStep
  <2>10. /\ Open(code, k, x) \in Int
         /\ code[y] = "[" => Open(code, k, y) = Open(code, k, x) + 1
         /\ code[y] = "]" => Open(code, k, y) = Open(code, k, x) - 1
         /\ code[y] \notin {"[", "]"} => Open(code, k, y) = Open(code, k, x)
    BY <2>2, OpenStep
  <2>11. Open(code, k, y) = Open(whole, a, c)
    BY <2>3, <2>4, <2>7, <2>8, <2>9, <2>10
  <2> QED
    BY <2>2, <2>4, <2>11
<1>3. Nat \subseteq S
  <2> HIDE DEF S
  <2> QED
    BY <1>1, <1>2, NatClosed
<1>4. PICK d \in Nat : k + d = l
  <2>1. l - k \in Nat /\ k + (l - k) = l
    OBVIOUS
  <2> QED
    BY <2>1
<1> QED
  BY <1>3, <1>4

(* A loop that is never closed: from its [ on it stays open.               *)
StaysOpen(code, n) ==
  \E k \in 1 .. n : \A l \in k .. n : Open(code, k, l) >= 1

(* Where something stays open from is a [.                                 *)
LEMMA OpensAt ==
  ASSUME NEW code, NEW k \in Int, Open(code, k, k) >= 1
  PROVE  code[k] = "["
<1>1. PICK h \in Int : h = k - 1 /\ h < k /\ k <= h + 1 /\ h + 1 = k
  OBVIOUS
<1>2. Open(code, k, h) = 0
  BY <1>1, BracketsType DEF Open
<1>3. /\ code[k] = "]" => Open(code, k, k) = Open(code, k, h) - 1
      /\ code[k] \notin {"[", "]"} => Open(code, k, k) = Open(code, k, h)
  BY <1>1, OpenStep
<1> QED
  BY <1>2, <1>3

(* The first place where nothing is open.                                  *)
LEMMA FirstZero ==
  ASSUME NEW code, NEW i \in Nat, NEW n \in Nat, code[i] = "[",
         \E j \in i + 1 .. n : Open(code, i, j) = 0
  PROVE  \E j \in i + 1 .. n : L!Encloses(code, i, j)
<1> DEFINE S == {j \in i + 1 .. n : Open(code, i, j) = 0}
<1>1. S \subseteq Nat /\ S # {}
  OBVIOUS
<1>2. PICK m : m \in S /\ \A x \in S : m <= x
  <2> HIDE DEF S
  <2> QED
    BY <1>1, MinOf
<1>3. ASSUME NEW k \in i + 1 .. m - 1 PROVE Open(code, i, k) # 0
  <2>1. k \in i + 1 .. n /\ ~(m <= k)
    BY <1>2
  <2> QED
    BY <1>2, <2>1
<1>4. m \in i + 1 .. n /\ m \in Int /\ i < m
  BY <1>2
<1> QED
  BY <1>2, <1>3, <1>4, FirstClosed, EnclosesOpen

(* A [ without a match is a loop that stays open.                          *)
LEMMA UnmatchedStaysOpen ==
  ASSUME NEW code, NEW n \in Nat
  PROVE  Unmatched(code, n) <=> StaysOpen(code, n)
<1>1. ASSUME Unmatched(code, n) PROVE StaysOpen(code, n)
  <2>1. PICK i \in 1 .. n :
          code[i] = "[" /\ \A j \in 1 .. n : ~L!Encloses(code, i, j)
    BY <1>1 DEF Unmatched
  <2>2. \A k \in i + 1 .. n : Open(code, i, k) # 0
    <3>1. \A j \in i + 1 .. n : ~L!Encloses(code, i, j)
      BY <2>1
    <3> QED
      BY <2>1, <3>1, FirstZero
  <2>3. \A l \in i .. n : Open(code, i, l) >= 1
    BY <2>1, <2>2, NeverClosed
  <2> QED
    BY <2>3 DEF StaysOpen
<1>2. ASSUME StaysOpen(code, n) PROVE Unmatched(code, n)
  <2>1. PICK i \in 1 .. n : \A l \in i .. n : Open(code, i, l) >= 1
    BY <1>2 DEF StaysOpen
  <2>2. code[i] = "["
    BY <2>1, OpensAt
  <2>3. ASSUME NEW j \in 1 .. n PROVE ~L!Encloses(code, i, j)
    <3>1. SUFFICES ASSUME L!Encloses(code, i, j) PROVE FALSE
      OBVIOUS
    <3>2. i < j /\ Open(code, i, j) = 0
      BY <3>1, EnclosesOpen DEF Pairs
    <3>3. j \in i .. n
      BY <3>2
    <3> QED
      BY <2>1, <3>2, <3>3
  <2> QED
    BY <2>2, <2>3 DEF Unmatched
<1> QED
  BY <1>1, <1>2

(* A translation that keeps the brackets keeps what stays open.            *)
LEMMA EmbedsOpen ==
  ASSUME NEW m \in Nat, NEW n \in Nat, NEW at, NEW code, NEW whole,
         Embeds(at, code, m, whole, n)
  PROVE  StaysOpen(code, m) <=> StaysOpen(whole, n)
<1>1. ASSUME StaysOpen(whole, n) PROVE StaysOpen(code, m)
  <2>1. PICK i \in 1 .. n : \A l \in i .. n : Open(whole, i, l) >= 1
    BY <1>1 DEF StaysOpen
  <2>2. whole[i] = "["
    BY <2>1, OpensAt
  <2>3. PICK k \in 1 .. m : at[k] = i
    BY <2>2 DEF Embeds
  <2>4. code[k] = "["
    BY <2>2, <2>3 DEF Embeds
  <2>5. ASSUME NEW l \in k .. m PROVE Open(code, k, l) >= 1
    <3>1. l \in 1 .. m /\ at[l] \in 1 .. n /\ (k = l \/ at[k] < at[l])
      BY DEF Embeds
    <3>2. at[l] \in i .. n
      BY <2>3, <3>1
    <3>3. Open(code, k, l) = Open(whole, i, at[l])
      BY <2>3, <2>4, SameOpen
    <3> QED
      BY <2>1, <3>2, <3>3
  <2> QED
    BY <2>5 DEF StaysOpen
<1>2. ASSUME StaysOpen(code, m) PROVE StaysOpen(whole, n)
  <2>1. PICK k \in 1 .. m : \A l \in k .. m : Open(code, k, l) >= 1
    BY <1>2 DEF StaysOpen
  <2>2. code[k] = "["
    BY <2>1, OpensAt
  <2>3. PICK i \in 1 .. n : i = at[k]
    BY DEF Embeds
  <2>4. ASSUME NEW y \in i .. n PROVE Open(whole, i, y) >= 1
    <3> DEFINE S == {z \in k .. m : at[z] <= y}
    <3>1. S \subseteq 0 .. m /\ S # {}
      BY <2>3
    <3>2. PICK x : x \in S /\ \A z \in S : x >= z
      <4> HIDE DEF S
      <4> QED
        BY <3>1, MaxOf
    <3>3. PICK a \in 1 .. n : a = at[x] /\ a <= y /\ i <= a
      <4>1. x \in 1 .. m /\ (k = x \/ k < x)
        BY <3>2
      <4>2. at[x] \in 1 .. n /\ (k = x \/ at[k] < at[x])
        BY <4>1 DEF Embeds
      <4> QED
        BY <2>3, <3>2, <4>2
    <3>4. ASSUME NEW h \in a + 1 .. y PROVE whole[h] \notin {"[", "]"}
      <4>1. SUFFICES ASSUME whole[h] \in {"[", "]"} PROVE FALSE
        OBVIOUS
      <4>2. h \in 1 .. n /\ a < h /\ h <= y
        BY <3>3
      <4>3. PICK z \in 1 .. m : at[z] = h
        BY <4>1, <4>2 DEF Embeds
      <4>4. ~(z < x) /\ z # x
        BY <3>2, <3>3, <4>2, <4>3 DEF Embeds
      <4>5. z \in k .. m /\ at[z] <= y
        BY <3>2, <4>2, <4>3, <4>4
      <4>6. x >= z
        BY <3>2, <4>5
      <4> QED
        BY <3>2, <4>4, <4>6
    <3>5. Open(whole, i, y) = Open(whole, i, a)
      <4>1. i <= a + 1 /\ a <= y /\ a \in Int /\ i \in Int /\ y \in Int
        BY <3>3
      <4> QED
        BY <3>4, <4>1, OpenGap
    <3>6. Open(code, k, x) = Open(whole, i, a)
      BY <2>2, <2>3, <3>2, <3>3, SameOpen
    <3> QED
      BY <2>1, <3>2, <3>5, <3>6
  <2> QED
    BY <2>4 DEF StaysOpen
<1> QED
  BY <1>1, <1>2

(* What is taken from a sequence, in its order and with every bracket.     *)
LEMMA OrdersEmbeds ==
  ASSUME NEW n \in Nat, NEW places, NEW seq, NEW list, NEW at,
         Orders(at, list, seq, places, n), NEW code, NEW whole,
         \A k \in 1 .. Len(list) : code[k] = whole[at[k]],
         \A i \in 1 .. n : whole[i] \in {"[", "]"} => i \in places
  PROVE  Embeds(at, code, Len(list), whole, n)
<1>1. at \in [1 .. Len(list) -> 1 .. n]
  BY DEF Orders
<1>2. \A k, l \in 1 .. Len(list) : k < l => at[k] < at[l]
  BY DEF Orders
<1>3. ASSUME NEW i \in 1 .. n, whole[i] \in {"[", "]"}
      PROVE  \E k \in 1 .. Len(list) : at[k] = i
  <2>1. i \in places \cap (1 .. n)
    BY <1>3
  <2> QED
    BY <2>1 DEF Orders
<1> QED
  BY <1>1, <1>2, <1>3 DEF Embeds

(* Without the comments.                                                   *)
LEMMA TakenOpen ==
  ASSUME NEW source \in Seq(STRING), NEW places \in SUBSET (1 .. Len(source)),
         \A i \in 1 .. Len(source) : source[i] \in {"[", "]"} => i \in places
  PROVE  StaysOpen(At(source, places), Len(At(source, places)))
           <=> StaysOpen(source, Len(source))
<1>1. PICK list, at :
        /\ list \in Seq(STRING)
        /\ list = At(source, places)
        /\ Orders(at, list, source, places, Len(source))
  BY AtType
<1>2. \A k \in 1 .. Len(list) : list[k] = source[at[k]]
  BY <1>1 DEF Orders
<1>3. Embeds(at, list, Len(list), source, Len(source))
  BY <1>1, <1>2, OrdersEmbeds
<1>4. Len(list) \in Nat /\ Len(source) \in Nat
  OBVIOUS
<1> QED
  BY <1>1, <1>3, <1>4, EmbedsOpen

(* In the list, with the runs merged and the frame around it.              *)
LEMMA IssueOpen ==
  ASSUME NEW text \in Seq(Symbols)
  PROVE  StaysOpen(KindsIn(Issue(text)), Len(Issue(text)))
           <=> StaysOpen(text, Len(text))
<1>1. PICK list, at :
        /\ list \in Seq(Command)
        /\ list = Issue(text)
        /\ Orders(at, list, Commands(text), Issued(text), Len(text))
  BY IssueType
<1>2. ASSUME NEW k \in 1 .. Len(list)
      PROVE  KindsIn(list)[k] = text[at[k]]
  <2>1. KindsIn(list)[k] = list[k].c
    BY <1>1, KindsInType
  <2>2. list[k] = Commands(text)[at[k]] /\ at[k] \in 1 .. Len(text)
    BY <1>1 DEF Orders
  <2> QED
    BY <2>1, <2>2, CommandsType
<1>3. ASSUME NEW i \in 1 .. Len(text), text[i] \in {"[", "]"}
      PROVE  i \in Issued(text)
  BY <1>3 DEF Issued, Issues, Incrementers
<1>4. Len(list) \in Nat /\ Len(text) \in Nat
  OBVIOUS
<1>5. Embeds(at, KindsIn(list), Len(list), text, Len(text))
  BY <1>1, <1>2, <1>3, <1>4, OrdersEmbeds
<1> QED
  BY <1>1, <1>4, <1>5, EmbedsOpen

LEMMA FrameOpen ==
  ASSUME NEW source \in Seq(STRING)
  PROVE  LET list == Translate(source)
             inner == Issue(Strip(source))
         IN  StaysOpen(KindsIn(inner), Len(inner))
               <=> StaysOpen(KindsIn(list), Len(list))
<1>1. PICK inner \in Seq(Command) : inner = Issue(Strip(source))
  BY StripType, IssueType
<1>2. PICK list \in Seq(Command) :
        /\ list = Translate(source) /\ Len(list) = Len(inner) + 3
        /\ \A k \in 1 .. Len(inner) : list[k + 2] = inner[k]
        /\ list[1].c = Blank /\ list[2].c = ">" /\ list[Len(list)].c = "H"
  BY <1>1, TranslateType
<1>3. PICK m \in Nat, n \in Nat : m = Len(inner) /\ n = Len(list) /\ n = m + 3
  BY <1>2
<1>4. PICK at : at = [k \in 1 .. m |-> k + 2]
  OBVIOUS
<1>5. at \in [1 .. m -> 1 .. n] /\ \A k, l \in 1 .. m : k < l => at[k] < at[l]
  BY <1>3, <1>4
<1>6. ASSUME NEW k \in 1 .. m
      PROVE  KindsIn(inner)[k] = KindsIn(list)[at[k]]
  <2>1. at[k] = k + 2 /\ at[k] \in 1 .. n /\ list[at[k]] = inner[k]
    BY <1>2, <1>3, <1>4
  <2> QED
    BY <1>3, <2>1, KindsInType
<1>7. ASSUME NEW i \in 1 .. n, KindsIn(list)[i] \in {"[", "]"}
      PROVE  \E k \in 1 .. m : at[k] = i
  <2>1. list[i].c \in {"[", "]"}
    BY <1>3, <1>7, KindsInType
  <2>2. i # 1
    BY <1>2, <2>1, KindsOf DEF Symbols
  <2>3. i # 2 /\ i # n
    BY <1>2, <1>3, <2>1
  <2>4. PICK k \in 1 .. m : i = k + 2
    <3>1. i - 2 \in 1 .. m /\ i = (i - 2) + 2
      BY <1>3, <2>2, <2>3
    <3> QED
      BY <3>1
  <2> QED
    BY <1>4, <2>4
<1>8. Embeds(at, KindsIn(inner), m, KindsIn(list), n)
  BY <1>5, <1>6, <1>7 DEF Embeds
<1> QED
  BY <1>1, <1>2, <1>3, <1>8, EmbedsOpen

LEMMA TranslateOpen ==
  ASSUME NEW source \in Seq(STRING)
  PROVE  StaysOpen(KindsIn(Translate(source)), Len(Translate(source)))
           <=> StaysOpen(source, Len(source))
<1>1. PICK text \in Seq(Symbols) : text = Strip(source)
  BY StripType
<1>2. StaysOpen(text, Len(text)) <=> StaysOpen(source, Len(source))
  <2>1. SymbolPlaces(source) \in SUBSET (1 .. Len(source))
    BY DEF SymbolPlaces
  <2>2. \A i \in 1 .. Len(source) :
          source[i] \in {"[", "]"} => i \in SymbolPlaces(source)
    <3>1. "[" \in Symbols /\ "]" \in Symbols
      BY DEF Symbols
    <3> QED
      BY <3>1 DEF SymbolPlaces, IsASymbol
  <2>3. text = At(source, SymbolPlaces(source))
    BY <1>1 DEF Strip, SymbolPlaces
  <2> QED
    BY <2>1, <2>2, <2>3, TakenOpen
<1> QED
  BY <1>1, <1>2, IssueOpen, FrameOpen

(* Linking fails where a loop stays open, and nowhere else.                *)
LEMMA FailsWhenOpen ==
  ASSUME NEW list \in Seq(Command), list # <<>>
  PROVE  LinkingFails(list) <=> StaysOpen(KindsIn(list), Len(list))
<1>1. PICK n \in Nat : n = Len(list)
  OBVIOUS
<1>2. ASSUME NEW i \in 1 .. n, list[i].c = "["
      PROVE  FindLoopEnd(list, i) > n
               <=> \A j \in 1 .. n : ~L!Encloses(KindsIn(list), i, j)
  <2>1. FindLoopEnd(list, i) \in i + 1 .. n + 1
    BY <1>1, FindLoopEndType
  <2>2. \A j \in 1 .. n :
          L!Encloses(KindsIn(list), i, j) <=> FindLoopEnd(list, i) = j
    BY <1>1, <1>2, FindsMatch
  <2>3. FindLoopEnd(list, i) > n \/ FindLoopEnd(list, i) \in 1 .. n
    BY <2>1
  <2> QED
    BY <2>1, <2>2, <2>3
<1>3. \A i \in 1 .. n : KindsIn(list)[i] = list[i].c
  BY <1>1, KindsInType
<1>4. Opens(list) = {i \in 1 .. n : list[i].c = "["}
  BY <1>1 DEF Opens
<1>5. LinkingFails(list) <=> Unmatched(KindsIn(list), n)
  BY <1>1, <1>2, <1>3, <1>4 DEF LinkingFails, Unmatched
<1> QED
  BY <1>1, <1>5, UnmatchedStaysOpen

(* The list with a 0 in every place of a loop that -O1 clears with, and    *)
(* whether such a loop is open after k.                                    *)
Gone(list, i) == Clears(list, i) \/ Clears(list, i - 1) \/ Clears(list, i - 2)
Blanked(list) ==
  [i \in DOMAIN list |-> IF Gone(list, i) THEN "0" ELSE list[i].c]
Inside(list, k) == IF Clears(list, k) \/ Clears(list, k - 1) THEN 1 ELSE 0

(* The loops that -O1 clears with have no command in common.               *)
LEMMA ClearsApart ==
  ASSUME NEW list \in Seq(Command), NEW i \in Int
  PROVE  /\ Clears(list, i - 1) => ~Clears(list, i)
         /\ Clears(list, i - 2) => ~Clears(list, i) /\ ~Clears(list, i - 1)
<1>1. ASSUME NEW k \in Int, Clears(list, k)
      PROVE  /\ k \in 1 .. Len(list) - 2
             /\ list[k].c = "[" /\ list[k + 1].c \in {"+", "-"}
             /\ list[k + 2].c = "]"
  BY <1>1 DEF Clears
<1>2. ASSUME NEW k \in Int, NEW l \in Int, Clears(list, k), l = k + 1
      PROVE  ~Clears(list, l)
  <2>1. list[l].c \in {"+", "-"}
    BY <1>1, <1>2
  <2> QED
    BY <1>1, <2>1
<1>3. ASSUME NEW k \in Int, NEW l \in Int, Clears(list, k), l = k + 2
      PROVE  ~Clears(list, l)
  <2>1. list[l].c = "]"
    BY <1>1, <1>3
  <2> QED
    BY <1>1, <2>1
<1>4. PICK h \in Int, g \in Int :
        h = i - 1 /\ g = i - 2 /\ i = h + 1 /\ i = g + 2
        /\ h = g + 1
  OBVIOUS
<1> QED
  BY <1>2, <1>3, <1>4

(* Without these loops as much is open as with them, but for the one that  *)
(* the count is inside.                                                    *)
LEMMA ClearedCount ==
  ASSUME NEW list \in Seq(Command), NEW i \in 1 .. Len(list),
         ~Clears(list, i - 1), ~Clears(list, i - 2),
         NEW l \in i .. Len(list)
  PROVE  /\ Open(KindsIn(list), i, l)
              = Open(Blanked(list), i, l) + Inside(list, l)
         /\ Open(Blanked(list), i, l) \in Int
<1>1. PICK n, code, blanked :
        /\ n \in Nat
        /\ n = Len(list) /\ code = KindsIn(list) /\ blanked = Blanked(list)
  OBVIOUS
<1>2. PICK h \in Int : h = i - 1 /\ h + 1 = i
  OBVIOUS
<1> DEFINE S == {d \in Nat : h + d <= n =>
                    Open(code, i, h + d)
                      = Open(blanked, i, h + d) + Inside(list, h + d)}
<1>3. 0 \in S
  <2>1. h + 0 = h /\ h < i /\ h - 1 = i - 2
    BY <1>2
  <2>2. Open(code, i, h) = 0 /\ Open(blanked, i, h) = 0
    BY <2>1, BracketsType DEF Open
  <2>3. Inside(list, h) = 0
    BY <1>2, <2>1 DEF Inside
  <2> QED
    BY <2>1, <2>2, <2>3
<1>4. ASSUME NEW d \in S \cap Nat PROVE d + 1 \in S
  <2>1. SUFFICES ASSUME h + (d + 1) <= n
                 PROVE  Open(code, i, h + (d + 1))
                          = Open(blanked, i, h + (d + 1))
                              + Inside(list, h + (d + 1))
    OBVIOUS
  <2>2. PICK k \in Int, y \in 1 .. n, g \in Int :
          /\ k = h + d /\ y = h + (d + 1) /\ y = k + 1 /\ k = y - 1
          /\ g = k - 1 /\ g = y - 2 /\ i <= k + 1
    BY <1>2, <2>1
  <2>3. Open(code, i, k) = Open(blanked, i, k) + Inside(list, k)
    BY <1>1, <2>1, <2>2
  <2>4. code[y] = list[y].c
    BY <1>1, <2>2, KindsInType
  <2>5. blanked[y] = IF Gone(list, y) THEN "0" ELSE list[y].c
    BY <1>1, <2>2 DEF Blanked
  <2>6. /\ Open(code, i, k) \in Int
        /\ code[y] = "[" => Open(code, i, y) = Open(code, i, k) + 1
        /\ code[y] = "]" => Open(code, i, y) = Open(code, i, k) - 1
        /\ code[y] \notin {"[", "]"} => Open(code, i, y) = Open(code, i, k)
    BY <2>2, OpenStep
  <2>7. /\ Open(blanked, i, k) \in Int
        /\ blanked[y] = "[" => Open(blanked, i, y) = Open(blanked, i, k) + 1
        /\ blanked[y] = "]" => Open(blanked, i, y) = Open(blanked, i, k) - 1
        /\ blanked[y] \notin {"[", "]"} =>
             Open(blanked, i, y) = Open(blanked, i, k)
    BY <2>2, OpenStep
  <2>8. /\ Clears(list, k) => ~Clears(list, y)
        /\ Clears(list, g) => ~Clears(list, y) /\ ~Clears(list, k)
    BY <2>2, ClearsApart
  <2>9. /\ Gone(list, y) <=>
             Clears(list, y) \/ Clears(list, k) \/ Clears(list, g)
        /\ Inside(list, y) = IF Clears(list, y) \/ Clears(list, k) THEN 1 ELSE 0
        /\ Inside(list, k) = IF Clears(list, k) \/ Clears(list, g) THEN 1 ELSE 0
    BY <2>2 DEF Gone, Inside
  <2>10. CASE Clears(list, y)
    <3>1. list[y].c = "[" /\ blanked[y] = "0"
      BY <2>5, <2>9, <2>10 DEF Clears
    <3> QED
      BY <2>2, <2>3, <2>4, <2>6, <2>7, <2>8, <2>9, <2>10, <3>1
  <2>11. CASE Clears(list, k)
    <3>1. list[y].c \in {"+", "-"} /\ blanked[y] = "0"
      BY <2>2, <2>5, <2>9, <2>11 DEF Clears
    <3> QED
      BY <2>2, <2>3, <2>4, <2>6, <2>7, <2>8, <2>9, <2>11, <3>1
  <2>12. CASE Clears(list, g)
    <3>1. y = g + 2
      BY <2>2
    <3>2. list[y].c = "]" /\ blanked[y] = "0"
      BY <2>5, <2>9, <2>12, <3>1 DEF Clears
    <3> QED
      BY <2>2, <2>3, <2>4, <2>6, <2>7, <2>8, <2>9, <2>12, <3>2
  <2>13. CASE ~Clears(list, y) /\ ~Clears(list, k) /\ ~Clears(list, g)
    <3>1. blanked[y] = code[y] /\ Inside(list, y) = 0 /\ Inside(list, k) = 0
      BY <2>4, <2>5, <2>9, <2>13
    <3>2. Open(blanked, i, y) - Open(blanked, i, k)
            = Open(code, i, y) - Open(code, i, k)
      BY <2>6, <2>7, <3>1
    <3>3. Open(blanked, i, y) \in Int /\ Open(code, i, y) \in Int
      BY <2>6, <2>7
    <3> QED
      BY <2>2, <2>3, <2>6, <2>7, <3>1, <3>2, <3>3
  <2> QED
    BY <2>10, <2>11, <2>12, <2>13
<1>5. Nat \subseteq S
  <2> HIDE DEF S
  <2> QED
    BY <1>3, <1>4, NatClosed
<1>6. PICK d \in Nat : h + d = l
  <2>1. l - h \in Nat /\ h + (l - h) = l
    BY <1>2
  <2> QED
    BY <2>1
<1>7. Open(blanked, i, l) \in Int
  BY OpenStep
<1> QED
  BY <1>1, <1>5, <1>6, <1>7, SMTT(30)

LEMMA BlankedOpen ==
  ASSUME NEW list \in Seq(Command)
  PROVE  StaysOpen(KindsIn(list), Len(list))
           <=> StaysOpen(Blanked(list), Len(list))
<1>1. PICK n, code, blanked :
        /\ n \in Nat
        /\ n = Len(list) /\ code = KindsIn(list) /\ blanked = Blanked(list)
        /\ \A i \in 1 .. n : code[i] = list[i].c
        /\ \A i \in 1 .. n : blanked[i]
                               = IF Gone(list, i) THEN "0" ELSE list[i].c
  <2>1. \A i \in 1 .. Len(list) : KindsIn(list)[i] = list[i].c
    BY KindsInType
  <2>2. \A i \in 1 .. Len(list) :
          Blanked(list)[i] = IF Gone(list, i) THEN "0" ELSE list[i].c
    BY DEF Blanked
  <2> QED
    BY <2>1, <2>2
<1>2. ASSUME NEW i \in 1 .. n, list[i].c = "["
      PROVE  ~Clears(list, i - 1) /\ ~Clears(list, i - 2)
  <2>1. PICK h \in Int, g \in Int :
        h = i - 1 /\ g = i - 2 /\ i = h + 1 /\ i = g + 2
    OBVIOUS
  <2>2. Clears(list, h) => list[i].c \in {"+", "-"}
    BY <2>1 DEF Clears
  <2>3. Clears(list, g) => list[i].c = "]"
    BY <2>1 DEF Clears
  <2> QED
    BY <1>2, <2>1, <2>2, <2>3
<1>3. ASSUME StaysOpen(code, n) PROVE StaysOpen(blanked, n)
  <2>1. PICK i \in 1 .. n : \A l \in i .. n : Open(code, i, l) >= 1
    BY <1>3 DEF StaysOpen
  <2>2. code[i] = "[" /\ list[i].c = "["
    BY <1>1, <2>1, OpensAt
  <2>3. ASSUME NEW l \in i .. n PROVE Open(blanked, i, l) >= 1
    <3>1. Open(code, i, l) = Open(blanked, i, l) + Inside(list, l)
            /\ Open(blanked, i, l) \in Int
      BY <1>1, <1>2, <2>2, ClearedCount
    <3>2. Open(code, i, l) >= 1
      BY <2>1
    <3>3. PICK x \in Int, y \in Int : x = l + 1 /\ y = l + 2 /\ y = x + 1
            /\ i <= l + 1 /\ i <= x + 1 /\ x = (l - 1) + 2 /\ l - 1 = x - 2
      OBVIOUS
    <3>4. CASE Clears(list, l)
      <4>1. /\ x \in 1 .. n /\ y \in 1 .. n
            /\ list[x].c \in {"+", "-"} /\ list[y].c = "]"
        BY <1>1, <3>3, <3>4 DEF Clears
      <4>2. code[x] \notin {"[", "]"} /\ code[y] = "]"
        BY <1>1, <4>1
      <4>3. Open(code, i, x) = Open(code, i, l) /\ Open(code, i, l) \in Int
        BY <3>3, <4>2, OpenStep
      <4>4. Open(code, i, y) = Open(code, i, x) - 1
        BY <3>3, <4>2, OpenStep
      <4>5. Open(code, i, y) >= 1
        BY <2>1, <3>3, <4>1
      <4>6. Inside(list, l) = 1
        BY <3>4 DEF Inside
      <4> QED
        BY <3>1, <4>3, <4>4, <4>5, <4>6
    <3>5. CASE Clears(list, l - 1)
      <4>1. x \in 1 .. n /\ list[x].c = "]"
        BY <1>1, <3>3, <3>5 DEF Clears
      <4>2. code[x] = "]"
        BY <1>1, <4>1
      <4>3. Open(code, i, x) = Open(code, i, l) - 1 /\ Open(code, i, l) \in Int
        BY <3>3, <4>2, OpenStep
      <4>4. Open(code, i, x) >= 1
        BY <2>1, <3>3, <4>1
      <4>5. Inside(list, l) = 1
        BY <3>5 DEF Inside
      <4> QED
        BY <3>1, <4>3, <4>4, <4>5
    <3>6. CASE ~Clears(list, l) /\ ~Clears(list, l - 1)
      BY <3>1, <3>2, <3>6 DEF Inside
    <3> QED
      BY <3>4, <3>5, <3>6
  <2> QED
    BY <2>3 DEF StaysOpen
<1>4. ASSUME StaysOpen(blanked, n) PROVE StaysOpen(code, n)
  <2>1. PICK i \in 1 .. n : \A l \in i .. n : Open(blanked, i, l) >= 1
    BY <1>4 DEF StaysOpen
  <2>2. blanked[i] = "["
    BY <2>1, OpensAt
  <2>3. list[i].c = "["
    BY <1>1, <2>2
  <2>4. ASSUME NEW l \in i .. n PROVE Open(code, i, l) >= 1
    <3>1. Open(code, i, l) = Open(blanked, i, l) + Inside(list, l)
            /\ Open(blanked, i, l) \in Int
      BY <1>1, <1>2, <2>3, ClearedCount
    <3>2. Inside(list, l) \in {0, 1}
      BY DEF Inside
    <3> QED
      BY <2>1, <3>1, <3>2
  <2> QED
    BY <2>4 DEF StaysOpen
<1> QED
  BY <1>1, <1>3, <1>4

(* -O1 takes no half of a pair away.                                       *)
LEMMA ClearingOpen ==
  ASSUME NEW list \in Seq(Command)
  PROVE  LET rest == OptimizeDataClr(list)
         IN  StaysOpen(KindsIn(rest), Len(rest))
               <=> StaysOpen(KindsIn(list), Len(list))
<1>1. PICK rest, at :
        /\ rest \in Seq(Command)
        /\ rest = OptimizeDataClr(list)
        /\ Orders(at, rest, Cleared(list), KeptPlaces(list), Len(list))
  BY OptimizeDataClrType
<1>2. PICK n, blanked :
        /\ n \in Nat
        /\ n = Len(list) /\ blanked = Blanked(list)
        /\ \A i \in 1 .. n : blanked[i]
                               = IF Gone(list, i) THEN "0" ELSE list[i].c
  <2>1. \A i \in 1 .. Len(list) :
          Blanked(list)[i] = IF Gone(list, i) THEN "0" ELSE list[i].c
    BY DEF Blanked
  <2> QED
    BY <2>1
<1>3. ASSUME NEW k \in 1 .. Len(rest)
      PROVE  KindsIn(rest)[k] = blanked[at[k]]
  <2>1. PICK i \in 1 .. n : i = at[k] /\ i \in KeptPlaces(list)
          /\ rest[k] = Cleared(list)[i]
    BY <1>1, <1>2 DEF Orders
  <2>2. ~Clears(list, i - 1) /\ ~Clears(list, i - 2)
    BY <2>1 DEF KeptPlaces
  <2>3. Cleared(list)[i] = IF Clears(list, i) THEN Cmd("0", 0) ELSE list[i]
    BY <1>2 DEF Cleared
  <2>4. Cmd("0", 0).c = "0"
    BY CmdType, KindsOf
  <2>5. KindsIn(rest)[k] = rest[k].c
    BY <1>1, KindsInType
  <2> QED
    BY <1>2, <2>1, <2>2, <2>3, <2>4, <2>5 DEF Gone
<1>4. ASSUME NEW i \in 1 .. n, blanked[i] \in {"[", "]"}
      PROVE  i \in KeptPlaces(list)
  <2>1. ~Gone(list, i) /\ list[i].c \in {"[", "]"}
    BY <1>2, <1>4
  <2>2. list[i].c \in Symbols
    BY <2>1 DEF Symbols
  <2> QED
    BY <1>2, <2>1, <2>2 DEF KeptPlaces, Gone
<1>5. Embeds(at, KindsIn(rest), Len(rest), blanked, n)
  BY <1>1, <1>2, <1>3, <1>4, OrdersEmbeds
<1>6. Len(rest) \in Nat
  OBVIOUS
<1> QED
  BY <1>1, <1>2, <1>5, <1>6, EmbedsOpen, BlankedOpen

(* bfpp refuses the sources that have a [ without a ], at either level.    *)
LEMMA OutputOpen ==
  ASSUME NEW source \in Seq(STRING), NEW level \in 0 .. 1
  PROVE  LinkingFails(Optimize(Translate(source), level))
           <=> StaysOpen(source, Len(source))
<1>1. PICK input \in Seq(Command) : input = Translate(source)
  BY TranslateType
<1>2. PICK list \in Seq(Command) :
        list = Optimize(input, level) /\ list # <<>>
  <2>1. level \in {0, 1}
    OBVIOUS
  <2> QED
    BY <1>1, <2>1, PrologueIs
<1>3. StaysOpen(KindsIn(list), Len(list))
        <=> StaysOpen(KindsIn(input), Len(input))
  <2>1. list = input \/ list = OptimizeDataClr(input)
    BY <1>2 DEF Optimize
  <2> QED
    BY <2>1, ClearingOpen
<1> QED
  BY <1>1, <1>2, <1>3, TranslateOpen, FailsWhenOpen

-----------------------------------------------------------------------------
(* bfpp decides once, and nothing after it returns what it returned.       *)
RejectInv ==
  /\ program = Source
  /\ stage # "source" =>
       (status = -2 <=> job.lacks = "source" \/ LinkingFails(Output(job)))
  /\ stage \in {"compiled", "execute", "language", "beyond"} => status = 0

LEMMA RejectInit == Init => RejectInv
BY DEF Init, RejectInv

LEMMA LanguageKeeps ==
  ASSUME LanguageStep
  PROVE  program' = program
<1>1. CASE L!Next
  BY <1>1 DEF L!Next, L!Count, L!Move, L!Put, L!Get, L!Branch
<1>2. CASE LWord!Next
  BY <1>2 DEF LWord!Next, LWord!Count, LWord!Move, LWord!Put, LWord!Get,
              LWord!Branch
<1> QED
  BY <1>1, <1>2 DEF LanguageStep

LEMMA RejectNext ==
  ASSUME RejectInv, [Next]_vars
  PROVE  RejectInv'
<1> USE DEF RejectInv
<1>1. ASSUME UNCHANGED job, UNCHANGED program
      PROVE  (program = Source)'
  BY <1>1 DEF Source
<1>2. CASE BfppMain
  <2>1. UNCHANGED job /\ UNCHANGED program
    BY <1>2 DEF BfppMain, languageVars
  <2>2. Output(job)' = Output(job) /\ job' = job
    BY <2>1 DEF Output
  <2>3. stage' \in {"ended", "compiled"} /\ (stage' = "compiled" => status' = 0)
    BY <1>2 DEF BfppMain
  <2>4. status' = -2 <=> job.lacks = "source" \/ LinkingFails(Output(job))
    BY <1>2 DEF BfppMain, Output
  <2>5. LinkingFails(Output(job))' <=> LinkingFails(Output(job))
    BY <2>2
  <2> QED
    BY <1>1, <2>1, <2>2, <2>3, <2>4, <2>5
<1>3. ASSUME UNCHANGED job, UNCHANGED program, stage # "source",
             status' = status \/ (status = 0 /\ status' # -2),
             stage' \in {"compiled", "execute", "language", "beyond"} =>
               status' = 0
      PROVE  RejectInv'
  <2>1. LinkingFails(Output(job))' <=> LinkingFails(Output(job))
    BY <1>3 DEF Output
  <2>2. job' = job
    BY <1>3
  <2> QED
    BY <1>1, <1>3, <2>1, <2>2
<1>4. CASE Start
  BY <1>3, <1>4 DEF Start, languageVars
<1>5. CASE Refuse
  BY <1>3, <1>5 DEF Refuse, languageVars, CRASH
<1>6. CASE Instruction
  BY <1>3, <1>6 DEF Instruction, languageVars
<1>7. CASE Leave
  BY <1>3, <1>7 DEF Leave, languageVars
<1>8. CASE LanguageStep
  BY <1>3, <1>8, LanguageKeeps DEF LanguageStep
<1>9. CASE Exit
  BY <1>3, <1>9 DEF Exit, languageVars
<1>10. CASE UNCHANGED vars
  <2>1. UNCHANGED <<job, program, stage, status>>
    BY <1>10 DEF vars, languageVars
  <2>2. LinkingFails(Output(job))' <=> LinkingFails(Output(job))
    BY <2>1 DEF Output
  <2> QED
    BY <1>1, <2>1, <2>2
<1> QED
  BY <1>2, <1>4, <1>5, <1>6, <1>7, <1>8, <1>9, <1>10 DEF Next

LEMMA RejectGives == TypeInv /\ RejectInv => RejectsUnclosed
<1> SUFFICES ASSUME TypeInv, RejectInv, stage # "source"
             PROVE  status = -2 <=>
                      \/ job.lacks = "source"
                      \/ \E i \in DOMAIN program :
                           /\ program[i] = "["
                           /\ \A j \in DOMAIN program :
                                ~L!Encloses(program, i, j)
  BY DEF RejectsUnclosed
<1>1. job.source \in Seq(STRING) /\ job.level \in 0 .. 1
  BY JobType DEF TypeInv, CompiledType
<1>2. PICK source \in Seq(STRING) : source = job.source
  BY <1>1
<1> DEFINE places == {i \in DOMAIN source : IsASymbol(source[i])
                                              /\ source[i] # "~"}
<1>3. places \in SUBSET (1 .. Len(source))
  OBVIOUS
<1>4. \A i \in 1 .. Len(source) : source[i] \in {"[", "]"} => i \in places
  <2>1. "[" \in Symbols /\ "]" \in Symbols
    BY DEF Symbols
  <2> QED
    BY <2>1 DEF IsASymbol
<1>5. program = At(source, places)
  BY <1>2 DEF RejectInv, Source
<1> HIDE DEF places
<1>6. program \in Seq(STRING)
  BY <1>5, <1>3, AtType
<1>7. StaysOpen(program, Len(program)) <=> StaysOpen(source, Len(source))
  BY <1>4, <1>5, <1>3, TakenOpen
<1>8. LinkingFails(Output(job)) <=> StaysOpen(source, Len(source))
  BY <1>1, <1>2, OutputOpen DEF Output
<1>9. StaysOpen(program, Len(program)) <=> Unmatched(program, Len(program))
  <2>1. Len(program) \in Nat
    BY <1>6
  <2> QED
    BY <2>1, UnmatchedStaysOpen
<1>10. DOMAIN program = 1 .. Len(program)
  BY <1>6
<1> QED
  BY <1>7, <1>8, <1>9, <1>10 DEF RejectInv, Unmatched

(* For every source, of any length and with any order of brackets, at both *)
(* levels: bfpp fails exactly when it cannot read the source or a [ is     *)
(* never closed.  Merged runs, comments, the debug symbol and the loops    *)
(* that -O1 clears with change nothing about it; a ] that closes nothing   *)
(* is accepted (Bf.cpp:88-265, bfpp.cpp:285-322).                          *)
THEOREM RefusesTheUnclosed == Spec => []RejectsUnclosed
<1>1. RejectInv /\ [Next]_vars => RejectInv'
  BY RejectNext
<1>2. Init => RejectInv
  BY RejectInit
<1>3. Spec => []RejectInv
  BY <1>1, <1>2, PTL DEF Spec
<1>4. TypeInv /\ RejectInv => RejectsUnclosed
  BY RejectGives
<1> QED
  BY <1>3, <1>4, TypeAlways, PTL

-----------------------------------------------------------------------------
(* How ExecCode takes the word of a command apart.                         *)

LEMMA HalfIs == \E k \in Nat : BiasHalf = 16 * k /\ k >= 1
<1>1. BiasSize \in Nat /\ BiasSize % 32 = 0 /\ BiasSize >= 32
  BY BfWordsAssumption
<1>2. PICK q \in Int, r \in 0 .. 32 - 1 :
        BiasSize = q * 32 + r /\ BiasSize % 32 = r
  BY <1>1, ModExists
<1>3. BiasSize = 2 * BiasHalf /\ BiasHalf \in Nat
  BY Sizes
<1> QED
  BY <1>1, <1>2, <1>3

(* A word with a count of its own has one of two operations.               *)
LEMMA CountedOperation ==
  ASSUME NEW q \in Int, NEW n \in 0 .. BiasSize - 1,
         NEW word \in Int, word = q * BiasHalf + n
  PROVE  \/ Operation(word) = q * BiasHalf
         \/ Operation(word) = q * BiasHalf + BiasHalf
<1>1. PICK h \in Nat : h = BiasHalf /\ h >= 16 /\ BiasSize = 2 * h
  BY Sizes
<1>2. CASE n < h
  <2>1. n \in 0 .. BiasHalf - 1
    BY <1>1, <1>2
  <2> QED
    BY <2>1, OperationIs
<1>3. CASE ~(n < h)
  <2>1. PICK p \in Int, r \in 0 .. BiasHalf - 1 : p = q + 1 /\ r = n - h
    BY <1>1, <1>3
  <2>2. p * h = q * h + h
    <3>1. h \in Nat \ {0}
      BY <1>1
    <3> QED
      BY <2>1, <3>1, Multiple
  <2>3. word = p * BiasHalf + r
    BY <1>1, <2>1, <2>2
  <2>4. Operation(word) = p * BiasHalf
    BY <2>3, OperationIs
  <2> QED
    BY <1>1, <2>2, <2>4
<1> QED
  BY <1>2, <1>3

LEMMA OperationOf ==
  ASSUME NEW cmd \in Command
  PROVE  LET op == Operation(GetCmd(cmd)) IN
         /\ cmd.c \in {"+", "-"} => op \in {2 * BiasHalf, 3 * BiasHalf}
         /\ cmd.c \in {">", "<"} => op \in {4 * BiasHalf, 5 * BiasHalf}
         /\ cmd.c = "[" => op \in {6 * BiasHalf, 7 * BiasHalf}
         /\ cmd.c = "]" => op \in {8 * BiasHalf, 9 * BiasHalf}
         /\ cmd.c \in {".", ",", "0", "H"} => op = BiasHalf
         /\ cmd.c = Blank => op = 0
<1>1. PICK h \in Nat : h = BiasHalf /\ h >= 16 /\ BiasSize = 2 * h
  BY Sizes
<1>2. PICK n \in 0 .. BiasSize - 1 :
        /\ cmd.c \in {">", "<"} => GetCmd(cmd) = 4 * BiasHalf + n
        /\ cmd.c \in {"+", "-"} => GetCmd(cmd) = 2 * BiasHalf + n
        /\ cmd.c = "[" => GetCmd(cmd) = 6 * BiasHalf + n
        /\ cmd.c = "]" => GetCmd(cmd) = 8 * BiasHalf + n
        /\ cmd.c = "." => GetCmd(cmd) = BiasHalf + 2
        /\ cmd.c = "," => GetCmd(cmd) = BiasHalf + 1
        /\ cmd.c = "0" => GetCmd(cmd) = BiasHalf + 4
        /\ cmd.c = "H" => GetCmd(cmd) = BiasHalf + 8
        /\ cmd.c \notin {">", "<", "+", "-", "[", "]", ".", ",", "0", "H"}
             => GetCmd(cmd) = 0
  BY WordParts
<1> DEFINE w == GetCmd(cmd)
<1>3. w \in Int
  BY GetCmdRange, WordIsInt
<1>4. ASSUME NEW q \in Int, w = q * BiasHalf + n
      PROVE  Operation(w) \in {q * BiasHalf, q * BiasHalf + BiasHalf}
  BY <1>3, <1>4, CountedOperation
<1>5. ASSUME NEW m \in 0 .. 15, w = BiasHalf + m
      PROVE  Operation(w) = BiasHalf
  <2>1. PICK q \in Int : q = 1 /\ q * h = h
    BY <1>1
  <2>2. m \in 0 .. BiasHalf - 1 /\ w = q * BiasHalf + m
    BY <1>1, <1>5, <2>1
  <2>3. Operation(w) = q * BiasHalf
    BY <1>3, <2>2, OperationIs
  <2> QED
    BY <1>1, <2>1, <2>3
<1> HIDE DEF w
<1>6. ASSUME cmd.c \in {"+", "-"}
      PROVE  Operation(w) \in {2 * BiasHalf, 3 * BiasHalf}
  <2>1. w = 2 * BiasHalf + n
    BY <1>2, <1>6 DEF w
  <2>2. Operation(w) \in {2 * BiasHalf, 2 * BiasHalf + BiasHalf}
    BY <1>4, <2>1
  <2> QED
    BY <1>1, <2>2
<1>7. ASSUME cmd.c \in {">", "<"}
      PROVE  Operation(w) \in {4 * BiasHalf, 5 * BiasHalf}
  <2>1. w = 4 * BiasHalf + n
    BY <1>2, <1>7 DEF w
  <2>2. Operation(w) \in {4 * BiasHalf, 4 * BiasHalf + BiasHalf}
    BY <1>4, <2>1
  <2> QED
    BY <1>1, <2>2
<1>8. ASSUME cmd.c = "["
      PROVE  Operation(w) \in {6 * BiasHalf, 7 * BiasHalf}
  <2>1. w = 6 * BiasHalf + n
    BY <1>2, <1>8 DEF w
  <2>2. Operation(w) \in {6 * BiasHalf, 6 * BiasHalf + BiasHalf}
    BY <1>4, <2>1
  <2> QED
    BY <1>1, <2>2
<1>9. ASSUME cmd.c = "]"
      PROVE  Operation(w) \in {8 * BiasHalf, 9 * BiasHalf}
  <2>1. w = 8 * BiasHalf + n
    BY <1>2, <1>9 DEF w
  <2>2. Operation(w) \in {8 * BiasHalf, 8 * BiasHalf + BiasHalf}
    BY <1>4, <2>1
  <2> QED
    BY <1>1, <2>2
<1>10. ASSUME cmd.c \in {".", ",", "0", "H"} PROVE Operation(w) = BiasHalf
  <2>1. PICK m \in {1, 2, 4, 8} : w = BiasHalf + m
    BY <1>2, <1>10 DEF w
  <2>2. m \in 0 .. 15
    OBVIOUS
  <2> QED
    BY <1>5, <2>1, <2>2
<1>11. ASSUME cmd.c = Blank PROVE Operation(w) = 0
  <2>1. w = 0
    BY <1>2, <1>11 DEF w, Blank
  <2>2. PICK q \in Int, m \in 0 .. BiasHalf - 1 :
          q = 0 /\ m = 0 /\ q * BiasHalf = 0 /\ w = q * BiasHalf + m
    BY <1>1, <2>1
  <2>3. Operation(w) = q * BiasHalf
    BY <1>3, <2>2, OperationIs
  <2> QED
    BY <2>2, <2>3
<1> QED
  BY <1>6, <1>7, <1>8, <1>9, <1>10, <1>11 DEF w

(* Which bits the count of an IO command has.                              *)
LEMMA MaskBits ==
  ASSUME NEW k \in Int, NEW m \in {1, 2, 4, 8}, NEW w \in Int, w = 16 * k + m
  PROVE  /\ Has(w, CMD_INPUT_MASK) <=> m = 1
         /\ Has(w, CMD_OUTPUT_MASK) <=> m = 2
         /\ Has(w, CMD_CTRLIO_CLR_DATA) <=> m = 4
         /\ Has(w, CMD_CTRLIO_HALT) <=> m = 8
<1>1. (w \div 1) % 2 = 1 <=> m = 1
  OBVIOUS
<1>2. (w \div 2) % 2 = 1 <=> m = 2
  OBVIOUS
<1>3. (w \div 4) % 2 = 1 <=> m = 4
  OBVIOUS
<1>4. (w \div 8) % 2 = 1 <=> m = 8
  OBVIOUS
<1> QED
  BY <1>1, <1>2, <1>3, <1>4 DEF Has, CMD_INPUT_MASK, CMD_OUTPUT_MASK,
                                CMD_CTRLIO_CLR_DATA, CMD_CTRLIO_HALT

LEMMA MasksOf ==
  ASSUME NEW cmd \in Command
  PROVE  LET w == GetCmd(cmd) IN
         /\ cmd.c = "," => Has(w, CMD_INPUT_MASK)
         /\ cmd.c = "." => Has(w, CMD_OUTPUT_MASK) /\ ~Has(w, CMD_INPUT_MASK)
         /\ cmd.c = "0" => /\ Has(w, CMD_CTRLIO_CLR_DATA)
                           /\ ~Has(w, CMD_INPUT_MASK)
                           /\ ~Has(w, CMD_OUTPUT_MASK)
         /\ cmd.c = "H" => /\ Has(w, CMD_CTRLIO_HALT)
                           /\ ~Has(w, CMD_INPUT_MASK)
                           /\ ~Has(w, CMD_OUTPUT_MASK)
                           /\ ~Has(w, CMD_CTRLIO_CLR_DATA)
<1>1. PICK k \in Nat : BiasHalf = 16 * k
  BY HalfIs
<1>2. /\ cmd.c = "." => GetCmd(cmd) = BiasHalf + 2
      /\ cmd.c = "," => GetCmd(cmd) = BiasHalf + 1
      /\ cmd.c = "0" => GetCmd(cmd) = BiasHalf + 4
      /\ cmd.c = "H" => GetCmd(cmd) = BiasHalf + 8
  BY WordParts
<1> DEFINE w == GetCmd(cmd)
<1>3. w \in Int
  BY GetCmdRange, WordIsInt
<1>4. ASSUME NEW m \in {1, 2, 4, 8}, w = BiasHalf + m
      PROVE  /\ Has(w, CMD_INPUT_MASK) <=> m = 1
             /\ Has(w, CMD_OUTPUT_MASK) <=> m = 2
             /\ Has(w, CMD_CTRLIO_CLR_DATA) <=> m = 4
             /\ Has(w, CMD_CTRLIO_HALT) <=> m = 8
  <2>1. w = 16 * k + m
    BY <1>1, <1>4
  <2> HIDE DEF w
  <2> QED
    BY <1>3, <2>1, MaskBits
<1> HIDE DEF w
<1>5. ASSUME cmd.c = "," PROVE Has(w, CMD_INPUT_MASK)
  <2>1. w = BiasHalf + 1
    BY <1>2, <1>5 DEF w
  <2> QED
    BY <1>4, <2>1
<1>6. ASSUME cmd.c = "."
      PROVE  Has(w, CMD_OUTPUT_MASK) /\ ~Has(w, CMD_INPUT_MASK)
  <2>1. w = BiasHalf + 2
    BY <1>2, <1>6 DEF w
  <2> QED
    BY <1>4, <2>1
<1>7. ASSUME cmd.c = "0"
      PROVE  /\ Has(w, CMD_CTRLIO_CLR_DATA)
             /\ ~Has(w, CMD_INPUT_MASK) /\ ~Has(w, CMD_OUTPUT_MASK)
  <2>1. w = BiasHalf + 4
    BY <1>2, <1>7 DEF w
  <2> QED
    BY <1>4, <2>1
<1>8. ASSUME cmd.c = "H"
      PROVE  /\ Has(w, CMD_CTRLIO_HALT)
             /\ ~Has(w, CMD_INPUT_MASK) /\ ~Has(w, CMD_OUTPUT_MASK)
             /\ ~Has(w, CMD_CTRLIO_CLR_DATA)
  <2>1. w = BiasHalf + 8
    BY <1>2, <1>8 DEF w
  <2> QED
    BY <1>4, <2>1
<1> QED
  BY <1>5, <1>6, <1>7, <1>8 DEF w

(* Each word is executed as the command that it encodes.                   *)
LEMMA ExecIs ==
  ASSUME ExecCode, NEW cmd \in Command, Bits = GetCmd(cmd)
  PROVE  /\ cmd.c \in {"+", "-"} => Add
         /\ cmd.c \in {">", "<"} => Right
         /\ cmd.c = "[" => Jz
         /\ cmd.c = "]" => Jnz
         /\ cmd.c = "." => Putc
         /\ cmd.c = "," => Getc
         /\ cmd.c = "0" => ClrData
         /\ cmd.c = "H" => IF array THEN Halt ELSE Nop
         /\ cmd.c = Blank => Nop
<1>1. PICK h \in Nat : h = BiasHalf /\ h >= 16 /\ BiasSize = 2 * h
  BY Sizes
<1>2. /\ CMD_NOP = 0 /\ CMD_IO = h /\ CMD_ADD = 2 * h /\ CMD_RIGHT = 4 * h
      /\ CMD_JZ = 6 * h /\ CMD_JNZ = 8 * h
  BY <1>1 DEF CMD_NOP, CMD_IO, CMD_ADD, CMD_RIGHT, CMD_JZ, CMD_JNZ
<1>3. PICK op : op = Operation(Bits)
  OBVIOUS
<1>4. /\ Nop => op = 0 \/ op = h \/ op >= 10 * h
      /\ Getc \/ Putc \/ ClrData \/ Halt => op = h
      /\ Add => op = 2 * h \/ op = 3 * h
      /\ Right => op = 4 * h \/ op = 5 * h
      /\ Jz => op = 6 * h \/ op = 7 * h
      /\ Jnz => op = 8 * h \/ op = 9 * h
  BY <1>1, <1>2, <1>3 DEF Nop, Getc, Putc, ClrData, Halt, Add, Right, Jz, Jnz,
                          Is, IsIO
<1>5. Nop \/ Getc \/ Putc \/ ClrData \/ Halt \/ Add \/ Right \/ Jz \/ Jnz
  BY DEF ExecCode
<1>6. /\ cmd.c \in {"+", "-"} => op = 2 * h \/ op = 3 * h
      /\ cmd.c \in {">", "<"} => op = 4 * h \/ op = 5 * h
      /\ cmd.c = "[" => op = 6 * h \/ op = 7 * h
      /\ cmd.c = "]" => op = 8 * h \/ op = 9 * h
      /\ cmd.c \in {".", ",", "0", "H"} => op = h
      /\ cmd.c = Blank => op = 0
  BY <1>1, <1>3, OperationOf
<1>7. ASSUME op = h
      PROVE  /\ ~Add /\ ~Right /\ ~Jz /\ ~Jnz
             /\ Nop => /\ ~Has(Bits, CMD_INPUT_MASK)
                       /\ ~Has(Bits, CMD_OUTPUT_MASK)
                       /\ ~Has(Bits, CMD_CTRLIO_CLR_DATA)
                       /\ ~(array /\ Has(Bits, CMD_CTRLIO_HALT))
  <2>1. ~Add /\ ~Right /\ ~Jz /\ ~Jnz
    BY <1>1, <1>4, <1>7
  <2>2. op # CMD_NOP /\ ~(op >= CMD_JNZ + BiasSize)
    BY <1>1, <1>2, <1>7
  <2> QED
    BY <1>3, <2>1, <2>2 DEF Nop
<1>8. /\ Getc => Has(Bits, CMD_INPUT_MASK)
      /\ Putc => Has(Bits, CMD_OUTPUT_MASK) /\ ~Has(Bits, CMD_INPUT_MASK)
      /\ ClrData => /\ Has(Bits, CMD_CTRLIO_CLR_DATA)
                    /\ ~Has(Bits, CMD_INPUT_MASK)
                    /\ ~Has(Bits, CMD_OUTPUT_MASK)
      /\ Halt => /\ array /\ Has(Bits, CMD_CTRLIO_HALT)
                 /\ ~Has(Bits, CMD_INPUT_MASK)
                 /\ ~Has(Bits, CMD_OUTPUT_MASK)
                 /\ ~Has(Bits, CMD_CTRLIO_CLR_DATA)
  BY DEF Getc, Putc, ClrData, Halt, IsIO
<1>9. /\ cmd.c = "," => Has(Bits, CMD_INPUT_MASK)
      /\ cmd.c = "." => /\ Has(Bits, CMD_OUTPUT_MASK)
                        /\ ~Has(Bits, CMD_INPUT_MASK)
      /\ cmd.c = "0" => /\ Has(Bits, CMD_CTRLIO_CLR_DATA)
                        /\ ~Has(Bits, CMD_INPUT_MASK)
                        /\ ~Has(Bits, CMD_OUTPUT_MASK)
      /\ cmd.c = "H" => /\ Has(Bits, CMD_CTRLIO_HALT)
                        /\ ~Has(Bits, CMD_INPUT_MASK)
                        /\ ~Has(Bits, CMD_OUTPUT_MASK)
                        /\ ~Has(Bits, CMD_CTRLIO_CLR_DATA)
  BY MasksOf
<1>10. ASSUME cmd.c = "," PROVE Getc
  BY <1>5, <1>6, <1>7, <1>8, <1>9, <1>10
<1>11. ASSUME cmd.c = "." PROVE Putc
  BY <1>5, <1>6, <1>7, <1>8, <1>9, <1>11
<1>12. ASSUME cmd.c = "0" PROVE ClrData
  BY <1>5, <1>6, <1>7, <1>8, <1>9, <1>12
<1>13. ASSUME cmd.c = "H" PROVE IF array THEN Halt ELSE Nop
  BY <1>5, <1>6, <1>7, <1>8, <1>9, <1>13
<1>14. ASSUME cmd.c \in {"+", "-"} PROVE Add
  <2>1. op = 2 * h \/ op = 3 * h
    BY <1>6, <1>14
  <2>2. ~(Getc \/ Putc \/ ClrData \/ Halt) /\ ~Nop
    BY <1>1, <1>4, <2>1
  <2>3. ~Right /\ ~Jz /\ ~Jnz
    BY <1>1, <1>4, <2>1
  <2> QED
    BY <1>5, <2>2, <2>3
<1>15. ASSUME cmd.c \in {">", "<"} PROVE Right
  <2>1. op = 4 * h \/ op = 5 * h
    BY <1>6, <1>15
  <2>2. ~(Getc \/ Putc \/ ClrData \/ Halt) /\ ~Nop
    BY <1>1, <1>4, <2>1
  <2>3. ~Add /\ ~Jz /\ ~Jnz
    BY <1>1, <1>4, <2>1
  <2> QED
    BY <1>5, <2>2, <2>3
<1>16. ASSUME cmd.c = "[" PROVE Jz
  <2>1. op = 6 * h \/ op = 7 * h
    BY <1>6, <1>16
  <2>2. ~(Getc \/ Putc \/ ClrData \/ Halt) /\ ~Nop
    BY <1>1, <1>4, <2>1
  <2>3. ~Add /\ ~Right /\ ~Jnz
    BY <1>1, <1>4, <2>1
  <2> QED
    BY <1>5, <2>2, <2>3
<1>17. ASSUME cmd.c = "]" PROVE Jnz
  <2>1. op = 8 * h \/ op = 9 * h
    BY <1>6, <1>17
  <2>2. ~(Getc \/ Putc \/ ClrData \/ Halt) /\ ~Nop
    BY <1>1, <1>4, <2>1
  <2>3. ~Add /\ ~Right /\ ~Jz
    BY <1>1, <1>4, <2>1
  <2> QED
    BY <1>5, <2>2, <2>3
<1>18. ASSUME cmd.c = Blank PROVE Nop
  <2>1. op = 0
    BY <1>6, <1>18
  <2>2. ~(Getc \/ Putc \/ ClrData \/ Halt)
    BY <1>1, <1>4, <2>1
  <2>3. ~Add /\ ~Right /\ ~Jz /\ ~Jnz
    BY <1>1, <1>4, <2>1
  <2> QED
    BY <1>5, <2>2, <2>3
<1> QED
  BY <1>10, <1>11, <1>12, <1>13, <1>14, <1>15, <1>16, <1>17, <1>18

LEMMA Congruent ==
  ASSUME NEW n \in Nat \ {0}, NEW x \in Int, NEW y \in Int, NEW t \in Int,
         y = x + t * n
  PROVE  y % n = x % n
<1>1. PICK q \in Int, r \in 0 .. n - 1 : x = q * n + r /\ x % n = r
  BY ModExists
<1>2. PICK p \in Int : p = q + t /\ p * n = q * n + t * n
  OBVIOUS
<1>3. y = p * n + r
  BY <1>1, <1>2
<1>4. y % n = r
  BY <1>3, ModUnique
<1> QED
  BY <1>1, <1>4

(* Words are whole halves, and halves are whole bytes.                     *)
LEMMA ByteParts ==
  \E k \in Nat \ {0} : /\ BiasHalf = k * ByteSize
                       /\ WordSize = (16 * k) * ByteSize
<1>1. BiasHalf \in Nat /\ BiasHalf >= 16 /\ ByteSize \in Nat \ {0}
      /\ WordSize = 16 * BiasHalf
  BY Sizes
<1>2. BiasHalf % ByteSize = 0
  BY BfWordsAssumption DEF BiasHalf
<1>3. PICK k \in Int, r \in 0 .. ByteSize - 1 :
        BiasHalf = k * ByteSize + r /\ BiasHalf % ByteSize = r
  <2>1. PICK b \in Int, n \in Nat \ {0} : b = BiasHalf /\ n = ByteSize
    BY <1>1
  <2>2. \E k \in Int, r \in 0 .. n - 1 : b = k * n + r /\ b % n = r
    BY ModExists
  <2> QED
    BY <2>1, <2>2
<1>4. BiasHalf = k * ByteSize
  BY <1>1, <1>2, <1>3
<1>5. k \in Nat \ {0}
  <2>1. k <= 0 => k * ByteSize <= 0
    <3>1. k = 0 => k * ByteSize = 0
      BY <1>1
    <3>2. k <= -1 => k * ByteSize <= -ByteSize
      BY <1>1, Multiple
    <3> QED
      BY <1>1, <3>1, <3>2
  <2> QED
    BY <1>1, <1>4, <2>1
<1>6. WordSize = (16 * k) * ByteSize
  BY <1>1, <1>4
<1> QED
  BY <1>4, <1>5, <1>6

(* What the emulator adds is what the command counts: of a count that has  *)
(* room, whole words; of any other, bytes.                                 *)
LEMMA CountOf ==
  ASSUME NEW c \in Incrementers, NEW n \in Int, n >= 0,
         NEW cmd \in Command, cmd.c = c, cmd.bias = Cmd(c, n).bias,
         NEW x \in Int
  PROVE  LET all == IF c \in {"<", "-"} THEN x - n ELSE x + n
             sum == x + Bias(GetCmd(cmd))
         IN  /\ sum % ByteSize = all % ByteSize
             /\ n < BiasHalf => Int16(sum) = Int16(all)
<1>1. PICK h \in Nat :
        /\ h = BiasHalf /\ h >= 16 /\ BiasSize = 2 * h /\ WordSize = 16 * h
  BY Sizes
<1>2. PICK s \in Int : s = IF c \in {"<", "-"} THEN -n ELSE n
  OBVIOUS
<1>3. cmd.bias = s % WordSize
  BY <1>2 DEF Cmd, Int16
<1>4. PICK q \in Int, bias \in 0 .. WordSize - 1 :
        s = q * WordSize + bias /\ s % WordSize = bias
  BY Sizes, ModExists
<1>5. PICK p \in Int, count \in 0 .. BiasSize - 1 :
        bias = p * BiasSize + count /\ bias % BiasSize = count
  <2>1. PICK b \in Int, m \in Nat \ {0} : b = bias /\ m = BiasSize
    BY <1>1, <1>4
  <2>2. \E p \in Int, r \in 0 .. m - 1 : b = p * m + r /\ b % m = r
    BY ModExists
  <2> QED
    BY <2>1, <2>2
<1>6. GetCmd(cmd) = 4 * h + count \/ GetCmd(cmd) = 2 * h + count
  <2>1. PICK m \in 0 .. BiasSize - 1 :
          /\ m = cmd.bias % BiasSize
          /\ cmd.c \in {">", "<"} => GetCmd(cmd) = 4 * BiasHalf + m
          /\ cmd.c \in {"+", "-"} => GetCmd(cmd) = 2 * BiasHalf + m
    BY WordParts
  <2>2. m = count
    BY <1>3, <1>4, <1>5, <2>1
  <2>3. cmd.c \in {">", "<"} \/ cmd.c \in {"+", "-"}
    BY DEF Incrementers
  <2> QED
    BY <1>1, <2>1, <2>2, <2>3
<1>7. GetCmd(cmd) % BiasSize = count
  <2>1. \E t \in Int : GetCmd(cmd) = t * BiasSize + count
    <3>1. 4 * h = 2 * BiasSize /\ 2 * h = 1 * BiasSize
      BY <1>1
    <3> QED
      BY <1>6, <3>1
  <2>2. PICK t \in Int, w \in Int : w = GetCmd(cmd) /\ w = t * BiasSize + count
    BY <1>1, <2>1
  <2> QED
    BY <2>2, Sizes, ModUnique
<1>8. Bias(GetCmd(cmd)) = IF count < h THEN count ELSE count + 14 * h
  BY <1>1, <1>7 DEF Bias
<1> DEFINE all == IF c \in {"<", "-"} THEN x - n ELSE x + n
           sum == x + Bias(GetCmd(cmd))
<1>9. all = x + s /\ all \in Int
  BY <1>2
<1>10. sum \in Int
  BY <1>1, <1>8
<1>11. sum % ByteSize = all % ByteSize
  <2>1. PICK k \in Nat \ {0} : BiasHalf = k * ByteSize
    BY ByteParts
  <2>2. PICK e \in Int : e \in {0, 7} /\ sum = x + count + (2 * e) * h
    <3>1. CASE count < h
      <4>1. sum = x + count + (2 * 0) * h
        BY <1>1, <1>8, <3>1
      <4> QED
        BY <4>1
    <3>2. CASE ~(count < h)
      <4>1. sum = x + count + (2 * 7) * h
        BY <1>1, <1>8, <3>2
      <4> QED
        BY <4>1
    <3> QED
      BY <3>1, <3>2
  <2>3. s = (16 * q + 2 * p) * h + count
    <3>1. q * WordSize = (16 * q) * h /\ p * BiasSize = (2 * p) * h
      BY <1>1
    <3>2. (16 * q + 2 * p) * h = (16 * q) * h + (2 * p) * h
      OBVIOUS
    <3> QED
      BY <1>1, <1>4, <1>5, <3>1, <3>2
  <2>4. PICK d \in Int : d = 2 * e - (16 * q + 2 * p)
    BY <2>2
  <2>5. d * h = (2 * e) * h - (16 * q + 2 * p) * h
    BY <2>2, <2>4
  <2>6. sum = all + d * h
    BY <1>1, <1>9, <2>2, <2>3, <2>5
  <2>7. PICK t \in Int : t = d * k /\ t * ByteSize = d * h
    <3>1. ByteSize \in Int
      BY Sizes
    <3> QED
      BY <1>1, <2>1, <3>1
  <2>8. sum = all + t * ByteSize
    BY <2>6, <2>7
  <2> HIDE DEF sum, all
  <2> QED
    BY <1>9, <1>10, <2>8, Sizes, Congruent
<1>12. ASSUME n < BiasHalf PROVE Int16(sum) = Int16(all)
  <2>1. CASE s >= 0
    <3>1. s \in Word
      BY <1>1, <1>2, <1>12, <2>1 DEF Word
    <3>2. bias = s
      BY <1>4, <3>1, Int16Word DEF Int16
    <3>3. count = s
      <4>1. s = 0 * BiasSize + s /\ s \in 0 .. BiasSize - 1
        BY <1>1, <1>2, <1>12, <2>1
      <4>2. s % BiasSize = s
        BY <4>1, Sizes, ModUnique
      <4> QED
        BY <1>5, <3>2, <4>2
    <3>4. sum = all
      BY <1>1, <1>2, <1>8, <1>9, <1>12, <3>3
    <3> QED
      BY <3>4
  <2>2. CASE s < 0
    <3>1. /\ s + WordSize \in 0 .. WordSize - 1
          /\ s = -1 * WordSize + (s + WordSize)
      BY <1>1, <1>2, <1>12, <2>2
    <3>2. s % WordSize = s + WordSize
      BY <3>1, Sizes, ModUnique
    <3>3. bias = s + WordSize
      BY <1>4, <3>2
    <3>4. bias = 7 * BiasSize + (s + BiasSize)
            /\ s + BiasSize \in 0 .. BiasSize - 1
      BY <1>1, <1>2, <1>12, <2>2, <3>3
    <3>5. bias % BiasSize = s + BiasSize
      BY <3>4, Sizes, ModUnique
    <3>6. count = s + BiasSize /\ ~(count < h)
      BY <1>1, <1>2, <1>5, <1>12, <2>2, <3>5
    <3>7. sum = all + WordSize
      BY <1>1, <1>8, <1>9, <3>6
    <3> HIDE DEF sum, all
    <3> QED
      BY <1>9, <1>10, <3>7, Sizes, ModTurn DEF Int16
  <2> QED
    BY <2>1, <2>2
<1> QED
  BY <1>11, <1>12

(* The prologue moves AP by its whole count.                               *)
LEMMA ShiftOf ==
  ASSUME ProloguesFit, NEW cmd \in Command, cmd.c = ">", cmd.bias = ApShift
  PROVE  Bias(GetCmd(cmd)) = ApShift
<1>1. PICK h \in Nat :
        /\ h = BiasHalf /\ h >= 16 /\ BiasSize = 2 * h /\ WordSize = 16 * h
  BY Sizes
<1>2. ApShift \in Int /\ ApShift >= 15 * h /\ ApShift < 16 * h
  BY <1>1, BfCompilerAssumption DEF ProloguesFit, Word
<1>3. PICK n \in 0 .. BiasSize - 1 : n = ApShift - 14 * h /\ ~(n < h)
  BY <1>1, <1>2
<1>4. ApShift = 7 * BiasSize + n
  BY <1>1, <1>2, <1>3
<1>5. ApShift % BiasSize = n
  BY <1>2, <1>4, Sizes, ModUnique
<1>6. GetCmd(cmd) = 4 * h + n
  BY <1>1, <1>5, WordParts
<1>7. PICK w \in Int : w = GetCmd(cmd) /\ w = 2 * BiasSize + n
  BY <1>1, <1>6
<1>8. w % BiasSize = n
  BY <1>7, Sizes, ModUnique
<1>9. WordSize - BiasSize = 14 * h /\ ApShift = n + 14 * h
  BY <1>1, <1>2, <1>3
<1>10. GetCmd(cmd) % BiasSize = n /\ ~(n < BiasHalf)
  BY <1>1, <1>3, <1>7, <1>8
<1> QED
  BY <1>9, <1>10 DEF Bias

-----------------------------------------------------------------------------
(* From the source to the list: which commands an instruction stands for.  *)

LEMMA AtIs ==
  ASSUME NEW seq, NEW places, NEW len \in Nat, len = Len(seq)
  PROVE  \E f : /\ At(seq, places) = f[len]
                /\ \A n \in 0 .. len : f[n] = UpTo(seq, places, f, n)
<1>1. \E f : f = [n \in 0 .. len |-> UpTo(seq, places, f, n)]
  BY UpToExists
<1>2. PICK f : /\ f = [n \in 0 .. len |-> UpTo(seq, places, f, n)]
               /\ At(seq, places) = f[len]
  BY <1>1 DEF At, UpTo
<1> QED
  BY <1>2

(* How many of the first t symbols the language has too. *)
Taken(text, t) == t - BracketsIn(text, "~", 1, t)

LEMMA TakenStep ==
  ASSUME NEW text, NEW t \in Nat, NEW s \in Nat, s = t + 1
  PROVE  /\ Taken(text, 0) = 0 /\ Taken(text, t) \in Int
         /\ text[s] = "~" => Taken(text, s) = Taken(text, t)
         /\ text[s] # "~" => Taken(text, s) = Taken(text, t) + 1
<1>1. /\ BracketsIn(text, "~", 1, 0) = 0
      /\ BracketsIn(text, "~", 1, t) \in Nat
  BY BracketsType
<1>2. BracketsIn(text, "~", 1, s)
        = BracketsIn(text, "~", 1, t) + BracketsIn(text, "~", t + 1, s)
  BY BracketsSplit
<1>3. BracketsIn(text, "~", s, s) = IF text[s] = "~" THEN 1 ELSE 0
  BY BracketsAt
<1> QED
  BY <1>1, <1>2, <1>3 DEF Taken

LEMMA TakenNat ==
  ASSUME NEW text, NEW t \in Nat
  PROVE  Taken(text, t) \in Nat
<1> DEFINE S == {n \in Nat : Taken(text, n) \in Nat}
<1>1. 0 \in S
  BY TakenStep
<1>2. \A n \in S \cap Nat : n + 1 \in S
  BY TakenStep
<1>3. Nat \subseteq S
  <2> HIDE DEF S
  <2> QED
    BY <1>1, <1>2, NatClosed
<1> QED
  BY <1>3

LEMMA TakenSame ==
  ASSUME NEW text, NEW other, NEW t \in Nat,
         \A k \in 1 .. t : text[k] = other[k]
  PROVE  Taken(text, t) = Taken(other, t)
<1>1. {k \in 1 .. t : text[k] = "~"} = {k \in 1 .. t : other[k] = "~"}
  OBVIOUS
<1> QED
  BY <1>1 DEF Taken, BracketsIn

(* Between two places there are only debug symbols, or none. *)
LEMMA TakenWalk ==
  ASSUME NEW text, NEW a \in Nat, NEW b \in Nat, a <= b
  PROVE  /\ (\A x \in a + 1 .. b : text[x] = "~") =>
              Taken(text, b) = Taken(text, a)
         /\ (\A x \in a + 1 .. b : text[x] # "~") =>
              Taken(text, b) = Taken(text, a) + (b - a)
<1>1. BracketsIn(text, "~", 1, b)
        = BracketsIn(text, "~", 1, a) + BracketsIn(text, "~", a + 1, b)
  BY BracketsSplit
<1>2. BracketsIn(text, "~", 1, a) \in Nat
  BY BracketsType
<1>3. ASSUME \A x \in a + 1 .. b : text[x] = "~"
      PROVE  BracketsIn(text, "~", a + 1, b) = b - a
  <2>1. {k \in a + 1 .. b : text[k] = "~"} = a + 1 .. b
    BY <1>3
  <2>2. Cardinality(a + 1 .. b) = b - a
    <3>1. PICK c \in Int : c = a + 1
      OBVIOUS
    <3>2. Cardinality(c .. b) = IF c > b THEN 0 ELSE b - c + 1
      BY FS_Interval
    <3> QED
      BY <3>1, <3>2
  <2> QED
    BY <2>1, <2>2 DEF BracketsIn
<1>4. ASSUME \A x \in a + 1 .. b : text[x] # "~"
      PROVE  BracketsIn(text, "~", a + 1, b) = 0
  <2>1. {k \in a + 1 .. b : text[k] = "~"} = {}
    BY <1>4
  <2> QED
    BY <2>1, FS_EmptySet DEF BracketsIn
<1> QED
  BY <1>1, <1>2, <1>3, <1>4 DEF Taken

(* The source without its debug symbols. *)
Code(source) ==
  At(source, {i \in DOMAIN source : IsASymbol(source[i]) /\ source[i] # "~"})

LEMMA CodeOfText ==
  ASSUME NEW A, NEW source \in Seq(A), NEW text, text = Strip(source)
  PROVE  /\ Code(source) \in Seq(A)
         /\ Len(Code(source)) = Taken(text, Len(text))
         /\ \A t \in 1 .. Len(text) : text[t] # "~" =>
              /\ Taken(text, t) \in 1 .. Len(Code(source))
              /\ Code(source)[Taken(text, t)] = text[t]
<1>1. PICK len \in Nat : len = Len(source)
  OBVIOUS
<1> DEFINE symbols == {i \in DOMAIN source : IsASymbol(source[i])}
           commands == {i \in DOMAIN source : IsASymbol(source[i])
                                              /\ source[i] # "~"}
<1>4. \A n \in 1 .. len : n \in commands <=> n \in symbols /\ source[n] # "~"
  BY <1>1
<1>10. /\ Strip(source) = At(source, symbols)
       /\ Code(source) = At(source, commands)
  BY DEF Strip, Code
<1> HIDE DEF symbols, commands
<1>2. PICK f : /\ At(source, symbols) = f[len]
               /\ \A n \in 0 .. len : f[n] = UpTo(source, symbols, f, n)
  BY <1>1, AtIs
<1>3. PICK g : /\ At(source, commands) = g[len]
               /\ \A n \in 0 .. len : g[n] = UpTo(source, commands, g, n)
  BY <1>1, AtIs
<1>5. \A n \in 1 .. len : source[n] \in A
  BY <1>1
<1> DEFINE Same(u, v) ==
             /\ u \in Seq(A) /\ v \in Seq(A)
             /\ Len(v) = Taken(u, Len(u))
             /\ \A t \in 1 .. Len(u) : u[t] # "~" =>
                  Taken(u, t) \in 1 .. Len(v) /\ v[Taken(u, t)] = u[t]
           S == {n \in Nat : n <= len => Same(f[n], g[n])}
<1>6. 0 \in S
  <2>1. Taken(<<>>, 0) = 0
    BY TakenStep
  <2>2. Same(<<>>, <<>>)
    BY <2>1
  <2> HIDE DEF Same
  <2>3. Same(f[0], g[0])
    <3>1. 0 \in 0 .. len
      BY <1>1
    <3> QED
      BY <1>2, <1>3, <2>2, <3>1 DEF UpTo
  <2> QED
    BY <2>3
<1> HIDE DEF Same
<1>7. ASSUME NEW m \in S \cap Nat PROVE m + 1 \in S
  <2>1. SUFFICES ASSUME NEW n \in 1 .. len, n = m + 1
                 PROVE  Same(f[n], g[n])
    BY <1>1
  <2>2. PICK u \in Seq(A), v \in Seq(A) :
          u = f[m] /\ v = g[m] /\ Same(u, v)
    <3>1. Same(f[m], g[m])
      BY <2>1
    <3> QED
      BY <3>1 DEF Same
  <2>3. n - 1 = m /\ n # 0 /\ n \in 0 .. len
    BY <2>1
  <2>6. /\ f[n] = UpTo(source, symbols, f, n)
        /\ g[n] = UpTo(source, commands, g, n)
    BY <1>2, <1>3, <2>3
  <2>7. u \o <<>> = u /\ v \o <<>> = v
    BY <2>2
  <2>8. /\ f[n] = u \o (IF n \in symbols THEN <<source[n]>> ELSE <<>>)
        /\ g[n] = v \o (IF n \in commands THEN <<source[n]>> ELSE <<>>)
    BY <2>2, <2>3, <2>6 DEF UpTo
  <2>4. CASE n \notin symbols
    <3>1. f[n] = u /\ g[n] = v
      BY <1>4, <2>1, <2>4, <2>7, <2>8
    <3> QED
      BY <2>2, <3>1
  <2>5. CASE n \in symbols
    <3>1. PICK c \in A : c = source[n]
      BY <1>5
    <3>11. u \in Seq(A) /\ v \in Seq(A) /\ c \in A
      BY <2>2, <3>1
    <3>12. u \o <<c>> \in Seq(A)
      BY ONLY <3>11
    <3>2. PICK x \in Seq(A) : x = u \o <<c>>
      BY <3>12
    <3>3. f[n] = x
      BY <2>5, <2>8, <3>1, <3>2
    <3>4. PICK l \in Nat : l = Len(u)
      BY <2>2
    <3>5. /\ Len(x) = l + 1 /\ x[l + 1] = c
          /\ \A k \in 1 .. l : x[k] = u[k]
      BY <2>2, <3>1, <3>2, <3>4
    <3>6. \A t \in 0 .. l : Taken(x, t) = Taken(u, t)
      BY <3>5, TakenSame
    <3>7. /\ Len(v) = Taken(u, l)
          /\ \A t \in 1 .. l : u[t] # "~" =>
               Taken(u, t) \in 1 .. Len(v) /\ v[Taken(u, t)] = u[t]
      BY <2>2, <3>4 DEF Same
    <3>8. PICK w \in Nat : w = Len(v) /\ Taken(x, l) = w
      BY <3>6, <3>7
    <3>9. CASE c = "~"
      <4>1. g[n] = v
        BY <1>4, <2>1, <2>7, <2>8, <3>1, <3>9
      <4>2. Taken(x, l + 1) = w
        BY <3>5, <3>8, <3>9, TakenStep
      <4>3. ASSUME NEW t \in 1 .. l + 1, x[t] # "~"
            PROVE  Taken(x, t) \in 1 .. Len(v) /\ v[Taken(x, t)] = x[t]
        BY <3>5, <3>6, <3>7, <3>9, <4>3
      <4> QED
        BY <3>3, <3>5, <3>8, <4>1, <4>2, <4>3 DEF Same
    <3>10. CASE c # "~"
      <4>1. PICK y \in Seq(A) : y = v \o <<c>> /\ y = g[n]
        <5>1. g[n] = v \o <<c>>
          BY <1>4, <2>1, <2>5, <2>8, <3>1, <3>10
        <5>2. v \o <<c>> \in Seq(A)
          BY <2>2, <3>1
        <5> QED
          BY <5>1, <5>2
      <4>2. /\ Len(y) = w + 1 /\ y[w + 1] = c
            /\ \A k \in 1 .. w : y[k] = v[k]
        BY <2>2, <3>1, <3>8, <4>1
      <4>3. Taken(x, l + 1) = w + 1
        BY <3>5, <3>8, <3>10, TakenStep
      <4>4. ASSUME NEW t \in 1 .. l + 1, x[t] # "~"
            PROVE  Taken(x, t) \in 1 .. Len(y) /\ y[Taken(x, t)] = x[t]
        <5>3. w + 1 \in 1 .. w + 1
          BY <3>8
        <5>1. CASE t = l + 1
          BY <5>3, <3>4, <3>5, <3>8, <4>2, <4>3, <5>1
        <5>2. CASE t \in 1 .. l
          <6>1. Taken(x, t) \in 1 .. w /\ v[Taken(x, t)] = x[t]
            BY <3>5, <3>6, <3>7, <3>8, <4>4, <5>2
          <6> QED
            BY <4>2, <6>1
        <5> QED
          BY <5>1, <5>2
      <4> QED
        BY <3>3, <3>5, <4>1, <4>2, <4>3, <4>4 DEF Same
    <3> QED
      BY <3>9, <3>10
  <2> QED
    BY <2>4, <2>5
<1>8. Nat \subseteq S
  <2> HIDE DEF S
  <2> QED
    BY <1>6, <1>7, NatClosed
<1>9. Same(f[len], g[len])
  BY <1>8
<1>11. text = f[len] /\ Code(source) = g[len]
  BY <1>2, <1>3, <1>10
<1> QED
  BY <1>9, <1>11 DEF Same

(* What an instruction stands for: the commands of the language from p + 1 *)
(* to q.  A run that it counts has room in it.                             *)
Room(c, wide) == IF wide \/ c \in {">", "<"} THEN BiasHalf ELSE WordSize - 1
StandsForRun(cmd, code, p, q, wide) ==
  /\ cmd.c \in Incrementers /\ p < q /\ q - p < Room(cmd.c, wide)
  /\ cmd.bias = Cmd(cmd.c, q - p).bias
  /\ \A k \in p + 1 .. q : code[k] = cmd.c
StandsForOne(cmd, code, p, q) ==
  cmd.c \in {"[", "]", ".", ","} /\ q = p + 1 /\ code[q] = cmd.c
StandsForLoop(cmd, code, p, q) ==
  /\ cmd.c = "0" /\ q = p + 3
  /\ code[p + 1] = "[" /\ code[p + 2] \in {"+", "-"} /\ code[q] = "]"
StandsForNothing(cmd, p, q) == cmd.c = "H" /\ q = p
Stands(cmd, code, p, q, wide) ==
  \/ StandsForRun(cmd, code, p, q, wide)
  \/ StandsForOne(cmd, code, p, q)
  \/ StandsForLoop(cmd, code, p, q)
  \/ StandsForNothing(cmd, p, q)

(* The places of a list in the code, after a prologue. *)
LaidOut(P, list, first, size, code, wide) ==
  /\ P \in [0 .. size -> Nat] /\ first \in 0 .. size
  /\ P[first] = 0 /\ P[size] = Len(code)
  /\ \A h \in first + 1 .. size : Stands(list[h], code, P[h - 1], P[h], wide)

LEMMA RunIs ==
  ASSUME NEW text \in Seq(Symbols), NEW j \in 1 .. Len(text)
  PROVE  \E s \in 0 .. j - 1 :
           /\ RunLength(text, j) = j - s
           /\ s = 0 \/ text[s] # text[j]
           /\ \A k \in s + 1 .. j : text[k] = text[j]
<1> DEFINE others == {k \in 1 .. j : text[k] # text[j]} \union {0}
<1>1. others \subseteq 0 .. j /\ others # {} /\ j \in Nat
  OBVIOUS
<1>2. RunLength(text, j) = j - Max(others)
  BY DEF RunLength
<1>3. PICK s : s = Max(others)
  OBVIOUS
<1>4. s \in others /\ \A x \in others : s >= x
  <2> HIDE DEF others
  <2> QED
    BY <1>1, <1>3, MaxOf
<1>5. s \in 0 .. j - 1 /\ (s = 0 \/ text[s] # text[j])
  BY <1>4
<1>6. ASSUME NEW k \in s + 1 .. j PROVE text[k] = text[j]
  BY <1>4, <1>5
<1> QED
  BY <1>2, <1>3, <1>5, <1>6

LEMMA OnlyDebug ==
  ASSUME NEW text, NEW i \in Nat, NEW s \in Nat,
         i < s => text[s] = "~",
         \A x \in i + 1 .. s - 1 : text[x] # "~" => text[x + 1] = text[x],
         NEW y \in i + 1 .. s
  PROVE  text[y] = "~"
<1> DEFINE T == {x \in i + 1 .. s : text[x] # "~"}
<1>1. SUFFICES ASSUME T # {} PROVE FALSE
  OBVIOUS
<1>2. T \subseteq 0 .. s
  OBVIOUS
<1>3. PICK m : m = Max(T)
  OBVIOUS
<1>4. m \in T /\ \A x \in T : m >= x
  <2> HIDE DEF T
  <2> QED
    BY <1>1, <1>2, <1>3, MaxOf
<1>5. m \in i + 1 .. s /\ text[m] # "~" /\ m # s
  BY <1>4
<1>6. PICK x \in i + 1 .. s : x = m + 1
  BY <1>5
<1>7. text[x] = text[m] /\ x \in T
  BY <1>5, <1>6
<1> QED
  BY <1>4, <1>5, <1>6, <1>7

(* From one symbol that issues an instruction to the next. *)
LEMMA GapTaken ==
  ASSUME NEW text \in Seq(Symbols), NEW i \in Nat, NEW j \in 1 .. Len(text),
         i < j, i = 0 \/ Issues(text, i), Issues(text, j),
         \A x \in i + 1 .. j - 1 : ~Issues(text, x)
  PROVE  /\ text[j] # "~"
         /\ text[j] \notin Incrementers =>
              Taken(text, j) = Taken(text, i) + 1
         /\ text[j] \in Incrementers =>
              \E s \in 0 .. j - 1 :
                /\ RunLength(text, j) = j - s
                /\ \A k \in s .. j : Taken(text, k) = Taken(text, i) + (k - s)
                /\ \A k \in s + 1 .. j : text[k] = text[j]
<1>1. "~" \notin Incrementers
  BY DEF Incrementers
<1>2. text[j] # "~"
  BY <1>1 DEF Issues
<1>3. ASSUME NEW x \in i + 1 .. j - 1
      PROVE  text[x] # "~" => text[x] \in Incrementers /\ text[x + 1] = text[x]
  BY <1>3 DEF Issues
<1>4. CASE text[j] \notin Incrementers
  <2>1. PICK s \in Nat : s = j - 1 /\ s + 1 = j
    OBVIOUS
  <2>2. i < s => text[s] = "~"
    <3>1. SUFFICES ASSUME i < s, text[s] # "~" PROVE FALSE
      OBVIOUS
    <3>2. s \in i + 1 .. j - 1
      BY <2>1, <3>1
    <3>3. text[s] \in Incrementers /\ text[s + 1] = text[s]
      BY <1>3, <3>1, <3>2
    <3> QED
      BY <1>4, <2>1, <3>3
  <2>3. \A x \in i + 1 .. s - 1 : text[x] # "~" => text[x + 1] = text[x]
    BY <1>3, <2>1
  <2>4. \A y \in i + 1 .. s : text[y] = "~"
    BY <2>2, <2>3, OnlyDebug
  <2>5. Taken(text, s) = Taken(text, i)
    <3>1. i <= s
      BY <2>1
    <3> QED
      BY <2>4, <3>1, TakenWalk
  <2>6. Taken(text, j) = Taken(text, s) + 1
    BY <1>2, <2>1, TakenStep
  <2> QED
    BY <1>2, <1>4, <2>5, <2>6
<1>5. CASE text[j] \in Incrementers
  <2>1. PICK s \in 0 .. j - 1 :
          /\ RunLength(text, j) = j - s
          /\ s = 0 \/ text[s] # text[j]
          /\ \A k \in s + 1 .. j : text[k] = text[j]
    BY RunIs
  <2>2. i <= s
    <3>1. SUFFICES ASSUME i > s PROVE FALSE
      OBVIOUS
    <3>2. i \in s + 1 .. j /\ i + 1 \in s + 1 .. j /\ i # Len(text) /\ i # 0
      BY <3>1
    <3>3. text[i] = text[j] /\ text[i + 1] = text[j]
      BY <2>1, <3>2
    <3> QED
      BY <1>5, <3>2, <3>3 DEF Issues
  <2>3. i < s => text[s] = "~"
    <3>1. SUFFICES ASSUME i < s, text[s] # "~" PROVE FALSE
      OBVIOUS
    <3>2. s \in i + 1 .. j - 1 /\ s + 1 \in s + 1 .. j /\ s # 0
      BY <3>1
    <3>3. text[s + 1] = text[s]
      BY <1>3, <3>1, <3>2
    <3> QED
      BY <2>1, <3>2, <3>3
  <2>4. \A x \in i + 1 .. s - 1 : text[x] # "~" => text[x + 1] = text[x]
    BY <1>3
  <2>5. \A y \in i + 1 .. s : text[y] = "~"
    <3>1. s \in Nat
      BY <2>1
    <3> QED
      BY ONLY <2>3, <2>4, <3>1, OnlyDebug, i \in Nat
  <2>6. Taken(text, s) = Taken(text, i)
    BY <2>2, <2>5, TakenWalk
  <2>7. ASSUME NEW k \in s .. j
        PROVE  Taken(text, k) = Taken(text, i) + (k - s)
    <3>1. \A x \in s + 1 .. k : text[x] # "~"
      BY <1>2, <2>1
    <3>2. Taken(text, k) = Taken(text, s) + (k - s)
      BY <3>1, TakenWalk
    <3> QED
      BY <2>6, <3>2
  <2> QED
    BY <1>2, <1>5, <2>1, <2>7
<1> QED
  BY <1>4, <1>5

LEMMA GapAtEnd ==
  ASSUME NEW text \in Seq(Symbols), NEW i \in 0 .. Len(text),
         \A x \in i + 1 .. Len(text) : ~Issues(text, x)
  PROVE  Taken(text, Len(text)) = Taken(text, i)
<1>1. PICK n \in Nat : n = Len(text)
  OBVIOUS
<1>2. ASSUME NEW x \in i + 1 .. n, text[x] # "~"
      PROVE  x # n /\ text[x + 1] = text[x]
  BY <1>1, <1>2 DEF Issues
<1>3. \A y \in i + 1 .. n : text[y] = "~"
  <2>1. i < n => text[n] = "~"
    BY <1>1, <1>2
  <2>2. \A x \in i + 1 .. n - 1 : text[x] # "~" => text[x + 1] = text[x]
    BY <1>2
  <2> QED
    <3>1. i \in Nat
      OBVIOUS
    <3> QED
      BY ONLY <1>1, <2>1, <2>2, <3>1, OnlyDebug
<1> QED
  BY <1>1, <1>3, TakenWalk

(* The place that an element was taken from, and nothing for none. *)
From(at, k) == IF k = 0 THEN 0 ELSE at[k]

(* No place is left out. *)
LEMMA OrdersGap ==
  ASSUME NEW at, NEW list, NEW seq, NEW places, NEW n \in Nat,
         Orders(at, list, seq, places, n), NEW size \in Nat, size = Len(list),
         NEW k \in 0 .. size
  PROVE  /\ From(at, k) \in 0 .. n
         /\ k < size => /\ From(at, k) < at[k + 1]
                        /\ at[k + 1] \in places \cap (1 .. n)
                        /\ \A x \in From(at, k) + 1 .. at[k + 1] - 1 :
                             x \notin places
         /\ k = size => \A x \in From(at, k) + 1 .. n : x \notin places
<1>1. /\ \A h \in 1 .. size : at[h] \in places /\ at[h] \in 1 .. n
      /\ \A h, l \in 1 .. size : h < l => at[h] < at[l]
      /\ \A i \in places \cap (1 .. n) : \E h \in 1 .. size : at[h] = i
  BY DEF Orders
<1>2. PICK i \in 0 .. n : i = From(at, k)
  BY <1>1 DEF From
<1>3. ASSUME NEW h \in 1 .. size PROVE at[h] > i <=> h > k
  <2>1. CASE k = 0
    <3>1. i = 0
      BY <1>2, <2>1 DEF From
    <3> QED
      BY <1>1, <2>1, <3>1
  <2>2. CASE k # 0
    <3>1. i = at[k] /\ k \in 1 .. size
      BY <1>2, <2>2 DEF From
    <3>2. h > k \/ h = k \/ h < k
      OBVIOUS
    <3> QED
      BY <1>1, <3>1, <3>2
  <2> QED
    BY <2>1, <2>2
<1>4. ASSUME k < size
      PROVE  /\ i < at[k + 1] /\ at[k + 1] \in places \cap (1 .. n)
             /\ \A x \in i + 1 .. at[k + 1] - 1 : x \notin places
  <2>1. PICK next \in 1 .. size : next = k + 1
    BY <1>4
  <2>2. at[next] \in places /\ at[next] \in 1 .. n /\ at[next] > i
    BY <1>1, <1>3, <2>1
  <2>3. ASSUME NEW x \in i + 1 .. at[next] - 1, x \in places PROVE FALSE
    <3>1. PICK h \in 1 .. size : at[h] = x
      BY <1>1, <2>2, <2>3
    <3>2. h > k
      BY <1>3, <2>3, <3>1
    <3>3. h = next \/ next < h
      BY <2>1, <3>2
    <3> QED
      BY <1>1, <2>2, <2>3, <3>1, <3>3
  <2> QED
    BY <2>1, <2>2, <2>3
<1>5. ASSUME k = size, NEW x \in i + 1 .. n, x \in places PROVE FALSE
  <2>1. PICK h \in 1 .. size : at[h] = x
    BY <1>1, <1>5
  <2> QED
    BY <1>3, <1>5, <2>1
<1> QED
  BY <1>2, <1>4, <1>5

RunsHaveRoom(text, wide) ==
  \A i \in DOMAIN text : text[i] \in Incrementers =>
    RunLength(text, i) < Room(text[i], wide)

LEMMA IssueCovers ==
  ASSUME NEW source \in Seq(STRING), NEW wide, NEW text, text = Strip(source),
         RunsHaveRoom(text, wide)
  PROVE  \E P : LaidOut(P, Issue(text), 0, Len(Issue(text)), Code(source), wide)
<1>1. text \in Seq(Symbols)
  BY StripType
<1>2. PICK n \in Nat : n = Len(text)
  BY <1>1
<1>3. PICK at : Orders(at, Issue(text), Commands(text), Issued(text), n)
  BY <1>1, <1>2, IssueType
<1>4. PICK size \in Nat : size = Len(Issue(text))
  BY <1>1, IssueType
<1>5. PICK code : /\ code = Code(source) /\ Len(code) = Taken(text, n)
                  /\ \A t \in 1 .. n : text[t] # "~" =>
                       /\ Taken(text, t) \in 1 .. Len(code)
                       /\ code[Taken(text, t)] = text[t]
  <2>1. PICK A : A = STRING
    OBVIOUS
  <2>2. source \in Seq(A)
    BY <2>1
  <2>3. /\ Len(Code(source)) = Taken(text, Len(text))
        /\ \A t \in 1 .. Len(text) : text[t] # "~" =>
             /\ Taken(text, t) \in 1 .. Len(Code(source))
             /\ Code(source)[Taken(text, t)] = text[t]
    BY <2>2, CodeOfText
  <2> QED
    BY <1>2, <2>3
<1>6. \A x \in 1 .. n : x \in Issued(text) <=> Issues(text, x)
  BY <1>1, <1>2 DEF Issued
<1> DEFINE P == [k \in 0 .. size |-> Taken(text, From(at, k))]
<1>7. ASSUME NEW k \in 0 .. size
      PROVE  /\ From(at, k) \in 0 .. n
             /\ From(at, k) = 0 \/ Issues(text, From(at, k))
             /\ P[k] = Taken(text, From(at, k)) /\ P[k] \in Nat
  <2>1. From(at, k) \in 0 .. n
    BY <1>3, <1>4, OrdersGap
  <2>2. k # 0 => at[k] \in Issued(text) \cap (1 .. n)
    BY <1>3, <1>4 DEF Orders
  <2>3. From(at, k) = 0 \/ Issues(text, From(at, k))
    BY <1>6, <2>2 DEF From
  <2>4. Taken(text, From(at, k)) \in Nat
    BY <2>1, TakenNat
  <2> QED
    BY <2>1, <2>3, <2>4
<1>8. P \in [0 .. size -> Nat] /\ P[0] = 0
  <2>1. Taken(text, 0) = 0
    BY TakenStep
  <2>2. 0 \in 0 .. size /\ From(at, 0) = 0
    BY DEF From
  <2>3. P[0] = 0
    BY <2>1, <2>2
  <2> QED
    BY <1>7, <2>3
<1> HIDE DEF P
<1>9. P[size] = Len(code)
  <2>1. size \in 0 .. size
    OBVIOUS
  <2>2. PICK i \in 0 .. n : i = From(at, size)
    BY <1>7, <2>1
  <2>3. \A x \in i + 1 .. n : ~Issues(text, x)
    <3>1. \A x \in i + 1 .. n : x \notin Issued(text)
      BY <1>3, <1>4, <2>1, <2>2, OrdersGap
    <3> QED
      BY <1>6, <3>1
  <2>4. Taken(text, n) = Taken(text, i)
    BY <1>1, <1>2, <2>3, GapAtEnd
  <2> QED
    BY <1>5, <1>7, <2>1, <2>2, <2>4
<1>10. ASSUME NEW k \in 1 .. size
       PROVE  Stands(Issue(text)[k], code, P[k - 1], P[k], wide)
  <2>1. PICK h \in 0 .. size : h = k - 1 /\ h < size /\ h + 1 = k
    OBVIOUS
  <2>2. PICK i \in Nat : i = From(at, h) /\ P[h] = Taken(text, i)
                         /\ (i = 0 \/ Issues(text, i))
    BY <1>7, <2>1
  <2>3. PICK j \in 1 .. n : /\ j = at[k] /\ i < j /\ Issues(text, j)
                            /\ \A x \in i + 1 .. j - 1 : ~Issues(text, x)
    <3>1. /\ i < at[k] /\ at[k] \in 1 .. n /\ at[k] \in Issued(text)
          /\ \A x \in i + 1 .. at[k] - 1 : x \notin Issued(text)
      BY <1>3, <1>4, <2>1, <2>2, OrdersGap
    <3> QED
      BY <1>6, <3>1
  <2>4. P[k] = Taken(text, j)
    <3>1. k \in 0 .. size /\ From(at, k) = at[k]
      BY DEF From
    <3> QED
      BY <1>7, <2>3, <3>1
  <2>5. PICK p \in Nat, q \in Nat : p = P[h] /\ q = P[k]
    BY <1>7, <2>1
  <2>6. PICK cmd : cmd = Issue(text)[k] /\ cmd = Commands(text)[j]
    BY <1>3, <1>4, <2>3 DEF Orders
  <2>7. cmd.c = text[j] /\ j \in DOMAIN text
    BY <1>1, <1>2, <2>6, CommandsType
  <2>8. /\ text[j] # "~"
        /\ text[j] \notin Incrementers => q = p + 1
        /\ text[j] \in Incrementers =>
             \E s \in 0 .. j - 1 :
               /\ RunLength(text, j) = j - s
               /\ \A x \in s .. j : Taken(text, x) = p + (x - s)
               /\ \A x \in s + 1 .. j : text[x] = text[j]
    <3>3. /\ i \in Nat /\ j \in 1 .. Len(text) /\ i < j
          /\ i = 0 \/ Issues(text, i)
          /\ Issues(text, j) /\ \A x \in i + 1 .. j - 1 : ~Issues(text, x)
      BY <1>2, <2>2, <2>3
    <3>1. /\ text[j] # "~"
          /\ text[j] \notin Incrementers =>
               Taken(text, j) = Taken(text, i) + 1
          /\ text[j] \in Incrementers =>
               \E s \in 0 .. j - 1 :
                 /\ RunLength(text, j) = j - s
                 /\ \A x \in s .. j : Taken(text, x) = Taken(text, i) + (x - s)
                 /\ \A x \in s + 1 .. j : text[x] = text[j]
      BY ONLY <1>1, <3>3, GapTaken
    <3>2. Taken(text, i) = p /\ Taken(text, j) = q
      BY <2>2, <2>4, <2>5
    <3> QED
      BY ONLY <3>1, <3>2
  <2>9. CASE text[j] \notin Incrementers
    <3>1. text[j] \in {"[", "]", ".", ","}
      <4>1. text[j] \in Symbols
        BY <1>1, <1>2
      <4> QED
        BY ONLY <2>8, <2>9, <4>1 DEF Symbols, Incrementers
    <3>2. code[q] = text[j]
      BY <1>5, <2>4, <2>5, <2>8
    <3> QED
      BY <2>1, <2>5, <2>6, <2>7, <2>8, <2>9, <3>1, <3>2
      DEF Stands, StandsForOne
  <2>10. CASE text[j] \in Incrementers
    <3>1. PICK s \in 0 .. j - 1 :
            /\ RunLength(text, j) = j - s
            /\ \A x \in s .. j : Taken(text, x) = p + (x - s)
            /\ \A x \in s + 1 .. j : text[x] = text[j]
      BY <2>8, <2>10
    <3>2. q = p + (j - s)
      BY <2>4, <2>5, <3>1
    <3>3. p < q /\ q - p = RunLength(text, j)
      BY <3>1, <3>2
    <3>4. q - p < Room(cmd.c, wide)
      BY <2>7, <2>10, <3>3 DEF RunsHaveRoom
    <3>5. cmd.bias = Cmd(cmd.c, q - p).bias
      <4>1. cmd = Cmd(text[j], RunLength(text, j))
        BY <2>6, <2>7, <2>10 DEF Commands
      <4> QED
        BY <2>7, <3>3, <4>1
    <3>6. ASSUME NEW k2 \in p + 1 .. q PROVE code[k2] = cmd.c
      <4>1. PICK x \in s + 1 .. j : x = s + (k2 - p)
        BY <3>2
      <4>2. x \in s .. j /\ x \in 1 .. n
        BY <4>1
      <4>3. Taken(text, x) = k2 /\ text[x] = text[j]
        BY <3>1, <4>1, <4>2
      <4>4. code[k2] = text[x]
        BY <1>5, <2>8, <4>2, <4>3
      <4> QED
        BY <2>7, <4>3, <4>4
    <3>7. StandsForRun(cmd, code, p, q, wide)
      BY <2>7, <2>10, <3>3, <3>4, <3>5, <3>6 DEF StandsForRun
    <3> QED
      BY <2>1, <2>5, <2>6, <3>7 DEF Stands
  <2> QED
    BY <2>9, <2>10
<1>11. LaidOut(P, Issue(text), 0, size, code, wide)
  BY <1>8, <1>9, <1>10 DEF LaidOut
<1> QED
  BY <1>4, <1>5, <1>11

LEMMA IssueKinds ==
  ASSUME NEW text \in Seq(Symbols), NEW k \in 1 .. Len(Issue(text))
  PROVE  Issue(text)[k].c \in Symbols
<1>3. PICK at : Orders(at, Issue(text), Commands(text), Issued(text), Len(text))
  BY IssueType
<1>4. at[k] \in 1 .. Len(text) /\ Issue(text)[k] = Commands(text)[at[k]]
  BY <1>3 DEF Orders
<1>1. PICK i \in 1 .. Len(text) : Issue(text)[k] = Commands(text)[i]
  BY <1>4
<1>2. Commands(text)[i].c = text[i] /\ text[i] \in Symbols
  BY CommandsType
<1> QED
  BY <1>1, <1>2

(* Translate adds two instructions before them and one after them.         *)
LEMMA TranslateCovers ==
  ASSUME NEW source \in Seq(STRING), NEW wide,
         RunsHaveRoom(Strip(source), wide),
         NEW n \in Nat, n = Len(Translate(source))
  PROVE  /\ n >= 3 /\ \A h \in 3 .. n - 1 : Translate(source)[h].c \in Symbols
         /\ \E P : LaidOut(P, Translate(source), 2, n, Code(source), wide)
<1>1. PICK text \in Seq(Symbols) : text = Strip(source)
  BY StripType
<1>2. PICK list : list = Translate(source)
  OBVIOUS
<1>14. PICK issue : issue = Issue(text)
  OBVIOUS
<1>15. issue \in Seq(Command)
  BY <1>1, <1>14, IssueType
<1>3. PICK size \in Nat : issue = Issue(text) /\ size = Len(issue)
  BY <1>14, <1>15
<1>4. /\ n = size + 3
      /\ \A k \in 1 .. size : list[k + 2] = issue[k]
      /\ list[n].c = "H"
  BY <1>1, <1>2, <1>3, TranslateType
<1>5. PICK P, code : /\ code = Code(source)
                     /\ LaidOut(P, issue, 0, size, code, wide)
  BY <1>1, <1>3, IssueCovers
<1>6. /\ P \in [0 .. size -> Nat] /\ P[0] = 0 /\ P[size] = Len(code)
      /\ \A k \in 1 .. size : Stands(issue[k], code, P[k - 1], P[k], wide)
  BY <1>5 DEF LaidOut
<1>7. ASSUME NEW h \in 3 .. n - 1
      PROVE  \E k \in 1 .. size : h = k + 2 /\ list[h] = issue[k]
  <2>1. PICK k \in 1 .. size : h = k + 2
    <3>1. h - 2 \in 1 .. size /\ h = (h - 2) + 2
      BY <1>4
    <3> QED
      BY <3>1
  <2> QED
    BY <1>4, <2>1
<1>8. \A h \in 3 .. n - 1 : list[h].c \in Symbols
  BY <1>1, <1>3, <1>7, IssueKinds
<1> DEFINE Q == [h \in 0 .. n |->
                   IF h <= 2 THEN 0 ELSE IF h = n THEN P[size] ELSE P[h - 2]]
<1>9. \A h \in 0 .. n : /\ h <= 2 => Q[h] = 0
                        /\ h = n => Q[h] = P[size]
                        /\ h > 2 /\ h # n => Q[h] = P[h - 2]
  BY <1>4
<1>10. Q \in [0 .. n -> Nat]
  <2>1. ASSUME NEW h \in 0 .. n PROVE Q[h] \in Nat
    <3>1. h <= 2 \/ h = n \/ (h > 2 /\ h # n /\ h - 2 \in 0 .. size)
      BY <1>4
    <3> QED
      BY <1>6, <1>9, <3>1
  <2> QED
    BY <2>1
<1> HIDE DEF Q
<1>11. ASSUME NEW h \in 3 .. n
       PROVE  Stands(list[h], code, Q[h - 1], Q[h], wide)
  <2>0. h - 1 \in 0 .. n /\ h \in 0 .. n
    BY <1>4
  <2>1. CASE h = n
    <3>1. Q[h] = P[size] /\ list[h].c = "H"
      BY <1>4, <1>9, <2>0, <2>1
    <3>2. Q[h - 1] = P[size]
      <4>1. CASE size = 0
        <5>1. h - 1 <= 2
          BY <1>4, <2>1, <4>1
        <5> QED
          BY <1>6, <1>9, <2>0, <4>1, <5>1
      <4>2. CASE size # 0
        <5>1. h - 1 > 2 /\ h - 1 # n /\ (h - 1) - 2 = size
          BY <1>4, <2>1, <4>2
        <5> QED
          BY <1>9, <2>0, <5>1
      <4> QED
        BY <4>1, <4>2
    <3> QED
      BY <3>1, <3>2 DEF Stands, StandsForNothing
  <2>2. CASE h # n
    <3>1. PICK k \in 1 .. size : h = k + 2 /\ list[h] = issue[k]
      BY <1>7, <2>2
    <3>2. Q[h] = P[k]
      <4>1. h > 2 /\ h - 2 = k
        BY <3>1
      <4> QED
        BY <1>9, <2>0, <2>2, <4>1
    <3>3. Q[h - 1] = P[k - 1]
      <4>1. CASE k = 1
        <5>1. h - 1 <= 2 /\ k - 1 = 0
          BY <3>1, <4>1
        <5> QED
          BY <1>6, <1>9, <2>0, <5>1
      <4>2. CASE k # 1
        <5>1. h - 1 > 2 /\ h - 1 # n /\ (h - 1) - 2 = k - 1
          BY <1>4, <3>1, <4>2
        <5> QED
          BY <1>9, <2>0, <5>1
      <4> QED
        BY <4>1, <4>2
    <3> QED
      BY <1>6, <3>1, <3>2, <3>3
  <2> QED
    BY <2>1, <2>2
<1>12. Q[2] = 0 /\ Q[n] = Len(code) /\ 2 \in 0 .. n
  <2>1. 2 \in 0 .. n /\ n \in 0 .. n
    BY <1>4
  <2> QED
    BY <1>6, <1>9, <2>1
<1>13. LaidOut(Q, list, 2, n, code, wide)
  BY <1>10, <1>11, <1>12 DEF LaidOut
<1> QED
  BY <1>2, <1>4, <1>5, <1>8, <1>13

(* The last place of what -O1 makes one instruction of.                    *)
Last1(list, i) == IF Clears(list, i) THEN i + 2 ELSE i

(* After an instruction that it keeps, and what it clears with, comes the  *)
(* next that it keeps, or the HALT.                                        *)
LEMMA AfterKept ==
  ASSUME NEW list \in Seq(Command), NEW n \in Nat, n = Len(list), n >= 3,
         list[n].c = "H", \A h \in 3 .. n - 1 : list[h].c \in Symbols,
         NEW i \in KeptPlaces(list), i >= 2,
         NEW e, e = Last1(list, i)
  PROVE  /\ e \in i .. n - 1
         /\ e + 1 = n \/ e + 1 \in KeptPlaces(list)
         /\ \A x \in i + 1 .. e : x \notin KeptPlaces(list)
         /\ n \notin KeptPlaces(list)
<1>1. "H" \notin Symbols /\ "]" \in Symbols
  BY KindsOf DEF Symbols
<1>2. n \notin KeptPlaces(list)
  BY <1>1 DEF KeptPlaces
<1>3. i \in 2 .. n - 1 /\ ~Clears(list, i - 1)
  BY <1>2 DEF KeptPlaces
<1>4. CASE ~Clears(list, i)
  <2>1. e = i
    BY <1>4 DEF Last1
  <2>2. ASSUME i + 1 # n PROVE i + 1 \in KeptPlaces(list)
    <3>1. PICK j \in 3 .. n - 1 : j = i + 1 /\ j - 1 = i /\ j - 2 = i - 1
      BY <1>3, <2>2
    <3>2. list[j].c \in Symbols /\ j \in DOMAIN list
      BY <3>1
    <3> QED
      BY <1>3, <1>4, <3>1, <3>2 DEF KeptPlaces
  <2> QED
    BY <1>2, <1>3, <2>1, <2>2
<1>5. CASE Clears(list, i)
  <2>1. /\ e = i + 2 /\ i + 2 <= n /\ list[i + 2].c = "]"
        /\ list[i + 1].c \in {"-", "+"}
    BY <1>5 DEF Last1, Clears
  <2>2. e # n
    BY <1>1, <2>1
  <2>3. ~Clears(list, i + 1) /\ ~Clears(list, i + 2)
    <3>1. list[i + 1].c # "[" /\ list[i + 2].c # "["
      BY <2>1
    <3> QED
      BY <3>1 DEF Clears
  <2>4. ASSUME i + 3 # n PROVE i + 3 \in KeptPlaces(list)
    <3>1. PICK j \in 3 .. n - 1 : j = i + 3 /\ j - 1 = i + 2 /\ j - 2 = i + 1
      BY <1>3, <2>1, <2>2, <2>4
    <3>2. list[j].c \in Symbols /\ j \in DOMAIN list
      BY <3>1
    <3> QED
      BY <2>3, <3>1, <3>2 DEF KeptPlaces
  <2>5. i + 1 \notin KeptPlaces(list)
    <3>1. PICK j \in Nat : j = i + 1 /\ j - 1 = i
      BY <1>3
    <3> QED
      BY <1>5, <3>1 DEF KeptPlaces
  <2>6. i + 2 \notin KeptPlaces(list)
    <3>1. PICK j \in Nat : j = i + 2 /\ j - 2 = i
      BY <1>3
    <3> QED
      BY <1>5, <3>1 DEF KeptPlaces
  <2>7. /\ e \in i .. n - 1 /\ e + 1 = i + 3
        /\ \A x \in i + 1 .. e : x = i + 1 \/ x = i + 2
    BY <1>3, <2>1, <2>2
  <2> QED
    BY <1>2, <2>4, <2>5, <2>6, <2>7
<1> QED
  BY <1>4, <1>5

(* What [-] and [+] stand for. *)
LEMMA ClearStands ==
  ASSUME NEW list \in Seq(Command), NEW n \in Nat, n = Len(list), NEW P,
         NEW first, NEW code, NEW wide, LaidOut(P, list, first, n, code, wide),
         NEW j \in 1 .. n, j > first, Clears(list, j)
  PROVE  StandsForLoop(Cmd("0", 0), code, P[j - 1], P[j + 2])
<1>1. /\ j + 2 <= n
      /\ list[j].c = "[" /\ list[j + 2].c = "]"
      /\ list[j + 1].c \in {"-", "+"} /\ list[j + 1].bias \in {1, WordSize - 1}
  BY DEF Clears
<1>2. PICK a \in Nat, b \in Nat, c \in Nat, d \in Nat :
        /\ a = P[j - 1] /\ b = P[j] /\ c = P[j + 1] /\ d = P[j + 2]
        /\ Stands(list[j], code, a, b, wide)
        /\ Stands(list[j + 1], code, b, c, wide)
        /\ Stands(list[j + 2], code, c, d, wide)
  <2>1. \A h \in 0 .. n : P[h] \in Nat
    BY DEF LaidOut
  <2>2. \A h \in first + 1 .. n : Stands(list[h], code, P[h - 1], P[h], wide)
    BY DEF LaidOut
  <2>3. PICK j1 \in 1 .. n, j2 \in 1 .. n :
          j1 = j + 1 /\ j2 = j + 2 /\ j1 - 1 = j /\ j2 - 1 = j1
    BY <1>1
  <2>4. first \in 0 .. n
    BY DEF LaidOut
  <2>5. /\ j \in first + 1 .. n /\ j1 \in first + 1 .. n
        /\ j2 \in first + 1 .. n /\ j - 1 \in 0 .. n /\ j \in 0 .. n
        /\ j1 \in 0 .. n /\ j2 \in 0 .. n
    BY <2>3, <2>4
  <2>6. /\ Stands(list[j], code, P[j - 1], P[j], wide)
        /\ Stands(list[j1], code, P[j1 - 1], P[j1], wide)
        /\ Stands(list[j2], code, P[j2 - 1], P[j2], wide)
    BY <2>2, <2>5
  <2>7. P[j - 1] \in Nat /\ P[j] \in Nat /\ P[j1] \in Nat /\ P[j2] \in Nat
    BY <2>1, <2>5
  <2> QED
    BY <2>3, <2>6, <2>7
<1>3. b = a + 1 /\ code[b] = "["
  BY <1>1, <1>2 DEF Stands, StandsForRun, StandsForOne, StandsForLoop,
                    StandsForNothing, Incrementers
<1>4. d = c + 1 /\ code[d] = "]"
  BY <1>1, <1>2 DEF Stands, StandsForRun, StandsForOne, StandsForLoop,
                    StandsForNothing, Incrementers
<1>5. PICK cmd : cmd = list[j + 1] /\ cmd.c \in {"-", "+"}
                 /\ cmd.bias \in {1, WordSize - 1}
  BY <1>1
<1>6. StandsForRun(cmd, code, b, c, wide)
  BY <1>2, <1>5 DEF Stands, StandsForOne, StandsForLoop, StandsForNothing
<1>7. PICK w \in Nat : /\ w = c - b /\ w >= 1 /\ w < Room(cmd.c, wide)
                       /\ cmd.bias = Cmd(cmd.c, w).bias
  BY <1>6 DEF StandsForRun
<1>8. PICK size \in Nat : size = WordSize /\ size >= 32 /\ BiasHalf <= size - 1
                     /\ BiasHalf \in Nat
  BY Sizes
<1>9. w < size - 1
  BY <1>5, <1>7, <1>8 DEF Room
<1>10. w = 1
  <2>1. CASE cmd.c = "+"
    <3>1. cmd.bias = w % size
      BY <1>7, <1>8, <2>1 DEF Cmd, Int16
    <3>2. w % size = w
      BY <1>9
    <3> QED
      BY <1>5, <1>8, <1>9, <3>1, <3>2
  <2>2. CASE cmd.c = "-"
    <3>1. cmd.bias = (-w) % size
      BY <1>7, <1>8, <2>2 DEF Cmd, Int16
    <3>2. (-w) % size = size - w
      <4>1. PICK x \in Int : x = -w
        OBVIOUS
      <4>2. PICK r \in 0 .. size - 1 : r = size - w
        BY <1>7, <1>9
      <4>3. x = (-1) * size + r
        BY <4>1, <4>2
      <4>4. x % size = r
        BY <1>8, <4>3, ModUnique
      <4> QED
        BY <4>1, <4>2, <4>4
    <3> QED
      BY <1>5, <1>7, <1>8, <1>9, <3>1, <3>2
  <2> QED
    BY <1>5, <2>1, <2>2
<1>11. code[c] \in {"+", "-"} /\ c = b + 1
  <2>1. c = b + 1
    BY <1>7, <1>10
  <2>2. code[c] = cmd.c
    BY <1>6, <2>1 DEF StandsForRun
  <2> QED
    BY <1>5, <2>1, <2>2
<1>12. Cmd("0", 0).c = "0"
  BY CmdType, KindsOf
<1>13. /\ d = a + 3 /\ code[a + 1] = "[" /\ code[a + 2] \in {"+", "-"}
       /\ code[d] = "]"
  <2>1. c = a + 2 /\ b = a + 1 /\ d = a + 3
    BY <1>2, <1>3, <1>4, <1>11, SMTT(30)
  <2> QED
    BY <1>3, <1>4, <1>11, <2>1
<1>14. StandsForLoop(Cmd("0", 0), code, a, d)
  BY <1>12, <1>13 DEF StandsForLoop
<1> QED
  BY <1>2, <1>14

(* -O1 keeps what the instructions stand for. *)
LEMMA OptimizeCovers ==
  ASSUME NEW list \in Seq(Command), NEW n \in Nat, n = Len(list), n >= 3,
         list[1].c = Blank, list[2].c = ">", list[n].c = "H",
         \A h \in 3 .. n - 1 : list[h].c \in Symbols,
         NEW P, NEW code, NEW wide, LaidOut(P, list, 2, n, code, wide),
         NEW size \in Nat, size = Len(OptimizeDataClr(list))
  PROVE  /\ size >= 1
         /\ \E Q : LaidOut(Q, OptimizeDataClr(list), 1, size, code, wide)
<1>1. PICK rest : rest = OptimizeDataClr(list)
  OBVIOUS
<1>2. PICK at :
        Orders(at, rest, Cleared(list), KeptPlaces(list), n)
  BY <1>1, OptimizeDataClrType
<1>3. size = Len(rest) /\ size >= 1 /\ at[1] = 2 /\ rest[1] = list[2]
  BY <1>1, <1>2, FirstKept
<1>4. /\ P \in [0 .. n -> Nat] /\ P[2] = 0 /\ P[n] = Len(code)
      /\ \A h \in 3 .. n : Stands(list[h], code, P[h - 1], P[h], wide)
  BY DEF LaidOut
<1>5. ASSUME NEW k \in 1 .. size
      PROVE  /\ at[k] \in KeptPlaces(list) /\ at[k] \in 2 .. n
             /\ Last1(list, at[k]) \in at[k] .. n - 1
             /\ k < size => at[k + 1] = Last1(list, at[k]) + 1
             /\ k = size => Last1(list, at[k]) = n - 1
             /\ rest[k] = Cleared(list)[at[k]]
  <2>1. /\ at[k] \in KeptPlaces(list) /\ at[k] \in 1 .. n
        /\ rest[k] = Cleared(list)[at[k]]
        /\ \A h, l \in 1 .. size : h < l => at[h] < at[l]
    BY <1>2, <1>3 DEF Orders
  <2>2. PICK i \in 2 .. n : i = at[k] /\ i \in KeptPlaces(list)
    <3>1. 1 \in 1 .. size /\ (k = 1 \/ 1 < k)
      BY <1>3
    <3>2. at[k] >= 2
      BY <1>3, <2>1, <3>1
    <3> QED
      BY <2>1, <3>2
  <2>3. PICK e \in Int : e = Last1(list, i)
    BY <2>2 DEF Last1
  <2>4. /\ e \in i .. n - 1
        /\ e + 1 = n \/ e + 1 \in KeptPlaces(list)
        /\ \A x \in i + 1 .. e : x \notin KeptPlaces(list)
        /\ n \notin KeptPlaces(list)
    BY <2>2, <2>3, AfterKept
  <2>5. /\ k < size => /\ i < at[k + 1]
                       /\ at[k + 1] \in KeptPlaces(list) \cap (1 .. n)
                       /\ \A x \in i + 1 .. at[k + 1] - 1 :
                            x \notin KeptPlaces(list)
        /\ k = size => \A x \in i + 1 .. n : x \notin KeptPlaces(list)
    <3>1. From(at, k) = i /\ k \in 0 .. size
      BY <2>2 DEF From
    <3> QED
      BY <1>2, <1>3, <3>1, OrdersGap
  <2>6. ASSUME k < size PROVE at[k + 1] = e + 1
    <3>1. PICK j \in 1 .. n : j = at[k + 1] /\ i < j /\ j \in KeptPlaces(list)
            /\ \A x \in i + 1 .. j - 1 : x \notin KeptPlaces(list)
      BY <2>5, <2>6
    <3>2. j > e
      BY <2>4, <3>1
    <3>3. j # n
      BY <2>4, <3>1
    <3>4. ~(e + 1 < j)
      <4>1. SUFFICES ASSUME e + 1 < j PROVE FALSE
        OBVIOUS
      <4>2. e + 1 \in i + 1 .. j - 1 /\ e + 1 # n
        BY <2>4, <3>1, <4>1
      <4> QED
        BY <2>4, <3>1, <4>2
    <3> QED
      BY <3>1, <3>2, <3>4
  <2>7. ASSUME k = size PROVE e = n - 1
    <3>1. e + 1 \in i + 1 .. n
      BY <2>4
    <3>2. e + 1 \notin KeptPlaces(list)
      BY <2>5, <2>7, <3>1
    <3> QED
      BY <2>4, <3>2
  <2> QED
    BY <2>1, <2>2, <2>3, <2>4, <2>6, <2>7
<1> DEFINE Q == [k \in 0 .. size |->
                   IF k = 0 THEN 0 ELSE P[Last1(list, at[k])]]
<1>6. \A k \in 1 .. size : Q[k] = P[Last1(list, at[k])]
  OBVIOUS
<1>7. Q \in [0 .. size -> Nat]
  <2>1. ASSUME NEW k \in 1 .. size PROVE P[Last1(list, at[k])] \in Nat
    <3>1. Last1(list, at[k]) \in 0 .. n
      BY <1>5
    <3> QED
      BY <1>4, <3>1
  <2> QED
    BY <2>1
<1> HIDE DEF Q
<1>8. Q[1] = 0
  <2>1. 1 \in 1 .. size /\ at[1] = 2
    BY <1>3
  <2>2. ~Clears(list, 2)
    BY DEF Clears
  <2>3. Last1(list, 2) = 2
    BY <2>2 DEF Last1
  <2> QED
    BY <1>4, <1>6, <2>1, <2>3
<1>9. Q[size] = Len(code)
  <2>1. size \in 1 .. size
    BY <1>3
  <2>2. Q[size] = P[n - 1]
    BY <1>5, <1>6, <2>1
  <2>3. Stands(list[n], code, P[n - 1], P[n], wide)
    BY <1>4
  <2>4. P[n] = P[n - 1]
    BY <2>3 DEF Stands, StandsForRun, StandsForOne, StandsForLoop,
                StandsForNothing, Incrementers
  <2> QED
    BY <1>4, <2>2, <2>4
<1>10. ASSUME NEW k \in 2 .. size
       PROVE  Stands(rest[k], code, Q[k - 1], Q[k], wide)
  <2>1. PICK h \in 1 .. size : h = k - 1 /\ h < size /\ h + 1 = k
    OBVIOUS
  <2>2. PICK j \in 3 .. n : /\ j = at[k] /\ j = Last1(list, at[h]) + 1
                            /\ j \in KeptPlaces(list)
    <3>1. at[k] = Last1(list, at[h]) + 1 /\ at[k] \in KeptPlaces(list)
          /\ at[k] \in 2 .. n
      BY <1>5, <2>1
    <3>2. Last1(list, at[h]) >= 2 /\ Last1(list, at[h]) \in Int
      BY <1>5, <2>1
    <3> QED
      BY <3>1, <3>2
  <2>3. Q[h] = P[j - 1]
    <3>1. j - 1 = Last1(list, at[h])
      <4>1. Last1(list, at[h]) \in Int
        BY <1>5, <2>1
      <4> QED
        BY <2>2, <4>1
    <3> QED
      BY <1>6, <2>1, <3>1
  <2>4. k \in 1 .. size /\ j \in DOMAIN list
    BY <2>1
  <2>5. rest[k] = IF Clears(list, j) THEN Cmd("0", 0) ELSE list[j]
    BY <1>5, <2>2, <2>4 DEF Cleared
  <2>6. CASE ~Clears(list, j)
    <3>1. Q[k] = P[j] /\ rest[k] = list[j]
      BY <1>6, <2>2, <2>4, <2>5, <2>6 DEF Last1
    <3>2. Stands(list[j], code, P[j - 1], P[j], wide)
      BY <1>4
    <3> QED
      BY <2>1, <2>3, <3>1, <3>2
  <2>7. CASE Clears(list, j)
    <3>1. Q[k] = P[j + 2] /\ rest[k] = Cmd("0", 0)
      BY <1>6, <2>2, <2>4, <2>5, <2>7 DEF Last1
    <3>2. j \in 1 .. n /\ j > 2
      OBVIOUS
    <3>3. StandsForLoop(Cmd("0", 0), code, P[j - 1], P[j + 2])
      BY <2>7, <3>2, ClearStands
    <3> QED
      BY <2>1, <2>3, <3>1, <3>3 DEF Stands
  <2> QED
    BY <2>6, <2>7
<1>11. LaidOut(Q, rest, 1, size, code, wide)
  <2>1. 1 \in 0 .. size /\ 1 + 1 = 2
    BY <1>3
  <2> QED
    BY <1>7, <1>8, <1>9, <1>10, <2>1 DEF LaidOut
<1> QED
  BY <1>1, <1>3, <1>11

(* Links are not looked at. *)
LEMMA LinkCovers ==
  ASSUME NEW list \in Seq(Command), NEW P, NEW first, NEW n \in Nat,
         n = Len(list), NEW code, NEW wide,
         LaidOut(P, list, first, n, code, wide)
  PROVE  LaidOut(P, Linking(list), first, n, code, wide)
<1>1. first \in 0 .. n
  BY DEF LaidOut
<1>2. ASSUME NEW h \in first + 1 .. n
      PROVE  Stands(Linking(list)[h], code, P[h - 1], P[h], wide)
  <2>1. h \in 1 .. Len(list)
    BY <1>1
  <2>2. PICK cmd, linked : cmd = list[h] /\ linked = Linking(list)[h]
    OBVIOUS
  <2>3. linked.c = cmd.c /\ (cmd.c \notin {"[", "]"} => linked = cmd)
    BY <2>1, <2>2, LinkingType, LinkingIs
  <2>4. Stands(cmd, code, P[h - 1], P[h], wide)
    BY <2>2 DEF LaidOut
  <2>5. CASE cmd.c \in {"[", "]"}
    <3>1. StandsForOne(cmd, code, P[h - 1], P[h])
      BY <2>4, <2>5 DEF Stands, StandsForRun, StandsForLoop,
                        StandsForNothing, Incrementers
    <3>2. StandsForOne(linked, code, P[h - 1], P[h])
      BY <2>3, <3>1 DEF StandsForOne
    <3> QED
      BY <2>2, <3>2 DEF Stands
  <2>6. CASE cmd.c \notin {"[", "]"}
    BY <2>2, <2>3, <2>4, <2>6
  <2> QED
    BY <2>5, <2>6
<1> QED
  BY <1>2 DEF LaidOut

(* The width of an instruction is what it stands for.                      *)
LEMMA WidthIs ==
  ASSUME NEW cmd \in Command, NEW code, NEW p \in Nat, NEW q \in Nat, NEW wide,
         Stands(cmd, code, p, q, wide)
  PROVE  Width(cmd) = q - p
<1>1. PICK size \in Nat : size = WordSize /\ BiasHalf < size /\ BiasHalf \in Nat
  BY Sizes
<1>2. CASE StandsForRun(cmd, code, p, q, wide)
  <2>1. PICK d \in Nat : d = q - p /\ d >= 1 /\ d < size
    BY <1>1, <1>2 DEF StandsForRun, Room
  <2>2. cmd.c \in Incrementers /\ cmd.bias = Cmd(cmd.c, d).bias
    BY <1>2, <2>1 DEF StandsForRun
  <2>3. CASE cmd.c \in {">", "+"}
    <3>1. cmd.bias = d % size
      BY <1>1, <2>2, <2>3 DEF Cmd, Int16
    <3>2. cmd.bias = d
      BY <2>1, <3>1
    <3> QED
      BY <2>1, <2>3, <3>2 DEF Width
  <2>4. CASE cmd.c \in {"<", "-"}
    <3>1. cmd.bias = (-d) % size
      BY <1>1, <2>2, <2>4 DEF Cmd, Int16
    <3>2. -d = (-1) * size + (size - d) /\ size - d \in 0 .. size - 1
      BY <2>1
    <3>3. cmd.bias = size - d
      BY <1>1, <2>1, <3>1, <3>2, ModUnique
    <3>4. Width(cmd) = WordSize - cmd.bias
      BY <2>4 DEF Width
    <3> QED
      BY <1>1, <2>1, <3>3, <3>4
  <2> QED
    BY <2>2, <2>3, <2>4 DEF Incrementers
<1>3. CASE StandsForOne(cmd, code, p, q)
  <2>1. cmd.c \in {"[", "]", ".", ","} /\ q = p + 1
    BY <1>3 DEF StandsForOne
  <2>2. Width(cmd) = 1
    BY <2>1 DEF Width
  <2>3. (p + 1) - p = 1
    OBVIOUS
  <2> QED
    BY <2>1, <2>2, <2>3
<1>4. CASE StandsForLoop(cmd, code, p, q)
  BY <1>4 DEF StandsForLoop, Width
<1>5. CASE StandsForNothing(cmd, p, q)
  BY <1>5 DEF StandsForNothing, Width
<1> QED
  BY <1>2, <1>3, <1>4, <1>5 DEF Stands

Before(before, first, ip) ==
  IF ip <= first THEN 0 ELSE before[ip - 1] + Width(cmds[ip])

LEMMA PlaceIs ==
  ASSUME NEW P, NEW first \in Nat, first = Prologue, NEW n \in Nat,
         n = Len(cmds), cmds \in Seq(Command), NEW code, NEW wide,
         LaidOut(P, cmds, first, n, code, wide), NEW h \in first .. n
  PROVE  Place(h) = P[h]
<1>1. /\ P \in [0 .. n -> Nat] /\ P[first] = 0 /\ first <= n
      /\ \A i \in first + 1 .. n : Stands(cmds[i], code, P[i - 1], P[i], wide)
  BY DEF LaidOut
<1>2. ASSUME NEW i \in first + 1 .. n
      PROVE  P[i] = P[i - 1] + Width(cmds[i])
  <2>1. P[i - 1] \in Nat /\ P[i] \in Nat /\ cmds[i] \in Command
    BY <1>1
  <2>2. Width(cmds[i]) = P[i] - P[i - 1]
    BY <1>1, <2>1, WidthIs
  <2> QED
    BY <2>1, <2>2
<1>3. \E f : f = [i \in 0 .. n |-> Before(f, first, i)]
  <2>1. PICK f : f = [i \in 0 .. n |-> IF i <= first THEN 0 ELSE P[i]]
    OBVIOUS
  <2>2. ASSUME NEW i \in 0 .. n
        PROVE  f[i] = Before(f, first, i)
    <3>1. CASE i <= first
      BY <2>1, <3>1 DEF Before
    <3>2. CASE i > first
      <4>1. f[i] = P[i] /\ i - 1 \in 0 .. n /\ i \in first + 1 .. n
        BY <2>1, <3>2
      <4>2. f[i - 1] = P[i - 1]
        BY <1>1, <2>1, <3>2, <4>1
      <4> QED
        BY <1>2, <3>2, <4>1, <4>2 DEF Before
    <3> QED
      BY <3>1, <3>2
  <2>3. f = [i \in 0 .. n |-> Before(f, first, i)]
    BY <2>1, <2>2
  <2> QED
    BY <2>3
<1>4. PICK f : /\ f = [i \in 0 .. n |-> Before(f, first, i)]
               /\ Place(h) = f[IF h < n THEN h ELSE n]
  <2>1. PICK g : g = CHOOSE f : f = [i \in 0 .. n |-> Before(f, first, i)]
    OBVIOUS
  <2>2. g = [i \in 0 .. n |-> Before(g, first, i)]
    BY <1>3, <2>1
  <2>3. Place(h) = g[IF h < n THEN h ELSE n]
    BY <2>1 DEF Place, Before
  <2> QED
    BY <2>2, <2>3
<1>5. DEFINE S == {i \in Nat : first + i <= n => f[first + i] = P[first + i]}
<1>6. 0 \in S
  BY <1>1, <1>4 DEF Before
<1>7. ASSUME NEW i \in S \cap Nat PROVE i + 1 \in S
  <2>1. SUFFICES ASSUME first + (i + 1) <= n
                 PROVE  f[first + (i + 1)] = P[first + (i + 1)]
    OBVIOUS
  <2>2. PICK k \in first + 1 .. n : k = first + (i + 1) /\ k - 1 = first + i
    BY <2>1
  <2>3. f[k - 1] = P[k - 1]
    BY <2>2
  <2>4. f[k] = f[k - 1] + Width(cmds[k])
    BY <1>4 DEF Before
  <2> QED
    BY <1>2, <2>2, <2>3, <2>4
<1>8. Nat \subseteq S
  <2> HIDE DEF S
  <2> QED
    BY <1>6, <1>7, NatClosed
<1>9. PICK i \in Nat : h = first + i
  BY <1>1
<1>10. f[h] = P[h]
  BY <1>8, <1>9
<1>11. (IF h < n THEN h ELSE n) = h
  OBVIOUS
<1> QED
  BY <1>4, <1>10, <1>11

Compiled == cmds = Linking(Output(job)) /\ Output(job) # <<>>

(* What an array must have so that its program is over at its end.         *)
HaltsAtEnd(list, n) ==
  n >= 3 /\ list[1].c = Blank /\ list[n].c = "H"
    /\ \A h \in 3 .. n - 1 : list[h].c \in Symbols

(* The compiled list is the prologue and the source, in its order.         *)
LEMMA LayoutOf ==
  ASSUME RunsFit, ProloguesFit, TypeInv, Compiled,
         NEW n \in Nat, n = Len(cmds), NEW first \in Nat, first = Prologue
  PROVE  /\ cmds \in Seq(Command) /\ first \in 1 .. n
         /\ \E P : LaidOut(P, cmds, first, n, Source, job.wordMode)
         /\ cmds[first].c = ">" /\ cmds[first].bias = ApShift
         /\ job.level = 0 => first = 2 /\ HaltsAtEnd(cmds, n)
         /\ job.level = 1 => first = 1
<1>1. /\ job \in Jobs /\ job.source \in Seq(STRING) /\ job.level \in 0 .. 1
  BY JobType DEF TypeInv, CompiledType
<1>2. PICK source, wide, level :
        /\ source = job.source /\ wide = job.wordMode /\ level = job.level
        /\ source \in Seq(STRING) /\ level \in 0 .. 1
  BY <1>1
<1>3. Source = Code(source)
  BY <1>2 DEF Source, Code
<1>4. RunsHaveRoom(Strip(source), wide)
  BY <1>1, <1>2 DEF RunsFit, RunsHaveRoom, Room
<1>5. Len(Strip(source)) < ApShift
  BY <1>1, <1>2 DEF ProloguesFit
<1>6. PICK input \in Seq(Command), m \in Nat :
        input = Translate(source) /\ m = Len(input)
  BY <1>2, TranslateType
<1>7. /\ input[1].c = Blank /\ input[2].c = ">" /\ input[m].c = "H"
      /\ input[2] = Cmd(">", ApShift)
  BY <1>2, <1>5, <1>6, TranslateType
<1>8. /\ m >= 3 /\ \A h \in 3 .. m - 1 : input[h].c \in Symbols
      /\ \E P : LaidOut(P, input, 2, m, Code(source), wide)
  BY <1>2, <1>4, <1>6, TranslateCovers
<1>9. PICK list \in Seq(Command) :
        list = Optimize(input, level) /\ list # <<>> /\ cmds = Linking(list)
  BY <1>2, <1>6, OptimizeType DEF Compiled, Output
<1>10. /\ cmds \in Seq(Command) /\ n = Len(list)
       /\ \A i \in 1 .. n : cmds[i].c = list[i].c
  BY <1>9, LinkingType
<1>11. /\ level = 0 => first = 2
       /\ level = 1 => first = 1
  BY <1>2 DEF Prologue
<1>12. first \in 1 .. n /\ list[first] = input[2]
  <2>1. CASE level = 0
    <3>1. list = input
      BY <1>9, <2>1 DEF Optimize
    <3> QED
      BY <1>6, <1>8, <1>10, <1>11, <2>1, <3>1
  <2>2. CASE level = 1
    <3>1. Len(list) >= 1 /\ list[1] = input[2]
      BY <1>2, <1>6, <1>9, <2>2, PrologueIs
    <3> QED
      BY <1>10, <1>11, <2>2, <3>1
  <2> QED
    BY <1>2, <2>1, <2>2
<1>13. \E P : LaidOut(P, list, first, n, Code(source), wide)
  <2>1. CASE level = 0
    <3>1. list = input
      BY <1>9, <2>1 DEF Optimize
    <3> QED
      BY <1>6, <1>8, <1>10, <1>11, <2>1, <3>1
  <2>2. CASE level = 1
    <3>1. list = OptimizeDataClr(input) /\ n = Len(OptimizeDataClr(input))
      BY <1>9, <1>10, <2>2 DEF Optimize
    <3>2. PICK P : LaidOut(P, input, 2, m, Code(source), wide)
      BY <1>8
    <3>3. \E Q : LaidOut(Q, OptimizeDataClr(input), 1, n, Code(source), wide)
      BY <1>6, <1>7, <1>8, <3>1, <3>2, OptimizeCovers
    <3> QED
      BY <1>11, <2>2, <3>1, <3>3
  <2> QED
    BY <1>2, <2>1, <2>2
<1>14. \E P : LaidOut(P, cmds, first, n, Code(source), wide)
  BY <1>9, <1>10, <1>13, LinkCovers
<1>15. cmds[first].c = ">" /\ cmds[first].bias = ApShift
  <2>1. list[first].c = ">" /\ list[first].bias = ApShift
    <3>1. ApShift \in Word /\ Cmd(">", ApShift).bias = Int16(ApShift)
      BY BfCompilerAssumption DEF Cmd
    <3>2. Int16(ApShift) = ApShift
      BY <3>1, Int16Word
    <3> QED
      BY <1>7, <1>12, <3>1, <3>2 DEF Cmd
  <2>2. list[first].c # "[" /\ list[first].c # "]"
    BY <2>1
  <2>3. cmds[first] = list[first]
    BY <1>9, <1>10, <1>12, <2>2, LinkingIs
  <2> QED
    BY <2>1, <2>3
<1>16. ASSUME level = 0
       PROVE  HaltsAtEnd(cmds, n)
  <2>1. list = input /\ n = m
    BY <1>6, <1>9, <1>10, <1>16 DEF Optimize
  <2>2. /\ 1 \in 1 .. n /\ n \in 1 .. n /\ \A h \in 3 .. n - 1 : h \in 1 .. n
    BY <1>8, <2>1
  <2> QED
    BY <1>7, <1>8, <1>10, <2>1, <2>2 DEF HaltsAtEnd
<1> QED
  BY <1>2, <1>3, <1>10, <1>11, <1>12, <1>14, <1>15, <1>16

-----------------------------------------------------------------------------
(* Brackets of the list and brackets of the source.                        *)

(* A list on its code: what every lemma on brackets is about.              *)
OnCode(P, list, first, n, code) ==
  /\ list \in Seq(Command) /\ n \in Nat /\ n = Len(list) /\ first \in 0 .. n
  /\ code \in Seq(STRING)
  /\ \E wide : LaidOut(P, list, first, n, code, wide)

(* What an instruction stands for, without its count.                      *)
LEMMA PlaceStep ==
  ASSUME NEW P, NEW list, NEW first, NEW n, NEW code,
         OnCode(P, list, first, n, code), NEW h \in first + 1 .. n
  PROVE  /\ h \in 1 .. n /\ P[h - 1] \in Nat /\ P[h] \in Nat
         /\ \/ /\ list[h].c \in Incrementers /\ P[h - 1] < P[h]
               /\ \A k \in P[h - 1] + 1 .. P[h] : code[k] = list[h].c
            \/ StandsForOne(list[h], code, P[h - 1], P[h])
            \/ StandsForLoop(list[h], code, P[h - 1], P[h])
            \/ StandsForNothing(list[h], P[h - 1], P[h])
<1>1. PICK wide : LaidOut(P, list, first, n, code, wide)
  BY DEF OnCode
<1>2. n \in Nat /\ first \in 0 .. n
  BY DEF OnCode
<1>3. h \in 1 .. n /\ h - 1 \in 0 .. n /\ h \in 0 .. n
  BY <1>2
<1>4. Stands(list[h], code, P[h - 1], P[h], wide) /\ P \in [0 .. n -> Nat]
  BY <1>1 DEF LaidOut
<1> QED
  BY <1>3, <1>4 DEF Stands, StandsForRun

LEMMA PlaceRises ==
  ASSUME NEW P, NEW list, NEW first, NEW n, NEW code,
         OnCode(P, list, first, n, code), NEW h \in first + 1 .. n
  PROVE  /\ P[h - 1] \in Nat /\ P[h] \in Nat /\ P[h - 1] <= P[h]
         /\ list[h].c # "H" => P[h - 1] < P[h]
<1>1. PICK p \in Nat, q \in Nat :
        /\ p = P[h - 1] /\ q = P[h]
        /\ \/ p < q
           \/ StandsForOne(list[h], code, p, q)
           \/ StandsForLoop(list[h], code, p, q)
           \/ StandsForNothing(list[h], p, q)
  BY PlaceStep
<1>2. p < q \/ q = p + 1 \/ q = p + 3 \/ (q = p /\ list[h].c = "H")
  BY <1>1 DEF StandsForOne, StandsForLoop, StandsForNothing
<1>3. p < p + 1 /\ p < p + 3
  OBVIOUS
<1>4. p < q \/ (q = p /\ list[h].c = "H")
  BY <1>2, <1>3
<1> QED
  BY <1>1, <1>4

LEMMA PlaceOrder ==
  ASSUME NEW P, NEW list, NEW first, NEW n, NEW code,
         OnCode(P, list, first, n, code),
         NEW a \in first .. n, NEW b \in a .. n
  PROVE  P[a] \in Nat /\ P[b] \in Nat /\ P[a] <= P[b]
<1>1. PICK wide : LaidOut(P, list, first, n, code, wide)
  BY DEF OnCode
<1>2. n \in Nat /\ first \in 0 .. n /\ P \in [0 .. n -> Nat]
  BY <1>1 DEF OnCode, LaidOut
<1>3. DEFINE S == {i \in Nat : a + i <= n => P[a] <= P[a + i]}
<1>4. 0 \in S
  BY <1>2
<1>5. ASSUME NEW i \in S \cap Nat PROVE i + 1 \in S
  <2>1. SUFFICES ASSUME a + (i + 1) <= n
                 PROVE  P[a] <= P[a + (i + 1)]
    OBVIOUS
  <2>2. PICK k \in first + 1 .. n : k = a + (i + 1) /\ k - 1 = a + i
    BY <1>2, <2>1
  <2>3. P[a] <= P[k - 1]
    BY <1>2, <2>2
  <2>4. P[k - 1] \in Nat /\ P[k] \in Nat /\ P[k - 1] <= P[k]
    BY PlaceRises
  <2> QED
    BY <1>2, <2>2, <2>3, <2>4
<1>6. Nat \subseteq S
  <2> HIDE DEF S
  <2> QED
    BY <1>4, <1>5, NatClosed
<1>7. PICK i \in Nat : b = a + i
  BY <1>2
<1>8. P[a] <= P[b]
  BY <1>6, <1>7
<1> QED
  BY <1>2, <1>8

(* Every command of the code is in what one instruction stands for.        *)
LEMMA PlaceOf ==
  ASSUME NEW P, NEW list, NEW first, NEW n, NEW code,
         OnCode(P, list, first, n, code), NEW x \in 1 .. Len(code)
  PROVE  \E h \in first + 1 .. n : P[h - 1] < x /\ x <= P[h]
<1>1. PICK wide : LaidOut(P, list, first, n, code, wide)
  BY DEF OnCode
<1>2. /\ n \in Nat /\ first \in 0 .. n /\ P \in [0 .. n -> Nat]
      /\ P[first] = 0 /\ P[n] = Len(code)
  BY <1>1 DEF OnCode, LaidOut
<1>3. PICK len \in Nat : len = Len(code) /\ x \in 1 .. len /\ P[n] = len
  BY <1>2
<1>4. SUFFICES ASSUME \A h \in first + 1 .. n : ~(P[h - 1] < x /\ x <= P[h])
               PROVE  FALSE
  OBVIOUS
<1>5. DEFINE S == {i \in Nat : first + i <= n => P[first + i] < x}
<1>6. 0 \in S
  BY <1>2, <1>3
<1>7. ASSUME NEW i \in S \cap Nat PROVE i + 1 \in S
  <2>1. SUFFICES ASSUME first + (i + 1) <= n
                 PROVE  P[first + (i + 1)] < x
    OBVIOUS
  <2>2. PICK k \in first + 1 .. n : k = first + (i + 1) /\ k - 1 = first + i
    BY <1>2, <2>1
  <2>3. P[k - 1] < x /\ k \in 0 .. n
    BY <1>2, <2>2
  <2>4. P[k] \in Nat /\ ~(x <= P[k])
    BY <1>2, <1>4, <2>3
  <2> QED
    BY <1>3, <2>2, <2>4
<1>8. Nat \subseteq S
  <2> HIDE DEF S
  <2> QED
    BY <1>6, <1>7, NatClosed
<1>9. PICK i \in Nat : n = first + i
  BY <1>2
<1>10. P[n] < x
  BY <1>8, <1>9
<1> QED
  BY <1>3, <1>10

(* A command that is not a loop of three changes the depth as its          *)
(* instruction does; such a loop leaves it as it is.                       *)
LEMMA PlaceOpen ==
  ASSUME NEW P, NEW list, NEW first, NEW n, NEW code,
         OnCode(P, list, first, n, code), NEW h \in first + 1 .. n,
         NEW i \in Int, i <= P[h - 1] + 1
  PROVE  LET before == Open(code, i, P[h - 1])
             after == Open(code, i, P[h])
         IN  /\ before \in Int
             /\ list[h].c = "[" => after = before + 1
             /\ list[h].c = "]" => after = before - 1
             /\ list[h].c \notin {"[", "]"} => after = before
<1>1. PICK p \in Nat, q \in Nat : p = P[h - 1] /\ q = P[h] /\ p <= q
  BY PlaceRises
<1>2. PICK c : c = list[h].c
  OBVIOUS
<1>3. i <= p + 1 /\ Open(code, i, p) \in Int
  BY <1>1, OpenStep
<1>4. CASE c \in Incrementers /\ p < q /\ \A k \in p + 1 .. q : code[k] = c
  <2>1. c \notin {"[", "]"} /\ \A x \in p + 1 .. q : code[x] \notin {"[", "]"}
    BY <1>4 DEF Incrementers
  <2>2. Open(code, i, q) = Open(code, i, p)
    BY <1>1, <1>3, <2>1, OpenGap
  <2> QED
    BY <1>1, <1>2, <1>3, <2>1, <2>2
<1>5. CASE StandsForOne(list[h], code, p, q)
  <2>1. q = p + 1 /\ code[p + 1] = c
    BY <1>2, <1>5 DEF StandsForOne
  <2>2. /\ c = "[" => Open(code, i, p + 1) = Open(code, i, p) + 1
        /\ c = "]" => Open(code, i, p + 1) = Open(code, i, p) - 1
        /\ c \notin {"[", "]"} => Open(code, i, p + 1) = Open(code, i, p)
    BY <1>3, <2>1, OpenStep
  <2> QED
    BY <1>1, <1>2, <1>3, <2>1, <2>2
<1>6. CASE StandsForLoop(list[h], code, p, q)
  <2>1. /\ c = "0" /\ q = p + 3
        /\ code[p + 1] = "[" /\ code[p + 2] \in {"+", "-"} /\ code[p + 3] = "]"
    BY <1>2, <1>6 DEF StandsForLoop
  <2>2. Open(code, i, p + 1) = Open(code, i, p) + 1
    BY <1>3, <2>1, OpenStep
  <2>3. PICK r \in Nat, t \in Nat : r = p + 1 /\ t = p + 2 /\ t = r + 1
                                /\ p + 3 = t + 1 /\ i <= r + 1 /\ i <= t + 1
    BY <1>3
  <2>4. Open(code, i, r + 1) = Open(code, i, r)
    BY <2>1, <2>3, OpenStep
  <2>5. Open(code, i, t + 1) = Open(code, i, t) - 1
    BY <2>1, <2>3, OpenStep
  <2>6. Open(code, i, p + 3) = Open(code, i, p)
    BY <1>3, <2>2, <2>3, <2>4, <2>5
  <2> QED
    BY <1>1, <1>2, <1>3, <2>1, <2>6
<1>7. CASE StandsForNothing(list[h], p, q)
  BY <1>1, <1>2, <1>3, <1>7 DEF StandsForNothing
<1> QED
  BY <1>1, <1>2, <1>4, <1>5, <1>6, <1>7, PlaceStep

(* From a bracket on, the depth is the same in the list and in the code.   *)
LEMMA SameDepth ==
  ASSUME NEW P, NEW list, NEW first, NEW n, NEW code,
         OnCode(P, list, first, n, code),
         NEW h \in first + 1 .. n, list[h].c = "[", NEW l \in h .. n
  PROVE  Open(KindsIn(list), h, l) = Open(code, P[h], P[l])
<1>1. list \in Seq(Command) /\ n \in Nat /\ n = Len(list) /\ first \in 0 .. n
  BY DEF OnCode
<1>2. PICK K : K = KindsIn(list)
  OBVIOUS
<1>3. \A i \in 1 .. n : K[i] = list[i].c
  BY <1>1, <1>2, KindsInType
<1>4. DEFINE S == {i \in Nat : h + i <= n =>
                     Open(K, h, h + i) = Open(code, P[h], P[h + i])}
<1>5. 0 \in S
  <2>1. StandsForOne(list[h], code, P[h - 1], P[h])
    BY PlaceStep DEF Incrementers, StandsForLoop, StandsForNothing
  <2>2. code[P[h]] = "[" /\ P[h] \in Nat
    BY <2>1, PlaceRises DEF StandsForOne
  <2>3. K[h] = "["
    BY <1>1, <1>3
  <2>4. Open(K, h, h) = 1 /\ Open(code, P[h], P[h]) = 1
    BY <1>1, <2>2, <2>3, OpenAtStart
  <2>5. h + 0 = h
    BY <1>1
  <2> QED
    BY <2>4, <2>5
<1>6. ASSUME NEW i \in S \cap Nat PROVE i + 1 \in S
  <2>1. SUFFICES ASSUME h + (i + 1) <= n
                 PROVE  Open(K, h, h + (i + 1))
                          = Open(code, P[h], P[h + (i + 1)])
    OBVIOUS
  <2>2. PICK k \in first + 1 .. n, j \in h .. n :
          k = h + (i + 1) /\ j = h + i /\ k = j + 1 /\ k - 1 = j /\ h <= j + 1
    BY <1>1, <2>1
  <2>3. Open(K, h, j) = Open(code, P[h], P[j])
    BY <2>2
  <2>4. /\ P[h] \in Nat /\ P[j] \in Nat /\ P[h] <= P[j]
        /\ P[k] \in Nat /\ P[h] <= P[k]
    <3>1. h \in first .. n /\ j \in h .. n /\ k \in h .. n
      BY <1>1, <2>2
    <3> QED
      BY <3>1, PlaceOrder
  <2>5. PICK b \in Int, a \in Int :
          b = Open(code, P[h], P[j]) /\ a = Open(code, P[h], P[k])
    <3>1. /\ P[h] \in Int /\ P[j] \in Int /\ P[h] <= P[j] + 1
          /\ P[k] \in Int /\ P[h] <= P[k] + 1
      BY <2>4
    <3> QED
      BY <3>1, OpenStep
  <2>6. P[h] \in Int /\ P[h] <= P[k - 1] + 1
    BY <2>2, <2>4
  <2>7. /\ list[k].c = "[" => a = b + 1
        /\ list[k].c = "]" => a = b - 1
        /\ list[k].c \notin {"[", "]"} => a = b
    BY <2>2, <2>5, <2>6, PlaceOpen
  <2>8. K[j + 1] = list[k].c /\ h \in Int /\ j \in Int
    BY <1>1, <1>3, <2>2
  <2>9. /\ K[j + 1] = "[" => Open(K, h, j + 1) = Open(K, h, j) + 1
        /\ K[j + 1] = "]" => Open(K, h, j + 1) = Open(K, h, j) - 1
        /\ K[j + 1] \notin {"[", "]"} => Open(K, h, j + 1) = Open(K, h, j)
    BY <2>2, <2>8, OpenStep
  <2> QED
    BY <2>2, <2>3, <2>5, <2>7, <2>8, <2>9
<1>7. Nat \subseteq S
  <2> HIDE DEF S
  <2> QED
    BY <1>5, <1>6, NatClosed
<1>8. PICK i \in Nat : l = h + i
  BY <1>1
<1> QED
  BY <1>2, <1>7, <1>8

(* The pair of two brackets in the list from the pair in the code.         *)
LEMMA PairUp ==
  ASSUME NEW P, NEW list, NEW first, NEW n, NEW code,
         OnCode(P, list, first, n, code),
         NEW h \in first + 1 .. n, NEW j \in first + 1 .. n,
         list[h].c = "[", list[j].c = "]", Pairs(code, P[h], P[j])
  PROVE  h < j /\ Pairs(KindsIn(list), h, j)
<1>1. list \in Seq(Command) /\ n \in Nat /\ n = Len(list) /\ first \in 0 .. n
  BY DEF OnCode
<1>2. P[h] < P[j] /\ P[h] \in Nat /\ P[j] \in Nat
  BY PlaceRises DEF Pairs
<1>3. h < j
  <2>1. CASE j <= h
    <3>1. j \in first .. n /\ h \in j .. n
      BY <1>1, <2>1
    <3>2. P[j] <= P[h]
      BY <3>1, PlaceOrder
    <3> QED
      BY <1>2, <3>2
  <2> QED
    BY <1>1, <2>1
<1>4. PICK K : K = KindsIn(list) /\ K[h] = "[" /\ K[j] = "]"
  <2>1. h \in 1 .. n /\ j \in 1 .. n
    BY <1>1
  <2> QED
    BY <1>1, <2>1, KindsInType
<1>5. Open(K, h, j) = 0
  <2>1. Open(K, h, j) = Open(code, P[h], P[j])
    BY <1>1, <1>3, <1>4, SameDepth
  <2> QED
    BY <2>1 DEF Pairs
<1>6. ASSUME NEW k \in h .. j - 1
      PROVE  Open(K, h, k) >= 1
  <2>1. k \in h .. n /\ h \in first .. n /\ k \in first .. n /\ j - 1 \in k .. n
    BY <1>1, <1>3
  <2>2. P[h] <= P[k] /\ P[k] <= P[j - 1] /\ P[k] \in Nat
    BY <2>1, PlaceOrder
  <2>3. P[j - 1] < P[j] /\ P[j - 1] \in Nat
    BY PlaceRises
  <2>4. P[k] \in P[h] .. P[j] - 1
    BY <1>2, <2>2, <2>3
  <2>5. Open(code, P[h], P[k]) >= 1
    BY <2>4 DEF Pairs
  <2>6. Open(K, h, k) = Open(code, P[h], P[k])
    BY <1>4, <2>1, SameDepth
  <2> QED
    BY <2>5, <2>6
<1> QED
  BY <1>3, <1>4, <1>5, <1>6 DEF Pairs

(* A bracket that is matched outside of its instruction has one of its own.*)
LEMMA BracketPlace ==
  ASSUME NEW P, NEW list, NEW first, NEW n, NEW code,
         OnCode(P, list, first, n, code),
         NEW x \in 1 .. Len(code), code[x] \in {"[", "]"}
  PROVE  \E h \in first + 1 .. n :
           \/ P[h] = x /\ list[h].c = code[x]
           \/ /\ StandsForLoop(list[h], code, P[h - 1], P[h])
              /\ x = P[h - 1] + 1 \/ x = P[h - 1] + 3
<1>1. PICK h \in first + 1 .. n : P[h - 1] < x /\ x <= P[h]
  BY PlaceOf
<1>2. PICK p \in Nat, q \in Nat : p = P[h - 1] /\ q = P[h] /\ p < x /\ x <= q
  BY <1>1, PlaceRises
<1>3. CASE /\ list[h].c \in Incrementers
           /\ \A k \in p + 1 .. q : code[k] = list[h].c
  <2>1. code[x] \in Incrementers
    BY <1>2, <1>3
  <2> QED
    BY <2>1 DEF Incrementers
<1>4. CASE StandsForOne(list[h], code, p, q)
  <2>1. q = p + 1 /\ code[q] = list[h].c
    BY <1>4 DEF StandsForOne
  <2>2. x \in Nat /\ x <= p + 1 /\ p < x
    BY <1>2, <2>1
  <2>3. x = p + 1
    BY <1>2, <2>2
  <2> QED
    BY <1>2, <2>1, <2>3
<1>5. CASE StandsForLoop(list[h], code, p, q)
  <2>1. q = p + 3 /\ code[p + 2] \notin {"[", "]"}
    BY <1>5 DEF StandsForLoop
  <2>2. x = p + 1 \/ x = p + 2 \/ x = p + 3
    BY <1>2, <2>1, SMTT(30)
  <2>3. x = p + 1 \/ x = p + 3
    BY <2>1, <2>2
  <2> QED
    BY <1>2, <1>5, <2>3
<1>6. CASE StandsForNothing(list[h], p, q)
  BY <1>2, <1>6 DEF StandsForNothing
<1> QED
  BY <1>2, <1>3, <1>4, <1>5, <1>6, PlaceStep

(* The match of a [ of the list is another instruction.                    *)
LEMMA OpenMatch ==
  ASSUME NEW P, NEW list, NEW first, NEW n, NEW code,
         OnCode(P, list, first, n, code),
         NEW h \in first + 1 .. n, list[h].c = "[",
         NEW x \in 1 .. Len(code), Pairs(code, P[h], x)
  PROVE  \E j \in first + 1 .. n :
           P[j] = x /\ list[j].c = "]" /\ Pairs(KindsIn(list), h, j)
<1>1. list \in Seq(Command) /\ n \in Nat /\ n = Len(list) /\ first \in 0 .. n
  BY DEF OnCode
<1>2. /\ P[h] \in Nat /\ P[h] < x /\ code[x] = "]" /\ Open(code, P[h], x) = 0
      /\ \A k \in P[h] .. x - 1 : Open(code, P[h], k) >= 1
  BY PlaceRises DEF Pairs
<1>3. PICK j \in first + 1 .. n :
        \/ P[j] = x /\ list[j].c = "]"
        \/ /\ StandsForLoop(list[j], code, P[j - 1], P[j])
           /\ x = P[j - 1] + 1 \/ x = P[j - 1] + 3
  BY <1>2, BracketPlace
<1>4. ASSUME StandsForLoop(list[j], code, P[j - 1], P[j]),
             x = P[j - 1] + 1 \/ x = P[j - 1] + 3
      PROVE  FALSE
  <2>1. PICK p \in Nat, q \in Nat : p = P[j - 1] /\ q = P[j]
    BY PlaceRises
  <2>2. /\ q = p + 3 /\ list[j].c \notin {"[", "]"} /\ list[j].c = "0"
        /\ code[p + 1] = "[" /\ (x = p + 1 \/ x = p + 3)
    BY <1>4, <2>1 DEF StandsForLoop
  <2>3. x = p + 3
    BY <1>2, <2>2
  <2>4. h < j
    <3>1. CASE j < h
      <4>1. j \in first .. n /\ h \in j .. n
        BY <1>1, <3>1
      <4>2. P[j] <= P[h]
        BY <4>1, PlaceOrder
      <4> QED
        BY <1>2, <2>1, <2>2, <2>3, <4>2
    <3>2. j # h
      BY <2>2
    <3> QED
      BY <1>1, <3>1, <3>2
  <2>5. P[h] <= p
    <3>1. h \in first .. n /\ j - 1 \in h .. n
      BY <1>1, <2>4
    <3> QED
      BY <2>1, <3>1, PlaceOrder
  <2>6. Open(code, P[h], q) = Open(code, P[h], p)
    <3>1. P[h] \in Int /\ P[h] <= P[j - 1] + 1
      BY <1>2, <2>1, <2>5
    <3>2. Open(code, P[h], P[j]) = Open(code, P[h], P[j - 1])
      BY <2>2, <3>1, PlaceOpen
    <3> QED
      BY <2>1, <3>2
  <2>7. p \in P[h] .. x - 1
    BY <1>2, <2>3, <2>5
  <2>8. Open(code, P[h], p) >= 1
    BY <1>2, <2>7
  <2>9. Open(code, P[h], p) = 0
    BY <1>2, <2>2, <2>3, <2>6
  <2> QED
    BY <2>8, <2>9
<1>5. P[j] = x /\ list[j].c = "]"
  BY <1>3, <1>4
<1> QED
  BY <1>5, PairUp

(* The match of a ] of the list is another instruction.                    *)
LEMMA CloseMatch ==
  ASSUME NEW P, NEW list, NEW first, NEW n, NEW code,
         OnCode(P, list, first, n, code),
         NEW h \in first + 1 .. n, list[h].c = "]",
         NEW x \in 1 .. Len(code), Pairs(code, x, P[h])
  PROVE  \E j \in first + 1 .. n :
           P[j] = x /\ list[j].c = "[" /\ Pairs(KindsIn(list), j, h)
<1>1. list \in Seq(Command) /\ n \in Nat /\ n = Len(list) /\ first \in 0 .. n
  BY DEF OnCode
<1>2. /\ P[h] \in Nat /\ x < P[h] /\ code[x] = "["
      /\ \A k \in x .. P[h] - 1 : Open(code, x, k) >= 1
  BY PlaceRises DEF Pairs
<1>3. PICK j \in first + 1 .. n :
        \/ P[j] = x /\ list[j].c = "["
        \/ /\ StandsForLoop(list[j], code, P[j - 1], P[j])
           /\ x = P[j - 1] + 1 \/ x = P[j - 1] + 3
  BY <1>2, BracketPlace
<1>4. ASSUME StandsForLoop(list[j], code, P[j - 1], P[j]),
             x = P[j - 1] + 1 \/ x = P[j - 1] + 3
      PROVE  FALSE
  <2>1. PICK p \in Nat, q \in Nat : p = P[j - 1] /\ q = P[j]
    BY PlaceRises
  <2>2. /\ q = p + 3 /\ list[j].c \notin {"[", "]"} /\ list[j].c = "0"
        /\ code[p + 3] = "]" /\ (x = p + 1 \/ x = p + 3)
    BY <1>4, <2>1 DEF StandsForLoop
  <2>3. x = p + 1
    BY <1>2, <2>2
  <2>4. j < h
    <3>1. CASE h < j
      <4>1. h \in first .. n /\ j - 1 \in h .. n
        BY <1>1, <3>1
      <4>2. P[h] <= P[j - 1]
        BY <4>1, PlaceOrder
      <4> QED
        BY <1>2, <2>1, <2>3, <4>2
    <3>2. j # h
      BY <2>2
    <3> QED
      BY <1>1, <3>1, <3>2
  <2>5. q < P[h]
    <3>1. j \in first .. n /\ h - 1 \in j .. n
      BY <1>1, <2>4
    <3>2. P[j] <= P[h - 1] /\ P[h - 1] \in Nat
      BY <3>1, PlaceOrder
    <3>3. P[h - 1] < P[h]
      BY PlaceRises
    <3> QED
      BY <1>2, <2>1, <3>2, <3>3
  <2>6. Open(code, x, q) = Open(code, x, p)
    <3>1. x \in Int /\ x <= P[j - 1] + 1
      BY <2>1, <2>3
    <3>2. Open(code, x, P[j]) = Open(code, x, P[j - 1])
      BY <2>2, <3>1, PlaceOpen
    <3> QED
      BY <2>1, <3>2
  <2>7. q \in x .. P[h] - 1
    BY <1>2, <2>2, <2>3, <2>5
  <2>8. Open(code, x, q) >= 1
    BY <1>2, <2>7
  <2>9. Open(code, x, p) = 0
    <3>1. p < x /\ x \in Int
      BY <2>3
    <3> QED
      BY <2>1, <3>1, BracketsType DEF Open
  <2> QED
    BY <2>6, <2>8, <2>9
<1>5. P[j] = x /\ list[j].c = "["
  BY <1>3, <1>4
<1> QED
  BY <1>5, PairUp

(* On cells of a word a bracket has the same match.                        *)
LEMMA EnclosesOnWords ==
  ASSUME NEW code, NEW i \in Int, NEW j \in Int
  PROVE  LWord!Encloses(code, i, j) <=> Pairs(code, i, j)
<1>1. ASSUME NEW S PROVE LWord!Cardinality(S) = Cardinality(S)
  BY DEF LWord!Cardinality, Cardinality
<1>2. \A b, k : LWord!Brackets(code, b, i, k) = BracketsIn(code, b, i, k)
  BY <1>1 DEF LWord!Brackets, BracketsIn
<1>3. \A k \in Int : /\ BracketsIn(code, "[", i, k) \in Nat
                     /\ BracketsIn(code, "]", i, k) \in Nat
  BY BracketsType
<1>4. Open(code, i, j) = 0 <=>
        BracketsIn(code, "[", i, j) = BracketsIn(code, "]", i, j)
  BY <1>3 DEF Open
<1>5. \A k \in i .. j - 1 :
        Open(code, i, k) >= 1 <=>
          BracketsIn(code, "[", i, k) > BracketsIn(code, "]", i, k)
  BY <1>3 DEF Open
<1> QED
  BY <1>2, <1>4, <1>5 DEF LWord!Encloses, Pairs

(* Of two brackets that pair each is the match of the other.               *)
LEMMA OnePartner ==
  ASSUME NEW code, NEW i \in Int, NEW j \in Int, Pairs(code, i, j),
         NEW k \in Int
  PROVE  /\ Pairs(code, i, k) \/ Pairs(code, k, i) <=> k = j
         /\ Pairs(code, j, k) \/ Pairs(code, k, j) <=> k = i
<1>1. code[i] = "[" /\ code[j] = "]" /\ i < j /\ Open(code, i, j) = 0
  BY DEF Pairs
<1>2. ~Pairs(code, k, i) /\ ~Pairs(code, j, k)
  BY <1>1 DEF Pairs
<1>3. ASSUME Pairs(code, i, k) PROVE k = j
  <2>1. /\ i < k /\ Open(code, i, k) = 0
        /\ \A l \in i .. k - 1 : Open(code, i, l) >= 1
        /\ \A l \in i .. j - 1 : Open(code, i, l) >= 1
    BY <1>3 DEF Pairs
  <2>2. j \notin i .. k - 1 /\ k \notin i .. j - 1
    BY <1>1, <2>1
  <2> QED
    BY <1>1, <2>1, <2>2
<1>4. ASSUME Pairs(code, k, j) PROVE k = i
  BY <1>4, OneMatch
<1> QED
  BY <1>2, <1>3, <1>4

LEMMA MatchIs ==
  ASSUME program \in Seq(STRING), NEW i \in 1 .. Len(program),
         NEW j \in 1 .. Len(program), Pairs(program, i, j)
  PROVE  /\ L!Match(i) = j /\ L!Match(j) = i
         /\ LWord!Match(i) = j /\ LWord!Match(j) = i
<1>1. DOMAIN program = 1 .. Len(program) /\ 1 .. Len(program) \subseteq Int
  OBVIOUS
<1>2. ASSUME NEW k \in DOMAIN program
      PROVE  /\ (L!Encloses(program, i, k) \/ L!Encloses(program, k, i))
                  <=> k = j
             /\ (L!Encloses(program, j, k) \/ L!Encloses(program, k, j))
                  <=> k = i
             /\ (LWord!Encloses(program, i, k) \/ LWord!Encloses(program, k, i))
                  <=> k = j
             /\ (LWord!Encloses(program, j, k) \/ LWord!Encloses(program, k, j))
                  <=> k = i
  <2>1. k \in Int /\ i \in Int /\ j \in Int
    BY <1>1
  <2>2. /\ Pairs(program, i, k) \/ Pairs(program, k, i) <=> k = j
        /\ Pairs(program, j, k) \/ Pairs(program, k, j) <=> k = i
    BY <2>1, OnePartner
  <2> QED
    BY <2>1, <2>2, EnclosesOpen, EnclosesOnWords
<1>3. i \in DOMAIN program /\ j \in DOMAIN program
  BY <1>1
<1>4. L!Match(i) = j
  BY <1>2, <1>3 DEF L!Match
<1>5. L!Match(j) = i
  BY <1>2, <1>3 DEF L!Match
<1>6. LWord!Match(i) = j
  BY <1>2, <1>3 DEF LWord!Match
<1>7. LWord!Match(j) = i
  BY <1>2, <1>3 DEF LWord!Match
<1> QED
  BY <1>4, <1>5, <1>6, <1>7

(* What the instructions at h and j have to do with each other.            *)
Mates(P, h, j) ==
  /\ \/ cmds[h].c = "[" /\ cmds[j].c = "]"
     \/ cmds[h].c = "]" /\ cmds[j].c = "["
  /\ L!Match(P[h]) = P[j] /\ LWord!Match(P[h]) = P[j]

LEMMA MateOf ==
  ASSUME NEW P, NEW first, NEW n, OnCode(P, cmds, first, n, program),
         L!Balanced(program), NEW h \in first + 1 .. n,
         cmds[h].c \in {"[", "]"}
  PROVE  \E j \in first + 1 .. n :
           /\ Mates(P, h, j)
           /\ IF cmds[h].c = "[" THEN Pairs(KindsIn(cmds), h, j)
              ELSE Pairs(KindsIn(cmds), j, h)
<1>1. program \in Seq(STRING) /\ n \in Nat /\ first \in 0 .. n
  BY DEF OnCode
<1>2. PICK len \in Nat : len = Len(program) /\ DOMAIN program = 1 .. len
  BY <1>1
<1>3. StandsForOne(cmds[h], program, P[h - 1], P[h])
  BY PlaceStep DEF Incrementers, StandsForLoop, StandsForNothing
<1>4. P[h] \in 1 .. len /\ program[P[h]] = cmds[h].c
  <2>1. PICK wide : LaidOut(P, cmds, first, n, program, wide)
    BY DEF OnCode
  <2>2. P[n] = len
    BY <1>2, <2>1 DEF LaidOut
  <2>3. h \in first .. n /\ n \in h .. n
    BY <1>1
  <2>4. P[h] <= P[n] /\ P[h] \in Nat
    BY <2>3, PlaceOrder
  <2>5. P[h - 1] \in Nat /\ P[h - 1] < P[h]
    BY PlaceRises
  <2>6. PICK x \in Nat, y \in Nat :
          x = P[h] /\ y = P[h - 1] /\ y < x /\ x <= len
    BY <2>2, <2>4, <2>5
  <2>7. x \in 1 .. len
    BY <2>6
  <2>8. program[P[h]] = cmds[h].c
    BY <1>3 DEF StandsForOne
  <2> QED
    BY <2>6, <2>7, <2>8
<1>5. PICK x \in 1 .. len :
        L!Encloses(program, P[h], x) \/ L!Encloses(program, x, P[h])
  BY <1>2, <1>4 DEF L!Balanced
<1>6. Pairs(program, P[h], x) \/ Pairs(program, x, P[h])
  BY <1>4, <1>5, EnclosesOpen
<1>7. CASE cmds[h].c = "["
  <2>1. Pairs(program, P[h], x)
    BY <1>4, <1>6, <1>7 DEF Pairs
  <2>2. PICK j \in first + 1 .. n :
          P[j] = x /\ cmds[j].c = "]" /\ Pairs(KindsIn(cmds), h, j)
    BY <1>2, <1>7, <2>1, OpenMatch
  <2>3. L!Match(P[h]) = P[j] /\ LWord!Match(P[h]) = P[j]
    BY <1>1, <1>2, <1>4, <2>1, <2>2, MatchIs
  <2> QED
    BY <1>7, <2>2, <2>3 DEF Mates
<1>8. CASE cmds[h].c = "]"
  <2>1. Pairs(program, x, P[h])
    BY <1>4, <1>6, <1>8 DEF Pairs
  <2>2. PICK j \in first + 1 .. n :
          P[j] = x /\ cmds[j].c = "[" /\ Pairs(KindsIn(cmds), j, h)
    BY <1>2, <1>8, <2>1, CloseMatch
  <2>3. L!Match(P[h]) = P[j] /\ LWord!Match(P[h]) = P[j]
    BY <1>1, <1>2, <1>4, <2>1, <2>2, MatchIs
  <2> QED
    BY <1>8, <2>2, <2>3 DEF Mates
<1> QED
  BY <1>7, <1>8
=============================================================================
