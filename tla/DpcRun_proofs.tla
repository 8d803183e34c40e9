---------------------------- MODULE DpcRun_proofs ----------------------------
(***************************************************************************)
(* dpcrun on every plain Brainfuck program, for every size of the machine  *)
(* and every limit: the machine computes what the language says, command   *)
(* by command, and what main() returns tells what became of the program;   *)
(* and on the bootloader of the tests: it clears every core.               *)
(***************************************************************************)
EXTENDS DpcRun, DekatronPC_proofs, Dekatron_proofs

-----------------------------------------------------------------------------
(* The program. *)
LEMMA CommandCodes ==
  /\ SymbolToOpcode("+") = BF_INC  /\ SymbolToOpcode("-") = BF_DEC
  /\ SymbolToOpcode(">") = BF_AINC /\ SymbolToOpcode("<") = BF_ADEC
  /\ SymbolToOpcode("[") = BF_LBEG /\ SymbolToOpcode("]") = BF_LEND
  /\ SymbolToOpcode(".") = BF_COUT /\ SymbolToOpcode(",") = BF_CIN
BY DEF SymbolToOpcode

LEMMA CommandOpcodes ==
  /\ SymbolToOpcode("+") \in Opcode /\ SymbolToOpcode("-") \in Opcode
  /\ SymbolToOpcode(">") \in Opcode /\ SymbolToOpcode("<") \in Opcode
  /\ SymbolToOpcode("[") \in Opcode /\ SymbolToOpcode("]") \in Opcode
  /\ SymbolToOpcode(".") \in Opcode /\ SymbolToOpcode(",") \in Opcode
BY DEF SymbolToOpcode, Opcode, OP_NOP, OP_HALT, OP_CLRD, OP_ISA0, OP_ISA1,
    DBG_BELL, DBG_EOT, DBG_SOT, DBG_LABEG, DBG_LAEND, DBG_CLRL, DBG_CLRI,
    DBG_CLRA, DBG_HRST, DBG_SRST, BF_INC, BF_DEC, BF_AINC, BF_ADEC,
    BF_LBEG, BF_LEND, BF_COUT, BF_CIN, BF_CLRML, BF_LOAD, BF_STORE

LEMMA OtherOpcodes ==
  /\ SymbolToOpcode("N") \in Opcode /\ SymbolToOpcode("H") \in Opcode
  /\ SymbolToOpcode("0") \in Opcode /\ SymbolToOpcode("M") \in Opcode
  /\ SymbolToOpcode("G") \in Opcode /\ SymbolToOpcode("P") \in Opcode
  /\ SymbolToOpcode("D") \in Opcode /\ SymbolToOpcode("B") \in Opcode
  /\ SymbolToOpcode("bell") \in Opcode /\ SymbolToOpcode("E") \in Opcode
  /\ SymbolToOpcode("S") \in Opcode /\ SymbolToOpcode("{") \in Opcode
  /\ SymbolToOpcode("}") \in Opcode /\ SymbolToOpcode("L") \in Opcode
  /\ SymbolToOpcode("I") \in Opcode /\ SymbolToOpcode("A") \in Opcode
  /\ SymbolToOpcode("R") \in Opcode /\ SymbolToOpcode("r") \in Opcode
BY DEF SymbolToOpcode, Opcode, OP_NOP, OP_HALT, OP_CLRD, OP_ISA0, OP_ISA1,
    DBG_BELL, DBG_EOT, DBG_SOT, DBG_LABEG, DBG_LAEND, DBG_CLRL, DBG_CLRI,
    DBG_CLRA, DBG_HRST, DBG_SRST, BF_INC, BF_DEC, BF_AINC, BF_ADEC,
    BF_LBEG, BF_LEND, BF_COUT, BF_CIN, BF_CLRML, BF_LOAD, BF_STORE

LEMMA CommandsAreSymbols == \A c \in Commands : IsSymbol(c)
BY DEF Commands, IsSymbol, Symbols

LEMMA SymbolsAreOpcodes ==
  \A c \in Symbols : SymbolToOpcode(c) \in Opcode
BY CommandOpcodes, OtherOpcodes, Zenon DEF Symbols

LEMMA TakenFrom ==
  ASSUME NEW text \in Seq(STRING), NEW S,
         NEW places, places = {i \in DOMAIN text : text[i] \in S}
  PROVE  At(text, places) \in Seq(S)
<1>1. places \in SUBSET (1 .. Len(text))
  OBVIOUS
<1>2. At(text, places) \in Seq(STRING)
  BY <1>1, AtType
<1>3. PICK at : Orders(at, At(text, places), text, places, Len(text))
  BY <1>1, AtType
<1>4. ASSUME NEW k \in 1 .. Len(At(text, places))
      PROVE  At(text, places)[k] \in S
  BY <1>3 DEF Orders
<1> QED
  BY <1>2, <1>4

LEMMA AssembleType ==
  ASSUME NEW text \in Seq(STRING)
  PROVE  Assemble(text) \in Seq(Opcode)
<1> DEFINE places == {i \in DOMAIN text : IsSymbol(text[i])}
           symbols == At(text, places)
<1>1. symbols \in Seq(Symbols)
  <2>1. places = {i \in DOMAIN text : text[i] \in Symbols}
    BY DEF IsSymbol
  <2> QED
    BY <2>1, TakenFrom
<1>2. Assemble(text) = [i \in DOMAIN symbols |-> SymbolToOpcode(symbols[i])]
  BY DEF Assemble
<1> HIDE DEF symbols
<1>3. ASSUME NEW i \in 1 .. Len(symbols)
      PROVE  SymbolToOpcode(symbols[i]) \in Opcode
  <2>1. symbols[i] \in Symbols
    BY <1>1
  <2> QED
    BY <2>1, SymbolsAreOpcodes
<1> QED
  BY <1>1, <1>2, <1>3

(* A plain text is assembled command by command. *)
LEMMA PlainCode ==
  ASSUME RunsPlain(job)
  PROVE  /\ Source \in Seq(Commands) /\ Code \in Seq(Opcode)
         /\ Len(Code) = Len(Source)
         /\ \A i \in 1 .. Len(Source) : Code[i] = SymbolToOpcode(Source[i])
<1> DEFINE text == job.source
           places == {i \in DOMAIN text : IsCommand(text[i])}
<1>1. text \in Seq(STRING)
  BY DEF RunsPlain
<1>2. {i \in DOMAIN text : IsSymbol(text[i])} = places
  BY CommandsAreSymbols DEF RunsPlain, IsCommand
<1>3. Source = At(text, places)
  BY DEF Source, Plain
<1>4. Source \in Seq(Commands)
  <2>1. places = {i \in DOMAIN text : text[i] \in Commands}
    BY DEF IsCommand
  <2> QED
    BY <1>1, <1>3, <2>1, TakenFrom
<1>5. Code = [i \in DOMAIN Source |-> SymbolToOpcode(Source[i])]
  BY <1>2, <1>3 DEF Code, Assemble
<1>6. Code \in Seq(Opcode)
  BY <1>1, AssembleType DEF Code
<1> QED
  BY <1>4, <1>5, <1>6

-----------------------------------------------------------------------------
(* How many loops are open after the first k commands. *)
Level(k) == Open(Source, 1, k)

LEMMA SameCardinality ==
  ASSUME NEW S
  PROVE  Language!Cardinality(S) = Cardinality(S)
BY DEF Language!Cardinality, Cardinality

LEMMA OpenLoopsIs == \A k : OpenLoops(k) = Level(k)
BY SameCardinality DEF OpenLoops, Level, Open, Language!Brackets, BracketsIn

LEMMA EnclosesPairs ==
  ASSUME NEW code, NEW i \in Int, NEW j \in Int
  PROVE  Language!Encloses(code, i, j) <=> Pairs(code, i, j)
<1>1. \A b, k : Language!Brackets(code, b, i, k) = BracketsIn(code, b, i, k)
  BY SameCardinality DEF Language!Brackets, BracketsIn
<1>2. \A k \in Int : /\ BracketsIn(code, "[", i, k) \in Nat
                     /\ BracketsIn(code, "]", i, k) \in Nat
  BY BracketsType
<1>3. Open(code, i, j) = 0 <=>
        BracketsIn(code, "[", i, j) = BracketsIn(code, "]", i, j)
  BY <1>2 DEF Open
<1>4. \A k \in i .. j - 1 :
        Open(code, i, k) >= 1 <=>
          BracketsIn(code, "[", i, k) > BracketsIn(code, "]", i, k)
  BY <1>2 DEF Open
<1> QED
  BY <1>1, <1>3, <1>4 DEF Language!Encloses, Pairs

LEMMA LevelStep ==
  ASSUME NEW k \in Nat, NEW l, l = k + 1
  PROVE  /\ Level(k) \in Int /\ Level(l) \in Int
         /\ Source[l] = "[" => Level(l) = Level(k) + 1
         /\ Source[l] = "]" => Level(l) = Level(k) - 1
         /\ Source[l] \notin {"[", "]"} => Level(l) = Level(k)
BY OpenStep DEF Level

LEMMA LevelStart == Level(0) = 0
BY BracketsType DEF Level, Open

(* A pair of brackets, told from the level before and after it. *)
LEMMA PairLevels ==
  ASSUME NEW i \in Nat \ {0}, NEW j \in Nat, NEW h, h = i - 1
  PROVE  Pairs(Source, i, j) <=>
           /\ Source[i] = "[" /\ Source[j] = "]" /\ i < j
           /\ Level(j) = Level(h)
           /\ \A k \in i .. j - 1 : Level(k) > Level(h)
<1>1. h \in Nat /\ h + 1 = i /\ 1 <= h + 1
  OBVIOUS
<1>2. ASSUME NEW k \in Int, h <= k
      PROVE  Open(Source, i, k) = Level(k) - Level(h)
             /\ Level(k) \in Int /\ Level(h) \in Int
             /\ Open(Source, i, k) \in Int
  BY <1>1, <1>2, OpenSplit, OpenStep DEF Level
<1>3. ASSUME i < j
      PROVE  /\ Open(Source, i, j) = 0 <=> Level(j) = Level(h)
             /\ \A k \in i .. j - 1 :
                  Open(Source, i, k) >= 1 <=> Level(k) > Level(h)
  BY <1>2, <1>3
<1> QED
  BY <1>3 DEF Pairs

(* A bracket has one match. *)
LEMMA OneClosing ==
  ASSUME NEW code, NEW i \in Int, NEW j \in Int, NEW k \in Int,
         Pairs(code, i, j), Pairs(code, i, k)
  PROVE  j = k
<1>1. ASSUME NEW a \in Int, NEW b \in Int, Pairs(code, i, a), Pairs(code, i, b)
      PROVE  ~(a < b)
  BY <1>1 DEF Pairs
<1> QED
  BY <1>1

LEMMA MatchIs ==
  ASSUME NEW i \in DOMAIN Source, NEW j \in DOMAIN Source,
         Source \in Seq(Commands),
         Pairs(Source, i, j)
  PROVE  Language!Match(i) = j /\ Language!Match(j) = i
<1>1. DOMAIN Source \subseteq Int
  OBVIOUS
<1>2. \A a, b \in DOMAIN Source :
        Language!Encloses(Source, a, b) <=> Pairs(Source, a, b)
  BY <1>1, EnclosesPairs
<1>3. \A k \in DOMAIN Source :
        Pairs(Source, i, k) \/ Pairs(Source, k, i) <=> k = j
  <2>1. ASSUME NEW k \in DOMAIN Source PROVE ~Pairs(Source, k, i)
    BY DEF Pairs
  <2> QED
    BY <1>1, <2>1, OneClosing
<1>4. \A k \in DOMAIN Source :
        Pairs(Source, j, k) \/ Pairs(Source, k, j) <=> k = i
  <2>1. ASSUME NEW k \in DOMAIN Source PROVE ~Pairs(Source, j, k)
    BY DEF Pairs
  <2> QED
    BY <1>1, <2>1, OneMatch
<1>5. Language!Match(i) = CHOOSE k \in DOMAIN Source : k = j
  BY <1>2, <1>3 DEF Language!Match
<1>6. Language!Match(j) = CHOOSE k \in DOMAIN Source : k = i
  BY <1>2, <1>4 DEF Language!Match
<1> QED
  BY <1>5, <1>6

(* An opcode in memory stands for a command of the program. *)
Stands(op, c) ==
  /\ op \in BF_INC .. BF_CIN
  /\ op = BF_INC  <=> c = "+"
  /\ op = BF_DEC  <=> c = "-"
  /\ op = BF_AINC <=> c = ">"
  /\ op = BF_ADEC <=> c = "<"
  /\ op = BF_LBEG <=> c = "["
  /\ op = BF_LEND <=> c = "]"
  /\ op = BF_COUT <=> c = "."
  /\ op = BF_CIN  <=> c = ","

LEMMA CommandsStand ==
  \A c \in Commands : Stands(SymbolToOpcode(c), c)
<1> USE DEF Stands, BF_INC, BF_DEC, BF_AINC, BF_ADEC, BF_LBEG, BF_LEND,
            BF_COUT, BF_CIN
<1>1. /\ Stands(BF_INC, "+") /\ Stands(BF_DEC, "-")
      /\ Stands(BF_AINC, ">") /\ Stands(BF_ADEC, "<")
      /\ Stands(BF_LBEG, "[") /\ Stands(BF_LEND, "]")
      /\ Stands(BF_COUT, ".") /\ Stands(BF_CIN, ",")
  OBVIOUS
<1> HIDE DEF Stands, BF_INC, BF_DEC, BF_AINC, BF_ADEC, BF_LBEG, BF_LEND,
             BF_COUT, BF_CIN
<1> QED
  BY <1>1, CommandCodes, Zenon DEF Commands

(* A plain program and its HALT stand in memory from place 0. *)
Holds ==
  /\ \A a \in Nat, p \in 1 .. Len(Source) :
       p = a + 1 => Stands(Ip!ReadCode(a), Source[p])
  /\ Ip!ReadCode(Len(Source)) = OP_HALT

(* No place of a program that fits is written twice. *)
LEMMA LoadedOnce ==
  ASSUME NEW code \in Seq(Opcode), Len(code) <= IpSize,
         NEW i \in 1 .. Len(code), NEW a \in Nat, i = a + 1
  PROVE  Ip!LoadedAt(code, 0, a) = i
<1> DEFINE hits == {j \in DOMAIN code : (0 + j - 1) % IpSize = a}
<1>0. IpSize \in Nat /\ IpSize # 0
  BY DekatronPCAssumption
<1>1. ASSUME NEW j \in DOMAIN code PROVE (0 + j - 1) % IpSize = j - 1
  <2>1. PICK k \in Int : k = 0 + j - 1
    OBVIOUS
  <2>2. k \in 0 .. IpSize - 1 /\ k = 0 * IpSize + k
    BY <1>0, <2>1
  <2>3. k % IpSize = k
    BY <1>0, <2>2, ModUnique
  <2> QED
    BY <2>1, <2>3
<1>2. hits = {i}
  BY <1>1
<1>3. Ip!LoadedAt(code, 0, a)
        = IF hits = {} THEN 0 ELSE CHOOSE k \in hits : \A j \in hits : j <= k
  BY DEF Ip!LoadedAt
<1> HIDE DEF hits
<1>4. \A k \in hits : \A j \in hits : j <= k
  BY <1>2
<1>5. (CHOOSE k \in hits : \A j \in hits : j <= k) \in hits
  BY <1>2, <1>4
<1> QED
  BY <1>2, <1>3, <1>5

LEMMA LoadTypes ==
  ASSUME NEW code \in Seq(Opcode), NEW base, Ip!TypeOK, Ip!LoadCode(code, base)
  PROVE  codeRam' \in [Ip!RamPlace -> Opcode]
<1>1. ASSUME NEW a, Ip!LoadedAt(code, base, a) # 0
      PROVE  code[Ip!LoadedAt(code, base, a)] \in Opcode
  BY <1>1, IpP!LoadedAtType, DekatronPCAssumption
  DEF Ip!LoadedAt, IpP!LoadedAt, IpP!Opcode, Opcode
<1> QED
  BY <1>1 DEF Ip!LoadCode, Ip!TypeOK, Ip!Opcode, Opcode

(* After its load the program is in memory. *)
LEMMA LoadHolds ==
  ASSUME RunsPlain(job), LoadSource
  PROVE  Holds'
<1> DEFINE code == Append(Code, OP_HALT)
           n == Len(Source)
<1>1. Source \in Seq(Commands) /\ Code \in Seq(Opcode) /\ Len(Code) = n
  BY PlainCode
<1>2. n \in Nat /\ n < BootBase /\ BootBase \in Nat /\ IpSize \in Nat
        /\ BootBase < IpSize
  BY <1>1, DekatronPCAssumption DEF RunsPlain, Source
<1>3. code \in Seq(Opcode) /\ Len(code) = n + 1 /\ Len(code) <= IpSize
  BY <1>1, <1>2 DEF Opcode, OP_HALT
<1>4. Source' = Source
  BY DEF LoadSource, Goes, Source
<1>5. ASSUME NEW a \in Nat, NEW i \in 1 .. Len(code), i = a + 1
      PROVE  Ip!ReadCode(a)' = code[i]
  <2>1. Ip!LoadedAt(code, 0, a) = i
    BY <1>3, <1>5, LoadedOnce
  <2>2. a \in Ip!RamPlace /\ ~(a >= BootBase)
    BY <1>2, <1>3, <1>5 DEF Ip!RamPlace
  <2>3. codeRam'[a] = code[i]
    BY <2>1, <2>2 DEF LoadSource, Ip!LoadCode
  <2> QED
    BY <2>2, <2>3 DEF Ip!ReadCode
<1>6. ASSUME NEW a \in Nat, NEW p \in 1 .. n, p = a + 1
      PROVE  Stands(Ip!ReadCode(a)', Source[p])
  <2>1. Code[p] = SymbolToOpcode(Source[p]) /\ Source[p] \in Commands
    BY <1>1, PlainCode
  <2>2. code[p] = Code[p] /\ p \in 1 .. Len(code)
    BY <1>1, <1>2, <1>3
  <2>3. Ip!ReadCode(a)' = Code[p]
    BY <1>5, <1>6, <2>2
  <2>4. Ip!ReadCode(a)' = SymbolToOpcode(Source[p])
    BY <2>1, <2>3, Zenon
  <2> QED
    BY <2>1, <2>4, CommandsStand, Zenon
<1>7. PICK m \in Nat : m = n
  BY <1>2
<1>8. Ip!ReadCode(m)' = OP_HALT
  <2>1. PICK i \in 1 .. Len(code) : i = m + 1
    BY <1>2, <1>3, <1>7
  <2>2. code[i] = OP_HALT
    BY <1>1, <1>7, <2>1
  <2>3. Ip!ReadCode(m)' = code[i]
    BY <1>5, <2>1
  <2> QED
    BY <2>2, <2>3
<1>9. Ip!ReadCode(Len(Source))' = OP_HALT
  BY <1>4, <1>7, <1>8 DEF Ip!ReadCode
<1> QED
  BY <1>4, <1>6, <1>9 DEF Holds

-----------------------------------------------------------------------------
(* In a program with matching brackets every bracket has its pair. *)
LEMMA HasPair ==
  ASSUME RunsPlain(job), NEW i \in 1 .. Len(Source), Source[i] \in {"[", "]"}
  PROVE  \E j \in 1 .. Len(Source) :
           IF Source[i] = "[" THEN Pairs(Source, i, j) ELSE Pairs(Source, j, i)
<1>1. Source \in Seq(Commands)
  BY PlainCode
<1>2. Language!Balanced(Source) /\ DOMAIN Source = 1 .. Len(Source)
  BY <1>1 DEF RunsPlain, Source
<1>3. PICK j \in 1 .. Len(Source) :
        Language!Encloses(Source, i, j) \/ Language!Encloses(Source, j, i)
  BY <1>2 DEF Language!Balanced
<1>4. Pairs(Source, i, j) \/ Pairs(Source, j, i)
  BY <1>3, EnclosesPairs
<1> QED
  BY <1>4 DEF Pairs

(* No place is outside of more loops than were opened before it. *)
LEMMA LevelIsNat ==
  ASSUME RunsPlain(job), NEW k \in 0 .. Len(Source)
  PROVE  Level(k) \in Nat
<1> DEFINE n == Len(Source)
           S == {m \in Nat : \A l \in 0 .. m : l <= n => Level(l) >= 0}
<1>0. n \in Nat
  BY PlainCode
<1>1. 0 \in S
  BY LevelStart
<1>2. ASSUME NEW m \in S \cap Nat PROVE m + 1 \in S
  <2>1. PICK l \in Nat : l = m + 1
    OBVIOUS
  <2>2. SUFFICES ASSUME l <= n PROVE Level(l) >= 0
    BY <1>0, <2>1
  <2>3. /\ Level(m) >= 0 /\ Level(m) \in Int /\ Level(l) \in Int
        /\ Source[l] = "[" => Level(l) = Level(m) + 1
        /\ Source[l] \notin {"[", "]"} => Level(l) = Level(m)
    <3>1. m \in 0 .. m /\ m <= n /\ m \in Nat
      BY <1>0, <2>1, <2>2
    <3>2. Level(m) >= 0
      BY <3>1
    <3> QED
      BY <2>1, <3>1, <3>2, LevelStep
  <2>4. CASE Source[l] = "]"
    <3>1. PICK i \in 1 .. n : Pairs(Source, i, l)
      BY <1>0, <2>1, <2>2, <2>4, HasPair
    <3>2. PICK h \in Nat : h = i - 1
      BY <1>0
    <3>3. Level(l) = Level(h) /\ i < l
      BY <1>0, <2>1, <3>1, <3>2, PairLevels
    <3>4. h \in 0 .. m /\ h <= n
      BY <1>0, <2>1, <2>2, <3>2, <3>3
    <3> QED
      BY <3>3, <3>4
  <2> QED
    BY <2>3, <2>4
<1> HIDE DEF S
<1>3. Nat \subseteq S
  BY <1>1, <1>2, NatClosed
<1>4. k \in Nat /\ k \in S
  BY <1>0, <1>3
<1> QED
  BY <1>0, <1>4, LevelStep DEF S

(* The nesting of a program is the deepest of its levels. *)
LEMMA NestingBounds ==
  ASSUME RunsPlain(job), NEW k \in 1 .. Len(Source)
  PROVE  Nesting \in Nat /\ Level(k) <= Nesting
<1> DEFINE n == Len(Source)
           Deepest(m, x) == /\ \A i \in 0 .. m : Level(i) <= x
                            /\ x = 0 \/ \E i \in 1 .. m : Level(i) = x
           S == {m \in Nat : m <= n => \E x \in 0 .. m : Deepest(m, x)}
<1>0. n \in Nat /\ DOMAIN Source = 1 .. n
  BY PlainCode
<1>1. 0 \in S
  <2>1. Deepest(0, 0)
    BY LevelStart
  <2> QED
    BY <2>1
<1>2. ASSUME NEW m \in S \cap Nat PROVE m + 1 \in S
  <2>1. PICK l \in Nat : l = m + 1
    OBVIOUS
  <2>2. SUFFICES ASSUME l <= n PROVE \E x \in 0 .. l : Deepest(l, x)
    BY <1>0, <2>1
  <2>3. PICK x \in 0 .. m : Deepest(m, x)
    BY <1>0, <2>1, <2>2
  <2>4. PICK y \in Int : y = Level(l)
    BY <2>1, LevelStep
  <2>5. Level(m) \in Int /\ Level(m) <= x /\ y <= Level(m) + 1
    <3>1. m \in 0 .. m /\ m \in Nat
      OBVIOUS
    <3>2. Level(m) <= x
      BY <2>3, <3>1
    <3>3. /\ Level(m) \in Int
          /\ \/ Level(l) = Level(m) + 1 \/ Level(l) = Level(m) - 1
             \/ Level(l) = Level(m)
      BY <2>1, <3>1, LevelStep
    <3> QED
      BY <2>4, <3>2, <3>3
  <2>6. \A i \in 0 .. l : i \in 0 .. m \/ i = l
    BY <2>1
  <2>7. CASE y <= x
    <3>1. Deepest(l, x)
      BY <2>1, <2>3, <2>4, <2>6, <2>7
    <3> QED
      BY <2>1, <3>1
  <2>8. CASE y > x
    <3>1. \A i \in 0 .. m : Level(i) \in Int
      BY LevelStep
    <3>2. Deepest(l, y)
      BY <2>1, <2>3, <2>4, <2>6, <2>8, <3>1
    <3>3. y \in 0 .. l
      BY <2>1, <2>5, <2>8
    <3> QED
      BY <3>2, <3>3
  <2> QED
    BY <2>7, <2>8
<1>3. PICK x \in 0 .. n : Deepest(n, x)
  <2> HIDE DEF S
  <2>1. Nat \subseteq S
    BY <1>1, <1>2, NatClosed
  <2> QED
    <3>1. n \in S
      BY <1>0, <2>1
    <3> QED
      BY <1>0, <3>1 DEF S
<1> DEFINE Bound(y) == /\ \A i \in DOMAIN Source : OpenLoops(i) <= y
                       /\ y = 0 \/ \E i \in DOMAIN Source : OpenLoops(i) = y
<1>4. Bound(x)
  BY <1>0, <1>3, OpenLoopsIs
<1>5. Nesting = CHOOSE y \in 0 .. n : Bound(y)
  BY DEF Nesting
<1> HIDE DEF Bound, n
<1>6. Nesting \in 0 .. n /\ Bound(Nesting)
  BY <1>3, <1>4, <1>5
<1> QED
  BY <1>0, <1>6, OpenLoopsIs DEF Bound, n

-----------------------------------------------------------------------------
(* The machine before its first instruction: cleared, nothing fetched. *)
Idle ==
  /\ dataMem = [a \in Ap!Addr |-> 0] /\ ap = 0 /\ ~lock
  /\ ip = 0 /\ ~ipCounted /\ scan = "none" /\ ~overflow /\ ~loading
  /\ call = "none" /\ phase = "FETCH"
  /\ tx = <<>>

(* A scan forward is inside the loop it skips, at every place it passed,   *)
(* and the loop counter is its depth there.                                *)
Skips ==
  \E o \in 0 .. Len(Source), p, q \in 1 .. Len(Source) :
    /\ o = origin /\ p = o + 1 /\ q = ip + 1 /\ p <= q
    /\ Source[p] = "["
    /\ loop = Level(q) - Level(o)
    /\ \A k \in p .. q : Level(k) > Level(o)

(* A scan backward is inside the loop it repeats. *)
Repeats ==
  \E o, i \in 0 .. Len(Source), p \in 1 .. Len(Source) :
    /\ o = origin /\ p = o + 1 /\ i = ip /\ i <= o
    /\ Source[p] = "]"
    /\ loop = Level(i) - Level(p)
    /\ \A k \in i .. o : Level(k) > Level(p)

(* A machine in a plain program never leaves the Brainfuck ISA, never      *)
(* loads or waits, and stays in the program until its HALT; an overflow    *)
(* is for a program nested too deep.                                       *)
Running ==
  /\ mode = ISA_BF /\ ~loading
  /\ call # "insn" /\ phase # "INSN"
  /\ phase = "CIN" => call = "cin"
  /\ call = "cin" => insn = BF_CIN
  /\ overflow => halted /\ Nesting >= LoopSize
  /\ halted /\ ~overflow => ip = Len(Source) + 1
  /\ ~halted => ip \in 0 .. Len(Source)
  /\ ~halted /\ ipCounted /\ call # "decode" => ip < Len(Source)
  /\ scan = "forward" => Skips /\ Ap!CellValue = 0
  /\ scan = "backward" => Repeats /\ Ap!CellValue # 0

Stages == {"load", "boot", "reset", "key", "step", "done"}

(* What main() has done so far. *)
MainInv ==
  /\ stage \in Stages /\ job \in Jobs /\ input \in Seq(0 .. DataTop)
  /\ stage \in {"load", "boot", "reset"} => Idle /\ halted /\ exit = 0
  /\ stage = "key" => Idle /\ mode = ISA_BF
  /\ stage \in {"boot", "reset", "key", "step"} => Holds
  /\ stage = "step" => Running
  /\ ExitTells

RunInv == ControlInv /\ TestedInv /\ MainInv

(* Everything but the two loads is a step of the machine, or leaves it     *)
(* alone.                                                                  *)
LEMMA MachineSteps ==
  ASSUME input \in Seq(0 .. DataTop), RunNext, ~LoadSource, ~LoadBoot
  PROVE  [Next]_vars
<1>1. ASSUME NEW s, NEW e, Quits(s, e) PROVE UNCHANGED vars
  BY <1>1 DEF Quits, machineVars, vars
<1>2. CASE Refuse \/ Throw \/ RefuseBoot \/ Finish
  BY <1>1, <1>2 DEF Refuse, Throw, RefuseBoot, Finish
<1>3. CASE StartReset
  BY <1>3 DEF StartReset, Next, Panel
<1>4. CASE RunKey
  BY <1>4 DEF RunKey, Next, Panel
<1>5. CASE RunStep /\ ~ReadCin
  BY <1>5 DEF RunStep, Next, Step, Continue
<1>6. CASE ReadCin
  <2>1. PICK c \in 0 .. DataTop + 1 : FinishCin(c)
    <3>1. (IF input = <<>> THEN 0 ELSE Head(input)) \in 0 .. DataTop + 1
      BY DekatronPCAssumption
    <3> QED
      BY <1>6, <3>1 DEF ReadCin
  <2> QED
    BY <2>1 DEF Next, Step, Continue
<1> QED
  BY <1>2, <1>3, <1>4, <1>5, <1>6 DEF RunNext

(* A load leaves a well typed machine that has fetched nothing. *)
LEMMA LoadBase ==
  ASSUME ControlInv, TestedInv, Idle, RunsPlain(job), LoadSource \/ LoadBoot
  PROVE  ControlInv' /\ TestedInv'
<1>1. /\ UNCHANGED <<apVars, ctrlVars, cfg, queueVars, tx, statVars>>
      /\ UNCHANGED <<ip, insn, ipCounted, loop, overflow, scan, loading>>
  BY DEF LoadSource, LoadBoot, Ip!LoadCode, Ip!SetBootRom, Ip!loopVars
<1>2. Ip!TypeOK
  BY DEF ControlInv, TypeInv, LineInv
<1>3. /\ codeRam' \in [Ip!RamPlace -> Opcode]
      /\ bootRom' \in [Ip!RomPlace -> Opcode]
  <2>1. CASE LoadSource
    <3>1. Append(Code, OP_HALT) \in Seq(Opcode)
      BY PlainCode DEF Opcode, OP_HALT
    <3>2. codeRam' \in [Ip!RamPlace -> Opcode]
      BY <1>2, <2>1, <3>1, LoadTypes DEF LoadSource
    <3> QED
      BY <1>2, <2>1, <3>2
      DEF LoadSource, Ip!LoadCode, Ip!TypeOK, Ip!Opcode, Opcode
  <2>2. CASE LoadBoot
    <3>1. PICK rom \in Seq(Opcode) : Ip!SetBootRom(rom)
      BY <2>2, AssembleType DEF LoadBoot, RunsPlain
    <3> QED
      BY <1>2, <3>1, DekatronPCAssumption
      DEF Ip!SetBootRom, Ip!TypeOK, Ip!Opcode, Opcode, Ip!RomPlace, Ip!OP_NOP
  <2> QED
    BY <2>1, <2>2
<1>4. LineInv'
  BY <1>1, <1>2, <1>3
  DEF ControlInv, TypeInv, LineInv, Idle, apVars, Ap!TypeOK, Ap!RegCoherent,
      Ip!TypeOK, Ip!LoopCounterClean, Ip!LatchedInsn, Ip!Opcode, Opcode
<1>5. ControlTypes'
  BY <1>1 DEF ControlInv, TypeInv, ControlTypes, ctrlVars, queueVars, statVars
<1>6. (CallInv /\ WaitIsConsistent /\ HaltedIsFresh)'
  BY <1>1 DEF ControlInv, CallInv, WaitIsConsistent, HaltedIsFresh, Between,
              ctrlVars
<1>7. TestedInv'
  BY <1>1 DEF TestedInv, Undecided, ctrlVars, apVars
<1> QED
  BY <1>4, <1>5, <1>6, <1>7 DEF ControlInv, TypeInv

LEMMA NextBase ==
  ASSUME RunInv, PlainJobs, [RunNext]_runVars
  PROVE  ControlInv' /\ TestedInv'
<1> USE DEF RunInv, MainInv
<1>1. CASE LoadSource \/ LoadBoot
  BY <1>1, LoadBase DEF LoadSource, LoadBoot, Goes, PlainJobs
<1>2. CASE [Next]_vars
  <2>1. CallInv' /\ WaitIsConsistent' /\ HaltedIsFresh'
    BY <1>2, NextControl
  <2>2. TypeInv'
    BY <1>2, NextTypeInv DEF ControlInv
  <2>3. TestedInv'
    BY <1>2, NextTested
  <2> QED
    BY <2>1, <2>2, <2>3 DEF ControlInv
<1>3. CASE UNCHANGED runVars
  BY <1>2, <1>3 DEF runVars, machineVars, vars
<1> QED
  BY <1>1, <1>2, <1>3, MachineSteps

-----------------------------------------------------------------------------
(* The place and the cells of the program that the language sees. *)
Pc == IF NextPlace > Len(Source) THEN Len(Source) ELSE NextPlace
Tape == [dataMem EXCEPT ![ap] = Ap!CellValue]

(* The language sees nothing of a step. *)
Quiet ==
  Pc' = Pc /\ Tape' = Tape /\ UNCHANGED <<job, cfg, ap, tx, input>>

LEMMA QuietStutters == Quiet => UNCHANGED Language!vars
BY DEF Quiet, Pc, Tape, Source, Language!vars

(* What a step has to do to be a command. *)
LEMMA CommandSteps ==
  ASSUME NEW p \in 1 .. Len(Source), Pc \in Int, p = Pc + 1,
         Len(Source) \in Nat, UNCHANGED <<job, cfg>>
  PROVE
  /\ Source[p] = "+" /\ Pc' = p /\ UNCHANGED <<ap, tx, input>>
       /\ Tape' = [Tape EXCEPT ![ap] = IF Tape[ap] = DataTop THEN 0
                                                             ELSE Tape[ap] + 1]
     => Language!Next
  /\ Source[p] = "-" /\ Pc' = p /\ UNCHANGED <<ap, tx, input>>
       /\ Tape' = [Tape EXCEPT ![ap] = IF Tape[ap] = 0 THEN DataTop
                                                       ELSE Tape[ap] - 1]
     => Language!Next
  /\ Source[p] = ">" /\ Pc' = p /\ Tape' = Tape /\ UNCHANGED <<tx, input>>
       /\ ap' = (IF ap = ApTop THEN 0 ELSE ap + 1)
     => Language!Next
  /\ Source[p] = "<" /\ Pc' = p /\ Tape' = Tape /\ UNCHANGED <<tx, input>>
       /\ ap' = (IF ap = 0 THEN ApTop ELSE ap - 1)
     => Language!Next
  /\ Source[p] = "." /\ Pc' = p /\ Tape' = Tape /\ UNCHANGED <<ap, input>>
       /\ tx' = Language!Show(Tape[ap])
     => Language!Next
  /\ Source[p] = "," /\ Pc' = p /\ UNCHANGED ap
       /\ Tape' = [Tape EXCEPT ![ap] = Language!Character]
       /\ input' = (IF input = <<>> THEN <<>> ELSE Tail(input))
       /\ tx' = (IF cfg.echoMode THEN Language!Show(Language!Character) ELSE tx)
     => Language!Next
  /\ Source[p] = "[" /\ Tape' = Tape /\ UNCHANGED <<ap, tx, input>>
       /\ Pc' = (IF Tape[ap] = 0 THEN Language!Match(p) - 1 ELSE p)
     => Language!Next
  /\ Source[p] = "]" /\ Tape' = Tape /\ UNCHANGED <<ap, tx, input>>
       /\ Pc' = (IF Tape[ap] # 0 THEN Language!Match(p) - 1 ELSE p)
     => Language!Next
<1> DEFINE n == Len(Source)
<1>1. UNCHANGED <<Source, cfg.echoMode>>
  BY DEF Source
<1>2. Pc # n /\ Pc \in Int /\ Pc + 1 = p /\ n \in Nat
  OBVIOUS
<1> QED
  BY <1>1, <1>2
  DEF Pc, Tape, Language!Next, Language!Count, Language!Move, Language!Put,
      Language!Get, Language!Branch, Language!Done, Language!Command,
      Language!Cell, Language!Advance

-----------------------------------------------------------------------------
(* A machine inside a call of step(), or between two. *)
Stepping ==
  ControlInv /\ TestedInv /\ RunsPlain(job) /\ Holds /\ Running

LEMMA Sizes ==
  ASSUME Stepping
  PROVE  /\ Source \in Seq(Commands) /\ Len(Source) \in Nat
         /\ Len(Source) + 1 < IpSize /\ Len(Source) < BootBase
         /\ IpSize \in Nat \ {0} /\ BootBase \in Nat /\ LoopSize \in Nat
         /\ ip \in 0 .. IpSize - 1 /\ ap \in 0 .. ApTop /\ ApTop \in Nat
         /\ DataTop \in Nat
         /\ dataMem \in [0 .. ApTop -> 0 .. DataTop] /\ data \in 0 .. DataTop
         /\ Ap!CellValue \in 0 .. DataTop /\ tx \in Seq(0 .. DataTop)
         /\ lock \in BOOLEAN /\ memHere \in BOOLEAN /\ ipCounted \in BOOLEAN
         /\ halted \in BOOLEAN /\ overflow \in BOOLEAN
<1>1. Source \in Seq(Commands) /\ Len(Source) < BootBase
  BY PlainCode DEF Stepping, RunsPlain, Source
<1>2. Ap!TypeOK /\ Ip!TypeOK /\ ControlTypes
  BY DEF Stepping, ControlInv, TypeInv, LineInv
<1> QED
  BY <1>1, <1>2, DekatronPCAssumption
  DEF Ap!TypeOK, Ip!TypeOK, ControlTypes, Ap!Addr, Ap!Byte, Ip!Place,
      Ap!CellValue

(* The opcode that is fetched is that of the place under IP, or the HALT. *)
LEMMA Latched ==
  ASSUME Stepping, ipCounted, ~halted
  PROVE  /\ ip \in 0 .. Len(Source)
         /\ \/ ip = Len(Source) /\ insn = OP_HALT
            \/ \E p \in 1 .. Len(Source) :
                 p = ip + 1 /\ Stands(insn, Source[p])
<1>1. Len(Source) \in Nat
  BY Sizes
<1>2. ip \in 0 .. Len(Source) /\ insn = Ip!ReadCode(ip)
  BY DEF Stepping, Running, ControlInv, TypeInv, LineInv, Ip!LatchedInsn
<1>3. CASE ip = Len(Source)
  BY <1>2, <1>3 DEF Stepping, Holds
<1>4. CASE ip # Len(Source)
  <2>1. PICK p \in 1 .. Len(Source) : p = ip + 1
    BY <1>1, <1>2, <1>4
  <2>2. ip \in Nat
    BY <1>1, <1>2
  <2> QED
    BY <1>2, <2>1, <2>2 DEF Stepping, Holds
<1> QED
  BY <1>2, <1>3, <1>4

(* What decode does with the opcodes of a plain program. *)
LEMMA Operations ==
  ASSUME mode = ISA_BF
  PROVE  /\ Operation(mode, OP_HALT) = "HALT"
         /\ Operation(mode, BF_INC) = "INC" /\ Operation(mode, BF_DEC) = "DEC"
         /\ Operation(mode, BF_AINC) = "AINC"
         /\ Operation(mode, BF_ADEC) = "ADEC"
         /\ Operation(mode, BF_LBEG) = "TEST"
         /\ Operation(mode, BF_LEND) = "TEST"
         /\ Operation(mode, BF_COUT) = "COUT"
         /\ Operation(mode, BF_CIN) = "CIN"
BY DEF Operation, ISA_BF, ISA_DEBUG, OP_HALT, OP_CLRD, OP_ISA0,
       OP_ISA1, BF_LBEG, BF_LEND, BF_INC, BF_DEC, BF_AINC, BF_ADEC, BF_COUT,
       BF_CIN, BF_CLRML, BF_LOAD, BF_STORE

(* A decode in a plain program is one of these, and decodes a command that *)
(* stands where IP is.                                                     *)
LEMMA Decoded ==
  ASSUME Stepping, Decode
  PROVE  /\ call = "decode" /\ scan = "none" /\ ~overflow /\ ~halted
         /\ ipCounted /\ phase = "FETCH" /\ ~loading
         /\ \/ insn = OP_HALT /\ ip = Len(Source) /\ DecodeHalt
            \/ \E p \in 1 .. Len(Source) :
                 /\ p = ip + 1 /\ Stands(insn, Source[p])
                 /\ \/ DecodeAp /\ insn \in BF_INC .. BF_LEND
                    \/ DecodeCout /\ insn = BF_COUT
                    \/ DecodeCin /\ insn = BF_CIN
<1>1. call = "decode"
  BY DEF Decode, DecodeEot, DecodeIsa, DecodeStored, DecodeNop, DecodeHalt,
         DecodeBell, DecodeReset, DecodeIp, DecodeAp, DecodeCout, DecodeCin,
         Retire
<1>2. /\ scan = "none" /\ ~overflow /\ ~halted /\ ipCounted
      /\ phase = "FETCH" /\ ~loading /\ mode = ISA_BF
  BY <1>1 DEF Stepping, Running, ControlInv, CallInv
<1>3. insn = OP_HALT \/ insn \in BF_INC .. BF_CIN
  BY <1>2, Latched DEF Stands
<1>4. insn \notin {OP_ISA0, OP_ISA1}
  BY <1>3 DEF OP_HALT, BF_INC, BF_CIN, OP_ISA0, OP_ISA1
<1>5. \/ insn = OP_HALT /\ Operation(mode, insn) = "HALT"
      \/ /\ insn \in BF_INC .. BF_LEND
         /\ Operation(mode, insn) \in {"INC", "DEC", "AINC", "ADEC", "TEST"}
      \/ insn = BF_COUT /\ Operation(mode, insn) = "COUT"
      \/ insn = BF_CIN /\ Operation(mode, insn) = "CIN"
  <2>1. \/ insn = OP_HALT \/ insn = BF_INC \/ insn = BF_DEC \/ insn = BF_AINC
        \/ insn = BF_ADEC \/ insn = BF_LBEG \/ insn = BF_LEND
        \/ insn = BF_COUT \/ insn = BF_CIN
    BY <1>3 DEF OP_HALT, BF_INC, BF_DEC, BF_AINC, BF_ADEC, BF_LBEG, BF_LEND,
                BF_COUT, BF_CIN
  <2>2. {BF_INC, BF_DEC, BF_AINC, BF_ADEC, BF_LBEG, BF_LEND}
          \subseteq BF_INC .. BF_LEND
    BY DEF BF_INC, BF_DEC, BF_AINC, BF_ADEC, BF_LBEG, BF_LEND
  <2> QED
    BY <1>2, <2>1, <2>2, Operations, Zenon
<1>6. \/ insn = OP_HALT /\ DecodeHalt
      \/ insn \in BF_INC .. BF_LEND /\ DecodeAp
      \/ insn = BF_COUT /\ DecodeCout
      \/ insn = BF_CIN /\ DecodeCin
  BY <1>2, <1>4, <1>5
  DEF Decode, DecodeEot, DecodeIsa, DecodeStored, DecodeNop, DecodeHalt,
      DecodeBell, DecodeReset, DecodeIp, DecodeAp, DecodeCout, DecodeCin,
      Decodes
<1>7. insn # OP_HALT => insn \in BF_INC .. BF_CIN
  BY <1>3
<1>8. ASSUME NEW p \in 1 .. Len(Source), Stands(insn, Source[p])
      PROVE  insn # OP_HALT
  <2>1. insn \in BF_INC .. BF_CIN
    BY <1>8, Zenon DEF Stands
  <2> QED
    BY <2>1 DEF OP_HALT, BF_INC, BF_CIN
<1>9. insn # OP_HALT \/ insn \notin BF_INC .. BF_LEND \union {BF_COUT, BF_CIN}
  BY DEF OP_HALT, BF_INC, BF_LEND, BF_COUT, BF_CIN
<1> QED
  BY <1>1, <1>2, <1>6, <1>8, <1>9, Latched

(* Seen by the language, or not at all. *)
Computed == Quiet \/ Language!Next

LEMMA SameProgram ==
  ASSUME UNCHANGED job
  PROVE  /\ Source' = Source /\ Nesting' = Nesting
         /\ \A k : Level(k)' = Level(k)
BY DEF Source, Level, Nesting, OpenLoops

(* In a decode the command to take effect is that under IP. *)
LEMMA DecodePc ==
  ASSUME Stepping, call = "decode", scan = "none", ~overflow,
         ip \in 0 .. Len(Source)
  PROVE  Pc = ip
BY Sizes DEF Pc, NextPlace

LEMMA HaltGoes ==
  ASSUME Stepping, DecodeHalt, UNCHANGED <<job, input>>, ip = Len(Source),
         call = "decode", scan = "none", ~overflow, ipCounted
  PROVE  Running' /\ Quiet /\ UNCHANGED <<codeRam, bootRom>>
<1> DEFINE n == Len(Source)
<1>0. n \in Nat /\ IpSize \in Nat \ {0} /\ n + 1 < IpSize
  BY Sizes
<1>1. /\ ip' = WrapInc(ip, IpSize) /\ ~ipCounted' /\ halted'
      /\ call' = "none" /\ phase' = "FETCH"
      /\ UNCHANGED <<codeRam, bootRom, scan, overflow, loading, mode, insn, cfg,
                     tx, apVars>>
  BY DEF DecodeHalt, EnterHalt, Ip!EnterHalt, Ip!HaltPlace, Ip!memVars,
         Ip!loopVars, Retire, Ip!WrapInc, WrapInc
<1>2. ip' = n + 1
  <2>1. n \in 0 .. IpSize - 1 /\ n # IpSize - 1
    BY <1>0
  <2> QED
    BY <1>0, <1>1, <2>1, WrapIncCases
<1>3. Source' = Source
  BY SameProgram
<1>4. Pc = n /\ Pc' = n
  <2>1. Pc = n
    BY <1>0, DecodePc
  <2>2. NextPlace' = n + 1
    BY <1>1, <1>2 DEF NextPlace
  <2> QED
    BY <1>0, <1>3, <2>1, <2>2 DEF Pc
<1>5. Running'
  BY <1>1, <1>2, <1>3 DEF Running, Stepping
<1> QED
  BY <1>1, <1>4, <1>5 DEF Quiet, Tape, apVars, Ap!CellValue

(* The current cell, before and after an operation on it. *)
LEMMA Cells ==
  ASSUME Stepping
  PROVE  /\ Tape \in [0 .. ApTop -> 0 .. DataTop]
         /\ Tape[ap] = Ap!CellValue
         /\ Ap!Operand = Ap!CellValue
         /\ \A v : [Tape EXCEPT ![ap] = v] = [dataMem EXCEPT ![ap] = v]
<1>1. memHere => memReg = dataMem[ap]
  BY DEF Stepping, ControlInv, TypeInv, LineInv, Ap!RegCoherent
<1>2. Ap!Operand = Ap!CellValue
  BY <1>1 DEF Ap!Operand, Ap!FetchedReg, Ap!CellValue
<1> QED
  BY <1>2, Sizes DEF Tape

LEMMA DataGoes ==
  ASSUME Stepping, NEW dec \in BOOLEAN, Ap!DataStep(dec)
  PROVE  Tape' = [Tape EXCEPT ![ap] =
                    IF dec THEN IF Tape[ap] = 0 THEN DataTop ELSE Tape[ap] - 1
                    ELSE IF Tape[ap] = DataTop THEN 0 ELSE Tape[ap] + 1]
         /\ ap' = ap
<1>1. /\ data' = Ap!WrapStep(Ap!CellValue, dec, DataTop + 1) /\ lock'
      /\ dataMem' = dataMem /\ ap' = ap
  BY Cells DEF Ap!DataStep
<1>2. PICK v \in 0 .. DataTop : v = Ap!CellValue
  BY Sizes
<1>3. PICK m \in Nat \ {0} : m = DataTop + 1 /\ v \in 0 .. m - 1
  BY Sizes
<1>4. data' = IF dec THEN IF v = 0 THEN DataTop ELSE v - 1
              ELSE IF v = DataTop THEN 0 ELSE v + 1
  <2>1. m - 1 = DataTop
    BY <1>3, Sizes
  <2> QED
    BY <1>1, <1>2, <1>3, <2>1, WrapIncCases, WrapDecCases
    DEF Ap!WrapStep, WrapInc, WrapDec, Ap!WrapInc, Ap!WrapDec
<1>5. Tape' = [dataMem EXCEPT ![ap] = data']
  BY <1>1 DEF Tape, Ap!CellValue
<1> QED
  BY <1>1, <1>2, <1>4, <1>5, Cells

LEMMA MoveGoes ==
  ASSUME Stepping, NEW dec \in BOOLEAN, Ap!ApStep(dec)
  PROVE  /\ Tape' = Tape
         /\ ap' = IF dec THEN IF ap = 0 THEN ApTop ELSE ap - 1
                  ELSE IF ap = ApTop THEN 0 ELSE ap + 1
<1>1. /\ ap' = Ap!WrapStep(ap, dec, ApTop + 1) /\ ~lock'
      /\ dataMem' = IF lock THEN [dataMem EXCEPT ![ap] = data] ELSE dataMem
  BY DEF Ap!ApStep, Ap!ApMove, Ap!Flush
<1>2. PICK m \in Nat \ {0} : m = ApTop + 1 /\ ap \in 0 .. m - 1
  BY Sizes
<1>3. ap' = IF dec THEN IF ap = 0 THEN ApTop ELSE ap - 1
            ELSE IF ap = ApTop THEN 0 ELSE ap + 1
  <2>1. m - 1 = ApTop
    BY <1>2, Sizes
  <2> QED
    BY <1>1, <1>2, <2>1, WrapIncCases, WrapDecCases
    DEF Ap!WrapStep, WrapInc, WrapDec, Ap!WrapInc, Ap!WrapDec
<1>4. dataMem' = Tape
  BY <1>1, Sizes DEF Tape, Ap!CellValue
<1>5. Tape' = dataMem'
  BY <1>1, <1>4, Cells DEF Tape, Ap!CellValue
<1> QED
  BY <1>3, <1>4, <1>5

(* What a stored opcode says of the command it stands for. *)
LEMMA StandsFor ==
  ASSUME NEW op, NEW c, Stands(op, c)
  PROVE  /\ op \in BF_INC .. BF_CIN
         /\ (op = BF_INC <=> c = "+") /\ (op = BF_DEC <=> c = "-")
         /\ (op = BF_AINC <=> c = ">") /\ (op = BF_ADEC <=> c = "<")
         /\ (op = BF_LBEG <=> c = "[") /\ (op = BF_LEND <=> c = "]")
         /\ (op = BF_COUT <=> c = ".") /\ (op = BF_CIN <=> c = ",")
BY Zenon DEF Stands

(* A bracket only makes its flag valid, every other operation is that of   *)
(* its opcode.                                                             *)
LEMMA DecodeApIs ==
  ASSUME DecodeAp, mode = ISA_BF
  PROVE  /\ insn = BF_INC => Ap!DataStep(FALSE)
         /\ insn = BF_DEC => Ap!DataStep(TRUE)
         /\ insn = BF_AINC => Ap!ApStep(FALSE)
         /\ insn = BF_ADEC => Ap!ApStep(TRUE)
         /\ insn \in {BF_LBEG, BF_LEND} => Ap!BracketTest
<1>1. /\ ~(BF_INC % 2 = 1) /\ BF_DEC % 2 = 1
      /\ ~(BF_AINC % 2 = 1) /\ BF_ADEC % 2 = 1
  BY DEF BF_INC, BF_DEC, BF_AINC, BF_ADEC
<1>2. ASSUME insn = BF_INC PROVE Ap!DataStep(FALSE)
  <2>1. Operation(mode, insn) = "INC"
    BY <1>2, Operations
  <2>2. Ap!DataStep(insn % 2 = 1)
    BY <2>1 DEF DecodeAp, Decodes
  <2>3. (insn % 2 = 1) = FALSE
    BY <1>1, <1>2
  <2> QED
    BY <2>2, <2>3
<1>3. ASSUME insn = BF_DEC PROVE Ap!DataStep(TRUE)
  <2>1. Operation(mode, insn) = "DEC"
    BY <1>3, Operations
  <2>2. Ap!DataStep(insn % 2 = 1)
    BY <2>1 DEF DecodeAp, Decodes
  <2>3. (insn % 2 = 1) = TRUE
    BY <1>1, <1>3
  <2> QED
    BY <2>2, <2>3
<1>4. ASSUME insn = BF_AINC PROVE Ap!ApStep(FALSE)
  <2>1. Operation(mode, insn) = "AINC"
    BY <1>4, Operations
  <2>2. Ap!ApStep(insn % 2 = 1)
    BY <2>1 DEF DecodeAp, Decodes
  <2>3. (insn % 2 = 1) = FALSE
    BY <1>1, <1>4
  <2> QED
    BY <2>2, <2>3
<1>5. ASSUME insn = BF_ADEC PROVE Ap!ApStep(TRUE)
  <2>1. Operation(mode, insn) = "ADEC"
    BY <1>5, Operations
  <2>2. Ap!ApStep(insn % 2 = 1)
    BY <2>1 DEF DecodeAp, Decodes
  <2>3. (insn % 2 = 1) = TRUE
    BY <1>1, <1>5
  <2> QED
    BY <2>2, <2>3
<1>6. ASSUME insn \in {BF_LBEG, BF_LEND} PROVE Ap!BracketTest
  <2>1. Operation(mode, insn) = "TEST"
    BY <1>6, Operations
  <2> QED
    BY <2>1 DEF DecodeAp, Decodes
<1> QED
  BY <1>2, <1>3, <1>4, <1>5, <1>6

(* The data side decodes a command, or tests a bracket. *)
LEMMA DataSideGoes ==
  ASSUME Stepping, DecodeAp, UNCHANGED <<job, input>>,
         call = "decode", scan = "none", ~overflow, ~halted, ipCounted,
         phase = "FETCH", NEW p \in 1 .. Len(Source), p = ip + 1,
         Stands(insn, Source[p]), insn \in BF_INC .. BF_LEND
  PROVE  Running' /\ Computed /\ UNCHANGED <<codeRam, bootRom>>
<1> DEFINE n == Len(Source)
<1>0. n \in Nat /\ ip \in 0 .. n /\ ip < n /\ ip + 1 = p
  BY Sizes
<1>1. /\ call' = "none"
      /\ UNCHANGED <<codeRam, bootRom, ip, insn, ipCounted, scan, overflow,
                     loading, mode, halted, phase, cfg, tx>>
  BY DEF DecodeAp, Retire, ipVars
<1>2. Source' = Source /\ Nesting' = Nesting
  BY SameProgram
<1>3. Running'
  BY <1>0, <1>1, <1>2 DEF Running, Stepping
<1>4. Pc = ip /\ Pc \in Int /\ p = Pc + 1
  BY <1>0, DecodePc
<1>5. insn \notin {BF_LBEG, BF_LEND} => Pc' = p
  BY <1>0, <1>1, <1>2 DEF Pc, NextPlace, IsBracket
<1>6. mode = ISA_BF
  BY DEF Stepping, Running
<1>7. CASE insn \in {BF_LBEG, BF_LEND}
  <2>1. Ap!BracketTest
    BY <1>6, <1>7, DecodeApIs
  <2>2. Tape' = Tape /\ ap' = ap
    BY <2>1 DEF Ap!BracketTest, Tape, Ap!CellValue
  <2>3. Pc' = Pc
    BY <1>0, <1>1, <1>2, <1>4, <1>7 DEF Pc, NextPlace, IsBracket
  <2> QED
    BY <1>1, <1>3, <2>2, <2>3 DEF Computed, Quiet
<1>8. CASE insn = BF_INC
  <2>1. Source[p] = "+" /\ Ap!DataStep(FALSE) /\ insn \notin {BF_LBEG, BF_LEND}
    BY <1>6, <1>8, DecodeApIs, StandsFor DEF BF_INC, BF_LBEG, BF_LEND
  <2>2. Tape' = [Tape EXCEPT ![ap] = IF Tape[ap] = DataTop THEN 0
                                                             ELSE Tape[ap] + 1]
          /\ ap' = ap
    BY <2>1, DataGoes
  <2>3. Language!Next
    BY <1>0, <1>1, <1>4, <1>5, <2>1, <2>2, CommandSteps
  <2> QED
    BY <1>1, <1>3, <2>3 DEF Computed
<1>9. CASE insn = BF_DEC
  <2>1. Source[p] = "-" /\ Ap!DataStep(TRUE) /\ insn \notin {BF_LBEG, BF_LEND}
    BY <1>6, <1>9, DecodeApIs, StandsFor DEF BF_DEC, BF_LBEG, BF_LEND
  <2>2. Tape' = [Tape EXCEPT ![ap] = IF Tape[ap] = 0 THEN DataTop
                                                       ELSE Tape[ap] - 1]
          /\ ap' = ap
    BY <2>1, DataGoes
  <2>3. Language!Next
    BY <1>0, <1>1, <1>4, <1>5, <2>1, <2>2, CommandSteps
  <2> QED
    BY <1>1, <1>3, <2>3 DEF Computed
<1>10. CASE insn = BF_AINC
  <2>1. Source[p] = ">" /\ Ap!ApStep(FALSE) /\ insn \notin {BF_LBEG, BF_LEND}
    BY <1>6, <1>10, DecodeApIs, StandsFor DEF BF_AINC, BF_LBEG, BF_LEND
  <2>2. Tape' = Tape /\ ap' = IF ap = ApTop THEN 0 ELSE ap + 1
    BY <2>1, MoveGoes
  <2>3. Language!Next
    BY <1>0, <1>1, <1>4, <1>5, <2>1, <2>2, CommandSteps
  <2> QED
    BY <1>1, <1>3, <2>3 DEF Computed
<1>11. CASE insn = BF_ADEC
  <2>1. Source[p] = "<" /\ Ap!ApStep(TRUE) /\ insn \notin {BF_LBEG, BF_LEND}
    BY <1>6, <1>11, DecodeApIs, StandsFor DEF BF_ADEC, BF_LBEG, BF_LEND
  <2>2. Tape' = Tape /\ ap' = IF ap = 0 THEN ApTop ELSE ap - 1
    BY <2>1, MoveGoes
  <2>3. Language!Next
    BY <1>0, <1>1, <1>4, <1>5, <2>1, <2>2, CommandSteps
  <2> QED
    BY <1>1, <1>3, <2>3 DEF Computed
<1> QED
  BY <1>7, <1>8, <1>9, <1>10, <1>11
  DEF BF_INC, BF_DEC, BF_AINC, BF_ADEC, BF_LBEG, BF_LEND

(* The terminal keeps of the output what the language keeps. *)
LEMMA SentIsShown ==
  ASSUME Stepping, NEW c \in 0 .. DataTop, Sent(c)
  PROVE  tx' = Language!Show(c)
<1>1. tx \in Seq(0 .. DataTop) /\ MaxTx \in Nat
  BY Sizes, DekatronPCAssumption
<1>2. Len(Append(tx, c)) = Len(tx) + 1 /\ Len(tx) \in Nat
  BY <1>1
<1> QED
  BY <1>1, <1>2 DEF Sent, Language!Show

LEMMA CoutGoes ==
  ASSUME Stepping, DecodeCout, UNCHANGED <<job, input>>,
         call = "decode", scan = "none", ~overflow, ~halted, ipCounted,
         phase = "FETCH", NEW p \in 1 .. Len(Source), p = ip + 1,
         Stands(insn, Source[p]), insn = BF_COUT
  PROVE  Running' /\ Computed /\ UNCHANGED <<codeRam, bootRom>>
<1> DEFINE n == Len(Source)
<1>0. n \in Nat /\ ip \in 0 .. n /\ ip < n /\ ip + 1 = p
  BY Sizes
<1>1. /\ call' = "none" /\ Ap!Cout /\ Sent(data')
      /\ UNCHANGED <<codeRam, bootRom, ip, insn, ipCounted, scan, overflow,
                     loading, mode, halted, phase, cfg>>
  BY DEF DecodeCout, Retire, ipVars
<1>2. Source' = Source /\ Nesting' = Nesting
  BY SameProgram
<1>3. Running'
  BY <1>0, <1>1, <1>2 DEF Running, Stepping
<1>4. Pc = ip /\ Pc \in Int /\ p = Pc + 1
  BY <1>0, DecodePc
<1>5. Pc' = p
  BY <1>0, <1>1, <1>2 DEF Pc, NextPlace, IsBracket, BF_COUT, BF_LBEG, BF_LEND
<1>6. /\ data' = Tape[ap] /\ Tape[ap] \in 0 .. DataTop
      /\ ap' = ap /\ dataMem' = dataMem /\ lock' = lock
  BY <1>1, Cells, Sizes DEF Ap!Cout
<1>7. Tape' = Tape
  BY <1>6, Cells DEF Tape, Ap!CellValue
<1>8. tx' = Language!Show(Tape[ap])
  BY <1>1, <1>6, SentIsShown
<1>9. Source[p] = "."
  BY StandsFor
<1>10. Language!Next
  BY <1>0, <1>1, <1>4, <1>5, <1>6, <1>7, <1>8, <1>9, CommandSteps
<1> QED
  BY <1>1, <1>3, <1>10 DEF Computed

(* CIN goes on to its character. *)
LEMMA CinGoes ==
  ASSUME Stepping, DecodeCin, UNCHANGED <<job, input>>,
         call = "decode", scan = "none", ~overflow, ~halted, ipCounted,
         phase = "FETCH", NEW p \in 1 .. Len(Source), p = ip + 1,
         insn = BF_CIN
  PROVE  Running' /\ Computed /\ UNCHANGED <<codeRam, bootRom>>
<1> DEFINE n == Len(Source)
<1>0. n \in Nat /\ ip \in 0 .. n /\ ip < n /\ ip + 1 = p
  BY Sizes
<1>1. /\ call' = "cin" /\ phase' = "CIN"
      /\ UNCHANGED <<codeRam, bootRom, ip, insn, ipCounted, scan, overflow,
                     loading, mode, halted, cfg, tx, apVars>>
  BY DEF DecodeCin, ipVars
<1>2. Source' = Source /\ Nesting' = Nesting
  BY SameProgram
<1>3. Running'
  BY <1>0, <1>1, <1>2 DEF Running, Stepping
<1>4. Pc' = Pc
  BY <1>0, <1>1, <1>2, DecodePc DEF Pc, NextPlace
<1> QED
  BY <1>1, <1>3, <1>4 DEF Computed, Quiet, apVars, Tape, Ap!CellValue

LEMMA DecodeGoes ==
  ASSUME Stepping, Decode, UNCHANGED <<job, input>>
  PROVE  Running' /\ Computed /\ UNCHANGED <<codeRam, bootRom>>
<1>1. /\ call = "decode" /\ scan = "none" /\ ~overflow /\ ~halted
      /\ ipCounted /\ phase = "FETCH" /\ ~loading
  BY Decoded
<1>2. CASE insn = OP_HALT /\ ip = Len(Source) /\ DecodeHalt
  BY <1>1, <1>2, HaltGoes DEF Computed
<1>3. ASSUME NEW p \in 1 .. Len(Source), p = ip + 1, Stands(insn, Source[p]),
             \/ DecodeAp /\ insn \in BF_INC .. BF_LEND
             \/ DecodeCout /\ insn = BF_COUT
             \/ DecodeCin /\ insn = BF_CIN
      PROVE  Running' /\ Computed /\ UNCHANGED <<codeRam, bootRom>>
  BY <1>1, <1>3, DataSideGoes, CoutGoes, CinGoes
<1> QED
  BY <1>2, <1>3, Decoded

(* The character is that of the language: zero when there is no more. *)
LEMMA ReadGoes ==
  ASSUME Stepping, ReadCin, ~Stopped, input \in Seq(0 .. DataTop), UNCHANGED job
  PROVE  /\ Running' /\ Computed /\ UNCHANGED <<codeRam, bootRom>>
         /\ input' \in Seq(0 .. DataTop)
<1> DEFINE n == Len(Source)
           c == Language!Character
<1>1. /\ call = "cin" /\ phase = "CIN" /\ ~halted /\ scan = "none" /\ ipCounted
      /\ ~overflow
  BY DEF ReadCin, FinishCin, AtCin, Stopped, Stepping, Running, ControlInv,
         CallInv, WaitIsConsistent
<1>2. n \in Nat /\ ip \in 0 .. n /\ ip < n
  BY <1>1, Sizes DEF Stepping, Running
<1>3. c \in 0 .. DataTop /\ c = IF input = <<>> THEN 0 ELSE Head(input)
  BY Sizes DEF Language!Character
<1>4. c % (DataTop + 1) = c
  <2> HIDE DEF c
  <2>1. DataTop \in Nat
    BY Sizes
  <2> QED
    BY <1>3, <2>1
<1>5. /\ call' = "none" /\ phase' = "FETCH" /\ Ap!Cin(c)
      /\ IF cfg.echoMode THEN Sent(data') ELSE UNCHANGED tx
      /\ UNCHANGED <<codeRam, bootRom, ip, insn, ipCounted, scan, overflow,
                     loading, mode, halted, cfg>>
      /\ input' = IF input = <<>> THEN <<>> ELSE Tail(input)
  BY <1>3, <1>4 DEF ReadCin, FinishCin, ipVars
<1>6. PICK p \in 1 .. n : p = ip + 1
  BY <1>2
<1>7. Stands(insn, Source[p])
  BY <1>1, <1>2, <1>6, Latched
<1> HIDE DEF c
<1>8. Source' = Source /\ Nesting' = Nesting
  BY SameProgram
<1>9. Running'
  BY <1>1, <1>2, <1>5, <1>8 DEF Running, Stepping
<1>10. Pc = ip /\ Pc \in Int /\ p = Pc + 1
  BY <1>1, <1>2, <1>6 DEF Pc, NextPlace
<1>11. /\ data' = c /\ lock' /\ dataMem' = dataMem /\ ap' = ap
  BY <1>5 DEF Ap!Cin, Ap!Take
<1>12. Tape' = [Tape EXCEPT ![ap] = c]
  BY <1>11, Cells DEF Tape, Ap!CellValue
<1>13. tx' = IF cfg.echoMode THEN Language!Show(c) ELSE tx
  BY <1>3, <1>5, <1>11, SentIsShown
<1>14. insn = BF_CIN /\ Source[p] = ","
  BY <1>1, <1>7, StandsFor DEF Stepping, Running
<1>15. Pc' = p
  <2>1. ~IsBracket'
    <3>1. insn' = BF_CIN
      BY <1>5, <1>14
    <3> QED
      BY <3>1 DEF IsBracket, BF_CIN, BF_LBEG, BF_LEND
  <2>2. NextPlace' = p
    BY <1>1, <1>5, <1>6, <2>1 DEF NextPlace
  <2> QED
    BY <1>2, <1>8, <2>2 DEF Pc
<1>16. Language!Next
  BY <1>2, <1>5, <1>10, <1>11, <1>12, <1>13, <1>14, <1>15, CommandSteps DEF c
<1>17. input' \in Seq(0 .. DataTop)
  <2>1. input # <<>> => Tail(input) \in Seq(0 .. DataTop)
    OBVIOUS
  <2> QED
    BY <1>5, <2>1
<1> QED
  BY <1>5, <1>9, <1>16, <1>17 DEF Computed

(* The flag that a bracket decides by is that of the current cell. *)
LEMMA FlagIsCell ==
  ASSUME Stepping, AtFetch, ipCounted, IsBracket
  PROVE  LoopValZero <=> Tape[ap] = 0
<1>1. lock \/ memHere
  BY DEF Stepping, Running, TestedInv, Undecided, AtFetch, Between, IsBracket
<1>2. Ap!DataZero <=> Ap!CellValue = 0
  BY <1>1 DEF Stepping, ControlInv, TypeInv, LineInv, Ap!RegCoherent,
              Ap!DataZero, Ap!CellValue
<1> QED
  BY <1>2, Cells DEF LoopValZero, Stepping, Running

LEMMA FetchPlace ==
  ASSUME Stepping, AtFetch
  PROVE  /\ call = "none" /\ scan = "none" /\ ~halted /\ phase = "FETCH"
         /\ ~overflow /\ ip \in 0 .. Len(Source) /\ Len(Source) \in Nat
         /\ ipCounted => ip < Len(Source)
         /\ Pc = (IF ~ipCounted \/ IsBracket THEN ip ELSE ip + 1)
<1>1. /\ call = "none" /\ scan = "none" /\ ~halted /\ phase = "FETCH"
      /\ ~overflow /\ ip \in 0 .. Len(Source) /\ Len(Source) \in Nat
      /\ ipCounted => ip < Len(Source)
  BY Sizes DEF AtFetch, Between, Stepping, Running
<1> QED
  BY <1>1, Sizes DEF Pc, NextPlace

(* The command of a bracket under IP. *)
LEMMA BracketPlace ==
  ASSUME Stepping, AtFetch, ipCounted, IsBracket
  PROVE  \E p \in 1 .. Len(Source) :
           /\ p = ip + 1 /\ p = Pc + 1 /\ Pc \in Int
           /\ insn = BF_LBEG => Source[p] = "["
           /\ insn = BF_LEND => Source[p] = "]"
<1>1. insn # OP_HALT
  BY DEF IsBracket, OP_HALT, BF_LBEG, BF_LEND
<1>2. PICK p \in 1 .. Len(Source) : p = ip + 1 /\ Stands(insn, Source[p])
  BY <1>1, FetchPlace, Latched
<1>3. /\ insn = BF_LBEG => Source[p] = "["
      /\ insn = BF_LEND => Source[p] = "]"
  BY <1>2, StandsFor
<1>4. Pc = ip /\ ip \in Int
  BY FetchPlace
<1> QED
  BY <1>2, <1>3, <1>4

LEMMA FetchGoes ==
  ASSUME Stepping, Fetch, UNCHANGED <<job, input>>
  PROVE  Running' /\ Computed /\ UNCHANGED <<codeRam, bootRom>>
<1> DEFINE n == Len(Source)
<1>1. Ip!FirstFetch \/ Ip!NextFetch(LoopValZero)
  BY DEF Fetch
<1>2. AtFetch /\ n \in Nat /\ ip \in 0 .. n
  BY FetchPlace DEF Fetch
<1>3. /\ call' = "decode" /\ ipCounted'
      /\ UNCHANGED <<codeRam, bootRom, scan, overflow, loading, mode, halted,
                     phase, cfg, tx, apVars>>
  BY DEF Fetch, Ip!FirstFetch, Ip!NextFetch, Ip!AtNext, Ip!memVars,
         Ip!loopVars
<1>4. Source' = Source /\ Nesting' = Nesting
  BY SameProgram
<1>5. Tape' = Tape /\ UNCHANGED <<ap, tx, cfg, input, job>>
  BY <1>3 DEF apVars, Tape, Ap!CellValue
<1>6. NextPlace' = ip'
  BY <1>2, <1>3, FetchPlace DEF NextPlace
<1>7. CASE Ip!FirstFetch
  <2>1. ip' = ip /\ ~ipCounted
    BY <1>7 DEF Ip!FirstFetch
  <2>2. Running'
    BY <1>2, <1>3, <1>4, <2>1, FetchPlace DEF Running, Stepping
  <2>3. Pc' = Pc
    BY <1>2, <1>4, <1>6, <2>1, FetchPlace DEF Pc
  <2> QED
    BY <1>3, <1>5, <2>2, <2>3 DEF Computed, Quiet
<1>8. CASE Ip!NextFetch(LoopValZero)
  <2>1. ipCounted /\ ~Ip!Jumps(LoopValZero) /\ ip' = Ip!WrapInc(ip, IpSize)
    BY <1>8 DEF Ip!NextFetch, Ip!AtNext
  <2>2. ip < n /\ ip # IpSize - 1
    BY <1>2, <2>1, FetchPlace, Sizes
  <2>3. ip' = ip + 1
    BY <2>1, <2>2, Sizes, WrapIncCases DEF Ip!WrapInc, WrapInc
  <2>4. Running'
    BY <1>2, <1>3, <1>4, <2>2, <2>3, FetchPlace DEF Running, Stepping
  <2>5. Pc' = ip + 1
    BY <1>2, <1>4, <1>6, <2>2, <2>3 DEF Pc
  <2>6. CASE ~IsBracket
    <3>1. Pc' = Pc
      BY <1>2, <2>1, <2>5, <2>6, FetchPlace
    <3> QED
      BY <1>3, <1>5, <2>4, <3>1 DEF Computed, Quiet
  <2>7. CASE IsBracket
    <3>1. PICK p \in 1 .. n : /\ p = ip + 1 /\ p = Pc + 1 /\ Pc \in Int
                              /\ insn = BF_LBEG => Source[p] = "["
                              /\ insn = BF_LEND => Source[p] = "]"
      BY <1>2, <2>1, <2>7, BracketPlace
    <3>2. Pc' = p
      BY <2>5, <3>1
    <3>3. \/ insn = BF_LBEG /\ Tape[ap] # 0
          \/ insn = BF_LEND /\ Tape[ap] = 0
      <4>1. LoopValZero <=> Tape[ap] = 0
        BY <1>2, <2>1, <2>7, FlagIsCell
      <4>2. insn = BF_LBEG \/ insn = BF_LEND
        BY <2>7 DEF IsBracket
      <4>3. ~(insn = BF_LBEG /\ LoopValZero)
        BY <2>1 DEF Ip!Jumps, Ip!BF_LBEG, BF_LBEG
      <4>4. ~(insn = BF_LEND /\ ~LoopValZero)
        BY <2>1 DEF Ip!Jumps, Ip!BF_LEND, BF_LEND
      <4> QED
        BY <4>1, <4>2, <4>3, <4>4, Zenon
    <3>4. \/ Source[p] = "[" /\ Tape[ap] # 0
          \/ Source[p] = "]" /\ Tape[ap] = 0
      BY <3>1, <3>3
    <3>5. Language!Next
      BY <1>2, <1>5, <3>1, <3>2, <3>4, CommandSteps
    <3> QED
      BY <1>3, <2>4, <3>5 DEF Computed
  <2> QED
    BY <2>6, <2>7
<1> QED
  BY <1>1, <1>7, <1>8

-----------------------------------------------------------------------------
(* What becomes of the place where the scan started. *)
OriginStep ==
  origin' = IF overflow' THEN origin
            ELSE IF scan' = "none" THEN 0
            ELSE IF scan = "none" THEN ip ELSE origin

(* A bracket that jumps starts the scan at its own place, one level deep.  *)
LEMMA StartGoes ==
  ASSUME Stepping, StartScan, OriginStep, UNCHANGED <<job, input>>
  PROVE  Running' /\ Computed /\ UNCHANGED <<codeRam, bootRom>>
<1> DEFINE n == Len(Source)
<1>1. AtFetch /\ Ip!ScanStart(LoopValZero)
  BY DEF StartScan
<1>2. /\ loop' = loop + 1 /\ ipCounted
      /\ scan' = IF insn = BF_LEND THEN "backward" ELSE "forward"
      /\ UNCHANGED <<codeRam, bootRom, ip, insn, ipCounted, overflow, loading,
                     mode, halted, phase, call, cfg, tx, apVars>>
  BY <1>1 DEF StartScan, Ip!ScanStart, Ip!AtNext, Ip!memVars, ctrlVars,
              Ip!BF_LEND, BF_LEND
<1>3. IsBracket
  BY <1>1 DEF Ip!ScanStart, Ip!Jumps, IsBracket, Ip!BF_LBEG, Ip!BF_LEND,
              BF_LBEG, BF_LEND
<1>4. \/ insn = BF_LBEG /\ Ap!CellValue = 0
      \/ insn = BF_LEND /\ Ap!CellValue # 0
  <2>1. LoopValZero <=> Tape[ap] = 0
    BY <1>1, <1>2, <1>3, FlagIsCell
  <2>2. (insn = BF_LBEG /\ LoopValZero) \/ (insn = BF_LEND /\ ~LoopValZero)
    BY <1>1 DEF Ip!ScanStart, Ip!Jumps, Ip!BF_LBEG, Ip!BF_LEND, BF_LBEG,
                BF_LEND
  <2>3. Tape[ap] = Ap!CellValue
    BY Cells
  <2> QED
    BY <2>1, <2>2, <2>3, Zenon
<1>5. /\ n \in Nat /\ ip \in 0 .. n /\ ip < n /\ Pc = ip /\ call = "none"
      /\ phase = "FETCH" /\ ~halted /\ scan = "none" /\ ~overflow
  BY <1>1, <1>2, <1>3, FetchPlace
<1>6. loop' = 1
  BY <1>2, <1>5 DEF Stepping, ControlInv, TypeInv, LineInv,
                    Ip!LoopCounterClean
<1>7. PICK p \in 1 .. n : /\ p = ip + 1
                          /\ insn = BF_LBEG => Source[p] = "["
                          /\ insn = BF_LEND => Source[p] = "]"
  BY <1>1, <1>2, <1>3, BracketPlace
<1>8. PICK o \in 0 .. n : o = ip /\ p = o + 1
  BY <1>5, <1>7
<1>9. /\ Level(o) \in Int /\ Level(p) \in Int
      /\ Source[p] = "[" => Level(p) = Level(o) + 1
      /\ Source[p] = "]" => Level(p) = Level(o) - 1
  BY <1>5, <1>8, LevelStep
<1>10. /\ Source' = Source /\ Nesting' = Nesting
       /\ Level(o)' = Level(o) /\ Level(p)' = Level(p)
  BY SameProgram
<1>11. ~overflow' /\ scan' # "none" /\ origin' = o
  BY <1>2, <1>5, <1>8 DEF OriginStep
<1>12. Ap!CellValue' = Ap!CellValue /\ Tape' = Tape
  BY <1>2 DEF Tape, Ap!CellValue, apVars
<1>13. ASSUME insn = BF_LBEG
       PROVE  Skips' /\ Ap!CellValue' = 0 /\ scan' = "forward"
  <2>1. Source[p] = "[" /\ Level(p) = Level(o) + 1
    BY <1>7, <1>9, <1>13
  <2>2. loop' = Level(p) - Level(o) /\ Level(p) > Level(o)
    BY <1>6, <1>9, <2>1
  <2>3. p <= p /\ ip' = o
    BY <1>2, <1>8
  <2>4. \A k \in p .. p : k = p
    OBVIOUS
  <2>5. Skips'
    BY <1>8, <1>10, <1>11, <2>1, <2>2, <2>3, <2>4 DEF Skips
  <2>6. scan' = "forward"
    BY <1>2, <1>13 DEF BF_LBEG, BF_LEND
  <2>7. Ap!CellValue' = 0
    BY <1>4, <1>12, <1>13 DEF BF_LBEG, BF_LEND
  <2> QED
    BY <2>5, <2>6, <2>7
<1>14. ASSUME insn = BF_LEND
       PROVE  Repeats' /\ Ap!CellValue' # 0 /\ scan' = "backward"
  <2>1. Source[p] = "]" /\ Level(p) = Level(o) - 1
    BY <1>7, <1>9, <1>14
  <2>2. loop' = Level(o) - Level(p) /\ Level(o) > Level(p)
    BY <1>6, <1>9, <2>1
  <2>3. o <= o /\ ip' = o
    BY <1>2, <1>8
  <2>4. \A k \in o .. o : k = o
    OBVIOUS
  <2>5. Repeats'
    BY <1>8, <1>10, <1>11, <2>1, <2>2, <2>3, <2>4 DEF Repeats
  <2>6. scan' = "backward"
    BY <1>2, <1>14
  <2>7. Ap!CellValue' # 0
    BY <1>4, <1>12, <1>14 DEF BF_LBEG, BF_LEND
  <2> QED
    BY <2>5, <2>6, <2>7
<1>15. Running'
  <2>1. /\ scan' = "forward" => Skips' /\ Ap!CellValue' = 0
        /\ scan' = "backward" => Repeats' /\ Ap!CellValue' # 0
    BY <1>4, <1>13, <1>14
  <2> QED
    BY <1>2, <1>5, <1>10, <2>1 DEF Running, Stepping
<1>16. Pc' = Pc
  <2>1. NextPlace' = ip
    BY <1>8, <1>11 DEF NextPlace
  <2> QED
    BY <1>5, <1>10, <2>1 DEF Pc
<1> QED
  BY <1>2, <1>12, <1>15, <1>16 DEF Computed, Quiet, apVars

(* One place further forward a scan is still before its match. *)
LEMMA ForwardPlace ==
  ASSUME Stepping, scan = "forward"
  PROVE  \E o \in 0 .. Len(Source), p, q, r \in 1 .. Len(Source) :
           /\ o = origin /\ p = o + 1 /\ q = ip + 1 /\ p <= q /\ r = q + 1
           /\ Source[p] = "["
           /\ loop = Level(q) - Level(o)
           /\ \A k \in p .. q : Level(k) > Level(o)
           /\ Level(o) \in Nat /\ Level(q) \in Int /\ Level(r) \in Int
           /\ Ip!ScanPlace = q
           /\ Ip!ScanInsn = BF_LBEG => Level(r) = Level(q) + 1
           /\ Ip!ScanInsn = BF_LEND =>
                Source[r] = "]" /\ Level(r) = Level(q) - 1
           /\ Ip!ScanInsn \notin {BF_LBEG, BF_LEND} => Level(r) = Level(q)
<1> DEFINE n == Len(Source)
<1>1. RunsPlain(job) /\ Skips
  BY DEF Stepping, Running
<1>2. PICK o \in 0 .. n, p \in 1 .. n, q \in 1 .. n :
        /\ o = origin /\ p = o + 1 /\ q = ip + 1 /\ p <= q
        /\ Source[p] = "["
        /\ loop = Level(q) - Level(o)
        /\ \A k \in p .. q : Level(k) > Level(o)
  BY <1>1 DEF Skips
<1>3. n \in Nat /\ n + 1 < IpSize /\ IpSize \in Nat \ {0}
        /\ ip \in 0 .. IpSize - 1
  BY Sizes
<1>4. PICK j \in 1 .. n : Pairs(Source, p, j)
  BY <1>1, <1>2, HasPair
<1>5. p < j /\ Level(j) = Level(o)
  BY <1>2, <1>3, <1>4, PairLevels
<1>6. Level(o) \in Int
  BY <1>2, <1>3, LevelStep
<1>7. q < j
  BY <1>2, <1>3, <1>5, <1>6
<1>8. PICK r \in 1 .. n : r = q + 1
  BY <1>3, <1>7
<1>9. Ip!ScanPlace = q
  <2>1. ip # IpSize - 1 /\ q = ip + 1
    BY <1>2, <1>3
  <2>2. Ip!ScanPlace = WrapInc(ip, IpSize)
    BY DEF Ip!ScanPlace, Ip!WrapStep, Ip!WrapInc, WrapInc
  <2> QED
    BY <1>3, <2>1, <2>2, WrapIncCases
<1>10. Stands(Ip!ScanInsn, Source[r])
  BY <1>3, <1>8, <1>9 DEF Ip!ScanInsn, Stepping, Holds
<1>11. /\ Level(q) \in Int /\ Level(r) \in Int
       /\ Source[r] = "[" => Level(r) = Level(q) + 1
       /\ Source[r] = "]" => Level(r) = Level(q) - 1
       /\ Source[r] \notin {"[", "]"} => Level(r) = Level(q)
  BY <1>3, <1>8, LevelStep
<1>12. /\ Ip!ScanInsn = BF_LBEG <=> Source[r] = "["
       /\ Ip!ScanInsn = BF_LEND <=> Source[r] = "]"
  BY <1>10, StandsFor
<1>13. /\ Ip!ScanInsn = BF_LBEG => Level(r) = Level(q) + 1
       /\ Ip!ScanInsn = BF_LEND =>
                Source[r] = "]" /\ Level(r) = Level(q) - 1
       /\ Ip!ScanInsn \notin {BF_LBEG, BF_LEND} => Level(r) = Level(q)
  BY <1>11, <1>12, Zenon
<1>14. Level(o) \in Nat
  BY <1>1, LevelIsNat
<1> QED
  BY <1>2, <1>8, <1>9, <1>11, <1>13, <1>14

(* One place further back a scan is still in the program. *)
LEMMA BackwardPlace ==
  ASSUME Stepping, scan = "backward"
  PROVE  \E o, i, a \in 0 .. Len(Source), p, r \in 1 .. Len(Source) :
           /\ o = origin /\ p = o + 1 /\ i = ip /\ i <= o
           /\ i = r /\ r = a + 1
           /\ Source[p] = "]"
           /\ loop = Level(i) - Level(p)
           /\ \A k \in i .. o : Level(k) > Level(p)
           /\ Level(p) \in Nat /\ Level(i) \in Int /\ Level(a) \in Int
           /\ Ip!ScanPlace = a
           /\ Ip!ScanInsn = BF_LEND => Level(a) = Level(i) + 1
           /\ Ip!ScanInsn = BF_LBEG =>
                Source[r] = "[" /\ Level(a) = Level(i) - 1
           /\ Ip!ScanInsn \notin {BF_LBEG, BF_LEND} => Level(a) = Level(i)
<1> DEFINE n == Len(Source)
<1>1. RunsPlain(job) /\ Repeats
  BY DEF Stepping, Running
<1>2. PICK o \in 0 .. n, i \in 0 .. n, p \in 1 .. n :
        /\ o = origin /\ p = o + 1 /\ i = ip /\ i <= o
        /\ Source[p] = "]"
        /\ loop = Level(i) - Level(p)
        /\ \A k \in i .. o : Level(k) > Level(p)
  BY <1>1 DEF Repeats
<1>3. n \in Nat /\ n + 1 < IpSize /\ IpSize \in Nat \ {0}
        /\ ip \in 0 .. IpSize - 1
  BY Sizes
<1>4. Level(p) \in Nat
  BY <1>1, <1>3, LevelIsNat
<1>5. i # 0
  BY <1>2, <1>4, LevelStart
<1>6. PICK a \in 0 .. n, r \in 1 .. n : i = r /\ r = a + 1
  <2>1. i - 1 \in 0 .. n /\ i \in 1 .. n /\ i = (i - 1) + 1
    BY <1>3, <1>5
  <2> QED
    BY <2>1
<1>7. Ip!ScanPlace = a
  <2>1. ip # 0 /\ a = ip - 1
    BY <1>2, <1>3, <1>5, <1>6
  <2>2. Ip!ScanPlace = WrapDec(ip, IpSize)
    BY DEF Ip!ScanPlace, Ip!WrapStep, Ip!WrapDec, WrapDec
  <2> QED
    BY <1>3, <2>1, <2>2, WrapDecCases
<1>8. Stands(Ip!ScanInsn, Source[r])
  BY <1>3, <1>6, <1>7 DEF Ip!ScanInsn, Stepping, Holds
<1>9. /\ Level(a) \in Int /\ Level(r) \in Int /\ Level(r) = Level(i)
      /\ Source[r] = "[" => Level(r) = Level(a) + 1
      /\ Source[r] = "]" => Level(r) = Level(a) - 1
      /\ Source[r] \notin {"[", "]"} => Level(r) = Level(a)
  BY <1>3, <1>6, LevelStep
<1>10. /\ Source[r] = "[" => Level(a) = Level(i) - 1
       /\ Source[r] = "]" => Level(a) = Level(i) + 1
       /\ Source[r] \notin {"[", "]"} => Level(a) = Level(i)
  BY <1>9
<1>11. /\ Ip!ScanInsn = BF_LBEG <=> Source[r] = "["
       /\ Ip!ScanInsn = BF_LEND <=> Source[r] = "]"
  BY <1>8, StandsFor
<1>12. /\ Ip!ScanInsn = BF_LEND => Level(a) = Level(i) + 1
       /\ Ip!ScanInsn = BF_LBEG =>
                Source[r] = "[" /\ Level(a) = Level(i) - 1
       /\ Ip!ScanInsn \notin {BF_LBEG, BF_LEND} => Level(a) = Level(i)
  BY <1>10, <1>11, Zenon
<1> QED
  BY <1>2, <1>4, <1>6, <1>7, <1>9, <1>12

LEMMA ScanState ==
  ASSUME Stepping, scan # "none"
  PROVE  /\ scan \in {"forward", "backward"} /\ ipCounted /\ ~halted
         /\ ~overflow /\ call = "none" /\ phase = "FETCH" /\ loop > 0
         /\ loop \in Nat /\ NextPlace = origin
         /\ scan = "forward" => Ip!Own = BF_LBEG /\ Ip!Other = BF_LEND
         /\ scan = "backward" => Ip!Own = BF_LEND /\ Ip!Other = BF_LBEG
<1>1. /\ scan \in {"forward", "backward"} /\ ipCounted /\ ~overflow /\ loop > 0
      /\ loop \in Nat
  BY DekatronPCAssumption
  DEF Stepping, ControlInv, TypeInv, LineInv, Ip!TypeOK, Ip!LoopCounterClean,
      Ip!LoopTop
<1>2. call = "none" /\ phase = "FETCH" /\ ~halted
  BY DEF Stepping, ControlInv, CallInv, HaltedIsFresh, Between
<1> QED
  BY <1>1, <1>2 DEF NextPlace, Ip!Own, Ip!Other, Ip!BF_LBEG, Ip!BF_LEND,
                    BF_LBEG, BF_LEND

(* The counter follows the depth of the place under IP. *)
LEMMA ScanGoes ==
  ASSUME Stepping, Scan, OriginStep, UNCHANGED <<job, input>>
  PROVE  Running' /\ Computed /\ UNCHANGED <<codeRam, bootRom>>
<1> DEFINE n == Len(Source)
<1>1. /\ scan # "none" /\ scan' = scan /\ ip' = Ip!ScanPlace
      /\ UNCHANGED <<codeRam, bootRom, ipCounted, overflow, loading, mode,
                     halted, phase, call, cfg, tx, apVars>>
  BY DEF Scan, Ip!ScanPass, Ip!ScanOwn, Ip!ScanOther, Ip!ScanMove,
         Ip!memVars, ctrlVars
<1>2. \/ Ip!ScanInsn \notin {Ip!Own, Ip!Other} /\ loop' = loop
      \/ Ip!ScanInsn = Ip!Own /\ loop' = loop + 1
      \/ Ip!ScanInsn = Ip!Other /\ loop # 1 /\ loop' = loop - 1
  BY DEF Scan, Ip!ScanPass, Ip!ScanOwn, Ip!ScanOther
<1>3. /\ scan \in {"forward", "backward"} /\ ipCounted /\ ~halted
      /\ ~overflow /\ call = "none" /\ phase = "FETCH" /\ loop > 0
      /\ loop \in Nat /\ NextPlace = origin /\ n \in Nat
  BY <1>1, ScanState, Sizes
<1>4. Source' = Source /\ Nesting' = Nesting /\ \A k : Level(k)' = Level(k)
  BY SameProgram
<1>5. origin' = origin /\ NextPlace' = origin
  BY <1>1, <1>3 DEF OriginStep, NextPlace
<1>6. Ap!CellValue' = Ap!CellValue /\ Tape' = Tape
  BY <1>1 DEF Tape, Ap!CellValue, apVars
<1>7. ASSUME scan = "forward" PROVE Skips' /\ ip' \in 0 .. n /\ ip' < n
  <2>1. PICK o \in 0 .. n, p \in 1 .. n, q \in 1 .. n, r \in 1 .. n :
           /\ o = origin /\ p = o + 1 /\ q = ip + 1 /\ p <= q /\ r = q + 1
           /\ Source[p] = "["
           /\ loop = Level(q) - Level(o)
           /\ \A k \in p .. q : Level(k) > Level(o)
           /\ Level(o) \in Nat /\ Level(q) \in Int /\ Level(r) \in Int
           /\ Ip!ScanPlace = q
           /\ Ip!ScanInsn = BF_LBEG => Level(r) = Level(q) + 1
           /\ Ip!ScanInsn = BF_LEND => Level(r) = Level(q) - 1
           /\ Ip!ScanInsn \notin {BF_LBEG, BF_LEND} => Level(r) = Level(q)
    BY <1>7, ForwardPlace
  <2>2. Ip!Own = BF_LBEG /\ Ip!Other = BF_LEND
    BY <1>1, <1>7, ScanState
  <2>3. loop' = Level(r) - Level(o) /\ Level(r) > Level(o)
    BY <1>2, <1>3, <2>1, <2>2
  <2>4. \A k \in p .. r : Level(k) > Level(o)
    BY <1>3, <2>1, <2>3
  <2>5. ip' = q /\ p <= r /\ q < n
    BY <1>1, <1>3, <2>1
  <2>6. Skips'
    BY <1>4, <1>5, <2>1, <2>3, <2>4, <2>5 DEF Skips
  <2> QED
    BY <1>3, <2>5, <2>6
<1>8. ASSUME scan = "backward" PROVE Repeats' /\ ip' \in 0 .. n /\ ip' < n
  <2>1. PICK o \in 0 .. n, i \in 0 .. n, a \in 0 .. n, p \in 1 .. n,
             r \in 1 .. n :
           /\ o = origin /\ p = o + 1 /\ i = ip /\ i <= o
           /\ i = r /\ r = a + 1
           /\ Source[p] = "]"
           /\ loop = Level(i) - Level(p)
           /\ \A k \in i .. o : Level(k) > Level(p)
           /\ Level(p) \in Nat /\ Level(i) \in Int /\ Level(a) \in Int
           /\ Ip!ScanPlace = a
           /\ Ip!ScanInsn = BF_LEND => Level(a) = Level(i) + 1
           /\ Ip!ScanInsn = BF_LBEG => Level(a) = Level(i) - 1
           /\ Ip!ScanInsn \notin {BF_LBEG, BF_LEND} => Level(a) = Level(i)
    BY <1>8, BackwardPlace
  <2>2. Ip!Own = BF_LEND /\ Ip!Other = BF_LBEG
    BY <1>1, <1>8, ScanState
  <2>3. loop' = Level(a) - Level(p) /\ Level(a) > Level(p)
    BY <1>2, <1>3, <2>1, <2>2
  <2>4. \A k \in a .. o : Level(k) > Level(p)
    <3>1. \A k \in a .. o : k \in i .. o \/ k = a
      BY <2>1
    <3> QED
      BY <2>1, <2>3, <3>1, Zenon
  <2>5. ip' = a /\ a <= o /\ a < n
    BY <1>1, <1>3, <2>1
  <2>6. Repeats'
    BY <1>4, <1>5, <2>1, <2>3, <2>4, <2>5 DEF Repeats
  <2> QED
    BY <1>3, <2>5, <2>6
<1>9. Running'
  <2>1. /\ scan' = "forward" => Skips' /\ Ap!CellValue' = 0
        /\ scan' = "backward" => Repeats' /\ Ap!CellValue' # 0
        /\ ip' \in 0 .. n /\ ip' < n
    BY <1>1, <1>3, <1>6, <1>7, <1>8 DEF Stepping, Running
  <2> QED
    BY <1>1, <1>3, <1>4, <2>1 DEF Running, Stepping
<1>10. Pc' = Pc
  BY <1>3, <1>4, <1>5 DEF Pc
<1> QED
  BY <1>1, <1>6, <1>9, <1>10 DEF Computed, Quiet, apVars

(* The scan stops on the match of the bracket it started from. *)
LEMMA MatchGoes ==
  ASSUME Stepping, ScanMatch, UNCHANGED <<job, input>>
  PROVE  Running' /\ Computed /\ UNCHANGED <<codeRam, bootRom>>
<1> DEFINE n == Len(Source)
<1>1. /\ scan # "none" /\ scan' = "none" /\ ip' = Ip!ScanPlace /\ loop = 1
      /\ Ip!ScanInsn = Ip!Other /\ call' = "decode"
      /\ UNCHANGED <<codeRam, bootRom, ipCounted, overflow, loading, mode,
                     halted, phase, cfg, tx, apVars>>
  BY DEF ScanMatch, Ip!ScanMatch, Ip!ScanMove, Ip!memVars
<1>2. /\ scan \in {"forward", "backward"} /\ ipCounted /\ ~halted
      /\ ~overflow /\ call = "none" /\ phase = "FETCH"
      /\ NextPlace = origin /\ n \in Nat /\ Source \in Seq(Commands)
      /\ DOMAIN Source = 1 .. n
  BY <1>1, ScanState, Sizes
<1>3. Source' = Source /\ Nesting' = Nesting
  BY SameProgram
<1>4. Ap!CellValue' = Ap!CellValue /\ Tape' = Tape /\ UNCHANGED ap
        /\ Tape[ap] = Ap!CellValue
  BY <1>1, Cells DEF Tape, Ap!CellValue, apVars
<1>5. NextPlace' = ip'
  BY <1>1, <1>2 DEF NextPlace
<1>6. ASSUME scan = "forward"
      PROVE  ip' \in 0 .. n /\ Language!Next
  <2>1. PICK o \in 0 .. n, p \in 1 .. n, q \in 1 .. n, r \in 1 .. n :
           /\ o = origin /\ p = o + 1 /\ q = ip + 1 /\ p <= q /\ r = q + 1
           /\ Source[p] = "["
           /\ loop = Level(q) - Level(o)
           /\ \A k \in p .. q : Level(k) > Level(o)
           /\ Level(o) \in Nat /\ Level(q) \in Int /\ Level(r) \in Int
           /\ Ip!ScanPlace = q
           /\ Ip!ScanInsn = BF_LEND =>
                Source[r] = "]" /\ Level(r) = Level(q) - 1
    BY <1>6, ForwardPlace
  <2>2. Ip!ScanInsn = BF_LEND
    BY <1>1, <1>6, ScanState
  <2>3. Source[r] = "]" /\ Level(r) = Level(o)
    BY <1>1, <2>1, <2>2
  <2>4. r - 1 = q /\ p < r /\ o = p - 1 /\ p \in Nat \ {0} /\ r \in Nat
    BY <1>2, <2>1
  <2>5. Pairs(Source, p, r)
    BY <2>1, <2>3, <2>4, PairLevels
  <2>6. Language!Match(p) = r
    BY <1>2, <2>5, MatchIs
  <2>7. Pc = o /\ Pc \in Int /\ p = Pc + 1
    <3>1. NextPlace = o /\ o \in Int /\ ~(o > n) /\ p = o + 1
      BY <1>2, <2>1
    <3> QED
      BY <3>1 DEF Pc
  <2>8. Pc' = Language!Match(p) - 1
    BY <1>1, <1>2, <1>3, <1>5, <2>1, <2>4, <2>6 DEF Pc
  <2>9. Tape[ap] = 0
    BY <1>4, <1>6 DEF Stepping, Running
  <2>10. Language!Next
    BY <1>1, <1>2, <1>4, <2>1, <2>7, <2>8, <2>9, CommandSteps
  <2>11. ip' \in 0 .. n
    BY <1>1, <1>2, <2>1
  <2> QED
    BY <2>10, <2>11
<1>7. ASSUME scan = "backward"
      PROVE  ip' \in 0 .. n /\ Language!Next
  <2>1. PICK o \in 0 .. n, i \in 0 .. n, a \in 0 .. n, p \in 1 .. n,
             r \in 1 .. n :
           /\ o = origin /\ p = o + 1 /\ i = ip /\ i <= o
           /\ i = r /\ r = a + 1
           /\ Source[p] = "]"
           /\ loop = Level(i) - Level(p)
           /\ \A k \in i .. o : Level(k) > Level(p)
           /\ Level(p) \in Nat /\ Level(i) \in Int /\ Level(a) \in Int
           /\ Ip!ScanPlace = a
           /\ Ip!ScanInsn = BF_LBEG =>
                Source[r] = "[" /\ Level(a) = Level(i) - 1
    BY <1>7, BackwardPlace
  <2>2. Ip!ScanInsn = BF_LBEG
    BY <1>1, <1>7, ScanState
  <2>3. Source[r] = "[" /\ Level(p) = Level(a)
    BY <1>1, <2>1, <2>2
  <2>4. /\ r - 1 = a /\ r < p /\ a = r - 1 /\ o = p - 1
        /\ p \in Nat /\ r \in Nat \ {0}
    BY <1>2, <2>1
  <2>5. \A k \in r .. p - 1 : Level(k) > Level(a)
    BY <2>1, <2>3, <2>4
  <2>6. Pairs(Source, r, p)
    BY <2>1, <2>3, <2>4, <2>5, PairLevels
  <2>7. Language!Match(p) = r
    BY <1>2, <2>6, MatchIs
  <2>8. Pc = o /\ Pc \in Int /\ p = Pc + 1
    <3>1. NextPlace = o /\ o \in Int /\ ~(o > n) /\ p = o + 1
      BY <1>2, <2>1
    <3> QED
      BY <3>1 DEF Pc
  <2>9. Pc' = Language!Match(p) - 1
    BY <1>1, <1>2, <1>3, <1>5, <2>1, <2>4, <2>7 DEF Pc
  <2>10. Tape[ap] # 0
    BY <1>4, <1>7 DEF Stepping, Running
  <2>11. Language!Next
    BY <1>1, <1>2, <1>4, <2>1, <2>8, <2>9, <2>10, CommandSteps
  <2>12. ip' \in 0 .. n
    BY <1>1, <1>2, <2>1
  <2> QED
    BY <2>11, <2>12
<1>8. ip' \in 0 .. n /\ Language!Next
  BY <1>2, <1>6, <1>7
<1>9. Running'
  BY <1>1, <1>2, <1>3, <1>8 DEF Running, Stepping
<1> QED
  BY <1>1, <1>8, <1>9 DEF Computed

(* One bracket too many is a program nested as deep as the counter. *)
LEMMA OverflowGoes ==
  ASSUME Stepping, Overflow, OriginStep, UNCHANGED <<job, input>>
  PROVE  Running' /\ Computed /\ UNCHANGED <<codeRam, bootRom>>
<1> DEFINE n == Len(Source)
<1>1. ~(AtFetch /\ Ip!StartOverflow(LoopValZero))
  <2>1. SUFFICES ASSUME AtFetch, loop = Ip!LoopTop PROVE FALSE
    BY DEF Ip!StartOverflow
  <2>2. scan = "none" /\ ~overflow
    BY <2>1, FetchPlace
  <2>3. loop = 0
    BY <2>2 DEF Stepping, ControlInv, TypeInv, LineInv, Ip!LoopCounterClean
  <2> QED
    BY <2>1, <2>3, DekatronPCAssumption DEF Ip!LoopTop
<1>2. /\ scan # "none" /\ scan' = "none" /\ overflow' /\ halted'
      /\ Ip!ScanInsn = Ip!Own /\ loop = LoopSize - 1 /\ phase' = "FETCH"
      /\ UNCHANGED <<codeRam, bootRom, loading, mode, call, cfg, tx, apVars>>
  BY <1>1 DEF Overflow, Ip!ScanOverflow, Ip!memVars, Ip!LoopTop
<1>3. /\ scan \in {"forward", "backward"} /\ call = "none"
      /\ NextPlace = origin /\ n \in Nat /\ RunsPlain(job) /\ LoopSize \in Nat
  BY <1>2, ScanState, Sizes DEF Stepping
<1>4. Source' = Source /\ Nesting' = Nesting
  BY SameProgram
<1>5. Ap!CellValue' = Ap!CellValue /\ Tape' = Tape
  BY <1>2 DEF Tape, Ap!CellValue, apVars
<1>6. ASSUME scan = "forward" PROVE Nesting >= LoopSize
  <2>1. PICK o \in 0 .. n, q \in 1 .. n, r \in 1 .. n :
           /\ loop = Level(q) - Level(o)
           /\ Level(o) \in Nat /\ Level(q) \in Int /\ Level(r) \in Int
           /\ Ip!ScanInsn = BF_LBEG => Level(r) = Level(q) + 1
    BY <1>6, ForwardPlace
  <2>2. Ip!ScanInsn = BF_LBEG
    BY <1>2, <1>6, ScanState
  <2>3. Level(r) >= LoopSize
    BY <1>2, <1>3, <2>1, <2>2
  <2> QED
    BY <1>3, <2>1, <2>3, NestingBounds
<1>7. ASSUME scan = "backward" PROVE Nesting >= LoopSize
  <2>1. PICK i \in 0 .. n, a \in 0 .. n, p \in 1 .. n :
           /\ loop = Level(i) - Level(p)
           /\ Level(p) \in Nat /\ Level(i) \in Int /\ Level(a) \in Int
           /\ Ip!ScanInsn = BF_LEND => Level(a) = Level(i) + 1
    BY <1>7, BackwardPlace
  <2>2. Ip!ScanInsn = BF_LEND
    BY <1>2, <1>7, ScanState
  <2>3. Level(a) >= LoopSize
    BY <1>2, <1>3, <2>1, <2>2
  <2>4. a # 0
    BY <2>3, LevelStart, DekatronPCAssumption
  <2>5. a \in 1 .. n
    BY <1>3, <2>4
  <2> QED
    BY <1>3, <2>1, <2>3, <2>5, NestingBounds
<1>8. Nesting >= LoopSize
  BY <1>3, <1>6, <1>7
<1>9. Running'
  BY <1>2, <1>3, <1>4, <1>8, Sizes, ScanState DEF Running, Stepping
<1>10. Pc' = Pc
  <2>1. origin' = origin
    BY <1>2 DEF OriginStep
  <2>2. NextPlace' = origin
    BY <1>2, <2>1 DEF NextPlace
  <2> QED
    BY <1>3, <1>4, <2>2 DEF Pc
<1> QED
  BY <1>2, <1>5, <1>9, <1>10 DEF Computed, Quiet, apVars

-----------------------------------------------------------------------------
(* A part of a call of step() is a command, or nothing that the language   *)
(* sees.                                                                   *)
LEMMA StepGoes ==
  ASSUME Stepping, RunStep, input \in Seq(0 .. DataTop)
  PROVE  /\ Running' /\ Computed /\ UNCHANGED <<codeRam, bootRom>>
         /\ input' \in Seq(0 .. DataTop)
<1>1. OriginStep /\ UNCHANGED job /\ ~Stopped
  BY DEF RunStep, OriginStep
<1>2. ~LoadFetch /\ ~TakeInsn /\ ~WaitInsn
  BY DEF LoadFetch, Ip!LoadFetch, TakeInsn, Ip!TakeInsn, WaitInsn, AtInsn,
         Stepping, Running
<1>3. CASE ReadCin
  BY <1>1, <1>3, ReadGoes
<1>4. CASE ~ReadCin
  <2>1. /\ Fetch \/ StartScan \/ Scan \/ ScanMatch \/ Overflow \/ Decode
        /\ UNCHANGED input
    BY <1>2, <1>4 DEF RunStep
  <2>2. Running' /\ Computed /\ UNCHANGED <<codeRam, bootRom>>
    BY <1>1, <2>1, FetchGoes, StartGoes, ScanGoes, MatchGoes, OverflowGoes,
       DecodeGoes
  <2> QED
    BY <2>1, <2>2
<1> QED
  BY <1>3, <1>4

LEMMA HoldsOn ==
  ASSUME Holds, UNCHANGED <<job, codeRam, bootRom>>
  PROVE  Holds'
<1>1. Source' = Source
  BY SameProgram
<1>2. \A a : Ip!ReadCode(a)' = Ip!ReadCode(a)
  BY DEF Ip!ReadCode
<1>3. Ip!ReadCode(Len(Source))' = Ip!ReadCode(Len(Source))
  BY <1>1 DEF Ip!ReadCode
<1> QED
  BY <1>1, <1>2, <1>3 DEF Holds

LEMMA IdleOn ==
  ASSUME Idle, UNCHANGED <<apVars, ctrlVars, tx>>,
         UNCHANGED <<ip, ipCounted, scan, overflow, loading>>
  PROVE  Idle'
BY DEF Idle, apVars, ctrlVars

(* Before the first instruction the language sees nothing. *)
LEMMA IdlePc ==
  ASSUME Idle, RunsPlain(job)
  PROVE  Pc = 0 /\ Tape = [a \in 0 .. ApTop |-> 0]
<1>1. NextPlace = 0
  BY DEF Idle, NextPlace
<1>2. Len(Source) \in Nat
  BY PlainCode
<1> QED
  BY <1>1, <1>2, DekatronPCAssumption
  DEF Pc, Idle, Tape, Ap!CellValue, Ap!Addr

(* A command line that is refused has started nothing. *)
LEMMA RefusedTells ==
  ASSUME MainInv, RunsPlain(job), Refuse \/ Throw \/ RefuseBoot
  PROVE  ExitTells' /\ stage' = "done"
<1>1. /\ stage \in {"load", "boot"} /\ Idle /\ halted
      /\ exit' \in {-1, Aborted} /\ stage' = "done"
      /\ UNCHANGED <<machineVars, job>>
  BY DEF MainInv, Refuse, Throw, RefuseBoot, Quits
<1>2. job.missing # {} \/ Source = <<>> \/ BadTop
  <2>1. Code = <<>> => Source = <<>>
    <3>1. Len(Code) = Len(Source) /\ Source \in Seq(Commands)
      BY PlainCode
    <3> QED
      BY <3>1
  <2> QED
    BY <2>1 DEF Refuse, Throw, RefuseBoot, NoProgram
<1>3. (job.missing # {} \/ Source = <<>> \/ BadTop)'
  BY <1>1, <1>2 DEF BadTop, Source
<1>4. halted' /\ tx' = <<>> /\ ip' = 0
  BY <1>1 DEF Idle, machineVars, ctrlVars, ipVars
<1>5. exit' # 0 /\ exit' # 2
  BY <1>1 DEF Aborted
<1> QED
  BY <1>1, <1>3, <1>4, <1>5 DEF ExitTells

(* The end of a run tells how it ended. *)
LEMMA FinishTells ==
  ASSUME Stepping, stage = "step", Finish
  PROVE  ExitTells' /\ stage' = "done"
<1>1. /\ Stopped \/ OutOfSteps
      /\ stage' = "done" /\ exit' = IF overflow THEN 2 ELSE 0
      /\ UNCHANGED <<machineVars, job, steps, origin>>
  BY DEF Finish, Quits
<1>2. Source' = Source /\ Nesting' = Nesting
  BY <1>1, SameProgram
<1>3. NextPlace' = NextPlace /\ halted' = halted /\ overflow' = overflow
  BY <1>1 DEF machineVars, ipVars, ctrlVars, NextPlace, IsBracket
<1>4. CASE overflow
  <2>1. Nesting >= LoopSize
    BY <1>4 DEF Stepping, Running
  <2> QED
    BY <1>1, <1>2, <1>4, <2>1 DEF ExitTells
<1>5. CASE ~overflow /\ halted
  <2>1. /\ ip = Len(Source) + 1 /\ ~ipCounted /\ scan = "none"
    BY <1>5 DEF Stepping, Running, ControlInv, HaltedIsFresh, Between
  <2>2. NextPlace = Len(Source) + 1
    BY <1>5, <2>1 DEF NextPlace
  <2> QED
    BY <1>1, <1>2, <1>3, <1>5, <2>2 DEF ExitTells
<1>6. CASE ~overflow /\ ~halted
  <2>1. ~Stopped
    BY <1>6 DEF Stopped, Between, Stepping, Running, ControlInv, TypeInv,
                ControlTypes
  <2>2. steps' = job'.limit
    BY <1>1, <2>1 DEF OutOfSteps
  <2> QED
    BY <1>1, <1>3, <1>6, <2>2 DEF ExitTells
<1> QED
  BY <1>4, <1>5, <1>6

(* Whatever is done before the first instruction. *)
LEMMA IdleIsQuiet ==
  ASSUME Idle, Idle', RunsPlain(job), UNCHANGED <<job, cfg, input>>
  PROVE  Quiet
<1>1. NextPlace' = 0 /\ Source' = Source /\ Len(Source) \in Nat
  BY PlainCode, SameProgram DEF Idle, NextPlace
<1>2. Pc' = 0
  BY <1>1 DEF Pc
<1>3. Tape' = [a \in 0 .. ApTop |-> 0]
  BY DekatronPCAssumption DEF Idle, Tape, Ap!CellValue, Ap!Addr
<1> QED
  BY <1>2, <1>3, IdlePc DEF Quiet, Idle

(* The loads, the reset and the key, in their order. *)
LEMMA LoadGoes ==
  ASSUME MainInv, RunsPlain(job), LoadSource \/ LoadBoot
  PROVE  MainInv' /\ Quiet
<1>1. /\ Idle /\ halted /\ exit = 0 /\ stage' \in {"boot", "reset"}
      /\ UNCHANGED <<job, exit, input>>
      /\ UNCHANGED <<apVars, ctrlVars, cfg, tx, ip, ipCounted, scan, overflow,
                     loading>>
  BY DEF MainInv, LoadSource, LoadBoot, Goes, Ip!LoadCode, Ip!SetBootRom,
         Ip!loopVars
<1>2. Idle' /\ halted'
  BY <1>1, IdleOn DEF ctrlVars
<1>3. Holds'
  <2>1. CASE LoadSource
    BY <2>1, LoadHolds
  <2>2. CASE LoadBoot
    <3>1. Holds /\ UNCHANGED codeRam
      BY <2>2 DEF MainInv, LoadBoot, Goes, Ip!SetBootRom
    <3>2. /\ Source' = Source /\ Len(Source) \in Nat /\ BootBase \in Nat
          /\ Len(Source) < BootBase
      BY <1>1, PlainCode, SameProgram, DekatronPCAssumption
      DEF RunsPlain, Source
    <3>3. ASSUME NEW a \in Nat, a < BootBase
          PROVE  Ip!ReadCode(a)' = Ip!ReadCode(a)
      BY <3>1, <3>2, <3>3 DEF Ip!ReadCode
    <3>4. PICK m \in Nat : m = Len(Source)
      BY <3>2
    <3>5. ASSUME NEW a \in Nat, NEW p \in 1 .. Len(Source), p = a + 1
          PROVE  Stands(Ip!ReadCode(a)', Source[p])
      <4>1. Stands(Ip!ReadCode(a), Source[p])
        BY <3>1, <3>5 DEF Holds
      <4>2. Ip!ReadCode(a)' = Ip!ReadCode(a)
        BY <3>2, <3>3, <3>5
      <4> QED
        BY <4>1, <4>2
    <3>6. Ip!ReadCode(m)' = OP_HALT
      BY <3>1, <3>2, <3>3, <3>4 DEF Holds
    <3>7. Ip!ReadCode(Len(Source))' = OP_HALT
      BY <3>2, <3>4, <3>6 DEF Ip!ReadCode
    <3> QED
      BY <3>2, <3>5, <3>7 DEF Holds
  <2> QED
    BY <2>1, <2>2
<1>4. MainInv'
  BY <1>1, <1>2, <1>3 DEF MainInv, Stages, ExitTells
<1> QED
  BY <1>1, <1>2, <1>4, IdleIsQuiet

LEMMA ResetGoes ==
  ASSUME MainInv, RunsPlain(job), StartReset
  PROVE  MainInv' /\ Quiet
<1>1. /\ SoftReset /\ Idle /\ Holds /\ stage' = "key"
      /\ UNCHANGED <<job, exit, input>>
  BY DEF MainInv, StartReset, Goes, RunsPlain
<1>2. /\ dataMem' = dataMem /\ ap' = 0 /\ ~lock' /\ ip' = 0 /\ ~ipCounted'
      /\ ~overflow' /\ ~loading' /\ scan' = "none" /\ phase' = "FETCH"
      /\ mode' = ISA_BF
      /\ UNCHANGED <<call, cfg, tx, codeRam, bootRom>>
  BY <1>1 DEF SoftReset, ResetCounters, Ap!ApReset, Ip!IpReset, Ip!ResetLines,
              Ip!memVars, Idle
<1>3. Idle'
  BY <1>1, <1>2 DEF Idle
<1>4. Holds'
  BY <1>1, <1>2, HoldsOn
<1>5. MainInv'
  BY <1>1, <1>2, <1>3, <1>4 DEF MainInv, Stages, ExitTells
<1> QED
  BY <1>1, <1>2, <1>3, <1>5, IdleIsQuiet

LEMMA KeyGoes ==
  ASSUME MainInv, RunsPlain(job), RunKey
  PROVE  MainInv' /\ Quiet
<1>1. /\ Run /\ Idle /\ Holds /\ mode = ISA_BF /\ stage' = "step"
      /\ UNCHANGED <<job, exit, input>>
  BY DEF MainInv, RunKey, Goes
<1>2. /\ ~halted'
      /\ UNCHANGED <<apVars, codeRam, bootRom, ip, ipCounted, scan, overflow,
                     loading, mode, phase, call, cfg, tx>>
  BY <1>1 DEF Run, ipVars
<1>3. Idle'
  BY <1>1, <1>2 DEF Idle, apVars
<1>4. Holds'
  BY <1>1, <1>2, HoldsOn
<1>5. Source' = Source /\ Len(Source) \in Nat
  BY <1>1, PlainCode, SameProgram
<1>6. Running'
  BY <1>1, <1>2, <1>3, <1>5 DEF Running, Idle
<1>7. MainInv'
  BY <1>1, <1>4, <1>6 DEF MainInv, Stages, ExitTells
<1> QED
  BY <1>1, <1>2, <1>3, <1>7, IdleIsQuiet

LEMMA EndGoes ==
  ASSUME RunInv, RunsPlain(job), Refuse \/ Throw \/ RefuseBoot \/ Finish
  PROVE  MainInv' /\ Quiet
<1>1. /\ UNCHANGED <<machineVars, job, input, origin>>
  BY DEF Refuse, Throw, RefuseBoot, Finish, Quits
<1>2. ExitTells' /\ stage' = "done"
  <2>1. CASE Finish
    <3>1. stage = "step"
      BY <2>1 DEF Finish, Quits
    <3>2. Stepping
      BY <3>1 DEF RunInv, MainInv, Stepping
    <3> QED
      BY <2>1, <3>1, <3>2, FinishTells
  <2> QED
    BY <2>1, RefusedTells DEF RunInv
<1>3. MainInv'
  BY <1>1, <1>2 DEF RunInv, MainInv, Stages
<1>4. Source' = Source /\ NextPlace' = NextPlace
  BY <1>1, SameProgram
  DEF machineVars, ipVars, ctrlVars, NextPlace, IsBracket
<1>5. Quiet
  BY <1>1, <1>4 DEF Quiet, Pc, Tape, Ap!CellValue, machineVars, apVars
<1> QED
  BY <1>3, <1>5

-----------------------------------------------------------------------------
LEMMA InitRunInv ==
  ASSUME PlainJobs, RunInit
  PROVE  RunInv
<1>1. ControlInv
  BY InitControlInv DEF RunInit
<1>2. TestedInv
  BY DEF RunInit, Init, Ip!Init, TestedInv, Undecided
<1>3. MainInv
  BY DEF RunInit, PlainJobs, MainInv, Stages, Idle, ExitTells, Init, Ip!Init,
         Ap!Init
<1> QED
  BY <1>1, <1>2, <1>3 DEF RunInv

LEMMA SameMain ==
  ASSUME MainInv, UNCHANGED runVars
  PROVE  MainInv' /\ Quiet
<1>1. UNCHANGED <<machineVars, apVars, ipVars, ctrlVars, tx, cfg, codeRam,
                  bootRom, job, stage, exit, steps, input, origin>>
  BY DEF runVars, machineVars, ipVars
<1>2. /\ Source' = Source /\ Nesting' = Nesting /\ NextPlace' = NextPlace
      /\ \A k : Level(k)' = Level(k)
  BY <1>1, SameProgram DEF ipVars, ctrlVars, NextPlace, IsBracket
<1>3. Ap!CellValue' = Ap!CellValue /\ Tape' = Tape /\ Pc' = Pc
  BY <1>1, <1>2 DEF Ap!CellValue, apVars, Tape, Pc
<1>4. Idle => Idle'
  BY <1>1, IdleOn DEF ipVars
<1>5. Holds => Holds'
  BY <1>1, HoldsOn
<1>6. (Skips => Skips') /\ (Repeats => Repeats')
  BY <1>1, <1>2 DEF ipVars, Skips, Repeats
<1>7. Running => Running'
  BY <1>1, <1>2, <1>3, <1>6 DEF ipVars, ctrlVars, Running
<1>8. ExitTells'
  BY <1>1, <1>2 DEF MainInv, ExitTells, BadTop, ipVars, ctrlVars
<1>9. MainInv'
  BY <1>1, <1>4, <1>5, <1>7, <1>8 DEF MainInv, ctrlVars
<1> QED
  BY <1>1, <1>3, <1>9 DEF Quiet, apVars

(* Every step of dpcrun keeps what main() has done, and is a command of    *)
(* the program or nothing that the language sees; a command is a part of   *)
(* a call of step(), before the run has an end.                            *)
LEMMA NextMain ==
  ASSUME RunInv, PlainJobs, [RunNext]_runVars
  PROVE  MainInv' /\ (Quiet \/ (stage = "step" /\ Language!Next))
<1>1. MainInv /\ job \in Jobs /\ RunsPlain(job)
  BY DEF RunInv, MainInv, PlainJobs
<1>2. CASE RunStep
  <2>1. stage = "step" /\ Stepping /\ input \in Seq(0 .. DataTop)
    BY <1>1, <1>2 DEF RunStep, RunInv, MainInv, Stepping
  <2>2. /\ Running' /\ Computed /\ UNCHANGED <<codeRam, bootRom>>
        /\ input' \in Seq(0 .. DataTop)
    BY <1>2, <2>1, StepGoes
  <2>3. UNCHANGED <<job, stage, exit>>
    BY <1>2 DEF RunStep
  <2>4. Holds'
    BY <2>1, <2>2, <2>3, HoldsOn DEF Stepping
  <2>5. MainInv'
    BY <1>1, <2>1, <2>2, <2>3, <2>4 DEF MainInv, ExitTells
  <2> QED
    BY <2>1, <2>2, <2>5 DEF Computed
<1> QED
  BY <1>1, <1>2, LoadGoes, ResetGoes, KeyGoes, EndGoes, SameMain DEF RunNext

LEMMA NextRunInv == PlainJobs /\ RunInv /\ [RunNext]_runVars => RunInv'
BY NextBase, NextMain DEF RunInv

LEMMA RunInvariance ==
  ASSUME PlainJobs
  PROVE  RunSpec => []RunInv
<1>1. RunInv /\ [RunNext]_runVars => RunInv'
  BY NextRunInv
<1>2. RunInit => RunInv
  BY InitRunInv
<1> QED
  BY <1>1, <1>2, PTL DEF RunSpec

(* Whatever the plain program, its input, the sizes of the machine and the *)
(* limit of calls: 0 is only returned for a program that reached its HALT  *)
(* or was cut off by -n, 2 only for loops nested deeper than the counter   *)
(* counts, and anything else for a command line that started nothing.      *)
THEOREM ExitIsTold ==
  ASSUME PlainJobs
  PROVE  RunSpec => []ExitTells
<1>1. RunInv => ExitTells
  BY DEF RunInv, MainInv
<1> QED
  BY <1>1, RunInvariance, PTL

(* dpcrun computes what the language says: every step of its main(), of    *)
(* the fetch, the delayed brackets, the scan on the ring, the locked       *)
(* counter and the lazy read is one command of the program, with the same  *)
(* cells, output and use of the input, or nothing that the language sees.  *)
THEOREM ComputesBrainfuck ==
  ASSUME PlainJobs
  PROVE  RunSpec => Language!Computes
<1>1. ASSUME RunInit PROVE Language!Init
  <2>1. RunsPlain(job) /\ Idle
    BY <1>1, InitRunInv DEF RunInit, RunInv, MainInv, PlainJobs
  <2>2. Pc = 0 /\ Tape = [a \in 0 .. ApTop |-> 0]
    BY <2>1, IdlePc
  <2>3. Language!Balanced(Source) /\ tx = <<>> /\ ap = 0
    BY <2>1 DEF RunsPlain, Source, Idle
  <2> QED
    BY <2>2, <2>3 DEF Language!Init, Pc, Tape
<1>2. ASSUME RunInv, [RunNext]_runVars
      PROVE  [~(stage = "done" /\ (exit # 0 \/ OutOfSteps))
                /\ Language!Next]_(Language!vars)
  BY <1>2, NextMain, QuietStutters
<1> QED
  BY <1>1, <1>2, RunInvariance, PTL DEF RunSpec, Language!Computes

-----------------------------------------------------------------------------
(* The bootloader of the test bench in memory. *)

(* What has only symbols is assembled as a whole. *)
LEMMA AtAll ==
  ASSUME NEW A, NEW seq \in Seq(A)
  PROVE  At(seq, 1 .. Len(seq)) = seq
<1> DEFINE len == Len(seq)
<1>0. len \in Nat
  OBVIOUS
<1>1. PICK at : Orders(at, At(seq, 1 .. len), seq, 1 .. len, len)
  BY AtType
<1>2. PICK list \in Seq(A) : list = At(seq, 1 .. len)
  BY AtType
<1>3. PICK m \in Nat : m = Len(list)
  OBVIOUS
<1>4. /\ m <= len /\ at \in [1 .. m -> 1 .. len]
      /\ \A k \in 1 .. m : list[k] = seq[at[k]]
      /\ \A k, l \in 1 .. m : k < l => at[k] < at[l]
      /\ \A i \in 1 .. len : \E k \in 1 .. m : at[k] = i
  <2>1. (1 .. len) \cap (1 .. len) = 1 .. len
    OBVIOUS
  <2> QED
    BY <1>1, <1>2, <1>3, <2>1 DEF Orders
<1> DEFINE S == {n \in Nat : n <= len =>
                   n <= m /\ \A k \in 1 .. n : at[k] = k}
<1>5. 0 \in S
  OBVIOUS
<1>6. ASSUME NEW n \in S \cap Nat PROVE n + 1 \in S
  <2> SUFFICES ASSUME n + 1 <= len
               PROVE  n + 1 <= m /\ \A k \in 1 .. n + 1 : at[k] = k
    OBVIOUS
  <2>1. n <= m /\ \A k \in 1 .. n : at[k] = k
    BY <1>0
  <2>2. n + 1 \in 1 .. len
    BY <1>0
  <2>3. PICK k \in 1 .. m : at[k] = n + 1
    BY <1>4, <2>2
  <2>4. k >= n + 1
    BY <2>1, <2>3
  <2>5. CASE k = n + 1
    BY <2>1, <2>3, <2>5
  <2>6. CASE k > n + 1
    <3>1. PICK l \in 1 .. m : l = n + 1
      BY <2>6
    <3>2. at[l] < n + 1 /\ at[l] \in 1 .. len
      BY <1>4, <2>3, <2>6, <3>1
    <3>3. at[l] \in 1 .. n
      BY <3>2
    <3>4. at[at[l]] = at[l] /\ at[l] < l /\ at[l] \in 1 .. m
      BY <2>1, <3>1, <3>3
    <3>5. at[at[l]] < at[l]
      BY <1>4, <3>4
    <3> QED
      BY <3>2, <3>4, <3>5
  <2> QED
    BY <2>4, <2>5, <2>6
<1>7. Nat \subseteq S
  <2> HIDE DEF S
  <2> QED
    BY <1>5, <1>6, NatClosed
<1>8. m = len /\ \A k \in 1 .. len : at[k] = k
  BY <1>0, <1>4, <1>7
<1>9. Len(list) = Len(seq) /\ \A k \in 1 .. len : list[k] = seq[k]
  BY <1>3, <1>4, <1>8
<1> QED
  BY <1>2, <1>9

BootCode ==
  <<OP_ISA0, DBG_CLRA, OP_CLRD, OP_ISA1, BF_ADEC, OP_ISA0, DBG_LABEG, OP_CLRD,
    OP_ISA1, BF_ADEC, OP_ISA0, DBG_LAEND, OP_ISA1, OP_HALT>>

LEMMA BootSymbols ==
  /\ SymbolToOpcode("D") = OP_ISA0 /\ SymbolToOpcode("B") = OP_ISA1
  /\ SymbolToOpcode("A") = DBG_CLRA /\ SymbolToOpcode("0") = OP_CLRD
  /\ SymbolToOpcode("{") = DBG_LABEG /\ SymbolToOpcode("}") = DBG_LAEND
  /\ SymbolToOpcode("H") = OP_HALT /\ SymbolToOpcode("<") = BF_ADEC
BY DEF SymbolToOpcode

(* The bootloader, one character after the other. *)
LEMMA BootChars ==
  /\ Bootloader[1] = "D" /\ Bootloader[2] = "A" /\ Bootloader[3] = "0"
  /\ Bootloader[4] = "B" /\ Bootloader[5] = "<" /\ Bootloader[6] = "D"
  /\ Bootloader[7] = "{" /\ Bootloader[8] = "0" /\ Bootloader[9] = "B"
  /\ Bootloader[10] = "<" /\ Bootloader[11] = "D" /\ Bootloader[12] = "}"
  /\ Bootloader[13] = "B" /\ Bootloader[14] = "H"
BY DEF Bootloader

LEMMA BootOps ==
  /\ BootCode[1] = OP_ISA0 /\ BootCode[2] = DBG_CLRA /\ BootCode[3] = OP_CLRD
  /\ BootCode[4] = OP_ISA1 /\ BootCode[5] = BF_ADEC /\ BootCode[6] = OP_ISA0
  /\ BootCode[7] = DBG_LABEG /\ BootCode[8] = OP_CLRD /\ BootCode[9] = OP_ISA1
  /\ BootCode[10] = BF_ADEC /\ BootCode[11] = OP_ISA0
  /\ BootCode[12] = DBG_LAEND
  /\ BootCode[13] = OP_ISA1 /\ BootCode[14] = OP_HALT
BY DEF BootCode

LEMMA BootIs ==
  ASSUME NEW i \in 1 .. 14
  PROVE  /\ Bootloader[i] \in Symbols
         /\ SymbolToOpcode(Bootloader[i]) = BootCode[i]
<1>1. \/ i = 1 \/ i = 2 \/ i = 3 \/ i = 4 \/ i = 5 \/ i = 6 \/ i = 7
      \/ i = 8 \/ i = 9 \/ i = 10 \/ i = 11 \/ i = 12 \/ i = 13 \/ i = 14
  OBVIOUS
<1>2. {"D", "A", "0", "B", "<", "{", "}", "H"} \subseteq Symbols
  BY DEF Symbols
<1> QED
  BY <1>1, <1>2, BootChars, BootOps, BootSymbols

LEMMA AssembledBoot == Assemble(Bootloader) = BootCode
<1>1. PICK boot : boot = Bootloader
  OBVIOUS
<1>2. Len(boot) = 14 /\ boot = [i \in 1 .. 14 |-> boot[i]]
  <2>1. Bootloader = [i \in 1 .. 14 |-> Bootloader[i]]
    BY DEF Bootloader
  <2>2. Len(Bootloader) = 14
    BY DEF Bootloader
  <2> QED
    BY <1>1, <2>1, <2>2
<1>3. \A i \in 1 .. 14 : boot[i] \in Symbols
  BY <1>1, BootIs
<1>4. boot \in Seq(Symbols)
  BY <1>2, <1>3
<1>5. {i \in DOMAIN boot : IsSymbol(boot[i])} = 1 .. Len(boot)
  BY <1>2, <1>3 DEF IsSymbol
<1>6. At(boot, {i \in DOMAIN boot : IsSymbol(boot[i])}) = boot
  BY <1>4, <1>5, AtAll
<1>7. Assemble(boot) = [i \in 1 .. 14 |-> SymbolToOpcode(boot[i])]
  BY <1>2, <1>6 DEF Assemble
<1>8. \A i \in 1 .. 14 : SymbolToOpcode(boot[i]) = BootCode[i]
  BY <1>1, BootIs
<1>9. BootCode = [i \in 1 .. 14 |-> BootCode[i]]
  BY DEF BootCode
<1> QED
  BY <1>1, <1>7, <1>8, <1>9

HoldsBoot ==
  /\ BootBase + 14 <= IpSize
  /\ \A k \in 1 .. 14 : Ip!ReadCode(BootBase + k - 1) = BootCode[k]

LEMMA BootHolds ==
  ASSUME LoadBoot, RunsBoot(job), BootBase + Len(Bootloader) <= IpSize
  PROVE  HoldsBoot'
<1>1. BootBase \in Nat /\ IpSize \in Nat
  BY DekatronPCAssumption
<1>2. Len(Bootloader) = 14
  BY DEF Bootloader
<1>3. Ip!SetBootRom(BootCode)
  BY AssembledBoot DEF LoadBoot, RunsBoot
<1>4. Len(BootCode) = 14
  BY DEF BootCode
<1>5. ASSUME NEW k \in 1 .. 14
      PROVE  Ip!ReadCode(BootBase + k - 1)' = BootCode[k]
  <2>1. PICK a \in Nat : a = k - 1
    OBVIOUS
  <2>2. a \in Ip!RomPlace /\ a < 14 /\ a + 1 = k
    BY <1>1, <1>2, <2>1 DEF Ip!RomPlace
  <2>3. bootRom'[a] = BootCode[k]
    BY <1>3, <1>4, <2>2 DEF Ip!SetBootRom
  <2>4. (BootBase + k - 1) - BootBase = a /\ BootBase + k - 1 >= BootBase
    BY <1>1, <2>1
  <2> QED
    BY <2>3, <2>4 DEF Ip!ReadCode
<1> QED
  BY <1>2, <1>5 DEF HoldsBoot

-----------------------------------------------------------------------------
(* The machine in the bootloader. *)

(* The cells behind AP, and the first, are clear.                          *)
Zeros == dataMem[0] = 0 /\ \A a \in Ap!Addr : a > ap => dataMem[a] = 0

(* Before the e-th instruction, when all before it have been executed.     *)
Before(e) ==
  /\ mode = IF e \in {5, 6, 10, 11, 14, 15} THEN ISA_BF ELSE ISA_DEBUG
  /\ lock <=> e \in {4, 5, 9, 10}
  /\ lock => data = 0
  /\ e <= 5 => ap = 0
  /\ e >= 6 => Zeros
  /\ e \in 6 .. 10 => ap # 0

(* IP is at the k-th instruction, which has been executed or is next.      *)
Due(k) == IF ipCounted /\ call = "none" THEN k + 1 ELSE k
BootWalks(k) ==
  /\ scan = "none" /\ loop = 0 /\ ~halted
  /\ ipCounted \/ k = 1
  /\ k >= 13 => ap = 0
  /\ Due(k) <= 14 /\ Before(Due(k))

(* On the way back from the } to the {. *)
BootScans(k) ==
  /\ scan = "backward" /\ loop = 1 /\ ~halted /\ k \in 8 .. 12
  /\ call = "none" /\ ipCounted
  /\ mode = ISA_DEBUG /\ ~lock /\ ap # 0 /\ Zeros

Cleared == halted /\ scan = "none" /\ loop = 0 /\ ap = 0 /\ Before(15)
InBoot(k) == ip = BootBase + k - 1 /\ (BootWalks(k) \/ BootScans(k))
Steady == ~overflow /\ ~loading /\ phase = "FETCH"
BootRuns == Steady /\ (Cleared \/ \E k \in 1 .. 14 : InBoot(k))

LEMMA BootLatched ==
  ASSUME ControlInv, HoldsBoot, ipCounted, ~loading, NEW k \in 1 .. 14,
         ip = BootBase + k - 1
  PROVE  insn = BootCode[k]
<1>1. insn = Ip!ReadCode(ip)
  BY DEF ControlInv, TypeInv, LineInv, Ip!LatchedInsn
<1> QED
  BY <1>1 DEF HoldsBoot

(* What decode does with the opcodes of the bootloader. *)
LEMMA BootOperations ==
  /\ \A m : Operation(m, OP_ISA0) = "ISA0" /\ Operation(m, OP_ISA1) = "ISA1"
  /\ \A m : Operation(m, OP_CLRD) = "CLRD" /\ Operation(m, OP_HALT) = "HALT"
  /\ Operation(ISA_DEBUG, DBG_CLRA) = "CLRA"
  /\ Operation(ISA_DEBUG, DBG_LABEG) = "NOP"
  /\ Operation(ISA_DEBUG, DBG_LAEND) = "NOP"
  /\ Operation(ISA_BF, BF_ADEC) = "ADEC"
BY DEF Operation, ISA_BF, ISA_DEBUG, OP_HALT, OP_CLRD, OP_ISA0, OP_ISA1,
       BF_LBEG, BF_LEND, BF_INC, BF_DEC, BF_AINC, BF_ADEC, BF_COUT, BF_CIN,
       BF_CLRML, BF_LOAD, BF_STORE, DBG_BELL, DBG_SOT, DBG_CLRL, DBG_CLRI,
       DBG_CLRA, DBG_HRST, DBG_SRST, DBG_LABEG, DBG_LAEND

(* Of the ways to decode, the one for its operation. *)
LEMMA BootDecodes ==
  ASSUME Decode, ~loading
  PROVE  /\ insn \in {OP_ISA0, OP_ISA1} => DecodeIsa
         /\ insn \notin {OP_ISA0, OP_ISA1} =>
              /\ Operation(mode, insn) = "NOP" => DecodeNop
              /\ Operation(mode, insn) = "HALT" => DecodeHalt
              /\ Operation(mode, insn) = "CLRD" => DecodeAp /\ Ap!ClrD
              /\ Operation(mode, insn) = "CLRA" => DecodeAp /\ Ap!ClrA
              /\ Operation(mode, insn) = "ADEC" =>
                   DecodeAp /\ Ap!ApStep(insn % 2 = 1)
<1>1. insn \in {OP_ISA0, OP_ISA1} =>
        Operation(mode, insn) \in {"ISA0", "ISA1"}
  BY BootOperations, Zenon
<1> QED
  BY <1>1
  DEF Decode, DecodeEot, DecodeIsa, DecodeStored, DecodeNop, DecodeHalt,
      DecodeBell, DecodeReset, DecodeIp, DecodeAp, DecodeCout, DecodeCin,
      Decodes

(* What a call that decodes has before it. *)
LEMMA BootDecoding ==
  ASSUME ControlInv, HoldsBoot, Steady, NEW k \in 1 .. 14, InBoot(k), Decode
  PROVE  /\ call = "decode" /\ ipCounted /\ insn = BootCode[k]
         /\ BootWalks(k) /\ Due(k) = k /\ Before(k)
<1>1. call = "decode"
  BY DEF Decode, DecodeEot, DecodeIsa, DecodeStored, DecodeNop, DecodeHalt,
         DecodeBell, DecodeReset, DecodeIp, DecodeAp, DecodeCout, DecodeCin,
         Retire
<1>2. ipCounted /\ BootWalks(k)
  BY <1>1 DEF InBoot, BootScans, ControlInv, CallInv
<1>3. insn = BootCode[k]
  BY <1>2, BootLatched DEF InBoot, Steady
<1>4. Due(k) = k
  BY <1>1 DEF Due
<1> QED
  BY <1>1, <1>2, <1>3, <1>4 DEF BootWalks

(* An instruction that leaves the instruction side alone. *)
LEMMA BootStays ==
  ASSUME Steady, NEW k \in 1 .. 13, InBoot(k), ipCounted, BootWalks(k),
         UNCHANGED <<ipVars, halted, phase>>, call' = "none",
         Before(k + 1)', k >= 13 => ap' = ap
  PROVE  BootRuns'
<1>1. /\ UNCHANGED <<ip, ipCounted, scan, loop, overflow, loading>>
      /\ UNCHANGED <<halted, phase>>
  BY DEF ipVars
<1>2. Due(k)' = k + 1
  BY <1>1 DEF Due
<1>3. k >= 13 => ap' = 0
  BY DEF BootWalks
<1>4. BootWalks(k)'
  BY <1>1, <1>2, <1>3 DEF BootWalks
<1>5. InBoot(k)' /\ Steady'
  BY <1>1, <1>4 DEF InBoot, Steady
<1> QED
  BY <1>5 DEF BootRuns

(* The data side, as far as it matters. *)
LEMMA BootCells ==
  ASSUME ControlInv
  PROVE  /\ ApTop \in Nat \ {0} /\ ap \in 0 .. ApTop /\ lock \in BOOLEAN
         /\ DOMAIN dataMem = 0 .. ApTop /\ Ap!Addr = 0 .. ApTop
         /\ IpSize \in Nat /\ BootBase \in Nat /\ LoopSize \in Nat
         /\ LoopSize >= 2
<1>1. Ap!TypeOK
  BY DEF ControlInv, TypeInv, LineInv
<1> QED
  BY <1>1, DekatronPCAssumption DEF Ap!TypeOK, Ap!Addr

LEMMA BootIsa ==
  ASSUME Steady, NEW k \in {1, 4, 6, 9, 11, 13}, InBoot(k), ipCounted,
         BootWalks(k), Before(k), insn = BootCode[k], DecodeIsa
  PROVE  BootRuns'
<1>1. /\ call' = "none" /\ UNCHANGED <<apVars, ipVars, halted, phase>>
      /\ mode' = IF insn = OP_ISA1 THEN ISA_BF ELSE ISA_DEBUG
  BY DEF DecodeIsa, Retire
<1>2. mode' = IF k \in {4, 9, 13} THEN ISA_BF ELSE ISA_DEBUG
  BY <1>1, BootOps DEF OP_ISA0, OP_ISA1
<1>3. UNCHANGED <<dataMem, ap, lock, data>> /\ (Zeros => Zeros')
  BY <1>1 DEF apVars, Zeros
<1>4. Before(k + 1)'
  BY <1>2, <1>3 DEF Before
<1> QED
  BY <1>1, <1>3, <1>4, BootStays

(* { and } are read by the next fetch and do nothing themselves. *)
LEMMA BootNop ==
  ASSUME Steady, NEW k \in {7, 12}, InBoot(k), ipCounted,
         BootWalks(k), Before(k), DecodeNop
  PROVE  BootRuns'
<1>1. call' = "none" /\ UNCHANGED <<apVars, ipVars, mode, halted, phase>>
  BY DEF DecodeNop, Retire
<1>2. UNCHANGED <<dataMem, ap, lock, data>> /\ (Zeros => Zeros')
  BY <1>1 DEF apVars, Zeros
<1>3. Before(k + 1)'
  BY <1>1, <1>2 DEF Before
<1> QED
  BY <1>1, <1>2, <1>3, BootStays

LEMMA BootClrD ==
  ASSUME Steady, NEW k \in {3, 8}, InBoot(k), ipCounted,
         BootWalks(k), Before(k), DecodeAp, Ap!ClrD
  PROVE  BootRuns'
<1>1. call' = "none" /\ UNCHANGED <<ipVars, mode, halted, phase>>
  BY DEF DecodeAp, Retire
<1>2. /\ lock' /\ data' = 0 /\ UNCHANGED <<dataMem, ap>>
      /\ (Zeros => Zeros')
  BY DEF Ap!ClrD, Ap!Take, Zeros
<1>3. Before(k + 1)'
  BY <1>1, <1>2 DEF Before
<1> QED
  BY <1>1, <1>3, BootStays

LEMMA BootClrA ==
  ASSUME Steady, InBoot(2), ipCounted, BootWalks(2), Before(2),
         DecodeAp, Ap!ClrA
  PROVE  BootRuns'
<1>1. call' = "none" /\ UNCHANGED <<ipVars, mode, halted, phase>>
  BY DEF DecodeAp, Retire
<1>2. ~lock' /\ ap' = 0
  BY DEF Ap!ClrA, Ap!ApMove
<1>3. Before(2 + 1)'
  BY <1>1, <1>2 DEF Before
<1> QED
  BY <1>1, <1>3, BootStays

(* < saves the cleared cell: every cell behind the new one is clear. *)
LEMMA BootMoves ==
  ASSUME ControlInv, Steady, NEW k \in {5, 10}, InBoot(k), ipCounted,
         BootWalks(k), Before(k), DecodeAp, Ap!ApStep(TRUE)
  PROVE  BootRuns'
<1>1. call' = "none" /\ UNCHANGED <<ipVars, mode, halted, phase>>
  BY DEF DecodeAp, Retire
<1>2. ap \in 0 .. ApTop /\ ApTop \in Nat \ {0} /\ Ap!Addr = 0 .. ApTop
        /\ DOMAIN dataMem = 0 .. ApTop
  BY BootCells
<1>3. lock /\ data = 0
  BY DEF Before
<1>4. ap' = IF ap = 0 THEN ApTop ELSE ap - 1
  <2>1. ap' = WrapDec(ap, ApTop + 1)
    BY DEF Ap!ApStep, Ap!ApMove, Ap!WrapStep, Ap!WrapDec, WrapDec
  <2>2. ApTop + 1 \in Nat \ {0} /\ ap \in 0 .. (ApTop + 1) - 1
    BY <1>2
  <2> QED
    BY <1>2, <2>1, <2>2, WrapDecCases
<1>5. ~lock' /\ dataMem' = [dataMem EXCEPT ![ap] = 0]
  BY <1>3 DEF Ap!ApStep, Ap!ApMove, Ap!Flush
<1>6. /\ dataMem'[ap] = 0
      /\ \A a \in 0 .. ApTop : a # ap => dataMem'[a] = dataMem[a]
  BY <1>2, <1>5
<1>7. Zeros' /\ (k = 5 => ap' # 0)
  <2>1. CASE k = 5
    <3>1. ap = 0 /\ ap' = ApTop
      BY <1>4, <2>1 DEF Before
    <3> QED
      BY <1>2, <1>6, <3>1 DEF Zeros, Ap!Addr
  <2>2. CASE k = 10
    <3>1. ap # 0 /\ ap' = ap - 1 /\ Zeros
      BY <1>4, <2>2 DEF Before
    <3>2. dataMem'[0] = 0
      BY <1>2, <1>6, <3>1 DEF Zeros
    <3>3. ASSUME NEW a \in 0 .. ApTop, a > ap' PROVE dataMem'[a] = 0
      BY <1>2, <1>6, <3>1, <3>3 DEF Zeros
    <3> QED
      BY <1>2, <2>2, <3>2, <3>3 DEF Zeros, Ap!Addr
  <2> QED
    BY <2>1, <2>2
<1>8. Before(k + 1)'
  BY <1>1, <1>5, <1>7 DEF Before
<1> QED
  BY <1>1, <1>8, BootStays

LEMMA BootHalts ==
  ASSUME Steady, InBoot(14), BootWalks(14), Before(14), DecodeHalt
  PROVE  BootRuns'
<1>1. /\ halted' /\ phase' = "FETCH"
      /\ UNCHANGED <<apVars, mode, scan, loop, overflow, loading>>
  BY DEF DecodeHalt, EnterHalt, Ip!EnterHalt, Ip!loopVars
<1>2. scan = "none" /\ loop = 0 /\ ap = 0
  BY DEF BootWalks
<1>3. UNCHANGED <<dataMem, ap, lock, data>> /\ (Zeros => Zeros')
  BY <1>1 DEF apVars, Zeros
<1>4. Before(15)'
  BY <1>1, <1>2, <1>3 DEF Before
<1> QED
  BY <1>1, <1>2, <1>3, <1>4 DEF BootRuns, Steady, Cleared

LEMMA BootDecode ==
  ASSUME ControlInv, HoldsBoot, Steady, NEW k \in 1 .. 14, InBoot(k), Decode
  PROVE  BootRuns'
<1>1. /\ ipCounted /\ insn = BootCode[k] /\ BootWalks(k) /\ Before(k)
      /\ ~loading
  BY BootDecoding DEF Steady
<1>2. CASE k \in {1, 4, 6, 9, 11, 13}
  <2>1. insn \in {OP_ISA0, OP_ISA1}
    BY <1>1, <1>2, BootOps
  <2> QED
    BY <1>1, <1>2, <2>1, BootDecodes, BootIsa
<1>3. ASSUME k \notin {1, 4, 6, 9, 11, 13}
      PROVE  insn \notin {OP_ISA0, OP_ISA1}
  <2>1. insn \in {DBG_CLRA, OP_CLRD, BF_ADEC, DBG_LABEG, DBG_LAEND, OP_HALT}
    BY <1>1, <1>3, BootOps
  <2> QED
    BY <2>1 DEF OP_ISA0, OP_ISA1, DBG_CLRA, OP_CLRD, BF_ADEC, DBG_LABEG,
                DBG_LAEND, OP_HALT
<1>4. CASE k \in {7, 12}
  <2>1. mode = ISA_DEBUG /\ insn \in {DBG_LABEG, DBG_LAEND}
    BY <1>1, <1>4, BootOps DEF Before
  <2>2. DecodeNop
    BY <1>1, <1>3, <1>4, <2>1, BootOperations, BootDecodes
  <2> QED
    BY <1>1, <1>4, <2>2, BootNop
<1>5. CASE k \in {3, 8}
  <2>1. insn = OP_CLRD
    BY <1>1, <1>5, BootOps
  <2>2. DecodeAp /\ Ap!ClrD
    BY <1>1, <1>3, <1>5, <2>1, BootOperations, BootDecodes
  <2> QED
    BY <1>1, <1>5, <2>2, BootClrD
<1>6. CASE k = 2
  <2>1. mode = ISA_DEBUG /\ insn = DBG_CLRA
    BY <1>1, <1>6, BootOps DEF Before
  <2>2. DecodeAp /\ Ap!ClrA
    BY <1>1, <1>3, <1>6, <2>1, BootOperations, BootDecodes
  <2> QED
    BY <1>1, <1>6, <2>2, BootClrA
<1>7. CASE k \in {5, 10}
  <2>1. mode = ISA_BF /\ insn = BF_ADEC
    BY <1>1, <1>7, BootOps DEF Before
  <2>2. (insn % 2 = 1) = TRUE
    BY <2>1 DEF BF_ADEC
  <2>3. DecodeAp /\ Ap!ApStep(insn % 2 = 1)
    BY <1>1, <1>3, <1>7, <2>1, BootOperations, BootDecodes
  <2>4. Ap!ApStep(TRUE)
    BY <2>2, <2>3
  <2> QED
    BY <1>1, <1>7, <2>3, <2>4, BootMoves
<1>8. CASE k = 14
  <2>1. insn = OP_HALT
    BY <1>1, <1>8, BootOps
  <2>2. DecodeHalt
    BY <1>1, <1>3, <1>8, <2>1, BootOperations, BootDecodes
  <2> QED
    BY <1>1, <1>8, <2>2, BootHalts
<1>9. \/ k \in {1, 4, 6, 9, 11, 13} \/ k \in {7, 12} \/ k \in {3, 8}
      \/ k = 2 \/ k \in {5, 10} \/ k = 14
  OBVIOUS
<1> QED
  BY <1>2, <1>4, <1>5, <1>6, <1>7, <1>8, <1>9

(* Between two calls of step(). *)
LEMMA BootAtFetch ==
  ASSUME Steady, NEW k \in 1 .. 14, InBoot(k), Between
  PROVE  /\ BootWalks(k) /\ Before(Due(k)) /\ Due(k) \in 1 .. 14
         /\ IF ipCounted THEN Due(k) = k + 1 ELSE k = 1 /\ Due(k) = 1
<1>1. BootWalks(k)
  BY DEF InBoot, BootScans, Between
<1> QED
  BY <1>1 DEF BootWalks, Due, Between

(* } goes back to { until AP is 0, and { never skips. *)
LEMMA BootJumps ==
  ASSUME ControlInv, HoldsBoot, Steady, NEW k \in 1 .. 14, InBoot(k), Between,
         ipCounted
  PROVE  Ip!Jumps(LoopValZero) <=> k = 12 /\ ap # 0
<1>1. insn = BootCode[k] /\ BootWalks(k) /\ Due(k) = k + 1 /\ Before(k + 1)
        /\ k \in 1 .. 13
  BY BootLatched, BootAtFetch DEF InBoot, Steady
<1>2. insn = Ip!BF_LBEG <=> k = 7
  BY <1>1, BootOps
  DEF Ip!BF_LBEG, OP_ISA0, OP_ISA1, DBG_CLRA, OP_CLRD, BF_ADEC, DBG_LABEG,
      DBG_LAEND, OP_HALT
<1>3. insn = Ip!BF_LEND <=> k = 12
  BY <1>1, BootOps
  DEF Ip!BF_LEND, OP_ISA0, OP_ISA1, DBG_CLRA, OP_CLRD, BF_ADEC, DBG_LABEG,
      DBG_LAEND, OP_HALT
<1>4. k = 7 => LoopValZero = FALSE
  BY <1>1 DEF Before, LoopValZero, ISA_BF, ISA_DEBUG
<1>5. k = 12 => LoopValZero = (ap = 0)
  BY <1>1 DEF Before, LoopValZero, ISA_BF, ISA_DEBUG
<1> QED
  BY <1>2, <1>3, <1>4, <1>5 DEF Ip!Jumps

LEMMA BootFetch ==
  ASSUME ControlInv, HoldsBoot, Steady, NEW k \in 1 .. 14, InBoot(k), Fetch
  PROVE  BootRuns'
<1>1. /\ Between /\ call' = "decode"
      /\ UNCHANGED <<apVars, mode, halted, phase, scan, loop, overflow>>
      /\ ~loading' /\ ipCounted'
  BY DEF Fetch, AtFetch, Ip!FirstFetch, Ip!NextFetch, Ip!AtNext, Ip!loopVars
<1>2. /\ BootWalks(k) /\ Before(Due(k)) /\ Due(k) \in 1 .. 14
      /\ IF ipCounted THEN Due(k) = k + 1 ELSE k = 1 /\ Due(k) = 1
  BY <1>1, BootAtFetch
<1>3. PICK l \in 1 .. 14 : l = Due(k)
  BY <1>2
<1>4. ip' = BootBase + l - 1
  <2>1. CASE ~ipCounted
    BY <1>2, <1>3, <2>1
    DEF Fetch, Ip!FirstFetch, Ip!NextFetch, Ip!AtNext, InBoot
  <2>2. CASE ipCounted
    <3>1. ip' = Ip!WrapInc(ip, IpSize)
      BY <2>2 DEF Fetch, Ip!FirstFetch, Ip!NextFetch
    <3>2. l = k + 1 /\ ip = BootBase + k - 1 /\ BootBase + 14 <= IpSize
      BY <1>2, <1>3, <2>2 DEF InBoot, HoldsBoot
    <3>3. BootBase \in Nat /\ IpSize \in Nat /\ ip + 1 < IpSize /\ ip \in Nat
      BY <3>2, BootCells
    <3> QED
      BY <3>1, <3>2, <3>3 DEF Ip!WrapInc
  <2> QED
    BY <2>1, <2>2
<1>5. Before(l)'
  BY <1>1, <1>2, <1>3 DEF Before, Zeros, apVars
<1>6. l >= 13 => ap' = 0
  <2>1. CASE l = 13
    <3>1. ipCounted /\ k = 12
      BY <1>2, <1>3, <2>1
    <3>2. ~Ip!Jumps(LoopValZero)
      BY <3>1 DEF Fetch, Ip!FirstFetch, Ip!NextFetch
    <3> QED
      BY <1>1, <3>1, <3>2, BootJumps DEF apVars
  <2>2. CASE l = 14
    <3>1. k >= 13
      BY <1>2, <1>3, <2>2
    <3> QED
      BY <1>1, <1>2, <3>1 DEF BootWalks, apVars
  <2> QED
    BY <2>1, <2>2
<1>7. BootWalks(l)' /\ Due(l)' = l
  BY <1>1, <1>2, <1>5, <1>6 DEF BootWalks, Due
<1>8. InBoot(l)' /\ Steady'
  BY <1>1, <1>4, <1>7 DEF InBoot, Steady
<1> QED
  BY <1>8 DEF BootRuns

LEMMA BootStartScan ==
  ASSUME ControlInv, HoldsBoot, Steady, NEW k \in 1 .. 14, InBoot(k), StartScan
  PROVE  BootRuns'
<1>1. /\ Between /\ ipCounted /\ Ip!Jumps(LoopValZero) /\ loop' = loop + 1
      /\ scan' = IF insn = Ip!BF_LEND THEN "backward" ELSE "forward"
      /\ UNCHANGED <<apVars, mode, halted, phase, call, ip, ipCounted, overflow,
                     loading>>
  BY DEF StartScan, AtFetch, Ip!ScanStart, Ip!AtNext, ctrlVars
<1>2. k = 12 /\ ap # 0
  BY <1>1, BootJumps
<1>3. BootWalks(12) /\ Before(13) /\ ip = BootBase + 12 - 1 /\ Zeros
  BY <1>1, <1>2, BootAtFetch DEF InBoot, Before
<1>4. insn = DBG_LAEND
  BY <1>1, <1>2, BootLatched, BootOps DEF InBoot, Steady
<1>5. /\ mode = ISA_DEBUG /\ ~lock
  BY <1>3 DEF Before
<1>6. BootScans(12)'
  BY <1>1, <1>2, <1>3, <1>4, <1>5
  DEF BootScans, BootWalks, Between, Zeros, apVars, Ip!BF_LEND, DBG_LAEND
<1>7. InBoot(12)' /\ Steady'
  BY <1>1, <1>3, <1>6 DEF InBoot, Steady
<1> QED
  BY <1>7 DEF BootRuns

(* What the scan sees of the bootloader. *)
LEMMA BootScanSees ==
  ASSUME ControlInv, HoldsBoot, NEW k \in 1 .. 14, InBoot(k), scan # "none"
  PROVE  /\ BootScans(k) /\ k - 1 \in 7 .. 11
         /\ Ip!ScanPlace = BootBase + (k - 1) - 1
         /\ Ip!ScanInsn = BootCode[k - 1]
         /\ Ip!Own = 7 /\ Ip!Other = 6
<1>1. BootScans(k)
  BY DEF InBoot, BootWalks
<1>2. k \in 8 .. 12 /\ scan = "backward"
  BY <1>1 DEF BootScans
<1>3. PICK l \in 7 .. 11 : l = k - 1
  BY <1>2
<1>4. Ip!ScanPlace = BootBase + l - 1
  <2>1. ip = BootBase + l /\ ip \in Nat \ {0}
    BY <1>3, BootCells DEF InBoot
  <2>2. Ip!ScanPlace = WrapDec(ip, IpSize)
    BY <1>2 DEF Ip!ScanPlace, Ip!WrapStep, Ip!WrapDec, WrapDec
  <2>3. IpSize \in Nat \ {0} /\ ip \in 0 .. IpSize - 1 /\ ip # 0
    <3>1. BootBase + 14 <= IpSize /\ IpSize \in Nat /\ BootBase \in Nat
      BY BootCells DEF HoldsBoot
    <3> QED
      BY <1>3, <2>1, <3>1
  <2>4. Ip!ScanPlace = ip - 1
    BY <2>2, <2>3, WrapDecCases
  <2> QED
    BY <2>1, <2>4, BootCells
<1>5. Ip!ScanInsn = BootCode[l]
  BY <1>3, <1>4 DEF Ip!ScanInsn, HoldsBoot
<1> QED
  BY <1>1, <1>2, <1>3, <1>4, <1>5
  DEF Ip!Own, Ip!Other, Ip!BF_LBEG, Ip!BF_LEND

(* Backward over the cells' instructions, to the {. *)
LEMMA BootScan ==
  ASSUME ControlInv, HoldsBoot, Steady, NEW k \in 1 .. 14, InBoot(k),
         Scan \/ ScanMatch
  PROVE  BootRuns'
<1>1. scan # "none"
  BY DEF Scan, ScanMatch, Ip!ScanPass, Ip!ScanOwn, Ip!ScanOther, Ip!ScanMatch
<1>2. PICK l \in 7 .. 11 : l = k - 1
  BY <1>1, BootScanSees
<1>3. /\ BootScans(k) /\ Ip!ScanPlace = BootBase + l - 1
      /\ Ip!ScanInsn = BootCode[l] /\ Ip!Own = 7 /\ Ip!Other = 6
  BY <1>1, <1>2, BootScanSees
<1>4. Ip!ScanInsn # Ip!Own /\ (Ip!ScanInsn = Ip!Other <=> l = 7)
  BY <1>3, BootOps
  DEF OP_ISA0, OP_ISA1, OP_CLRD, BF_ADEC, DBG_LABEG
<1>5. /\ ip' = BootBase + l - 1
      /\ UNCHANGED <<apVars, mode, halted, phase, ipCounted, overflow, loading>>
      /\ IF l = 7 THEN loop' = 0 /\ scan' = "none" /\ call' = "decode"
                  ELSE UNCHANGED <<loop, scan, call>>
  BY <1>3, <1>4
  DEF Scan, ScanMatch, Ip!ScanPass, Ip!ScanOwn, Ip!ScanOther, Ip!ScanMatch,
      Ip!ScanMove, BootScans, ctrlVars
<1>6. UNCHANGED <<ap, lock, data>> /\ (Zeros => Zeros')
  BY <1>5 DEF apVars, Zeros
<1>7. l = 7 => BootWalks(l)'
  BY <1>3, <1>5, <1>6 DEF BootScans, BootWalks, Due, Before, ISA_BF, ISA_DEBUG
<1>8. l # 7 => BootScans(l)'
  BY <1>3, <1>5, <1>6 DEF BootScans
<1>9. InBoot(l)' /\ Steady'
  BY <1>5, <1>7, <1>8 DEF InBoot, Steady
<1> QED
  BY <1>9 DEF BootRuns

(* No way through the bootloader nests deeper than the counter counts. *)
LEMMA BootNoOverflow ==
  ASSUME ControlInv, HoldsBoot, Steady, NEW k \in 1 .. 14, InBoot(k)
  PROVE  ~Overflow
<1>1. ~Ip!ScanOverflow
  <2>1. SUFFICES ASSUME Ip!ScanOverflow PROVE FALSE
    OBVIOUS
  <2>2. loop = 1 /\ loop = LoopSize - 1 /\ Ip!ScanInsn = Ip!Own
    BY <2>1, BootScanSees DEF Ip!ScanOverflow, Ip!LoopTop, BootScans
  <2>3. PICK l \in 7 .. 11 : l = k - 1
    BY <2>1, BootScanSees DEF Ip!ScanOverflow
  <2>4. Ip!ScanInsn = BootCode[l] /\ Ip!Own = 7
    BY <2>1, <2>3, BootScanSees DEF Ip!ScanOverflow
  <2>5. BootCode[l] # 7
    BY BootOps
    DEF OP_ISA0, OP_ISA1, OP_CLRD, BF_ADEC, DBG_LABEG
  <2> QED
    BY <2>2, <2>4, <2>5
<1>2. ASSUME AtFetch, Ip!StartOverflow(LoopValZero) PROVE FALSE
  <2>1. loop = LoopSize - 1 /\ Between
    BY <1>2 DEF Ip!StartOverflow, Ip!LoopTop, AtFetch
  <2>2. loop = 0
    BY <2>1, BootAtFetch DEF BootWalks
  <2> QED
    BY <2>1, <2>2, BootCells
<1> QED
  BY <1>1, <1>2 DEF Overflow

(* A part of a call of step() in the bootloader. *)
LEMMA BootStep ==
  ASSUME ControlInv, HoldsBoot, BootRuns, RunStep
  PROVE  BootRuns'
<1>0. Steady /\ ~Stopped /\ CallInv
  BY DEF BootRuns, RunStep, ControlInv
<1>1. ~Cleared
  BY <1>0 DEF Cleared, Stopped, ControlInv, HaltedIsFresh
<1>2. PICK k \in 1 .. 14 : InBoot(k)
  BY <1>1 DEF BootRuns
<1>3. ~LoadFetch /\ ~TakeInsn /\ ~WaitInsn /\ ~ReadCin
  BY <1>0
  DEF Steady, CallInv, LoadFetch, Ip!LoadFetch, TakeInsn, WaitInsn, AtInsn,
      ReadCin, FinishCin, AtCin
<1> QED
  BY <1>0, <1>2, <1>3, BootDecode, BootFetch, BootStartScan, BootScan,
     BootNoOverflow
  DEF RunStep

-----------------------------------------------------------------------------
(* main() before the reset, and after it. *)
BootIdle == Between /\ ~ipCounted /\ ~loading /\ phase = "FETCH"
BootReady ==
  /\ Between /\ Steady /\ ~ipCounted
  /\ ip = BootBase /\ loop = 0 /\ Before(1)

BootMain ==
  /\ stage \in Stages /\ job \in Jobs /\ steps = 0
  /\ stage \in {"load", "boot", "reset"} => BootIdle
  /\ stage \in {"reset", "key", "step"} => HoldsBoot
  /\ stage = "key" => BootReady
  /\ stage = "step" => BootRuns
  /\ BootClears

BootInv == ControlInv /\ BootMain

LEMMA BootHoldsOn ==
  ASSUME HoldsBoot, UNCHANGED <<codeRam, bootRom>>
  PROVE  HoldsBoot'
<1>1. \A a : Ip!ReadCode(a)' = Ip!ReadCode(a)
  BY DEF Ip!ReadCode
<1> QED
  BY <1>1 DEF HoldsBoot

LEMMA BootMemory ==
  ASSUME RunStep, ~TakeInsn
  PROVE  UNCHANGED <<codeRam, bootRom>>
<1> USE DEF Ip!memVars, ipVars
<1>1. CASE Fetch \/ StartScan \/ LoadFetch
  BY <1>1 DEF Fetch, StartScan, LoadFetch, Ip!FirstFetch, Ip!NextFetch,
              Ip!ScanStart, Ip!LoadFetch
<1>2. CASE Scan \/ ScanMatch \/ Overflow
  BY <1>2 DEF Scan, ScanMatch, Overflow, Ip!ScanPass, Ip!ScanOwn, Ip!ScanOther,
              Ip!ScanMatch, Ip!ScanMove, Ip!StartOverflow, Ip!ScanOverflow
<1>3. CASE WaitInsn \/ ReadCin
  BY <1>3 DEF WaitInsn, ReadCin, FinishCin
<1>4. CASE Decode
  BY <1>4
  DEF Decode, DecodeEot, DecodeIsa, DecodeStored, DecodeNop, DecodeHalt,
      DecodeBell, DecodeReset, DecodeIp, DecodeAp, DecodeCout, DecodeCin,
      EnterHalt, ResetCounters, Ip!EndLoading, Ip!EnterHalt, Ip!IpReset,
      Ip!StartLoading, Ip!ClrL, Ip!ClrI
<1> QED
  BY <1>1, <1>2, <1>3, <1>4 DEF RunStep

(* A load of any program leaves the machine as coherent as it was. *)
LEMMA BootLoads ==
  ASSUME ControlInv, BootIdle, RunsBoot(job), LoadSource \/ LoadBoot
  PROVE  ControlInv' /\ BootIdle'
<1>1. /\ UNCHANGED <<apVars, ctrlVars, cfg, queueVars, tx, statVars>>
      /\ UNCHANGED <<ip, insn, ipCounted, loop, overflow, scan, loading>>
  BY DEF LoadSource, LoadBoot, Ip!LoadCode, Ip!SetBootRom, Ip!loopVars
<1>2. Ip!TypeOK
  BY DEF ControlInv, TypeInv, LineInv
<1>3. /\ codeRam' \in [Ip!RamPlace -> Opcode]
      /\ bootRom' \in [Ip!RomPlace -> Opcode]
  <2>1. CASE LoadSource
    <3>1. Code \in Seq(Opcode)
      BY AssembleType DEF RunsBoot, Code
    <3>2. Append(Code, OP_HALT) \in Seq(Opcode)
      BY <3>1 DEF Opcode, OP_HALT
    <3>3. codeRam' \in [Ip!RamPlace -> Opcode]
      BY <1>2, <2>1, <3>2, LoadTypes DEF LoadSource
    <3> QED
      BY <1>2, <2>1, <3>3
      DEF LoadSource, Ip!LoadCode, Ip!TypeOK, Ip!Opcode, Opcode
  <2>2. CASE LoadBoot
    <3>1. Ip!SetBootRom(BootCode)
      BY <2>2, AssembledBoot DEF LoadBoot, RunsBoot
    <3>2. BootCode \in Seq(Opcode)
      BY DEF BootCode, Opcode, OP_ISA0, OP_ISA1, OP_CLRD, OP_HALT, BF_ADEC,
             DBG_CLRA, DBG_LABEG, DBG_LAEND
    <3>3. PICK rom \in Seq(Opcode) : Ip!SetBootRom(rom)
      BY <3>1, <3>2
    <3> QED
      BY <1>2, <3>3, DekatronPCAssumption
      DEF Ip!SetBootRom, Ip!TypeOK, Ip!Opcode, Opcode, Ip!RomPlace, Ip!OP_NOP
  <2> QED
    BY <2>1, <2>2
<1>4. LineInv'
  BY <1>1, <1>2, <1>3
  DEF ControlInv, TypeInv, LineInv, BootIdle, apVars, Ap!TypeOK,
      Ap!RegCoherent, Ip!TypeOK, Ip!LoopCounterClean, Ip!LatchedInsn,
      Ip!Opcode, Opcode
<1>5. ControlTypes'
  BY <1>1 DEF ControlInv, TypeInv, ControlTypes, ctrlVars, queueVars, statVars
<1>6. (CallInv /\ WaitIsConsistent /\ HaltedIsFresh)'
  BY <1>1 DEF ControlInv, CallInv, WaitIsConsistent, HaltedIsFresh, Between,
              ctrlVars
<1>7. BootIdle'
  BY <1>1 DEF BootIdle, Between, ctrlVars
<1> QED
  BY <1>4, <1>5, <1>6, <1>7 DEF ControlInv, TypeInv

(* Nothing is refused: main() loads, resets, runs. *)
LEMMA BootNotRefused ==
  ASSUME RunsBoot(job)
  PROVE  ~Refuse /\ ~Throw /\ ~RefuseBoot
BY DEF RunsBoot, Refuse, Throw, RefuseBoot, NoProgram, BadTop, Code

LEMMA BootLoadsMain ==
  ASSUME BootInv, BootJobs, LoadSource \/ LoadBoot
  PROVE  BootInv'
<1>1. RunsBoot(job) /\ BootBase + Len(Bootloader) <= IpSize
  BY DEF BootInv, BootMain, BootJobs
<1>2. /\ stage \in {"load", "boot"} /\ BootIdle
      /\ stage' = IF LoadSource THEN "boot" ELSE "reset"
      /\ UNCHANGED <<job, steps>>
  BY DEF BootInv, BootMain, LoadSource, LoadBoot, Goes
<1>3. ControlInv' /\ BootIdle'
  BY <1>1, <1>2, BootLoads DEF BootInv
<1>4. stage' = "reset" => HoldsBoot'
  BY <1>1, <1>2, BootHolds
<1> QED
  BY <1>2, <1>3, <1>4 DEF BootInv, BootMain, Stages, BootClears

LEMMA BootResetMain ==
  ASSUME BootInv, BootJobs, StartReset
  PROVE  BootMain'
<1>1. RunsBoot(job) /\ HoldsBoot /\ BootIdle
  BY DEF BootInv, BootMain, BootJobs, StartReset, Goes
<1>2. HardReset /\ stage' = "key" /\ UNCHANGED <<job, steps>>
  BY <1>1 DEF StartReset, Goes, RunsBoot
<1>3. /\ ap' = 0 /\ ~lock' /\ mode' = ISA_DEBUG /\ phase' = "FETCH"
      /\ ip' = BootBase /\ ~ipCounted' /\ loop' = 0 /\ ~overflow' /\ ~loading'
      /\ UNCHANGED <<call, scan, codeRam, bootRom>>
  BY <1>2 DEF HardReset, ResetCounters, Ap!ApReset, Ip!IpReset, Ip!ResetLines,
              Ip!memVars
<1>4. HoldsBoot'
  BY <1>1, <1>3, BootHoldsOn
<1>5. Before(1)'
  BY <1>3 DEF Before
<1>6. BootReady'
  BY <1>1, <1>3, <1>5 DEF BootReady, BootIdle, Between, Steady
<1> QED
  BY <1>2, <1>4, <1>6 DEF BootInv, BootMain, Stages, BootClears

LEMMA BootKeyMain ==
  ASSUME BootInv, RunKey
  PROVE  BootMain'
<1>1. /\ Run /\ HoldsBoot /\ BootReady /\ stage' = "step"
      /\ UNCHANGED <<job, steps>>
  BY DEF BootInv, BootMain, RunKey, Goes
<1>2. /\ ~halted' /\ UNCHANGED <<apVars, ipVars, mode, phase, call>>
  BY <1>1 DEF Run
<1>3. UNCHANGED <<ap, lock, data, dataMem, ip, ipCounted, loop, overflow, scan,
                  loading, codeRam, bootRom>>
  BY <1>2 DEF apVars, ipVars
<1>4. HoldsBoot'
  BY <1>1, <1>3, BootHoldsOn
<1>5. Before(1)'
  BY <1>1, <1>2, <1>3 DEF BootReady, Before
<1>6. BootWalks(1)'
  BY <1>1, <1>2, <1>3, <1>5 DEF BootReady, BootWalks, Between, Due
<1>7. InBoot(1)'
  BY <1>1, <1>3, <1>6, BootCells DEF InBoot, BootReady, BootInv
<1>8. Steady'
  BY <1>1, <1>2, <1>3 DEF BootReady, Steady
<1> QED
  BY <1>1, <1>4, <1>7, <1>8 DEF BootRuns, BootInv, BootMain, Stages, BootClears

LEMMA BootStepMain ==
  ASSUME BootInv, BootJobs, RunStep
  PROVE  BootInv'
<1>1. /\ ControlInv /\ HoldsBoot /\ BootRuns /\ job.limit = Unlimited
      /\ UNCHANGED <<stage, job>>
  BY DEF BootInv, BootMain, BootJobs, RunsBoot, RunStep
<1>2. BootRuns'
  BY <1>1, BootStep
<1>3. ~TakeInsn /\ ~ReadCin
  BY <1>1 DEF BootRuns, Steady, ControlInv, CallInv, TakeInsn, AtInsn, ReadCin,
              FinishCin, AtCin
<1>4. HoldsBoot'
  BY <1>1, <1>3, BootMemory, BootHoldsOn
<1>5. steps' = 0
  BY <1>1 DEF RunStep, BootInv, BootMain
<1>6. [Next]_vars
  BY <1>3 DEF RunStep, Next, Step, Continue
<1>7. ControlInv'
  BY <1>1, <1>6, NextControl, NextTypeInv DEF ControlInv
<1> QED
  BY <1>1, <1>2, <1>4, <1>5, <1>7
  DEF BootInv, BootMain, RunStep, BootClears, Stages

(* The bootloader ends cleared. *)
LEMMA BootFinishMain ==
  ASSUME BootInv, BootJobs, Finish
  PROVE  BootMain'
<1>1. /\ ControlInv /\ BootRuns /\ job.limit = Unlimited
      /\ Stopped \/ OutOfSteps
      /\ stage' = "done" /\ UNCHANGED <<machineVars, job, steps>>
  BY DEF BootInv, BootMain, BootJobs, RunsBoot, Finish, Quits
<1>2. Stopped
  BY <1>1 DEF OutOfSteps, BootInv, BootMain, BootJobs
<1>3. halted
  BY <1>1, <1>2 DEF Stopped, BootRuns, Steady
<1>4. Cleared
  BY <1>1, <1>3 DEF BootRuns, InBoot, BootWalks, BootScans
<1>5. /\ halted /\ ap = 0 /\ ~lock /\ mode = ISA_BF /\ loop = 0 /\ Zeros
  BY <1>4 DEF Cleared, Before
<1>6. ASSUME NEW a \in Ap!Addr PROVE dataMem[a] = 0
  BY <1>1, <1>5, BootCells DEF Zeros
<1>7. UNCHANGED <<halted, ap, lock, mode, loop, dataMem>>
  BY <1>1 DEF machineVars, apVars, ipVars, ctrlVars
<1>8. BootClears'
  BY <1>5, <1>6, <1>7 DEF BootClears, Ap!Addr
<1> QED
  BY <1>1, <1>8 DEF BootInv, BootMain, Stages

(* What the host puts in the cells does not matter. *)
LEMMA BootSetsMain ==
  ASSUME BootInv, stage = "load", NEW a \in Ap!Addr, NEW v \in Inputs,
         SetCell(a, v), UNCHANGED <<job, stage, exit, steps, input, origin>>
  PROVE  BootInv'
<1>1. [Next]_vars
  BY DEF Next, Host
<1>2. ControlInv'
  BY <1>1, NextControl, NextTypeInv DEF BootInv, ControlInv
<1>3. BootIdle'
  BY DEF BootInv, BootMain, SetCell, BootIdle, Between, ipVars, ctrlVars
<1> QED
  BY <1>2, <1>3 DEF BootInv, BootMain, Stages, BootClears

LEMMA BootSame ==
  ASSUME BootInv, UNCHANGED runVars
  PROVE  BootMain'
<1>1. /\ UNCHANGED <<dataMem, ap, data, lock, codeRam, bootRom, ip, ipCounted,
                     loop, overflow, scan, loading, mode, halted, phase, call,
                     job, stage, steps>>
  BY DEF runVars, machineVars, apVars, ipVars, ctrlVars
<1>2. HoldsBoot => HoldsBoot'
  BY <1>1, BootHoldsOn
<1>3. BootIdle => BootIdle'
  BY <1>1 DEF BootIdle, Between
<1>4. \A e : Before(e) => Before(e)'
  BY <1>1 DEF Before, Zeros
<1>5. BootReady => BootReady'
  BY <1>1, <1>4 DEF BootReady, Between, Steady
<1>6. ASSUME NEW k \in 1 .. 14, InBoot(k) PROVE InBoot(k)'
  <2>1. Due(k)' = Due(k)
    BY <1>1 DEF Due
  <2>2. BootWalks(k) => BootWalks(k)'
    BY <1>1, <1>4, <2>1 DEF BootWalks
  <2>3. BootScans(k) => BootScans(k)'
    BY <1>1 DEF BootScans, Zeros
  <2> QED
    BY <1>1, <1>6, <2>2, <2>3 DEF InBoot
<1>7. BootRuns => BootRuns'
  BY <1>1, <1>4, <1>6 DEF BootRuns, Steady, Cleared
<1> QED
  BY <1>1, <1>2, <1>3, <1>5, <1>7 DEF BootInv, BootMain, BootClears

LEMMA NextBootInv ==
  ASSUME BootInv, BootJobs, [BootNext]_runVars
  PROVE  BootInv'
<1>1. RunsBoot(job) /\ ControlInv
  BY DEF BootInv, BootMain, BootJobs
<1>2. ASSUME [Next]_vars, BootMain' PROVE BootInv'
  BY <1>1, <1>2, NextControl, NextTypeInv DEF BootInv, ControlInv
<1>3. CASE LoadSource \/ LoadBoot
  BY <1>3, BootLoadsMain
<1>4. CASE StartReset
  <2>1. [Next]_vars
    BY <1>4 DEF StartReset, Next, Panel
  <2> QED
    BY <1>2, <1>4, <2>1, BootResetMain
<1>5. CASE RunKey
  <2>1. [Next]_vars
    BY <1>5 DEF RunKey, Next, Panel
  <2> QED
    BY <1>2, <1>5, <2>1, BootKeyMain
<1>6. CASE RunStep
  BY <1>6, BootStepMain
<1>7. CASE Finish
  <2>1. UNCHANGED vars
    BY <1>7 DEF Finish, Quits, machineVars, vars
  <2> QED
    BY <1>2, <1>7, <2>1, BootFinishMain
<1>8. CASE UNCHANGED runVars
  <2>1. UNCHANGED vars
    BY <1>8 DEF runVars, machineVars, vars
  <2> QED
    BY <1>2, <1>8, <2>1, BootSame
<1>9. CASE BootNext /\ ~RunNext
  BY <1>9, BootSetsMain DEF BootNext
<1> QED
  BY <1>1, <1>3, <1>4, <1>5, <1>6, <1>7, <1>8, <1>9, BootNotRefused
  DEF BootNext, RunNext

LEMMA InitBootInv ==
  ASSUME RunInit
  PROVE  BootInv
<1>1. ControlInv
  BY InitControlInv DEF RunInit
<1> QED
  BY <1>1 DEF RunInit, BootInv, BootMain, Stages, BootIdle, Between, BootClears,
              Init, Ip!Init

(* Whatever the cells held, and however many there are: a run of dpcrun -B *)
(* with the bootloader of the tests ends with every cell zero, at AP 0, in *)
(* the Brainfuck ISA.                                                      *)
THEOREM BootloaderClears ==
  ASSUME BootJobs
  PROVE  BootSpec => []BootClears
<1>1. RunInit => BootInv
  BY InitBootInv
<1>2. BootInv /\ [BootNext]_runVars => BootInv'
  BY NextBootInv
<1>3. BootInv => BootClears
  BY DEF BootInv, BootMain
<1> QED
  BY <1>1, <1>2, <1>3, PTL DEF BootSpec
=============================================================================
