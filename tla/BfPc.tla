-------------------------------- MODULE BfPc --------------------------------
(***************************************************************************)
(* bfpp and bfrun together, one after the other as in test.sh: a source is *)
(* compiled, written as an image, loaded and executed, in step with        *)
(* what the language says of the same source.  An array is not for bfrun,  *)
(* but for a program that is built with it and executes it.  After every   *)
(* instruction the language does the commands that the instruction stands  *)
(* for, until it is at the next one.  A program that leaves the data for   *)
(* the code is beyond the language and is followed no further; so is one   *)
(* with a stray ], to which the language gives no meaning, and one that    *)
(* reads more than the bound.                                              *)
(***************************************************************************)
EXTENDS BfRun

CONSTANTS
  Jobs,       \* sets of source, -O level, format of the output, -x, words of
              \* the input, and what cannot be opened: "none", "source" or
              \* "output"
  MaxReads    \* bound: characters that a program reads

ASSUME BfPcAssumption ==
  /\ MaxReads \in Nat
  /\ Jobs \subseteq [source : Seq(STRING), level : 0 .. 1, wordMode : BOOLEAN,
                     words : Seq(Seq(Word)), format : {"image", "hex", "text"},
                     lacks : {"none", "source", "output"}]

VARIABLES
  job, stage,
  status,           \* what the program that ended last returned
  cmds, file,      \* the compiled list, and the image written from it
  program, lpc, ltape, lptr, linput, lout    \* the language

languageVars == <<program, lpc, ltape, lptr, linput, lout>>
vars == <<job, cmds, file, stage, status, languageVars, bfrunVars>>

CRASH == 139    \* what the shell says of a program that was stopped

(* The language has no ~, and its input is what the console should give. *)
Source == At(job.source, {i \in DOMAIN job.source :
                            /\ IsASymbol(job.source[i])
                            /\ job.source[i] # "~"})
Characters == [n \in 1 .. MaxReads |-> Stream(job.words, n)]
CellSize == IF WordModeEnabled THEN WordSize ELSE ByteSize

(* bfrun does not show what is typed; ~TRUE, because TLC has no UNCHANGED  *)
(* of the name FALSE.                                                      *)
L == INSTANCE Brainfuck WITH
  ApTop <- WordSize - 1, DataTop <- ByteSize - 1, MaxTx <- MaxOut,
  echo <- ~TRUE, cut <- ~TRUE,
  pc <- lpc, tape <- ltape, ptr <- lptr, input <- linput, out <- lout

(* The same on cells of a word. *)
LWord == INSTANCE Brainfuck WITH
  ApTop <- WordSize - 1, DataTop <- WordSize - 1, MaxTx <- MaxOut,
  echo <- ~TRUE, cut <- ~TRUE,
  pc <- lpc, tape <- ltape, ptr <- lptr, input <- linput, out <- lout

-----------------------------------------------------------------------------
(* How many commands of the source an instruction stands for, and how many *)
(* come before the one at ip.                                              *)
Width(cmd) ==
  CASE cmd.c \in {">", "+"} -> cmd.bias
    [] cmd.c \in {"<", "-"} -> WordSize - cmd.bias
    [] cmd.c \in {"[", "]", ".", ","} -> 1
    [] cmd.c = "0" -> 3
    [] OTHER -> 0

Prologue == IF job.level = 0 THEN 2 ELSE 1

Place(ip) ==
  LET before[i \in 0 .. Len(cmds)] ==
        IF i <= Prologue THEN 0 ELSE before[i - 1] + Width(cmds[i])
  IN  before[IF ip < Len(cmds) THEN ip ELSE Len(cmds)]

(* Where the cell 0 of the language is in memory. *)
Origin == Int16(ApShift + IF array THEN 0 ELSE ApEntry(Len(cmds)))
InData(ap) == ap \in Len(cmds) .. WordSize - 1

-----------------------------------------------------------------------------
Init ==
  /\ job \in Jobs
  /\ cmds = <<>> /\ file = <<>>
  /\ stage = "source" /\ status = 0
  /\ program = Source
  /\ lpc = 0 /\ lptr = 0 /\ lout = <<>>
  /\ ltape = [p \in Word |-> 0]
  /\ linput = Characters
  /\ BfRunInit(job.words, job.wordMode, job.format = "hex")

(* main() of bfpp, with Bf::Compile.  What SaveOutput returns is not       *)
(* looked at.                                                              *)
BfppMain ==
  /\ stage = "source"
  /\ UNCHANGED <<job, languageVars, bfrunVars>>
  /\ \E input \in {Translate(job.source)} :
       \E output \in {Optimize(input, job.level)} :
         IF job.lacks = "source" \/ LinkingFails(output)
         THEN /\ stage' = "ended" /\ status' = -2
              /\ UNCHANGED <<cmds, file>>
         ELSE /\ stage' = "compiled" /\ status' = 0
              /\ cmds' = Linking(output)
              /\ file' = IF job.lacks = "output" THEN <<>>
                         ELSE SaveOutput(cmds', job.format)

Start ==
  /\ stage = "compiled" /\ Good(file)
  /\ UNCHANGED <<job, cmds, file, status, languageVars>>
  /\ IF array
     THEN LoadArray(file)
     ELSE ~Wrong(file) /\ \E image \in {ReadImage(file)} : Load(image)
  /\ stage' = IF L!Balanced(program) THEN "execute" ELSE "beyond"

(* bfrun has no image.  Of a file with another magic it copies sections    *)
(* that it did not read, and then looks at the error.                      *)
Refuse ==
  /\ stage = "compiled" /\ ~array
  /\ \/ ~Good(file) /\ status' = -1
     \/ Good(file) /\ Wrong(file) /\ status' \in {-1, CRASH}
  /\ stage' = "ended"
  /\ UNCHANGED <<job, cmds, file, languageVars, bfrunVars>>

Beyond ==
  \/ Here >= Prologue /\ ~InData(AP)
  \/ IsIO(CMD_INPUT_MASK) /\ linput = <<>>

(* NOP, HALT and the prologue stand for nothing in the source. *)
Idle == Here < Prologue \/ Width(cmds[Here + 1]) = 0

Instruction ==
  /\ stage = "execute" /\ running /\ ~Beyond
  /\ UNCHANGED <<job, cmds, file, status, languageVars>>
  /\ ExecCode
  /\ stage' = IF Idle THEN "execute" ELSE "language"

Leave ==
  /\ stage = "execute" /\ running /\ Beyond
  /\ UNCHANGED <<job, cmds, file, status, languageVars, bfrunVars>>
  /\ stage' = "beyond"

LanguageStep ==
  /\ stage = "language"
  /\ UNCHANGED <<job, cmds, file, status, bfrunVars>>
  /\ IF WordModeEnabled THEN LWord!Next ELSE L!Next
  /\ stage' = IF lpc' = Place(Here) THEN "execute" ELSE "language"

Exit ==
  /\ stage = "execute" /\ ~running
  /\ UNCHANGED <<job, cmds, file, languageVars, bfrunVars>>
  /\ stage' = "ended" /\ status' = 0

Next ==
  \/ BfppMain \/ Start \/ Refuse
  \/ Instruction \/ Leave \/ LanguageStep \/ Exit

(* Two programs without a wait. *)
Spec == Init /\ [][Next]_vars /\ WF_vars(Next)

-----------------------------------------------------------------------------
(* Every word, pointer and byte is in the range of its C type, whatever    *)
(* the program adds and wherever it moves (bfrun.cpp:112-184).             *)
TypeOK ==
  /\ mem \in [Word -> Word]
  /\ {IP, AP, AP_MAX} \subseteq Word
  /\ Len(out) <= MaxOut
  /\ \A i \in DOMAIN out : LowByte(out[i]) = out[i]

Ran == stage = "ended" /\ status = 0

(* After every instruction the emulator is where the language is, with the *)
(* same pointer, cells and output, and at its exit the program is over.    *)
(* Merged runs, the clear instruction, jumps that pass their match, words  *)
(* for bytes and 13-bit counts are invisible, and the console loses no     *)
(* character, keeps the words apart and at the end repeats the last one    *)
(* whole (Bf.cpp:88-265, cmd.cpp:132-180, bfrun.cpp:112-184,               *)
(* Console.cpp:47-69).                                                     *)
SameCells ==
  /\ Ran => L!Done
  /\ (stage = "execute" \/ Ran) /\ Here >= Prologue =>
       /\ lpc = Place(Here)
       /\ AP = Int16(Origin + lptr)
       /\ LET data == Len(cmds) .. WordSize - 1
              origin == Origin
          IN  \A a \in data :
                mem[a] % CellSize = ltape[Int16(a - origin)]
       /\ out = [i \in DOMAIN lout |-> LowByte(lout[i])]

(* The language comes to the place of the next instruction: no instruction *)
(* skips a command, repeats one, or clears a cell that a loop would leave  *)
(* (Bf.cpp:154-197, bfrun.cpp:161-177).                                    *)
KeepsUp == stage = "language" ~> stage = "execute"

(* bfrun exits when the program is over, though it ignores HALT and stops  *)
(* only at the end of the code section (bfrun.cpp:118, 177).               *)
EndsTogether == L!Done ~> stage \in {"ended", "beyond"}

Kinds == [i \in DOMAIN cmds |-> cmds[i].c]

(* README.md:61: "resolve every [ and ] to a relative jump to its matching *)
(* bracket".  The word in memory, as ExecCode decodes it, takes IP from    *)
(* each bracket to its match (Bf.cpp:216-265, cmd.cpp:132-180).            *)
LinksMatch ==
  stage \in {"execute", "language"} =>
    \A i, j \in DOMAIN cmds : L!Encloses(Kinds, i, j) =>
      /\ Int16(i + Bias(mem[i - 1])) = j
      /\ Int16(j + Bias(mem[j - 1])) = i

(* README.md:145: bfrun "loads every section into one 64K-word memory".    *)
(* As long as the program runs on its data, the code in memory is what was *)
(* compiled, word for word (Image.cpp:33-137, Command.cpp:31-46).          *)
ImageHolds ==
  stage \in {"execute", "language"} \/ Ran =>
    \A i \in DOMAIN cmds : mem[i - 1] = GetCmd(cmds[i])

(* bfpp fails exactly when it cannot read the source or a [ is never       *)
(* closed, in whatever order and nesting the other brackets come, and -O1  *)
(* takes no half of a pair away.  A ] that closes nothing is not looked    *)
(* for: it neither makes bfpp fail nor keeps it from failing; see          *)
(* ShiftsHaveSigns (Bf.cpp:154-265, bfpp.cpp:285-322).                     *)
RejectsUnclosed ==
  stage # "source" =>
    (status = -2 <=>
       \/ job.lacks = "source"
       \/ \E i \in DOMAIN program :
            /\ program[i] = "["
            /\ \A j \in DOMAIN program : ~L!Encloses(program, i, j))

(* What Bf.cpp:243-244 say of the list that Linking accepts: "[ should get *)
(* shift > 0", "] should get shift < 0", as signed words.  It is not so of *)
(* a ] without a [, which keeps the shift 0 it was made with.              *)
ShiftsHaveSigns ==
  stage = "compiled" =>
    \A i \in DOMAIN cmds :
      /\ cmds[i].c = "[" => cmds[i].bias \in 1 .. (WordSize \div 2) - 1
      /\ cmds[i].c = "]" => cmds[i].bias \in WordSize \div 2 .. WordSize - 1

-----------------------------------------------------------------------------
(* What the words and the file have room for.  Nothing in bfpp checks it.  *)
Output(j) == Optimize(Translate(j.source), j.level)

(* The size in bytes of the code section is a word. *)
FilesFit == \A j \in Jobs : 2 * Len(Output(j)) < WordSize

KindsIn(list) == [i \in DOMAIN list |-> list[i].c]

(* No loop is longer than a jump can pass. *)
LoopsFit ==
  \A j \in Jobs : \A i, k \in DOMAIN Output(j) :
    L!Encloses(KindsIn(Output(j)), i, k) => k - i < BiasHalf

(* No run is longer than a count.  Bytes take as much as a word holds, but *)
(* for the run that -O1 takes for a single command of the other sign.      *)
RunsFit ==
  \A j \in Jobs :
    LET text == Strip(j.source)
    IN  \A i \in DOMAIN text : text[i] \in Incrementers =>
          RunLength(text, i) < IF j.wordMode \/ text[i] \in {">", "<"}
                               THEN BiasHalf ELSE WordSize - 1

(* The prologue moves by ApShift, a negative count, and is executed: an    *)
(* array loses its first word, which -O1 has not put a NOP in.             *)
ProloguesFit ==
  /\ ApShift >= WordSize - BiasHalf
  /\ \A j \in Jobs : /\ Len(Strip(j.source)) < ApShift
                     /\ j.format = "hex" => j.level = 0

(* Words of the input are not empty, and characters are bytes. *)
InputsFit ==
  \A j \in Jobs : \A w \in DOMAIN j.words :
    j.words[w] # <<>> /\ j.words[w] \in Seq(1 .. ByteSize - 1)

-----------------------------------------------------------------------------
(* How far a program may move from its first cell: from the middle of      *)
(* memory down to its code, or from behind an array up to its code.        *)
Reach ==
  LET size == Len(cmds)
      shift == WordSize - ApShift
  IN  IF array THEN shift - 1
      ELSE (WordSize \div 2) - 1 - size - (size \div 2) - shift

(* README.md:133: AP starts in the middle of memory.  A program that keeps *)
(* to that many cells on either side never has its AP in the code, which   *)
(* nothing else would keep it from (bfpp.cpp:209-214, bfrun.cpp:155-159).  *)
StaysOnData ==
  stage \in {"execute", "beyond"} /\ Here >= Prologue /\ ~InData(AP) =>
    lptr \in Reach + 1 .. WordSize - Reach - 1
=============================================================================
