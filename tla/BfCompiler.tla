----------------------------- MODULE BfCompiler -----------------------------
(***************************************************************************)
(* The compiler of bfpp (class Bf): Brainfuck text to a list of commands.  *)
(* It drops comments, merges runs, frames the program, replaces [-] and    *)
(* [+] with -O1, and gives every bracket the distance to its match.        *)
(***************************************************************************)
EXTENDS BfWords, Places, FiniteSets, SequencesExt

CONSTANT ApShift    \* what the prologue adds to AP: 0xff00 in the code

ASSUME BfCompilerAssumption == ApShift \in Word

Symbols == {">", "<", "+", "-", ".", ",", "[", "]", "~"}
Incrementers == {">", "<", "+", "-"}

IsASymbol(c) == c \in Symbols
Strip(source) == At(source, {i \in DOMAIN source : IsASymbol(source[i])})

(* A run of one incrementer is issued at its last symbol.  The debug       *)
(* symbol ~ issues nothing, but it does end a run.                         *)
Issues(text, i) ==
  IF text[i] \in Incrementers
  THEN i = Len(text) \/ text[i + 1] # text[i]
  ELSE text[i] # "~"

(* Mutant of RunLength: the count goes on over the last run. *)
RunLengthKept(text, i) ==
  Cardinality({k \in 1 .. i : text[k] \in Incrementers})

(* How many of the symbol at i end there. *)
RunLength(text, i) ==
  i - Max({k \in 1 .. i : text[k] # text[i]} \union {0})

Translate(source) ==
  LET text == Strip(source)
      issued == {i \in DOMAIN text : Issues(text, i)}
      command == [i \in DOMAIN text |->
                    Cmd(text[i], IF text[i] \in Incrementers
                                 THEN RunLength(text, i) ELSE 0)]
  IN  <<Cmd(" ", 0),
        Cmd(">", IF ApShift > Len(text) THEN ApShift ELSE Len(text))>>
      \o At(command, issued)
      \o <<Cmd("H", 0)>>

-----------------------------------------------------------------------------
(* [-] or [+].  The HALT of Translate keeps the look-ahead in the list.    *)
Clears(cmds, i) ==
  /\ i \in 1 .. Len(cmds) - 2
  /\ cmds[i].c = "[" /\ cmds[i + 2].c = "]"
  /\ cmds[i + 1].c \in {"-", "+"}
  /\ cmds[i + 1].bias \in {1, WordSize - 1}

(* -O1 leaves out what it has no case for: the leading NOP and the HALT.   *)
OptimizeDataClr(cmds) ==
  LET kept == {i \in DOMAIN cmds :
                 /\ cmds[i].c \in Symbols
                 /\ ~Clears(cmds, i - 1) /\ ~Clears(cmds, i - 2)}
      cleared == [i \in DOMAIN cmds |->
                    IF Clears(cmds, i) THEN Cmd("0", 0) ELSE cmds[i]]
  IN  At(cleared, kept)

Optimize(cmds, level) == IF level = 0 THEN cmds ELSE OptimizeDataClr(cmds)

-----------------------------------------------------------------------------
Brackets(cmds, b, i, j) == Cardinality({k \in i .. j : cmds[k].c = b})

(* Mutant of FindLoopEnd: the first ] ends the loop. *)
FindLoopEndFlat(cmds, i) ==
  Min({j \in i + 1 .. Len(cmds) : cmds[j].c = "]"} \union {Len(cmds) + 1})

(* Where the loop opened at i is closed, or past the end of the list. *)
FindLoopEnd(cmds, i) ==
  Min({j \in i + 1 .. Len(cmds) :
         Brackets(cmds, "]", i, j) = Brackets(cmds, "[", i, j)}
      \union {Len(cmds) + 1})

Opens(cmds) == {i \in DOMAIN cmds : cmds[i].c = "["}

(* Only [ is looked for: a ] that closes nothing keeps the count 0. *)
LinkingFails(cmds) ==
  cmds = <<>> \/ \E i \in Opens(cmds) : FindLoopEnd(cmds, i) > Len(cmds)

Linking(cmds) ==
  [j \in DOMAIN cmds |->
     LET opening == {i \in Opens(cmds) : FindLoopEnd(cmds, i) = j}
     IN  CASE cmds[j].c = "[" ->
                [cmds[j] EXCEPT !.bias = Int16(FindLoopEnd(cmds, j) - j)]
           [] cmds[j].c = "]" /\ opening # {} ->
                [cmds[j] EXCEPT !.bias = Int16(Max(opening) - j)]
           [] OTHER -> cmds[j]]

=============================================================================
