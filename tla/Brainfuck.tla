----------------------------- MODULE Brainfuck ------------------------------
(***************************************************************************)
(* The language: what a program in plain Brainfuck means, on a ring of     *)
(* cells that count modulo DataTop + 1.  A bracket that jumps goes to its  *)
(* matching bracket, which then decides for itself.                        *)
(***************************************************************************)
EXTENDS Naturals, Sequences, FiniteSets

CONSTANTS
  ApTop, DataTop,
  MaxTx       \* the last characters of the output that are kept

VARIABLES
  program, echo,    \* fixed: the program, and whether input is shown
  cut,              \* someone ends the run before the program does
  pc, tape, ptr, input, out

vars == <<program, echo, pc, tape, ptr, input, out>>

Commands == {"+", "-", ">", "<", "[", "]", ".", ","}

(* How many brackets of one kind the places from i to j hold. *)
Brackets(code, b, i, j) == Cardinality({k \in i .. j : code[k] = b})

(* Places are numbered from 0, as in the machine. *)
Command == program[pc + 1]

(* In the code between two matching brackets every level that is opened is *)
(* closed, and the second of the pair is the first place where it is so.   *)
Encloses(code, i, j) ==
  /\ code[i] = "[" /\ code[j] = "]" /\ i < j
  /\ Brackets(code, "[", i, j) = Brackets(code, "]", i, j)
  /\ \A k \in i .. j - 1 : Brackets(code, "[", i, k) > Brackets(code, "]", i, k)

Match(i) ==
  CHOOSE j \in DOMAIN program :
    Encloses(program, i, j) \/ Encloses(program, j, i)

Balanced(code) ==
  \A i \in DOMAIN code : code[i] \in {"[", "]"} =>
    \E j \in DOMAIN code : Encloses(code, i, j) \/ Encloses(code, j, i)

Cell == tape[ptr]

Show(c) == LET all == Append(out, c)
           IN  IF Len(all) > MaxTx THEN Tail(all) ELSE all

Done == pc = Len(program)

(* Beyond its end the input is zeros. *)
Character == IF input = <<>> THEN 0 ELSE Head(input)

-----------------------------------------------------------------------------
Advance == pc' = pc + 1

Count(c, v) ==
  /\ ~Done /\ Command = c
  /\ tape' = [tape EXCEPT ![ptr] = v]
  /\ Advance
  /\ UNCHANGED <<program, echo, ptr, input, out>>

Move(c, p) ==
  /\ ~Done /\ Command = c
  /\ ptr' = p
  /\ Advance
  /\ UNCHANGED <<program, echo, tape, input, out>>

Put ==
  /\ ~Done /\ Command = "."
  /\ out' = Show(Cell)
  /\ Advance
  /\ UNCHANGED <<program, echo, tape, ptr, input>>

Get ==
  /\ ~Done /\ Command = ","
  /\ tape' = [tape EXCEPT ![ptr] = Character]
  /\ input' = IF input = <<>> THEN <<>> ELSE Tail(input)
  /\ out' = IF echo THEN Show(Character) ELSE out
  /\ Advance
  /\ UNCHANGED <<program, echo, ptr>>

Branch(c, jumps) ==
  /\ ~Done /\ Command = c
  /\ IF jumps THEN pc' = Match(pc + 1) - 1 ELSE Advance
  /\ UNCHANGED <<program, echo, tape, ptr, input, out>>

Next ==
  \/ Count("+", IF Cell = DataTop THEN 0 ELSE Cell + 1)
  \/ Count("-", IF Cell = 0 THEN DataTop ELSE Cell - 1)
  \/ Move(">", IF ptr = ApTop THEN 0 ELSE ptr + 1)
  \/ Move("<", IF ptr = 0 THEN ApTop ELSE ptr - 1)
  \/ Put
  \/ Get
  \/ Branch("[", Cell = 0)
  \/ Branch("]", Cell # 0)

Init ==
  /\ Balanced(program)
  /\ pc = 0
  /\ tape = [a \in 0 .. ApTop |-> 0]
  /\ ptr = 0
  /\ out = <<>>

(* Every step is the next command of the program. *)
Computes == Init /\ [][~cut /\ Next]_vars

Spec == Computes /\ WF_vars(~cut /\ Next)
=============================================================================
