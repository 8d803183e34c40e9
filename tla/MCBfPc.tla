------------------------------- MODULE MCBfPc -------------------------------
(***************************************************************************)
(* bfpp and bfrun on every source of up to three characters, comments and  *)
(* stray brackets included, and on longer ones, with -O0 and -O1.  What a  *)
(* stray ] is compiled to is the question of MCBfPcLong.                   *)
(***************************************************************************)
EXTENDS BfPc

MCSymbols == {">", "<", "+", "-", ".", ",", "[", "]", "~", "x"}
Short == UNION {[1 .. n -> MCSymbols] : n \in 0 .. 3}

(* Clears of every form, and loops that only look like one. *)
Clearing ==
  {<<"+", "[">> \o body \o <<"]", ".">> :
     body \in UNION {[1 .. n -> {"+", "-", "~", ">"}] : n \in 1 .. 2}}

(* Every loop of three commands. *)
Loops ==
  {<<"+">> \o <<"[">> \o body \o <<"]", ".">> :
     body \in [1 .. 3 -> {"+", "-", ">", "<", "."}]}

Times(c, n) == [i \in 1 .. n |-> c]

(* A cell whose low byte is zero, a count that changes its sign in the     *)
(* field, the longest loop, and pairs of loops.                            *)
Longer ==
  {Times("+", ByteSize) \o <<"[", ".", "-", "]", ".">>,
   <<"+", "+", "[", "-", ">", "+", "<", "]", ">", ".">>,
   <<"+", "[", ">", "+", "[", "-", "]", "<", "-", "]", ".">>,
   <<"-", "<", "-", "[", "[", "-", "]", ">", "]", ".">>,
   <<"+", "[">> \o Times(".", BiasHalf - 3) \o <<"-", "]">>,
   <<"[", "]", "]", "[">>}

(* Reading to the first zero, on past the end, and without an end. *)
Readers ==
  {<<",", "[", ".", ",", "]", "x", "[", "[", "]", "]">>,
   <<",", ".", ",", ".", ",", ".", ",", ".", ",", ".", ",">>,
   <<"+", "[", ">", ",", "+", "<", "]">>}

(* Every input of up to three words, each of one or two characters. *)
Words == UNION {[1 .. n -> {1, 2}] : n \in 1 .. 2}
Inputs == UNION {[1 .. n -> Words] : n \in 0 .. 3}

(* From one end of the data to the other, and a byte beyond. *)
Wanderers ==
  {<<"+", "[", ">", "+", "]">>, <<"+", "[", "<", "+", "]">>,
   <<">", ">", ">", ".">>, <<">", ">", ">", ">", ".">>}

Job(sources, levels, modes, inputs) ==
  {[source |-> s, level |-> o, wordMode |-> m, words |-> w,
    format |-> "image", lacks |-> "none"] :
     s \in sources, o \in levels, m \in modes, w \in inputs}

Arrays(jobs) == {[j EXCEPT !.format = "hex"] : j \in jobs}
Failing(jobs) ==
  {[j EXCEPT !.lacks = l] : j \in jobs, l \in {"source", "output"}}
    \union {[j EXCEPT !.format = "text"] : j \in jobs}

TwoWords == {<< <<2, 1>>, <<3>> >>}

(* In word mode a count that changes its sign is another number. *)
MCJobs ==
  Job(Short \union {Times("+", BiasHalf + 1)}, 0 .. 1, {FALSE}, TwoWords)
    \union Job(Clearing \union Longer, 0 .. 1, BOOLEAN, TwoWords)
    \union Job(Loops, {1}, BOOLEAN, TwoWords)
    \union Job(Readers, {1}, {FALSE}, Inputs)
    \union Job(Wanderers, {0}, {FALSE}, TwoWords)
    \union Arrays(Job(Short \union Longer \union Readers \union Wanderers,
                      {0}, {FALSE}, TwoWords))
    \union Failing(Job(Clearing, {1}, {FALSE}, TwoWords))

(* The theorems hold of these runs. *)
ASSUME MCJobsFit ==
  FilesFit /\ LoopsFit /\ RunsFit /\ ProloguesFit /\ InputsFit
=============================================================================
