------------------------------ MODULE MCDpcRun ------------------------------
(***************************************************************************)
(* dpcrun on every balanced Brainfuck program of up to four commands and a *)
(* few longer ones, with and without -n, with no input and with some, and  *)
(* on command lines that start nothing.                                    *)
(***************************************************************************)
EXTENDS DpcRun

MCConfigs ==
  {[runOnHardRst |-> FALSE, runOnSoftRst |-> FALSE, softRstOnEot |-> TRUE,
    echoMode |-> e, bellOnCin |-> FALSE, bellOnHalt |-> FALSE,
    bellOnError |-> FALSE, onCin |-> TRUE] : e \in BOOLEAN}

Short == UNION {[1 .. n -> Commands] : n \in 1 .. 4}

Longer ==
  {<<"+", "+", "[", "-", ">", "+", "<", "]", ">", ".">>,
   <<"+", "[", "[", ">", "]", "<", "]", ".">>,
   <<",", "[", ".", ",", "]", "x", "[", "[", "]", "]">>}

(* As deep as the loop counter counts, and one deeper. *)
Deep ==
  {<<"[", "[", "[", "]", "]", "]", "+", ".">>,
   <<"+", "[", ">", "[", "[", "[", "[", "]", "]", "]", "]", "]">>}

BalancedOf(sources) ==
  {p \in sources : Language!Balanced(Plain(p))}

MCUnlimited == -1

JobOf(source, limit) ==
  [source |-> source, boot |-> <<>>, missing |-> {}, fromBoot |-> FALSE,
   top |-> ApTop, limit |-> limit]

(* Command lines that start nothing. *)
Bad ==
  LET plus == JobOf(<<"+">>, MCUnlimited)
  IN  {[plus EXCEPT !.missing = {"source"}], [plus EXCEPT !.missing = {"boot"}],
       [plus EXCEPT !.source = <<"x">>],
       [plus EXCEPT !.top = 0], [plus EXCEPT !.top = IpSize]}

MCJobs ==
  {JobOf(s, MCUnlimited) : s \in BalancedOf(Short \union Longer \union Deep)}
    \union {JobOf(s, n) : s \in Longer \union Deep, n \in 0 .. 9}
    \union Bad

MCTyped == {<<>>, <<2, 1>>}
MCInputs == 0 .. 2
MCNone == {}

(* What the theorems about dpcrun assume of its command lines. *)
ASSUME MCPlainJobs == PlainJobs
=============================================================================
