----------------------------- MODULE MCNesting ------------------------------
(***************************************************************************)
(* dpcrun on a hundred nested loops, with the loop counter of the code     *)
(* (LOOP_SIZE = 100) and a ring long enough for the program.               *)
(***************************************************************************)
EXTENDS DpcRun

MCConfigs ==
  {[runOnHardRst |-> FALSE, runOnSoftRst |-> FALSE, softRstOnEot |-> TRUE,
    echoMode |-> TRUE, bellOnCin |-> FALSE, bellOnHalt |-> FALSE,
    bellOnError |-> FALSE, onCin |-> TRUE]}

Nested == [i \in 1 .. 200 |-> IF i <= 100 THEN "[" ELSE "]"]

MCUnlimited == -1

MCJobs == {[source |-> Nested, boot |-> <<>>, missing |-> {},
            fromBoot |-> FALSE, top |-> ApTop, limit |-> MCUnlimited]}

MCTyped == {<<>>}
MCNone == {}
=============================================================================
