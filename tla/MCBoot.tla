------------------------------- MODULE MCBoot -------------------------------
(***************************************************************************)
(* dpcrun -B: the bootloader of the tests, on a core whose cells the host  *)
(* has set to anything before.                                             *)
(***************************************************************************)
EXTENDS DpcRun

MCConfigs ==
  {[runOnHardRst |-> FALSE, runOnSoftRst |-> FALSE, softRstOnEot |-> TRUE,
    echoMode |-> TRUE, bellOnCin |-> FALSE, bellOnHalt |-> FALSE,
    bellOnError |-> FALSE, onCin |-> TRUE]}

MCUnlimited == -1

MCJobs == {[source |-> <<"N">>, boot |-> Bootloader, missing |-> {},
            fromBoot |-> TRUE, top |-> ApTop, limit |-> MCUnlimited]}

MCTyped == {<<>>}
MCInputs == 0 .. 2
MCNone == {}

(* The theorem holds of this run. *)
ASSUME MCJobsBoot == BootJobs
=============================================================================
