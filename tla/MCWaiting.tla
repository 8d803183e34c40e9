----------------------------- MODULE MCWaiting ------------------------------
(***************************************************************************)
(* Every way to wait, and every way out of it: a ring of three places with *)
(* a ROM of one, programs that wait for a character and open loads, and    *)
(* opcodes that switch the ISA or end the load.                            *)
(***************************************************************************)
EXTENDS LoadHistory

(* As long as the ring: each fills the RAM from any base. *)
MCPrograms == {<<BF_CIN, DBG_SOT, OP_HALT>>}

MCInsns == {OP_ISA1, DBG_EOT}

AllOff == [runOnHardRst |-> FALSE, runOnSoftRst |-> FALSE,
           softRstOnEot |-> FALSE, echoMode |-> FALSE, bellOnCin |-> FALSE,
           bellOnHalt |-> FALSE, bellOnError |-> FALSE, onCin |-> FALSE]

AllOn == [s \in DOMAIN AllOff |-> TRUE]

(* The defaults of dpc::Config. *)
Defaults == [AllOff EXCEPT !.softRstOnEot = TRUE, !.echoMode = TRUE]

MCConfigs ==
  {Defaults, AllOn, AllOff, [AllOff EXCEPT !.runOnSoftRst = TRUE]}

MCInputs == {1}
=============================================================================
