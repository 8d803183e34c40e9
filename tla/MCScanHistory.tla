--------------------------- MODULE MCScanHistory ----------------------------
(***************************************************************************)
(* The instruction side with the history of its loop scan, over programs   *)
(* of brackets and NOPs, loaded anywhere on a ring of five with a ROM of   *)
(* one place, and stored there by the loader.  The loop counter has four   *)
(* values: three nested brackets fit and a fourth overflows.               *)
(***************************************************************************)
EXTENDS ScanHistory

MCInsns == {OP_NOP, BF_LBEG, BF_LEND}

(* Two opcodes wrap round the ring when they are loaded at its last place. *)
MCPrograms == UNION {[1 .. n -> MCInsns] : n \in 1 .. 2}
=============================================================================
