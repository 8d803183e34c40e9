------------------------------ MODULE MCIpLine ------------------------------
(***************************************************************************)
(* IpLine over programs of brackets and NOPs, loaded anywhere on a small   *)
(* ring with a ROM of one place, at any time between two steps.            *)
(***************************************************************************)
EXTENDS IpLine

MCInsns == {OP_NOP, BF_LBEG, BF_LEND}

(* Two opcodes wrap round the ring when they are loaded at its last place. *)
MCPrograms == UNION {[1 .. n -> MCInsns] : n \in 1 .. 2}
=============================================================================
