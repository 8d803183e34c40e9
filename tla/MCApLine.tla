------------------------------ MODULE MCApLine ------------------------------
(***************************************************************************)
(* ApLine on three cells of three values, with statistics that wrap: every *)
(* operation in every order.  Three cells are the fewest on which > and <  *)
(* differ; three values are the fewest on which + and - differ.            *)
(***************************************************************************)
EXTENDS ApLine
=============================================================================
