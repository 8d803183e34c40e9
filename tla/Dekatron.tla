------------------------------ MODULE Dekatron ------------------------------
(***************************************************************************)
(* The ring counters of the DekatronPC.  Every architectural counter of    *)
(* dpc::Machine (IP, AP, data, the uint64_t statistics) is a value in      *)
(* 0 .. size-1 that steps round the ring.                                  *)
(***************************************************************************)
EXTENDS Naturals

(* dpcrun.cpp:117-118.  A definition marked as a mutant is a wrong version *)
(* of the one after it, used by no specification.                          *)
WrapIncPastTop(v, size) == v + 1      \* mutant: the ring is not closed

WrapInc(v, size) == (v + 1) % size

WrapDecBelowZero(v, size) == v - 1    \* mutant: the ring is not closed

WrapDec(v, size) == (v + size - 1) % size

(* One decade step in the direction chosen by a decrement flag. *)
WrapStep(v, dec, size) == IF dec THEN WrapDec(v, size) ELSE WrapInc(v, size)
=============================================================================
