------------------------------- MODULE Places -------------------------------
(***************************************************************************)
(* What a sequence has at some places, in their order: the text without    *)
(* its comments, the list without what was replaced.  SelectSeq would do   *)
(* the same, but nothing can be proved of it.                              *)
(***************************************************************************)
EXTENDS Naturals, Sequences

At(seq, places) ==
  LET upTo[n \in 0 .. Len(seq)] ==
        IF n = 0 THEN <<>>
        ELSE upTo[n - 1] \o (IF n \in places THEN <<seq[n]>> ELSE <<>>)
  IN  upTo[Len(seq)]
=============================================================================
