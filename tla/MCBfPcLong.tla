----------------------------- MODULE MCBfPcLong -----------------------------
(***************************************************************************)
(* bfpp and bfrun on sources that nothing refuses: too long for the words  *)
(* or the file, or with a ] that closes nothing.                           *)
(***************************************************************************)
EXTENDS BfPc

Times(c, n) == [i \in 1 .. n |-> c]

Job(source, level) ==
  [source |-> source, level |-> level, wordMode |-> FALSE, words |-> <<>>,
   format |-> "image", lacks |-> "none"]

(* One command more than a jump can pass. *)
MCLongLoop ==
  {Job(<<"[">> \o Times(".", n) \o <<"]">>, 1) : n \in 1 .. BiasHalf}

(* As many commands as make the size in bytes zero again. *)
MCLongSource == {Job(<<"+">> \o Times(".", WordSize \div 2 - 4), 0)}

(* Alone, behind a command, and behind a loop. *)
MCStray == {Job(s, o) : s \in {<<"+", "]">>, <<"[", "-", "]", "]">>, <<"]">>},
                        o \in 0 .. 1}
=============================================================================
