------------------------------ MODULE Console -------------------------------
(***************************************************************************)
(* The input of bfrun (function In).  A word is read with scanf and handed *)
(* out one character at a time, with a zero after the last.  At the end of *)
(* the input scanf leaves the word as it was, and it is handed out again.  *)
(***************************************************************************)
EXTENDS Naturals, SequencesExt

VARIABLES
  typed,                       \* the words that are still to be read
  InputString, input_string_current_pos, stringIsFree

consoleVars == <<typed, InputString, input_string_current_pos, stringIsFree>>

(* The words of the input, none of them empty. *)
ConsoleInit(words) ==
  /\ typed = words
  /\ InputString = <<>>
  /\ input_string_current_pos = 0
  /\ stringIsFree = TRUE

(* A character of a string, whose end is a zero. *)
CharAt(str, pos) == IF pos < Len(str) THEN str[pos + 1] ELSE 0

Exhausted == typed = <<>>
Scanned == IF Exhausted THEN InputString ELSE Head(typed)

(* The character In returns. *)
Val == IF stringIsFree THEN CharAt(Scanned, 0)
       ELSE CharAt(InputString, input_string_current_pos)

InNewWord ==
  /\ stringIsFree
  /\ typed' = IF Exhausted THEN typed ELSE Tail(typed)
  /\ InputString' = Scanned
  /\ input_string_current_pos' =
       IF Scanned = <<>> THEN input_string_current_pos ELSE 1
  /\ stringIsFree' = (Scanned = <<>>)

InSameWord ==
  /\ ~stringIsFree
  /\ input_string_current_pos' = input_string_current_pos + 1
  /\ stringIsFree' = (Val = 0)
  /\ UNCHANGED <<typed, InputString>>

In == InNewWord \/ InSameWord

-----------------------------------------------------------------------------
(* What a program should read: every word once, with a zero after it, and  *)
(* then the last one for ever; or zeros, if there was no input at all.     *)
Stream(words, n) ==
  LET all == FlattenSeq([i \in DOMAIN words |-> Append(words[i], 0)])
      last == IF words = <<>> THEN <<0>> ELSE Append(Last(words), 0)
  IN  IF n <= Len(all) THEN all[n]
      ELSE last[((n - Len(all) - 1) % Len(last)) + 1]
=============================================================================
