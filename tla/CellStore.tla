----------------------------- MODULE CellStore ------------------------------
(***************************************************************************)
(* What the data side of the DekatronPC promises its programmer, without   *)
(* MemLock, the lazy read and the RAM output register that implement it.   *)
(*                                                                         *)
(*   tape   the cells as a program sees them                               *)
(*   core   the cells as the ferrite core holds them: what survives reset  *)
(*   pos    the cell under the pointer                                     *)
(*   acc    the data counter, which is also what tx_data_bcd shows         *)
(*                                                                         *)
(* tape and core differ at most in the cell under the pointer: a change    *)
(* that is still only in the counter.  Leaving the cell saves it; only     *)
(* LOAD and a reset may drop it.                                           *)
(***************************************************************************)
EXTENDS Dekatron

CONSTANTS ApTop, DataTop

VARIABLES tape, core, pos, acc

vars == <<tape, core, pos, acc>>

Addr == 0 .. ApTop
Byte == 0 .. DataTop

TypeOK ==
  /\ tape \in [Addr -> Byte]
  /\ core \in [Addr -> Byte]
  /\ pos \in Addr
  /\ acc \in Byte

Init ==
  /\ core \in [Addr -> Byte]
  /\ tape = core
  /\ pos = 0
  /\ acc = 0

(* A new value for the cell under the pointer, not yet saved in core. *)
Put(v) ==
  /\ tape' = [tape EXCEPT ![pos] = v]
  /\ acc' = v
  /\ UNCHANGED <<core, pos>>

Count(dec) == Put(WrapStep(tape[pos], dec, DataTop + 1))

(* COUT: the counter is loaded with the cell and drives the terminal. *)
Emit ==
  /\ acc' = tape[pos]
  /\ UNCHANGED <<tape, core, pos>>

(* Leaving a cell never loses what was done to it. *)
MoveTo(a) ==
  /\ pos' = a
  /\ core' = tape
  /\ UNCHANGED <<tape, acc>>

Save ==
  /\ core' = tape
  /\ UNCHANGED <<tape, pos, acc>>

(* LOAD returns to the saved value of the cell. *)
Reload ==
  /\ tape' = core
  /\ acc' = core[pos]
  /\ UNCHANGED <<core, pos>>

(* STORE copies the counter, whichever cell it came from. *)
Copy ==
  /\ tape' = [tape EXCEPT ![pos] = acc]
  /\ core' = tape'
  /\ UNCHANGED <<pos, acc>>

(* Reset keeps the core and loses the counter. *)
Reset ==
  /\ tape' = core
  /\ pos' = 0
  /\ acc' = 0
  /\ UNCHANGED core

(* A cell set from outside.  The cell under the pointer may keep the value *)
(* it shows, and does so if that is not saved yet.                         *)
Poke(a, v) ==
  /\ core' = [core EXCEPT ![a] = v]
  /\ \/ tape[a] = core[a] /\ tape' = [tape EXCEPT ![a] = v]
     \/ a = pos /\ tape' = tape
  /\ UNCHANGED <<pos, acc>>

Next ==
  \/ \E dec \in BOOLEAN : Count(dec)
  \/ \E v \in Byte : Put(v)
  \/ Emit
  \/ \E a \in Addr : MoveTo(a)
  \/ Save
  \/ Reload
  \/ Copy
  \/ Reset
  \/ \E a \in Addr, v \in Byte : Poke(a, v)

Spec == Init /\ [][Next]_vars

(* At most the cell under the pointer is unsaved. *)
OneUnsavedCell == \A a \in Addr : tape[a] # core[a] => a = pos
=============================================================================
