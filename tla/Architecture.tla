---------------------------- MODULE Architecture ----------------------------
(***************************************************************************)
(* The DekatronPC as its programmer sees it: one call of step() is one     *)
(* instruction, one stored opcode or one awaited character, all at once.   *)
(* MemLock, the phases of a call, the opcode register, the loop counter    *)
(* and the scan are not here.                                              *)
(*                                                                         *)
(*   code      program memory, the bootloader ROM its last bank            *)
(*   pc        the place of the next instruction, or of the next opcode    *)
(*             that a load stores                                          *)
(*   branch    the instruction before pc is a bracket, and is still to     *)
(*             decide where to go                                          *)
(*   waiting   the instruction before pc is a CIN without its character    *)
(*   error     a loop was nested too deep                                  *)
(***************************************************************************)
EXTENDS Opcodes, Integers, Sequences, FiniteSets

CONSTANTS
  ApTop, DataTop, IpSize, BootBase, LoopSize, Insns, Programs, Inputs,
  MaxQueue, MaxTx

VARIABLES
  tape, core, pos, acc,
  code, pc, branch, mode, halted, error, loading, waiting,
  cfg, rx, insnIn, tx

Cells == INSTANCE CellStore

cells == <<tape, core, pos, acc>>
control == <<pc, branch, mode, halted, error, loading, waiting>>
queues == <<rx, insnIn, tx>>
vars == <<cells, code, control, cfg, queues>>

After(place) == (place + 1) % IpSize

Init ==
  /\ Cells!Init
  /\ code = [a \in 0 .. IpSize - 1 |-> OP_NOP]
  /\ pc = 0
  /\ mode = ISA_DEBUG
  /\ halted = TRUE
  /\ branch = FALSE /\ error = FALSE
  /\ loading = FALSE /\ waiting = FALSE
  /\ rx = <<>> /\ insnIn = <<>> /\ tx = <<>>

-----------------------------------------------------------------------------
(* Where a bracket goes *)

Brackets == {BF_LBEG, BF_LEND}

Bracket == code[(pc - 1) % IpSize]

(* The place d steps on from the bracket, in the direction it looks. *)
Walk(d) == (pc - 1 + (IF Bracket = BF_LBEG THEN d ELSE -d)) % IpSize

(* The loops that are open there, the bracket's own included. *)
Depth(d) ==
  LET Count(op) == Cardinality({k \in 0 .. d : code[Walk(k)] = op})
  IN  Count(Bracket) - Cardinality({k \in 0 .. d :
                                      code[Walk(k)] \in Brackets \ {Bracket}})

(* The distance of its match, or of the bracket that is one too many. *)
Reach ==
  CHOOSE d \in 1 .. IpSize * LoopSize :
    /\ Depth(d) \in {0, LoopSize}
    /\ \A k \in 1 .. d - 1 : Depth(k) \notin {0, LoopSize}

(* In the Debug ISA a loop is over the pointer. *)
Zero == IF mode = ISA_BF THEN tape[pos] = 0 ELSE pos = 0

Jumps == branch /\ (Zero <=> Bracket = BF_LBEG)

TooDeep == Jumps /\ (error \/ Depth(Reach) = LoopSize)

(* The instruction that is next: a bracket that jumps lands on its match,  *)
(* which is executed as any other.                                         *)
Place == IF Jumps THEN Walk(Reach) ELSE pc

-----------------------------------------------------------------------------
(* What instructions do beside the cells *)

Shown(c) == LET all == Append(tx, c)
            IN  IF Len(all) > MaxTx THEN Tail(all) ELSE all

(* A reset keeps the memories and the queues. *)
Reset(hard) ==
  /\ Cells!Reset
  /\ pc' = IF hard THEN BootBase ELSE 0
  /\ mode' = IF hard THEN ISA_DEBUG ELSE ISA_BF
  /\ halted' = ~(IF hard THEN cfg.runOnHardRst ELSE cfg.runOnSoftRst)
  /\ branch' = FALSE /\ error' = FALSE
  /\ loading' = FALSE /\ waiting' = FALSE

(* CIN takes what was typed first, whichever program it was typed for. *)
Receive ==
  \/ \E c \in Inputs \union {DataTop + 1} :
       /\ IF cfg.onCin THEN UNCHANGED rx
                       ELSE rx # <<>> /\ c = Head(rx) /\ rx' = Tail(rx)
       /\ Cells!Put(c % (DataTop + 1))
       /\ tx' = IF cfg.echoMode THEN Shown(acc') ELSE tx
       /\ waiting' = FALSE
  \/ /\ cfg.onCin \/ rx = <<>>
     /\ waiting' = TRUE
     /\ UNCHANGED <<cells, rx, tx>>

(* The instructions that touch the cells alone. *)
OnCells(operation) ==
  \/ operation = "CLRD" /\ Cells!Put(0)
  \/ operation = "CLRA" /\ Cells!MoveTo(0)
  \/ operation \in {"INC", "DEC"} /\ Cells!Count(operation = "DEC")
  \/ operation = "AINC" /\ Cells!MoveTo((pos + 1) % (ApTop + 1))
  \/ operation = "ADEC" /\ Cells!MoveTo((pos - 1) % (ApTop + 1))
  \/ operation = "CLRML" /\ Cells!Save
  \/ operation = "LOAD" /\ Cells!Reload
  \/ operation = "STORE" /\ Cells!Copy

Isa(operation) == CASE operation = "ISA0" -> ISA_DEBUG
                    [] operation = "ISA1" -> ISA_BF
                    [] OTHER -> mode

(* The instructions that touch control alone. *)
OnControl(operation) ==
  /\ operation \in {"NOP", "TEST", "BELL", "HALT", "ISA0", "ISA1", "SOT",
                    "CLRL", "CLRI"}
  /\ halted' = (operation = "HALT")
  /\ mode' = Isa(operation)
  /\ loading' = (operation = "SOT")
  /\ error' = (error /\ operation # "CLRL")

-----------------------------------------------------------------------------
Running == ~halted /\ ~waiting

Execute ==
  /\ UNCHANGED <<code, cfg, insnIn>>
  /\ Running /\ ~loading /\ ~TooDeep
  /\ LET op == code[Place]
         operation == Operation(mode, op)
     IN  \/ /\ operation \in {"HRST", "SRST"}
            /\ Reset(operation = "HRST")
            /\ UNCHANGED <<rx, tx>>
         \/ /\ pc' = IF operation = "CLRI" THEN 0 ELSE After(Place)
            /\ branch' = (op \in Brackets)
            /\ \/ /\ OnControl(operation)
                  /\ UNCHANGED <<cells, waiting, rx, tx>>
               \/ /\ UNCHANGED <<halted, mode, loading, error>>
                  /\ \/ OnCells(operation) /\ UNCHANGED <<waiting, rx, tx>>
                     \/ /\ operation = "COUT"
                        /\ Cells!Emit
                        /\ tx' = Shown(acc')
                        /\ UNCHANGED <<waiting, rx>>
                     \/ operation = "CIN" /\ Receive

(* One loop too many: the machine halts behind the bracket that opened it, *)
(* and will not jump again before the error is cleared.                    *)
Fail ==
  /\ UNCHANGED <<cells, code, mode, loading, waiting, cfg, queues>>
  /\ Running /\ ~loading /\ TooDeep
  /\ pc' = IF error THEN pc ELSE After(Place)
  /\ halted' = TRUE /\ error' = TRUE /\ branch' = FALSE

Await ==
  /\ UNCHANGED <<code, pc, branch, mode, halted, error, loading, cfg, insnIn>>
  /\ ~halted /\ waiting
  /\ Receive

(* An opcode of a load.  The end mark is not stored, but takes a place if  *)
(* the machine is not reset.  The ISA opcodes act while they are stored.   *)
LoadOne ==
  /\ UNCHANGED <<cfg, rx, tx>>
  /\ Running /\ loading /\ insnIn # <<>>
  /\ insnIn' = Tail(insnIn)
  /\ LET op == Head(insnIn)
         end == mode = ISA_DEBUG /\ op = DBG_EOT
     IN  /\ code' = IF end \/ pc >= BootBase THEN code
                    ELSE [code EXCEPT ![pc] = op]
         /\ IF end /\ cfg.softRstOnEot THEN Reset(FALSE)
            ELSE /\ pc' = After(pc)
                 /\ mode' = Isa(Operation(mode, op))
                 /\ halted' = end
                 /\ loading' = ~end
                 /\ UNCHANGED <<cells, branch, error, waiting>>

Step == Execute \/ Fail \/ Await \/ LoadOne

-----------------------------------------------------------------------------
(* The panel.  A load begins at pc; a bracket that has not decided by then *)
(* never does.                                                             *)

Panel ==
  /\ UNCHANGED <<code, cfg, queues>>
  /\ \/ \E hard \in BOOLEAN : Reset(hard)
     \/ /\ halted' = FALSE
        /\ \/ UNCHANGED <<branch, loading>>
           \/ branch' = FALSE /\ loading' = TRUE
        /\ UNCHANGED <<cells, pc, mode, error, waiting>>

(* The host: programs, the ROM, cells, and what is typed, sent to the      *)
(* loader or cleared from the output.                                      *)

(* A program longer than the ring overwrites its own start: of the opcodes *)
(* that belong in place a, the i-th, which is the last, stays.             *)
LoadProgram ==
  /\ UNCHANGED <<control, cells, queues>>
  /\ DOMAIN code' = DOMAIN code
  /\ \E p \in Programs, base \in DOMAIN code : \A a \in DOMAIN code :
       LET i == Len(p) - ((base + Len(p) - 1 - a) % IpSize)
       IN  code'[a] = IF i > 0 /\ a < BootBase THEN p[i] ELSE code[a]

LoadRom ==
  /\ UNCHANGED <<control, cells, queues>>
  /\ DOMAIN code' = DOMAIN code
  /\ \E p \in Programs : \A a \in DOMAIN code :
       LET i == a - BootBase
       IN  code'[a] = IF i < 0 THEN code[a]
                      ELSE IF i < Len(p) THEN p[i + 1] ELSE OP_NOP

Poke ==
  /\ UNCHANGED <<control, code, queues>>
  /\ \E a \in 0 .. ApTop, v \in Inputs : Cells!Poke(a, v)

Queue ==
  /\ UNCHANGED <<control, code, cells>>
  /\ \/ \E c \in Inputs : rx' = Append(rx, c) /\ UNCHANGED <<insnIn, tx>>
     \/ \E op \in Insns : insnIn' = Append(insnIn, op) /\ UNCHANGED <<rx, tx>>
     \/ tx' = <<>> /\ UNCHANGED <<rx, insnIn>>

Host == UNCHANGED cfg /\ (LoadProgram \/ LoadRom \/ Poke \/ Queue)

Next == Host \/ Panel \/ Step

Spec == Init /\ [][Next]_vars
=============================================================================
