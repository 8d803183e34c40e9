---------------------------- MODULE CallHistory -----------------------------
(***************************************************************************)
(* DekatronPC with the history of the call of step() in progress: what the *)
(* machine looked like to its programmer before the call.  Nothing of a    *)
(* call is to be seen before it returns.                                   *)
(*                                                                         *)
(*   seen   the architectural state after the last call                    *)
(***************************************************************************)
EXTENDS DekatronPC

VARIABLE seen

historyVars == <<apVars, ipVars, ctrlVars, cfg, queueVars, tx, statVars, seen>>

Now ==
  [tape    |-> [dataMem EXCEPT ![ap] = Ap!CellValue],
   core    |-> dataMem,
   pos     |-> ap,
   acc     |-> data,
   code    |-> [a \in Ip!Place |-> Ip!ReadCode(a)],
   pc      |-> IF ipCounted /\ phase # "INSN" THEN WrapInc(ip, IpSize) ELSE ip,
   branch  |-> ipCounted /\ ~loading /\ insn \in {BF_LBEG, BF_LEND},
   mode    |-> mode,
   halted  |-> halted,
   error   |-> overflow,
   loading |-> loading,
   waiting |-> phase = "CIN",
   rx      |-> rx,
   insnIn  |-> insnIn,
   tx      |-> tx]

HistoryInit == Init /\ seen = Now

HistoryNext ==
  /\ Next
  /\ seen' = IF Between' THEN Now' ELSE seen

HistorySpec == HistoryInit /\ [][HistoryNext]_historyVars /\ StepRuns

-----------------------------------------------------------------------------
Seen == INSTANCE Architecture WITH
  tape <- seen.tape, core <- seen.core, pos <- seen.pos, acc <- seen.acc,
  code <- seen.code, pc <- seen.pc, branch <- seen.branch,
  mode <- seen.mode, halted <- seen.halted, error <- seen.error,
  loading <- seen.loading, waiting <- seen.waiting,
  rx <- seen.rx, insnIn <- seen.insnIn, tx <- seen.tx

(* One call of step() is one instruction, one opcode of a load or one      *)
(* character, or nothing at all when it has to wait: whatever calls it is  *)
(* spread over, the fetch, the scan on the ring, the delayed decision of a *)
(* bracket, MemLock and the lazy read cannot be told from a machine that   *)
(* does the whole instruction at once; and a key, a reset or a load of the *)
(* host acts on that machine, the queues outliving a reset                 *)
(* (dpcrun.cpp:161-213, 298-602).                                          *)
ImplementsArchitecture == Seen!Spec
=============================================================================
