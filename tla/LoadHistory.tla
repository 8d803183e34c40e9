---------------------------- MODULE LoadHistory -----------------------------
(***************************************************************************)
(* CallHistory with the history of the load in progress: what program RAM  *)
(* should be, told from the opcodes taken alone, whatever calls of step()  *)
(* they were taken in and whatever the panel did meanwhile.                *)
(*                                                                         *)
(*   image   the RAM when the load began, with every opcode taken since    *)
(*           stored one place after the other                              *)
(*   next    the place the next opcode belongs to                          *)
(*                                                                         *)
(* The host may load program memory in the middle of this, and the image   *)
(* is then taken anew; as everywhere in DekatronPC it does so only while   *)
(* no fetched opcode waits (~ipCounted).                                   *)
(***************************************************************************)
EXTENDS CallHistory

VARIABLES image, next

loadVars == <<apVars, ipVars, ctrlVars, cfg, queueVars, tx, statVars, seen,
              image, next>>

LoadInit == HistoryInit /\ image = codeRam /\ next = 0

(* A load from the current IP: the place under IP is free unless the       *)
(* machine has already fetched from it.                                    *)
BeginLoad ==
  /\ image' = codeRam'
  /\ next' = IF ipCounted' THEN WrapInc(ip', IpSize) ELSE ip'

StoreNext(op) ==
  /\ image' = IF next < BootBase THEN [image EXCEPT ![next] = op] ELSE image
  /\ next' = WrapInc(next, IpSize)

LoadNext ==
  /\ HistoryNext
  /\ CASE ~loading' -> image' = codeRam' /\ next' = 0
       [] ~loading /\ loading' -> BeginLoad
       [] loading /\ ~ipCounted /\ LoadMemory -> BeginLoad
       [] loading /\ insnIn' # insnIn /\ Len(insnIn') < Len(insnIn)
            /\ ~IsEot(Head(insnIn)) -> StoreNext(Head(insnIn))
       [] OTHER -> UNCHANGED <<image, next>>

LoadSpec == LoadInit /\ [][LoadNext]_loadVars /\ StepRuns

-----------------------------------------------------------------------------
(* A load stores the opcodes it takes at consecutive places, none lost,    *)
(* none twice and none skipped, however often step() returned to wait for  *)
(* the next one; at the bootloader ROM and at the end of the ring it goes  *)
(* on with the place after it (dpcrun.cpp:237-242, 339-355, 422-432).      *)
LoadIsContiguous ==
  loading => /\ codeRam = image
             /\ phase = "INSN" => ip = next
=============================================================================
