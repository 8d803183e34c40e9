---------------------------- MODULE ScanHistory -----------------------------
(***************************************************************************)
(* IpLine with the history of its loop scan, to say what the scan computes *)
(* without the counter it uses: the bracket that matches the starting one  *)
(* on the ring of program memory.                                          *)
(*                                                                         *)
(*   origin   the place of the bracket the running scan started from       *)
(*   moved    how many places it has walked, up to MaxMoved, which no scan *)
(*            should reach; both are 0 outside a scan                      *)
(***************************************************************************)
EXTENDS IpLine, Integers, FiniteSets

VARIABLES origin, moved

historyVars == <<codeRam, bootRom, ip, insn, ipCounted, loop, overflow, scan,
                 loading, origin, moved>>

(* Bound: the longest walk of a lone bracket. *)
MaxMoved == IpSize * LoopTop

HistoryInit == Init /\ origin = 0 /\ moved = 0

HistoryNext ==
  /\ QuietNext
  /\ IF scan' = "none" THEN origin' = 0 /\ moved' = 0
     ELSE IF scan = "none" THEN origin' = ip /\ moved' = 0
     ELSE /\ origin' = origin
          /\ moved' = IF moved < MaxMoved THEN moved + 1 ELSE MaxMoved

HistorySpec == HistoryInit /\ [][HistoryNext]_historyVars /\ ScanRuns

-----------------------------------------------------------------------------
(* The place the walk reaches after d steps. *)
Walk(d) == (IF scan = "backward" THEN origin - d ELSE origin + d) % IpSize

(* The nesting depth there, the starting bracket counted: own brackets     *)
(* open a level and the others close one.                                  *)
Depth(d) ==
  1 + Cardinality({k \in 1 .. d : ReadCode(Walk(k)) = Own})
    - Cardinality({k \in 1 .. d : ReadCode(Walk(k)) = Other})

(* How many more own brackets than others the whole ring has. *)
Surplus == Depth(IpSize) - 1

-----------------------------------------------------------------------------
(* While it scans, IP is where the walk is and the loop counter is the     *)
(* nesting depth, which has stayed between the match and the overflow all  *)
(* the way (dpcrun.cpp:391-404).                                           *)
CountsDepth ==
  scan # "none" => /\ ip = Walk(moved)
                   /\ loop = Depth(moved)
                   /\ \A d \in 0 .. moved : Depth(d) \in 1 .. LoopTop

(* A scan ends on the first place where the depth is zero, which is the    *)
(* matching bracket, or halts on the first one where it would need         *)
(* LoopSize; it never runs past either (dpcrun.cpp:370-377).               *)
EndsOnMatch ==
  [][scan # "none" /\ scan' = "none" =>
       /\ \A d \in 1 .. moved : Depth(d) \in 1 .. LoopTop
       /\ \/ ~overflow' /\ Depth(moved + 1) = 0 /\ ip' = Walk(moved + 1)
          \/ overflow' /\ Depth(moved + 1) = LoopSize]_historyVars

(* A scan is over within one turn of a ring that has no more own brackets  *)
(* than others, and within LoopSize - 1 turns of any other, the walk of a  *)
(* lone bracket (dpcrun.cpp:379-382).                                      *)
EndsInTime ==
  scan # "none" =>
    moved < IpSize * (IF Surplus <= 0 THEN 1 ELSE LoopTop)
=============================================================================
