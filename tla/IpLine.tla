------------------------------- MODULE IpLine -------------------------------
(***************************************************************************)
(* The instruction side of dpc::Machine: program memory (a RAM with the    *)
(* bootloader ROM in its last bank), the instruction pointer IP, the last  *)
(* fetched opcode, and the loop counter that finds the matching bracket.   *)
(*                                                                         *)
(*   ipCounted   IP stands on the retired instruction, so that the next    *)
(*               fetch counts before it reads                              *)
(*   loading     opcodes come from the loader and are stored at IP         *)
(*   scan        the direction of the running loop scan, or "none"         *)
(*                                                                         *)
(* The scan is one iteration of its loop per step; every other action is   *)
(* a call of MachineCtrl or of the host, and none can come in between.     *)
(* MachineCtrl itself is left open here: what an opcode means, whether the *)
(* machine is halted and the zero flag of a bracket are not known, so that *)
(* any operation may follow any other.                                     *)
(***************************************************************************)
EXTENDS Dekatron, Opcodes, Sequences

CONSTANTS
  IpSize,     \* IP_SIZE: places in program memory
  BootBase,   \* BOOT_BASE: the first place of the bootloader ROM
  LoopSize,   \* LOOP_SIZE: values of the loop counter
  Insns,      \* bound: the opcodes that come from the loader
  Programs    \* bound: the programs that the host loads

ASSUME IpLineAssumption ==
  /\ IpSize \in Nat
  /\ BootBase \in 1 .. IpSize - 1
  /\ LoopSize \in Nat \ {0, 1}
  /\ Insns \subseteq Opcode
  /\ \A code \in Programs : code \in Seq(Opcode)

VARIABLES
  codeRam, bootRom,              \* program memory
  ip, insn, ipCounted,           \* the fetch
  loop, overflow, scan,          \* the loop scan
  loading

memVars == <<codeRam, bootRom>>
loopVars == <<loop, overflow, scan>>
ipVars ==
  <<codeRam, bootRom, ip, insn, ipCounted, loop, overflow, scan, loading>>

Place    == 0 .. IpSize - 1
RamPlace == 0 .. BootBase - 1
RomPlace == 0 .. IpSize - BootBase - 1
LoopTopEarly == LoopSize - 2    \* mutant of LoopTop
LoopTop  == LoopSize - 1

(* Every counter, opcode and flag of the instruction side is in its range  *)
(* (dpcrun.h:224-243): IP on the ring, the loop counter in its decades.    *)
TypeOK ==
  /\ codeRam \in [RamPlace -> Opcode]
  /\ bootRom \in [RomPlace -> Opcode]
  /\ ip \in Place
  /\ insn \in Opcode
  /\ ipCounted \in BOOLEAN
  /\ loop \in 0 .. LoopTop
  /\ overflow \in BOOLEAN
  /\ scan \in {"none", "forward", "backward"}
  /\ loading \in BOOLEAN

(* powerOn *)
Init ==
  /\ codeRam = [a \in RamPlace |-> OP_NOP]
  /\ bootRom = [a \in RomPlace |-> OP_NOP]
  /\ ip = 0
  /\ insn = OP_NOP
  /\ ipCounted = FALSE
  /\ loop = 0
  /\ overflow = FALSE
  /\ scan = "none"
  /\ loading = FALSE

-----------------------------------------------------------------------------
(* Program memory *)

ReadCode(a) == IF a >= BootBase THEN bootRom[a - BootBase] ELSE codeRam[a]

(* The bootloader bank is a ROM: a write there is dropped. *)
WriteCode(a, op) ==
  codeRam' = IF a < BootBase THEN [codeRam EXCEPT ![a] = op] ELSE codeRam

(* The index of the last opcode of a program loaded at base that goes to   *)
(* place a, or 0: a long program wraps and overwrites its own start.       *)
LoadedAt(code, base, a) ==
  LET hits == {i \in DOMAIN code : (base + i - 1) % IpSize = a}
  IN  IF hits = {} THEN 0 ELSE CHOOSE i \in hits : \A j \in hits : j <= i

LoadCode(code, base) ==
  /\ scan = "none"
  /\ codeRam' = [a \in RamPlace |->
                   LET i == LoadedAt(code, base, a)
                   IN  IF i = 0 THEN codeRam[a] ELSE code[i]]
  /\ UNCHANGED <<bootRom, ip, insn, ipCounted, loopVars, loading>>

SetBootRom(rom) ==
  /\ scan = "none"
  /\ bootRom' = [a \in RomPlace |->
                   IF a < Len(rom) THEN rom[a + 1] ELSE OP_NOP]
  /\ UNCHANGED <<codeRam, ip, insn, ipCounted, loopVars, loading>>

-----------------------------------------------------------------------------
(* OP_NEXT *)

(* The first fetch after a reset, CLRI or a halt reads where IP stands. *)
FirstFetch ==
  /\ scan = "none" /\ ~loading /\ ~ipCounted
  /\ ipCounted' = TRUE
  /\ insn' = ReadCode(ip)
  /\ UNCHANGED <<memVars, ip, loopVars, loading>>

(* Mutant of LoadFetch: the first opcode skips a place. *)
LoadFetchSkips ==
  /\ scan = "none" /\ loading
  /\ ipCounted' = TRUE
  /\ ip' = WrapInc(ip, IpSize)
  /\ UNCHANGED <<memVars, insn, loopVars, loading>>

(* A fetch while loading moves IP to the next place and reads nothing. *)
LoadFetch ==
  /\ scan = "none" /\ loading
  /\ ipCounted' = TRUE
  /\ ip' = IF ipCounted THEN WrapInc(ip, IpSize) ELSE ip
  /\ UNCHANGED <<memVars, insn, loopVars, loading>>

(* [ skips forward on zero, ] repeats backward otherwise. *)
Jumps(zero) == \/ insn = BF_LBEG /\ zero
               \/ insn = BF_LEND /\ ~zero

AtNext == scan = "none" /\ ~loading /\ ipCounted

NextFetch(zero) ==
  /\ AtNext /\ ~Jumps(zero)
  /\ ip' = WrapInc(ip, IpSize)
  /\ insn' = ReadCode(ip')
  /\ UNCHANGED <<memVars, ipCounted, loopVars, loading>>

-----------------------------------------------------------------------------
(* The loop scan *)

Own == IF scan = "backward" THEN BF_LEND ELSE BF_LBEG
Other == IF scan = "backward" THEN BF_LBEG ELSE BF_LEND

(* Mutant of ScanPlace: ] looks for its match forward. *)
ScanPlaceForward == WrapInc(ip, IpSize)

(* The place and the opcode under IP after one more step of the scan. *)
ScanPlace == WrapStep(ip, scan = "backward", IpSize)
ScanInsn == ReadCode(ScanPlace)

(* Mutant of HaltPlace: the last place has no successor. *)
HaltPlaceUnwrapped(a) == IF ipCounted THEN a + 1 ELSE a

(* Where a machine that halts with IP at a leaves it: past the retired     *)
(* instruction, so that the first fetch after Run needs no count.          *)
HaltPlace(a) == IF ipCounted THEN WrapInc(a, IpSize) ELSE a

ScanStart(zero) ==
  /\ AtNext /\ Jumps(zero)
  /\ loop # LoopTop
  /\ loop' = loop + 1
  /\ scan' = IF insn = BF_LEND THEN "backward" ELSE "forward"
  /\ UNCHANGED <<memVars, ip, insn, ipCounted, overflow, loading>>

(* The counter is at its top already: no scan, the error at once. *)
StartOverflow(zero) ==
  /\ AtNext /\ Jumps(zero)
  /\ loop = LoopTop
  /\ overflow' = TRUE
  /\ ip' = HaltPlace(ip)
  /\ ipCounted' = FALSE
  /\ UNCHANGED <<memVars, insn, loop, scan, loading>>

ScanMove ==
  /\ ip' = ScanPlace
  /\ insn' = ScanInsn
  /\ UNCHANGED <<memVars, ipCounted, overflow, loading>>

ScanPass ==
  /\ scan # "none"
  /\ ScanInsn \notin {Own, Other}
  /\ ScanMove
  /\ UNCHANGED <<loop, scan>>

(* Mutant of ScanOwn: nested brackets are not counted. *)
ScanOwnUncounted ==
  /\ scan # "none"
  /\ ScanInsn = Own
  /\ loop # LoopTop
  /\ ScanMove
  /\ UNCHANGED <<loop, scan>>

ScanOwn ==
  /\ scan # "none"
  /\ ScanInsn = Own
  /\ loop # LoopTop
  /\ ScanMove
  /\ loop' = loop + 1
  /\ UNCHANGED scan

ScanOther ==
  /\ scan # "none"
  /\ ScanInsn = Other
  /\ loop # 1
  /\ ScanMove
  /\ loop' = loop - 1
  /\ UNCHANGED scan

(* The matching bracket: stand on it. *)
ScanMatch ==
  /\ scan # "none"
  /\ ScanInsn = Other
  /\ loop = 1
  /\ ScanMove
  /\ loop' = 0
  /\ scan' = "none"

(* One bracket too many: the count is not issued, and the machine halts. *)
ScanOverflow ==
  /\ scan # "none"
  /\ ScanInsn = Own
  /\ loop = LoopTop
  /\ overflow' = TRUE
  /\ ip' = HaltPlace(ScanPlace)
  /\ insn' = ScanInsn
  /\ ipCounted' = FALSE
  /\ scan' = "none"
  /\ UNCHANGED <<memVars, loop, loading>>

ScanStep == ScanPass \/ ScanOwn \/ ScanOther \/ ScanMatch \/ ScanOverflow

-----------------------------------------------------------------------------
(* Operations that MachineCtrl issues after a decode, and the resets *)

(* Mutant of EnterHalt: the halt step leaves ipCounted set. *)
EnterHaltStillCounted ==
  /\ scan = "none" /\ ~loading
  /\ ip' = HaltPlace(ip)
  /\ UNCHANGED <<memVars, insn, ipCounted, loopVars, loading>>

EnterHalt ==
  /\ scan = "none" /\ ~loading
  /\ ip' = HaltPlace(ip)
  /\ ipCounted' = FALSE
  /\ UNCHANGED <<memVars, insn, loopVars, loading>>

(* CLRL: the only way but a reset to leave the overflow. *)
ClrL ==
  /\ scan = "none" /\ ~loading
  /\ loop' = 0
  /\ overflow' = FALSE
  /\ UNCHANGED <<memVars, ip, insn, ipCounted, scan, loading>>

(* Mutant of ClrI: IP moves under an opcode already fetched. *)
ClrIStillCounted ==
  /\ scan = "none" /\ ~loading
  /\ ip' = 0
  /\ UNCHANGED <<memVars, insn, ipCounted, loopVars, loading>>

(* CLRI *)
ClrI ==
  /\ scan = "none" /\ ~loading
  /\ ip' = 0
  /\ ipCounted' = FALSE
  /\ UNCHANGED <<memVars, insn, loopVars, loading>>

(* Mutant of ResetLines: the loop counter is left out. *)
ResetLinesKeepLoop(hard) ==
  /\ ip' = IF hard THEN BootBase ELSE 0
  /\ ipCounted' = FALSE
  /\ overflow' = FALSE
  /\ loading' = FALSE
  /\ UNCHANGED loop

(* What the soft and hard reset lines do to the counters and flags. *)
ResetLines(hard) ==
  /\ ip' = IF hard THEN BootBase ELSE 0
  /\ ipCounted' = FALSE
  /\ loop' = 0
  /\ overflow' = FALSE
  /\ loading' = FALSE

IpReset(hard) ==
  /\ scan = "none"
  /\ ResetLines(hard)
  /\ UNCHANGED <<memVars, insn, scan>>

-----------------------------------------------------------------------------
(* Loading *)

(* SOT, and the key of the panel that starts a load from the current IP. *)
StartLoading ==
  /\ scan = "none"
  /\ loading' = TRUE
  /\ UNCHANGED <<memVars, ip, insn, ipCounted, loopVars>>

(* One opcode from the loader, stored at IP unless it is the end mark. *)
TakeInsn(op, isEot) ==
  /\ scan = "none" /\ loading /\ ipCounted
  /\ insn' = op
  /\ IF isEot THEN UNCHANGED codeRam ELSE WriteCode(ip, op)
  /\ UNCHANGED <<bootRom, ip, ipCounted, loopVars, loading>>

(* EOT ends the load with a soft reset, or by a halt at the place after    *)
(* the one it would have been stored in.                                   *)
EndLoading(softRst) ==
  /\ scan = "none" /\ loading /\ ipCounted
  /\ IF softRst
       THEN ResetLines(FALSE)
       ELSE /\ ip' = HaltPlace(ip)
            /\ ipCounted' = FALSE
            /\ loading' = FALSE
            /\ UNCHANGED <<loop, overflow>>
  /\ UNCHANGED <<memVars, insn, scan>>

-----------------------------------------------------------------------------
HostLoad ==
  \/ \E code \in Programs, base \in Place : LoadCode(code, base)
  \/ \E rom \in Programs : SetBootRom(rom)

MachineNext ==
  \/ FirstFetch
  \/ LoadFetch
  \/ \E zero \in BOOLEAN :
       NextFetch(zero) \/ ScanStart(zero) \/ StartOverflow(zero)
  \/ ScanStep
  \/ EnterHalt
  \/ ClrL
  \/ ClrI
  \/ \E hard \in BOOLEAN : IpReset(hard)
  \/ StartLoading
  \/ \E op \in Insns, isEot \in BOOLEAN : TakeInsn(op, isEot)
  \/ \E softRst \in BOOLEAN : EndLoading(softRst)

Next == MachineNext \/ HostLoad

(* The host initialises program memory only while no fetched opcode waits  *)
(* for its successor: before Run, after a reset or in a halt, as main and  *)
(* the tests do.                                                           *)
QuietNext == MachineNext \/ (~ipCounted /\ HostLoad)

(* The scan is a loop without a wait: once in it, the program runs on. *)
ScanRuns == WF_ipVars(ScanStep)

Spec == Init /\ [][Next]_ipVars /\ ScanRuns

QuietSpec == Init /\ [][QuietNext]_ipVars /\ ScanRuns

-----------------------------------------------------------------------------
(* Between two instructions the loop counter is at zero, or it is stuck at *)
(* its top with the overflow shown; in a scan it is neither.  So every     *)
(* scan counts from one, whatever was aborted, cleared, reset or reloaded  *)
(* before it (dpcrun.cpp:383-413, 495-498).                                *)
LoopCounterClean ==
  /\ scan = "none" => \/ loop = 0 /\ ~overflow
                      \/ loop = LoopTop /\ overflow
  /\ scan # "none" => loop > 0 /\ ~overflow /\ ipCounted /\ ~loading

(* The opcode that the next fetch will look at is the one that program     *)
(* memory holds under IP: no load, reset, halt or scan leaves a bracket in *)
(* the register that is not there to be counted (dpcrun.cpp:339-368).      *)
LatchedInsn == ipCounted /\ ~loading => insn = ReadCode(ip)

(* Every scan ends, on the ring of any program: balanced, short of own     *)
(* brackets, or with a lone bracket that each turn counts again            *)
(* (dpcrun.cpp:379-382).                                                   *)
ScanEnds == scan # "none" ~> scan = "none"
=============================================================================
