----------------------------- MODULE DekatronPC -----------------------------
(***************************************************************************)
(* dpc::Machine: MachineCtrl on top of ApLine and IpLine, with the panel,  *)
(* the loader and the terminal around it.                                  *)
(*                                                                         *)
(* step() is one call that fetches, scans, decodes and may return half way *)
(* to wait for input.  It is a sequence of actions here; call says where   *)
(* in step() the program is:                                               *)
(*                                                                         *)
(*   none     outside step(), or in the loop scan when scan # "none"       *)
(*   insn     about to take an opcode from the loader                      *)
(*   decode   about to decode                                              *)
(*   cin      about to take a character                                    *)
(*                                                                         *)
(* The machine has one thread: the panel, the host and the queues act only *)
(* between two calls of step().  phase is m_phase, what the code itself    *)
(* remembers from one call to the next.                                    *)
(***************************************************************************)
EXTENDS Dekatron, Opcodes, Sequences

CONSTANTS
  ApTop, DataTop, StatSize,
  IpSize, BootBase, LoopSize,
  Insns, Programs,
  Configs,    \* the panel switches to consider
  Inputs,     \* bound: the characters the terminal sends
  MaxQueue,   \* bound: characters or opcodes waiting in a queue
  MaxTx       \* bound: the last characters of the output that are kept

VARIABLES
  dataMem, memReg, ap, data, lock, memHere, memReads, memWrites,
  codeRam, bootRom, ip, insn, ipCounted, loop, overflow, scan, loading,
  mode, halted, phase, call,    \* MachineCtrl
  cfg,                          \* m_cfg, and whether onCin is set
  rx, insnIn, tx,               \* the terminal and the loader
  iret, bells                   \* statistics

Ap == INSTANCE ApLine
Ip == INSTANCE IpLine

apVars == <<dataMem, memReg, ap, data, lock, memHere, memReads, memWrites>>
ipVars ==
  <<codeRam, bootRom, ip, insn, ipCounted, loop, overflow, scan, loading>>
ctrlVars == <<mode, halted, phase, call>>
queueVars == <<rx, insnIn>>
statVars == <<iret, bells>>
vars == <<apVars, ipVars, ctrlVars, cfg, queueVars, tx, statVars>>

Switches == [runOnHardRst : BOOLEAN, runOnSoftRst : BOOLEAN,
             softRstOnEot : BOOLEAN, echoMode : BOOLEAN, bellOnCin : BOOLEAN,
             bellOnHalt : BOOLEAN, bellOnError : BOOLEAN, onCin : BOOLEAN]

(* The sizes are those of the two lines. *)
ASSUME DekatronPCAssumption ==
  /\ ApTop \in Nat \ {0}
  /\ DataTop \in Nat \ {0}
  /\ StatSize \in Nat \ {0}
  /\ IpSize \in Nat
  /\ BootBase \in 1 .. IpSize - 1
  /\ LoopSize \in Nat \ {0, 1}
  /\ Insns \subseteq Opcode
  /\ \A code \in Programs : code \in Seq(Opcode)
  /\ Configs \subseteq Switches
  /\ Inputs \subseteq 0 .. DataTop
  /\ MaxQueue \in Nat
  /\ MaxTx \in Nat

(* The two lines are well typed, and so are the state of MachineCtrl, the  *)
(* queues and the output (dpcrun.h:222-261).                               *)
TypeOK ==
  /\ Ap!TypeOK
  /\ Ip!TypeOK
  /\ mode \in Isas
  /\ halted \in BOOLEAN
  /\ phase \in {"FETCH", "INSN", "CIN"}
  /\ call \in {"none", "insn", "decode", "cin"}
  /\ cfg \in Switches
  /\ rx \in Seq(Ap!Byte) /\ Len(rx) <= MaxQueue
  /\ insnIn \in Seq(Opcode) /\ Len(insnIn) <= MaxQueue
  /\ tx \in Seq(Ap!Byte) /\ Len(tx) <= MaxTx
  /\ iret \in Ap!Stat
  /\ bells \in Ap!Stat

(* powerOn *)
Init ==
  /\ Ap!Init
  /\ Ip!Init
  /\ mode = ISA_DEBUG
  /\ halted = TRUE
  /\ phase = "FETCH"
  /\ call = "none"
  /\ cfg \in Configs
  /\ rx = <<>>
  /\ insnIn = <<>>
  /\ tx = <<>>
  /\ iret = 0
  /\ bells = 0

-----------------------------------------------------------------------------
(* Outside step() *)
Between == call = "none" /\ scan = "none"

Bell(on) == bells' = IF on THEN WrapInc(bells, StatSize) ELSE bells

(* cout: the output is never read back, so only its end is kept. *)
Sent(c) == tx' = IF Len(tx) < MaxTx THEN Append(tx, c)
                                    ELSE Tail(Append(tx, c))

(* Mutant of ResetCounters: step() resumes where it waited. *)
ResetKeepsPhase(hard) ==
  /\ Ap!ApReset
  /\ Ip!IpReset(hard)
  /\ mode' = IF hard THEN ISA_DEBUG ELSE ISA_BF
  /\ halted' = ~(IF hard THEN cfg.runOnHardRst ELSE cfg.runOnSoftRst)
  /\ UNCHANGED phase

(* resetCounters *)
ResetCounters(hard) ==
  /\ Ap!ApReset
  /\ Ip!IpReset(hard)
  /\ mode' = IF hard THEN ISA_DEBUG ELSE ISA_BF
  /\ halted' = ~(IF hard THEN cfg.runOnHardRst ELSE cfg.runOnSoftRst)
  /\ phase' = "FETCH"

(* Mutant of EnterHalt: the halt request is lost. *)
EnterHaltLost ==
  /\ Ip!EnterHalt
  /\ phase' = "FETCH"
  /\ UNCHANGED halted

(* enterHalt *)
EnterHalt ==
  /\ Ip!EnterHalt
  /\ halted' = TRUE
  /\ phase' = "FETCH"

-----------------------------------------------------------------------------
(* step(): fetch *)

AtFetch == Between /\ ~halted /\ phase = "FETCH"

(* Mutant of LoopValZero: every bracket tests the data. *)
LoopValZeroOfData == Ap!DataZero

(* loopValZero *)
LoopValZero == IF mode = ISA_BF THEN Ap!DataZero ELSE ap = 0

Fetch ==
  /\ AtFetch
  /\ Ip!FirstFetch \/ Ip!NextFetch(LoopValZero)
  /\ call' = "decode"
  /\ UNCHANGED <<apVars, mode, halted, phase, cfg, queueVars, tx, statVars>>

StartScan ==
  /\ AtFetch
  /\ Ip!ScanStart(LoopValZero)
  /\ UNCHANGED <<apVars, ctrlVars, cfg, queueVars, tx, statVars>>

Scan ==
  /\ Ip!ScanPass \/ Ip!ScanOwn \/ Ip!ScanOther
  /\ UNCHANGED <<apVars, ctrlVars, cfg, queueVars, tx, statVars>>

(* The matching bracket is decoded as an ordinary instruction. *)
ScanMatch ==
  /\ Ip!ScanMatch
  /\ call' = "decode"
  /\ UNCHANGED <<apVars, mode, halted, phase, cfg, queueVars, tx, statVars>>

(* A scan that starts at the top of the counter, or reaches it, halts. *)
Overflow ==
  /\ \/ AtFetch /\ Ip!StartOverflow(LoopValZero)
     \/ Ip!ScanOverflow
  /\ Bell(cfg.bellOnError)
  /\ halted' = TRUE
  /\ phase' = "FETCH"
  /\ UNCHANGED <<apVars, mode, call, cfg, queueVars, tx, iret>>

LoadFetch ==
  /\ AtFetch
  /\ Ip!LoadFetch
  /\ phase' = "INSN"
  /\ call' = "insn"
  /\ UNCHANGED <<apVars, mode, halted, cfg, queueVars, tx, statVars>>

-----------------------------------------------------------------------------
(* step(): an opcode from the loader.  A call that finds none returns, and *)
(* the next one comes back here without another fetch.                     *)

AtInsn == \/ call = "insn"
          \/ Between /\ ~halted /\ phase = "INSN"

IsEot(op) == mode = ISA_DEBUG /\ op = DBG_EOT

TakeInsn ==
  /\ AtInsn /\ insnIn # <<>>
  /\ Ip!TakeInsn(Head(insnIn), IsEot(Head(insnIn)))
  /\ insnIn' = Tail(insnIn)
  /\ phase' = "FETCH"
  /\ call' = "decode"
  /\ UNCHANGED <<apVars, mode, halted, cfg, rx, tx, statVars>>

WaitInsn ==
  /\ AtInsn /\ insnIn = <<>>
  /\ call' = "none"
  /\ UNCHANGED <<apVars, ipVars, mode, halted, phase, cfg, queueVars,
                 tx, statVars>>

-----------------------------------------------------------------------------
(* step(): decode *)

Retire ==
  /\ call = "decode"
  /\ call' = "none"
  /\ iret' = WrapInc(iret, StatSize)
  /\ UNCHANGED <<cfg, queueVars>>

(* decodeLoading *)
DecodeEot ==
  /\ loading /\ IsEot(insn)
  /\ Retire
  /\ Ip!EndLoading(cfg.softRstOnEot)
  /\ IF cfg.softRstOnEot
       THEN /\ Ap!ApReset
            /\ mode' = ISA_BF
            /\ halted' = ~cfg.runOnSoftRst
       ELSE /\ UNCHANGED <<apVars, mode>>
            /\ halted' = TRUE
  /\ phase' = "FETCH"
  /\ UNCHANGED <<tx, bells>>

(* ISA0 and ISA1 act while loading too; every other stored code does not. *)
DecodeIsa ==
  /\ insn \in {OP_ISA0, OP_ISA1}
  /\ Retire
  /\ mode' = IF insn = OP_ISA1 THEN ISA_BF ELSE ISA_DEBUG
  /\ UNCHANGED <<apVars, ipVars, halted, phase, tx, bells>>

DecodeStored ==
  /\ loading /\ insn \notin {OP_ISA0, OP_ISA1} /\ ~IsEot(insn)
  /\ Retire
  /\ UNCHANGED <<apVars, ipVars, mode, halted, phase, tx, bells>>

Decodes(operation) == ~loading /\ Operation(mode, insn) = operation

DecodeNop ==
  /\ Decodes("NOP")
  /\ Retire
  /\ UNCHANGED <<apVars, ipVars, mode, halted, phase, tx, bells>>

DecodeHalt ==
  /\ Decodes("HALT")
  /\ Retire
  /\ Bell(cfg.bellOnHalt)
  /\ EnterHalt
  /\ UNCHANGED <<apVars, mode, tx>>

DecodeBell ==
  /\ Decodes("BELL")
  /\ Retire
  /\ Bell(TRUE)
  /\ UNCHANGED <<apVars, ipVars, mode, halted, phase, tx>>

DecodeReset ==
  /\ \/ Decodes("HRST") /\ ResetCounters(TRUE)
     \/ Decodes("SRST") /\ ResetCounters(FALSE)
  /\ Retire
  /\ UNCHANGED <<tx, bells>>

(* SOT, CLRL and CLRI: the instruction side only. *)
DecodeIp ==
  /\ \/ Decodes("SOT") /\ Ip!StartLoading
     \/ Decodes("CLRL") /\ Ip!ClrL
     \/ Decodes("CLRI") /\ Ip!ClrI
  /\ Retire
  /\ UNCHANGED <<apVars, mode, halted, phase, tx, bells>>

(* The data side only.  The low bit of the opcode is the direction. *)
DecodeAp ==
  /\ \/ Decodes("TEST") /\ Ap!BracketTest
     \/ Decodes("CLRD") /\ Ap!ClrD
     \/ Decodes("CLRA") /\ Ap!ClrA
     \/ (Decodes("INC") \/ Decodes("DEC")) /\ Ap!DataStep(insn % 2 = 1)
     \/ (Decodes("AINC") \/ Decodes("ADEC")) /\ Ap!ApStep(insn % 2 = 1)
     \/ Decodes("CLRML") /\ Ap!ClrMl
     \/ Decodes("LOAD") /\ Ap!Load
     \/ Decodes("STORE") /\ Ap!Store
  /\ Retire
  /\ UNCHANGED <<ipVars, mode, halted, phase, tx, bells>>

DecodeCout ==
  /\ Decodes("COUT")
  /\ Retire
  /\ Ap!Cout
  /\ Sent(data')
  /\ UNCHANGED <<ipVars, mode, halted, phase, bells>>

(* CIN retires here, and goes on to wait for its character. *)
DecodeCin ==
  /\ call = "decode"
  /\ Decodes("CIN")
  /\ call' = "cin"
  /\ phase' = "CIN"
  /\ iret' = WrapInc(iret, StatSize)
  /\ Bell(cfg.bellOnCin)
  /\ UNCHANGED <<apVars, ipVars, mode, halted, cfg, queueVars, tx>>

Decode ==
  \/ DecodeEot \/ DecodeIsa \/ DecodeStored \/ DecodeNop \/ DecodeHalt
  \/ DecodeBell \/ DecodeReset \/ DecodeIp \/ DecodeAp \/ DecodeCout
  \/ DecodeCin

-----------------------------------------------------------------------------
(* step(): a character for CIN, from the hook if there is one.  Without a  *)
(* character the call returns and the next one comes back here.            *)

AtCin == \/ call = "cin"
         \/ Between /\ ~halted /\ phase = "CIN"

(* The hook may give any int; what the counter takes is its remainder. *)
Character(c) ==
  IF cfg.onCin
    THEN c \in Inputs \union {DataTop + 1} /\ UNCHANGED rx
    ELSE rx # <<>> /\ c = Head(rx) /\ rx' = Tail(rx)

FinishCin(c) ==
  /\ AtCin
  /\ Character(c)
  /\ phase' = "FETCH"
  /\ call' = "none"
  /\ Ap!Cin(c % (DataTop + 1))
  /\ IF cfg.echoMode THEN Sent(data') ELSE UNCHANGED tx
  /\ UNCHANGED <<ipVars, mode, halted, cfg, insnIn, statVars>>

WaitCin ==
  /\ AtCin
  /\ cfg.onCin \/ rx = <<>>
  /\ call' = "none"
  /\ UNCHANGED <<apVars, ipVars, mode, halted, phase, cfg, queueVars,
                 tx, statVars>>

-----------------------------------------------------------------------------
(* The panel *)

(* Mutant of HardReset: what was typed before is lost. *)
HardResetDrains ==
  /\ Between
  /\ ResetCounters(TRUE)
  /\ rx' = <<>>
  /\ UNCHANGED <<call, cfg, insnIn, tx, statVars>>

HardReset ==
  /\ Between
  /\ ResetCounters(TRUE)
  /\ UNCHANGED <<call, cfg, queueVars, tx, statVars>>

SoftReset ==
  /\ Between
  /\ ResetCounters(FALSE)
  /\ UNCHANGED <<call, cfg, queueVars, tx, statVars>>

Run ==
  /\ Between
  /\ halted' = FALSE
  /\ UNCHANGED <<apVars, ipVars, mode, phase, call, cfg, queueVars, tx,
                 statVars>>

(* Mutant of StartLoading: a load begins with a fetch of its own. *)
StartLoadingFresh ==
  /\ Between
  /\ Ip!StartLoading
  /\ halted' = FALSE
  /\ phase' = "FETCH"
  /\ UNCHANGED <<apVars, mode, call, cfg, queueVars, tx, statVars>>

(* InsnLoadingStart is meant for a halted machine, but nothing checks. *)
StartLoading ==
  /\ Between
  /\ Ip!StartLoading
  /\ halted' = FALSE
  /\ UNCHANGED <<apVars, mode, phase, call, cfg, queueVars, tx, statVars>>

Panel == HardReset \/ SoftReset \/ Run \/ StartLoading

(* The host: queues, memories and the output *)

PushInput(c) ==
  /\ Between /\ Len(rx) < MaxQueue
  /\ rx' = Append(rx, c)
  /\ UNCHANGED <<apVars, ipVars, ctrlVars, cfg, insnIn, tx, statVars>>

PushInsn(op) ==
  /\ Between /\ Len(insnIn) < MaxQueue
  /\ insnIn' = Append(insnIn, op)
  /\ UNCHANGED <<apVars, ipVars, ctrlVars, cfg, rx, tx, statVars>>

SetCell(a, v) ==
  /\ Between
  /\ Ap!SetCell(a, v)
  /\ UNCHANGED <<ipVars, ctrlVars, cfg, queueVars, tx, statVars>>

(* Nothing in the code forbids loadCode or setBootRom between any two      *)
(* calls.  Here they come only while no fetched opcode waits for its       *)
(* successor, as in main and the tests; what happens otherwise is shown on *)
(* IpLine alone, whose Next has no such bound.                             *)
LoadMemory ==
  /\ Between /\ ~ipCounted
  /\ Ip!HostLoad
  /\ UNCHANGED <<apVars, ctrlVars, cfg, queueVars, tx, statVars>>

ClearOutput ==
  /\ Between
  /\ tx' = <<>>
  /\ UNCHANGED <<apVars, ipVars, ctrlVars, cfg, queueVars, statVars>>

Host ==
  \/ \E c \in Inputs : PushInput(c)
  \/ \E op \in Insns : PushInsn(op)
  \/ \E a \in Ap!Addr, v \in Inputs : SetCell(a, v)
  \/ LoadMemory
  \/ ClearOutput

-----------------------------------------------------------------------------
(* The part of a step() that is not its start. *)
Continue ==
  \/ Scan
  \/ ScanMatch
  \/ Overflow
  \/ TakeInsn
  \/ WaitInsn
  \/ Decode
  \/ \E c \in 0 .. DataTop + 1 : FinishCin(c)
  \/ WaitCin

Step == Fetch \/ StartScan \/ LoadFetch \/ Continue

Next == Step \/ Panel \/ Host

(* A call of step() runs until it returns. *)
StepRuns == WF_vars(~Between /\ Continue)

Spec == Init /\ [][Next]_vars /\ StepRuns

-----------------------------------------------------------------------------
(* A halted machine is at a clean point: nothing is half fetched, no load  *)
(* is open and no character is awaited, however it came to halt (HALT, the *)
(* end of a load, an overflow, a reset), so that Run starts with a fetch   *)
(* at IP and loads begin at IP (dpcrun.cpp:161-213).                       *)
HaltedIsFresh ==
  halted => Between /\ ~ipCounted /\ phase = "FETCH" /\ ~loading

(* The zero flag is looked at one instruction after the bracket that made  *)
(* it valid, and the host may have changed the cell, reset or reloaded the *)
(* machine since: when a bracket is about to decide, the flag is still the *)
(* truth about the current cell (dpcrun.cpp:331-363, 479-484).             *)
PendingTestValid ==
  Between /\ mode = ISA_BF /\ ipCounted /\ ~loading
          /\ insn \in {BF_LBEG, BF_LEND}
    => (Ap!DataZero <=> Ap!CellValue = 0)

(* phase alone tells what a machine that waits has done so far.  If it     *)
(* waits for an opcode, a load is open and the fetch is made; if it waits  *)
(* for a character, the CIN has been fetched and not moved off; and it     *)
(* runs in both.  So a call that finds either goes on without a fetch of   *)
(* its own (dpcrun.cpp:573-602).                                           *)
WaitIsConsistent ==
  /\ phase = "INSN" => loading /\ ipCounted /\ ~halted
  /\ phase = "CIN" => ipCounted /\ ~halted

(* A CIN that waits is left with a character in the locked counter, or by  *)
(* a reset, and in no other way: not by Run, by the start of a load, or by *)
(* what the host does to the queues and memories (dpcrun.cpp:524-528,      *)
(* 553-571).                                                               *)
CinIsServed ==
  [][phase = "CIN" /\ phase' # "CIN" =>
       \/ lock' /\ ipCounted' /\ (cfg.onCin \/ rx' = Tail(rx))
       \/ ~lock' /\ ~ipCounted' /\ ip' \in {0, BootBase}]_vars

(* Seen from the data side the whole machine, its panel and its host       *)
(* included, is a store of cells: no instruction, reset or wait reaches    *)
(* the cells in any other way than an operation of CellStore.              *)
ImplementsCellStore == Ap!ImplementsCellStore

(* Every call of step() returns, whatever program is in memory and         *)
(* whatever the panel and the host did before it (dpcrun.cpp:573-602).     *)
StepReturns == ~Between ~> Between
=============================================================================
