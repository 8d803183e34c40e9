------------------------------- MODULE DpcRun -------------------------------
(***************************************************************************)
(* The program dpcrun: main() of dpcrun.cpp loads a program and perhaps a  *)
(* bootloader, resets the machine, presses Run and calls step() until the  *)
(* machine halts or would wait.                                            *)
(*                                                                         *)
(*   job      the command line and the files it names:                     *)
(*              source, boot      the texts of -f and of -b                *)
(*              missing           the files that cannot be read            *)
(*              fromBoot          -B: start in the bootloader              *)
(*              top               -a: the limit of AP                      *)
(*              limit             -n: the calls of step() to make at most  *)
(*   stage    how far main() is                                            *)
(*   exit     what it returns, or Aborted for an exception nobody catches  *)
(*   steps    the calls of step() so far, if they are limited              *)
(*   input    the characters that standard input still holds               *)
(*   origin   a history of where the running loop scan started from, or    *)
(*            the one that overflowed                                      *)
(***************************************************************************)
EXTENDS DekatronPC, Loader, FiniteSets, Integers

CONSTANTS
  Unlimited,  \* the 2^64 - 1 calls that main() makes without -n
  Jobs,       \* bound: the command lines
  Typed       \* bound: what standard input may hold

VARIABLES job, stage, exit, steps, input, origin

machineVars == <<apVars, ipVars, ctrlVars, cfg, queueVars, tx, statVars>>
runVars == <<machineVars, job, stage, exit, steps, input, origin>>

RunInit ==
  /\ Init
  /\ job \in Jobs
  /\ stage = "load"
  /\ exit = 0 /\ steps = 0
  /\ input \in Typed
  /\ origin = 0

Goes(s, t) ==
  stage = s /\ stage' = t /\ UNCHANGED <<job, exit, steps, input, origin>>

Quits(s, status) ==
  /\ stage = s /\ stage' = "done"
  /\ exit' = status
  /\ UNCHANGED <<machineVars, job, steps, input, origin>>

Aborted == 134    \* the status a shell shows for SIGABRT

Code == Assemble(job.source)

NoProgram == "source" \in job.missing \/ Code = <<>>
BadTop == job.top \notin 1 .. IpSize - 1

Refuse == NoProgram /\ Quits("load", -1)

(* The constructor of the machine *)
Throw == ~NoProgram /\ BadTop /\ Quits("load", Aborted)

(* The program, with a HALT after it. *)
LoadSource ==
  /\ ~NoProgram /\ ~BadTop
  /\ Goes("load", "boot")
  /\ Ip!LoadCode(Append(Code, OP_HALT), 0)
  /\ UNCHANGED <<apVars, ctrlVars, cfg, queueVars, tx, statVars>>

RefuseBoot == "boot" \in job.missing /\ Quits("boot", -1)

LoadBoot ==
  /\ "boot" \notin job.missing
  /\ Goes("boot", "reset")
  /\ Ip!SetBootRom(Assemble(job.boot))
  /\ UNCHANGED <<apVars, ctrlVars, cfg, queueVars, tx, statVars>>

StartReset ==
  /\ Goes("reset", "key")
  /\ IF job.fromBoot THEN HardReset ELSE SoftReset

RunKey == Goes("key", "step") /\ Run

(* step() returned something else than Ok *)
Stopped == Between /\ (halted \/ phase # "FETCH")

OutOfSteps == Between /\ steps = job.limit

(* Mutant of Finish: a run that was cut off has no error. *)
FinishOnLimit ==
  /\ Stopped \/ OutOfSteps
  /\ Quits("step", IF overflow /\ ~OutOfSteps THEN 2 ELSE 0)

Finish ==
  /\ Stopped \/ OutOfSteps
  /\ Quits("step", IF overflow THEN 2 ELSE 0)

(* The hook never makes the machine wait: at its end the input is zeros. *)
ReadCin ==
  /\ FinishCin(IF input = <<>> THEN 0 ELSE Head(input))
  /\ input' = IF input = <<>> THEN <<>> ELSE Tail(input)

(* A part of a call of step().  The loop counts the calls that returned. *)
RunStep ==
  /\ stage = "step" /\ ~Stopped /\ ~OutOfSteps
  /\ \/ /\ \/ Fetch \/ StartScan \/ LoadFetch
           \/ Scan \/ ScanMatch \/ Overflow
           \/ TakeInsn \/ WaitInsn \/ Decode
        /\ UNCHANGED input
     \/ ReadCin
  /\ steps' = IF Between' /\ job.limit # Unlimited THEN steps + 1 ELSE steps
  /\ origin' = IF overflow' THEN origin
               ELSE IF scan' = "none" THEN 0
               ELSE IF scan = "none" THEN ip ELSE origin
  /\ UNCHANGED <<job, stage, exit>>

RunNext ==
  \/ Refuse \/ Throw \/ RefuseBoot
  \/ LoadSource \/ LoadBoot \/ StartReset \/ RunKey \/ RunStep \/ Finish

(* main() is one loop without a wait. *)
RunSpec == RunInit /\ [][RunNext]_runVars /\ WF_runVars(RunNext)

-----------------------------------------------------------------------------
(* The refinement: where the program in memory is, as a Brainfuck program. *)

IsBracket == insn \in {BF_LBEG, BF_LEND}

(* The next command to take effect.  A bracket takes effect with the fetch *)
(* after it, CIN when its character is there, anything else when decoded.  *)
NextPlace ==
  IF scan # "none" \/ overflow THEN origin
  ELSE IF ~ipCounted \/ call # "none" \/ phase = "CIN" \/ IsBracket THEN ip
  ELSE ip + 1

Commands == {"+", "-", ">", "<", "[", "]", ".", ","}
IsCommand(c) == c \in Commands
Plain(text) == At(text, {i \in DOMAIN text : IsCommand(text[i])})
Source == Plain(job.source)

Language == INSTANCE Brainfuck WITH
  echo <- cfg.echoMode,
  cut <- stage = "done" /\ (exit # 0 \/ OutOfSteps),
  program <- Source,
  pc <- IF NextPlace > Len(Source) THEN Len(Source) ELSE NextPlace,
  tape <- [dataMem EXCEPT ![ap] = Ap!CellValue],
  ptr <- ap,
  out <- tx

(* dpcrun runs plain Brainfuck: MemLock, the lazy read, the delayed        *)
(* brackets, the scan on the ring and the landing on the match compute     *)
(* what the language says, command by command, with the same output and    *)
(* the same use of the input; and it does not stop before the program      *)
(* does, but for -n and for errors (dpcrun.cpp:298-602, 650-748).          *)
RunsBrainfuck == Language!Spec

(* A command line for a Brainfuck program: a text of commands and comments *)
(* with matching brackets, that fits below the bootloader with its HALT.   *)
RunsPlain(j) ==
  /\ j.source \in Seq(STRING) /\ j.boot \in Seq(STRING)
  /\ \A i \in DOMAIN j.source :
       IsSymbol(j.source[i]) => IsCommand(j.source[i])
  /\ Language!Balanced(Plain(j.source))
  /\ Len(Plain(j.source)) < BootBase
  /\ ~j.fromBoot

PlainJobs ==
  /\ \A j \in Jobs : RunsPlain(j)
  /\ Typed \subseteq Seq(0 .. DataTop)

(* How deep the loops of the program are nested. *)
OpenLoops(i) ==
  Language!Brackets(Source, "[", 1, i) - Language!Brackets(Source, "]", 1, i)

Nesting ==
  CHOOSE n \in 0 .. Len(Source) :
    /\ \A i \in DOMAIN Source : OpenLoops(i) <= n
    /\ n = 0 \/ \E i \in DOMAIN Source : OpenLoops(i) = n

(* What main() returns tells what became of the program: -1 or an          *)
(* exception is for a command line that starts nothing, and what would     *)
(* have run left no trace; 2 is for loops nested deeper than the counter   *)
(* counts; 0 is for a program that reached its HALT, or was cut off by -n  *)
(* with no error before, the last call that -n allows included             *)
(* (dpcrun.cpp:650-748).                                                   *)
ExitTells ==
  stage = "done" =>
    CASE exit = 0 -> \/ halted /\ NextPlace = Len(Source) + 1
                     \/ ~halted /\ ~overflow /\ steps = job.limit
      [] exit = 2 -> Nesting >= LoopSize
      [] OTHER -> /\ job.missing # {} \/ Source = <<>> \/ BadTop
                  /\ halted /\ tx = <<>> /\ ip = 0

(* dpcrun -B with the bootloader of the test bench, on a core whose cells  *)
(* the host has set to anything before.                                    *)
Bootloader == <<"D", "A", "0", "B", "<", "D", "{", "0", "B", "<", "D", "}",
                "B", "H">>

RunsBoot(j) ==
  /\ j.source \in Seq(STRING) /\ Assemble(j.source) # <<>>
  /\ j.missing = {} /\ j.top \in 1 .. IpSize - 1
  /\ j.fromBoot /\ j.boot = Bootloader /\ j.limit = Unlimited

BootJobs ==
  /\ \A j \in Jobs : RunsBoot(j)
  /\ BootBase + Len(Bootloader) <= IpSize
  /\ Unlimited # 0

(* Cells are set before main() presses a key. *)
BootNext ==
  \/ RunNext
  \/ /\ stage = "load"
     /\ \E a \in Ap!Addr, v \in Inputs : SetCell(a, v)
     /\ UNCHANGED <<job, stage, exit, steps, input, origin>>

BootSpec == RunInit /\ [][BootNext]_runVars /\ WF_runVars(RunNext)

(* The bootloader of the test bench, DA0B<D{0B<D}BH, leaves the machine    *)
(* halted at AP 0 in the Brainfuck ISA with every cell of the core zero,   *)
(* none of it still in the counter, whatever the core held before: its     *)
(* loop runs over AP in one ISA and over the data in the other             *)
(* (dpcrun.cpp:298-311, 331-336, 454-550).                                 *)
BootClears ==
  stage = "done" =>
    /\ \A a \in Ap!Addr : dataMem[a] = 0
    /\ halted /\ ap = 0 /\ ~lock /\ mode = ISA_BF /\ loop = 0

(* main() ends on a program that halts. *)
Ends == <>(stage = "done")

(* README.md:158 gives the nesting of loops as 0-999, an error past 999. *)
DocumentedNesting ==
  overflow => Cardinality({i \in DOMAIN Source : Source[i] = "["}) > 999
=============================================================================
