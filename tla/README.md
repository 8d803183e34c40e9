# TLA+ models of bfutils

bfutils holds two Brainfuck computers and their tools. The **DekatronPC** is
simulated at the level of its counters and control signals by `dpcrun`. The
**BrainfuckPC** is a 16-bit word machine: `bfpp` compiles Brainfuck for it,
`bfrun` emulates it. This directory specifies both, checks the specifications
with TLC and proves with TLAPS, for every size and every program, that the
DekatronPC implements its architecture, that `dpcrun` computes what a Brainfuck
program means, and that `bfrun`, on what `bfpp` makes of a source, does.

Paths below are relative to `src/`.

## 1. Inventory

| Part | Code | State it keeps | Operations |
|---|---|---|---|
| Ring counters | `dpcrun/dpcrun.cpp:117-118, 306-309` | a count in one decade after the other | step up, step down, wrap |
| Data side (ApLine) | `dpcrun/dpcrun.cpp:262-336` | AP, data counter, data RAM and its output register, MemLock, statistics | move AP, count, load, store, clear, CIN, COUT, reset |
| Instruction side (IpLine) | `dpcrun/dpcrun.cpp:215-260, 338-432` | program RAM and bootloader ROM, IP, opcode register, loop counter, overflow, loading flag | fetch, loop scan, CLRL, CLRI, load, halt, reset |
| Machine (MachineCtrl, panel, queues, terminal) | `dpcrun/dpcrun.cpp:161-213, 434-602` | ISA, halted, `m_phase`, switches, both queues, output, statistics | `step()`, the keys of the panel, the calls of the host |
| Assembler | `dpcrun/dpcrun.cpp:36-81` | none | `assemble`, `symbolToOpcode` |
| `dpcrun` `main()` | `dpcrun/dpcrun.cpp:641-722` | command line, files, standard input, calls of `step()` so far | load, reset, run, step until it stops or `-n` does, exit code |
| bfpp compiler | `bfpp/Bf.cpp`, `common/cmd.cpp` | lists of commands | Translate, OptimizeDataClr, Linking, encode a command |
| bfpp command line | `bfpp/bfpp.cpp` | options | write an image, an array or a listing; exit code |
| Image format | `common/Image.cpp`, `common/bfutils.cpp` | header, sections, their places in the file | write, read, swap bytes, copy to memory |
| bfrun emulator | `bfrun/bfrun.cpp`, `common/Command.cpp` | 64K words, IP, AP, AP_MAX, word mode | load or refuse, both ExecCode |
| bfrun console | `common/Console.cpp` | a word of input, position, free flag | In, Out |
| bfloader, option parsing | `bfloader/`, `common/getopt.cpp` | | not modelled |
| Tests and samples | `dpcrun/test/`, `test/` | | read, not modelled |

How they interact. `Machine` is one object: `step()` of MachineCtrl calls the
operations of ApLine and IpLine in turn; the panel and the host (loading,
queues, cells) call in between two `step()`s, on the same thread. `main()` of
`dpcrun` is such a host. On the other side the only contact between `bfpp` and
`bfrun` is the image file; a script (`test/test.sh`) calls one after the other
and sees their exit codes; `bfrun` asks the console for a character when it
executes an input command.

There are no threads and nothing is persisted but the image. What is hard is:

* **State that is trusted later.** The data RAM's output register, the zero
  flag a bracket is decided on, and the opcode register are written in one
  `step()` and used in another, with anything in between.
* **A call that stops half way.** `step()` returns to wait for a character or
  an opcode, and has to go on exactly where it left, after resets, keys and
  loads, without doing anything twice.
* **Loops that must end.** The loop scan has no bound of its own; the emulator
  stops only by running off its code.
* **Bounds.** Every counter wraps; the loop counter overflows; the words of the
  BrainfuckPC have 13 bits for a count; sections have 16 bits for a size.
* **One step of several failing.** A file that is not there, an image that is
  none, a limit that cuts a program off: each program must say so, and say it
  before anything has run.
* **Laziness and merging.** Lazy reads, MemLock, brackets decided late, merged
  runs and cleared loops must all be invisible to the program.

The list of hazards, each at its line with the properties that cover it, is in
`PROJECT.json`.

What makes each part correct: counters wrap back to where they were; the data
side looks like plain cells; a scan finds the matching bracket; the machine
resumes where it stopped; `dpcrun` means what Brainfuck means; a compiled
program, encoded, written, loaded and executed, means it too.

## 2. Modules

```
Dekatron ─┬─ ApLine ─────┐            CellStore  (abstract: ApLine implements it)
          └─ IpLine ─────┤
Opcodes ──── IpLine      ├─ DekatronPC ─┬─ CallHistory  implements Architecture
             └ ScanHistory              │    │          (abstract, on CellStore)
                                        │    └ LoadHistory
                                        └─ DpcRun ── Loader ── Places
                                            └ implements Brainfuck (abstract)
BfWords ─ BfCompiler ─ BfImage ─ BfRun ─ BfPc     in step with Brainfuck
Places ───┘            Console ──┘
```

The proofs are in modules of their own, each beside the module it is about:

```
Dekatron_proofs ─┬─ ApLine_proofs ─┬─ DekatronPC_proofs ── History_proofs
                 ├─ IpLine_proofs ─┘                           │
                 ├─────────────────────────────────────────────┴─ DpcRun_proofs
                 └─ BfPc_proofs ── BfTwin_proofs
```

`DekatronPC_proofs` and `History_proofs` instantiate the proofs of the lines,
`IpLine_proofs` with those of `ScanHistory` among them, so that what is proved of
a part is used for the whole. `History_proofs` is about `LoadHistory` and
`CallHistory`; `BfPc_proofs` follows a source into memory, `BfTwin_proofs` the
execution of what is there. `Dekatron_proofs` also holds what the proofs about
both machines share: what `At` takes from a list, and how brackets nest.

### The DekatronPC

* **Dekatron** — `wrapInc`, `wrapDec` and the step that every counter makes.
* **ApLine** — the data side. One action is one operation that MachineCtrl
  issues, or `setCell`. `memHere` is `m_memHere`, `lock` is MemLock.
* **CellStore** — what the data side promises: a tape, a pointer, a counter, and
  the core that survives a reset. The refinement is
  `tape <- [dataMem EXCEPT ![ap] = CellValue]`: the register, MemLock and the
  lazy read have no counterpart. Dropping a change (LOAD under MemLock, a reset)
  is an action of its own, so that no other operation may do it.
* **Opcodes**, **Loader** — the opcodes of both ISAs with their operations, and
  `assemble`.
* **IpLine** — the instruction side. The scan is one iteration of its `for (;;)`
  per step. MachineCtrl is left open: any operation may follow any other.
  `Next` lets the host load program memory between any two calls, `QuietNext`
  only while no fetched opcode waits to be retired (`~ipCounted`): before Run, after a
  reset or in a halt, as `main()` and the tests do.
* **ScanHistory** — IpLine with two history variables that say where the scan
  began and how far it went, so that "matching bracket" can be said without the
  loop counter.
* **DekatronPC** — `step()`, the panel, the queues and the host. `step()` is one
  call in the code and a sequence of actions here; `call` says where in it the
  program is, `phase` is `m_phase`, which the code keeps from one call to the
  next. Panel and host act only `Between` calls. Of `loadCode` and `setBootRom`
  it has the quiet calls only (`LoadMemory`, `~ipCounted`): the code would take
  them between any two `step()`s, and what then happens is `ip_line_patched`.
* **Architecture** — what the machine promises its programmer: plain cells
  (`CellStore`), a program counter, an ISA, and one instruction, one stored
  opcode or one awaited character at a time. It has no MemLock, no phase of a
  call, no opcode register and no scan; a bracket's target is defined by the
  nesting of the program as it is when the bracket decides (`Reach`), as is the
  overflow (`TooDeep`).
* **CallHistory** — DekatronPC with one history variable, `seen`: the
  architectural state (`Now`) after the last call of `step()`. Within a call
  the machine is between two instructions, and a reader outside cannot look;
  so `Architecture` is implemented by what is `seen`, and a whole call, however
  many iterations its scan took, is one step of it or none.
* **LoadHistory** — CallHistory with what program RAM should be, told from the
  opcodes that were taken alone.
* **Brainfuck** — the language: a program, a place in it, cells on a ring.
  `Computes` says that every step is the next command; `Spec` adds that the
  program goes on.
* **DpcRun** — all of `main()` on top of DekatronPC: the files that cannot be
  read, a program without an opcode, a limit of AP that the constructor refuses,
  `-B`, `-b`, `-n` and the exit code. `steps` is the `i` of its loop. The
  refinement maps the machine to the language at the place of the next command
  to take effect: a bracket takes effect with the fetch *after* it, CIN when its
  character is there, anything else when it is decoded. Only a run that `-n`,
  an overflow or a bad command line cut off (`cut`) may stop short of the end.
  `PlainJobs` names the command lines that run a Brainfuck program: commands and
  comments only, brackets that match, a place for it and its HALT below the
  bootloader, no `-B`. `BootJobs` names those that start the
  bootloader of the tests, which needs to fit the ROM, and have no `-n`;
  `BootSpec` lets the host set cells before `main()` goes on.

### The BrainfuckPC

* **BfWords** — commands and the words that encode them, with the bit fields as
  remainders and quotients. Sizes are parameters (section 4).
* **Places** — `At` takes what a list has at some places, in their order: it is
  each loop of the compiler that copies what it wants to keep to a new buffer,
  and the filter of `assemble`.
* **BfCompiler** — Strip, Translate, OptimizeDataClr and Linking as operators.
* **BfImage** — the file: header, section headers and data as a sequence of
  16-bit fields in their byte order, at the places their headers give; the
  array of `-H` and the listing of `-s` with their words alone. Then the reader:
  the magic number, the headers, each section from its `FileBase`, and what
  memory holds after `LoadShared`. The reader takes nothing from the writer but
  the file.
* **Console** — `In`, with the word that stays in the buffer at the end of the
  input; `Stream` is what a program should read.
* **BfRun** — the emulator: ExecCode, one instruction a step. The source has two
  of them. `array` says which one runs: the one for an array does `++IP` before
  an instruction instead of after it, skips the first word and stops at a HALT.
* **BfPc** — `main()` of `bfpp`, then of `bfrun`, with what they return
  (`status`) and the files they may not be able to open, **in step with the
  language**.
  After every instruction the language does the commands of the source that the
  instruction stands for (a merged run, a whole `[-]`) until it is at the next
  one (`Place(IP)`). At each such point memory, pointer and output must agree.
  A direct refinement would not do: one instruction is many commands, and
  `bfrun` jumps *past* the matching bracket where the language jumps *to* it.
  `program` is the source without what the language does not know.

MC modules hold the instances only.

## 3. What is checked

Runs that pass; each property also has a mutant in `PROJECT.json`, a change
to the modelled code of the kind a bug would make, under which TLC finds the
property violated.

| Run | States | Asks |
|---|---:|---|
| `ap_line` | 7 776 | Is the register ever stale (`RegCoherent`)? Is the core read only when it must be (`LazyRead`)? Does the data side implement `CellStore`? |
| `ip_line` | 27 530 | Does every scan start from a clean counter (`LoopCounterClean`)? Is the opcode about to be decided the one in memory (`LatchedInsn`)? Is the loop counter the nesting depth (`CountsDepth`), does the scan end on the match or the overflow and not past it (`EndsOnMatch`), in time (`EndsInTime`), and always (`ScanEnds`)? |
| `waiting` | 1 688 874 | Is a halted machine clean, after a HALT, a load and a reset (`HaltedIsFresh`)? Does `m_phase` alone say what a waiting machine has done (`WaitIsConsistent`)? Do loads store what they take, place after place, through waits for opcodes and characters, resets, keys and quiet loads by the host (`LoadIsContiguous`)? Is no awaited CIN lost (`CinIsServed`)? Do waits, keys, resets and queues act on the machine as the programmer sees it and on nothing else (`ImplementsArchitecture`)? |
| `machine` | 334 864 | Is the zero flag still true when the bracket decides (`PendingTestValid`)? Does the whole machine implement `CellStore`? Is a call of `step()` one instruction of the `Architecture`, brackets, scans and overflows included (`ImplementsArchitecture`)? Does `step()` return (`StepReturns`)? |
| `dpcrun` | 120 082 | Does `dpcrun` implement `Brainfuck`, its ending included (`RunsBrainfuck`)? Does its exit code tell what became of the program, on bad command lines, on loops nested too deep and on every limit of `-n` (`ExitTells`)? |
| `boot` | 4 885 | Does the bootloader of the tests clear any core (`BootClears`), and end (`Ends`)? |
| `bfpc` | 219 045 | Do compiler, file, console and emulator together mean what the source means, and end well only if it ran (`SameCells`, `KeepsUp`, `EndsTogether`)? Are jumps in memory the matches (`LinksMatch`), is the code in memory what was compiled (`ImageHolds`), does bfpp fail exactly when it cannot read the source or a `[` is never closed, whatever stands around it (`RejectsUnclosed`)? How far may a program move before its AP is in its own code (`StaysOnData`)? |

Runs that TLC refutes, each a disagreement between the code and what the
repository says of it:

| Run | What it shows |
|---|---|
| `dpcrun_nesting` | `README.md:158` gives loop nesting as 0–999; the loop counter has two decades and overflows at 100. |
| `ip_line_patched` | `dpcrun.cpp:379` says the scan always ends. If the host rewrites program memory while a fetched bracket waits, a scan can walk a ring without any bracket for ever. |
| `bfpc_stray` | `Bf.cpp:243-244` say that after linking "[ should get shift > 0" and "] should get shift < 0", `README.md:61` that every `[` and `]` gets a jump to its match (`ShiftsHaveSigns`). `Linking` starts from `[` only: a `]` that closes nothing compiles without an error and keeps the jump 0. |
| `bfpc_long_loop` | `README.md:61` says every bracket gets a jump to its match. A loop of 4096 commands or more does not fit the 13 signed bits, and nothing checks it. |
| `bfpc_long_source` | `README.md:145` says `bfrun` loads every section. A code section of 32768 commands has a size of zero bytes in its 16-bit field and is not written. |

More behaviours are visible in the models without a run of their own:

* At the end of its input `bfrun` reads the last word over and over: `Stream`
  states it, and `SameCells` compares with it.
* `bfpp` ends with 0 when it could not write its output (`BfppMain`); `bfrun` is
  the first to notice, with -1 (`Refuse`).
* Of a file with another magic number `bfrun` copies sections before it looks at
  the error; `Refuse` allows both a refusal and a crash.
* `-n` counts calls of `step()`, where the usage text says instructions: a call
  that resumes a load or a CIN, or one that overflows, counts and retires
  nothing. In `dpcrun` itself only the overflow tells them apart, since its CIN
  never waits and its loader has nothing to load.

## 4. Bounds, and why they are enough

* **Rings.** `ap_line` has three cells of three values: two neighbours, and the
  wrap on either side. `ip_line` has a ring of five with one place of ROM and a
  loop counter of four values, so that three nested brackets fit, a fourth
  overflows, a lone bracket goes round the ring until it overflows, and a scan
  crosses the end of the ring and the ROM. Programs of two opcodes are loaded
  at every base and stored by the loader, so that every memory over
  `{NOP, [, ]}` is reached.
* **Machine.** Two cells of two values and a ring of three to five. Each run
  drives one side of the machine with a few programs as long as the ring, loaded at
  every base, so that every rotation runs, and one that is longer than the ring
  and overwrites its own beginning. Queues hold one entry: a queue is
  only ever tested for being empty and popped. `waiting` has four settings of the
  switches, all of them off, all of them on and the defaults among them, which
  hold every pair of what a soft reset and the end of a load do. Its loads take
  an ISA1, which hides the end mark, and the mark itself. It has no bracket and so
  no overflow: that this too leaves a halted machine clean is the theorem
  `HaltIsClean`, and what a call that overflows does is checked in `machine`. It keeps the last
  character of the output, which is what an echo, a COUT or a cleared terminal
  changes.
* **`dpcrun`.** A ring of 15 places with the ROM from 13, the longest program and
  its HALT below it. All balanced programs of up to four commands and three longer
  ones (a move loop, nested loops, a read loop with a comment), loops as deep as
  the counter of four values counts and one deeper, three cells of
  three values, with and without echo, with and without input; the last three
  characters of the output are compared, step by step. `-n` takes every value
  from 0 to 9 on the longer programs, which stops them before a bracket has
  decided, on an overflow, on their last call and after it. `Unlimited` stands for the 2^64 - 1 calls that
  `main()` makes without `-n`: they are taken to be enough.
* **`boot`.** The real bootloader, on every core of five cells of three values.
* **Words.** The BrainfuckPC's words are scaled with their proportions kept:
  three bits of operation over a count (`WordSize = 8 * BiasSize`), a byte that
  divides half the count, and a data offset that does not fit the count and
  becomes negative in it, as 0xff00 does. In the code `BiasSize` is 2^13 and
  `ByteSize` 256; in the runs 32 and 4. The bytes of a word, as the file has
  them, are `HalfWord` values each, 256 in the code and 16 in the runs: they are
  bytes of storage, not the bytes a program computes with. A run of commands that
  changes the sign of its count, the longest loop that fits and one that does
  not, and a code section whose byte size wraps are then short sources.
* **Sources.** Every source of up to three characters, comments, `~` and stray
  brackets included; every short loop that is or looks like a clear; every loop
  of three commands; nested and long ones. Readers run on every input of up to three
  words of one or two characters, past its end; twelve characters are read at
  most (`MaxReads`), which is more than any such input holds.
* **Edges of memory.** `Wanderers` walk from one end of the data to the other and
  one cell beyond, so that both the last cell a program may use and the first it
  may not are reached.
* **Arrays.** The short, long, reading and wandering sources also run as arrays,
  compiled with `-O0`. With `-O1` an array begins with the command that moves AP
  behind the code, which the ExecCode for arrays never executes.
* **Left out of a run on purpose.** `bfpc` stops following a program when AP
  enters the code: code and data share memory unchecked, and the language has no
  answer. A source with a stray `]` is compiled and loaded but not compared;
  `bfpc_stray` shows what it is compiled to. Runs of commands whose count changes
  its sign are followed where bytes are counted; in a word or in AP they come
  out as another number (`RunsFit`, section 6). A list of more than half a
  memory is beyond the model: the constructor of a section (`Image.cpp:43`) sizes
  its buffer by the wrapped size and the copy leaves it; `BfImage` then has a file
  that lacks words, and no property that passes depends on it (`FilesFit`).
* **Cells.** `CellStore` lets a command put any value into the cell at the
  pointer: it says where a value may go and when it is lost. What the value must be
  is said by `RegCoherent`, `ImplementsArchitecture` and `RunsBrainfuck`.

## 5. Fairness

* `ScanRuns` (IpLine): weak fairness of one iteration of the scan. The loop has
  no wait and no other thread can stop it.
* `StepRuns` (DekatronPC): weak fairness of the rest of a call of `step()`. A
  function that was called runs until it returns. Nothing says that `step()` is
  called again, nor that a key is ever pressed.
* `DpcRun` and `BfPc`: weak fairness of `Next`. Both are loops without a wait;
  input never blocks for ever, since at its end the hook gives zeros and `scanf`
  returns.

## 6. What is proved

Every theorem holds for every size of the rings, memories, counters and words,
every program and every use of the panel, the queues and the host; in the whole
machine the host loads program memory at quiet times only (section 2). What it
assumes are the named assumptions on the constants (`ApLineAssumption`,
`IpLineAssumption`, `DekatronPCAssumption`, `BfWordsAssumption`,
`BfCompilerAssumption`, `BfImageAssumption`, `BfRunAssumption`,
`BfPcAssumption`), which the values in the code satisfy and TLC evaluates in the
runs, and the hypotheses named in the table: `PlainJobs` and `BootJobs` of the
command lines of `dpcrun`, the five about sources and inputs of `bfpp` and
`bfrun`.

| Theorem | Statement |
|---|---|
| `Dekatron_proofs!WrapStepInverse` | A step down undoes a step up, on any ring. |
| `ApLine_proofs!TypeCorrect` | `Spec => []TypeOK` |
| `ApLine_proofs!RegisterCoherent` | `Spec => []RegCoherent` |
| `ApLine_proofs!ReadsAreLazy` | `Spec => LazyRead` |
| `ApLine_proofs!RefinesCellStore` | `Spec => ImplementsCellStore` |
| `IpLine_proofs!TypeCorrect` | `Spec => []TypeOK` |
| `IpLine_proofs!LoopCounterIsClean` | `Spec => []LoopCounterClean` |
| `IpLine_proofs!FetchedInsnIsLatched` | `QuietSpec => []LatchedInsn` |
| `IpLine_proofs!LoopCounterIsDepth` | `HistorySpec => []CountsDepth` |
| `IpLine_proofs!ScansAreBounded` | `HistorySpec => []EndsInTime` |
| `IpLine_proofs!ScanFindsMatch` | `HistorySpec => EndsOnMatch` |
| `DekatronPC_proofs!TypeCorrect` | `Spec => []TypeOK` |
| `DekatronPC_proofs!HaltIsClean` | `Spec => []HaltedIsFresh` |
| `DekatronPC_proofs!WaitingIsConsistent` | `Spec => []WaitIsConsistent` |
| `DekatronPC_proofs!ZeroFlagIsValid` | `Spec => []PendingTestValid` |
| `DekatronPC_proofs!WaitingCinIsServed` | `Spec => CinIsServed` |
| `DekatronPC_proofs!RefinesCellStore` | `Spec => ImplementsCellStore` |
| `History_proofs!LoadsAreContiguous` | `LoadSpec => []LoadIsContiguous` |
| `History_proofs!RefinesArchitecture` | `HistorySpec => ImplementsArchitecture` |
| `DpcRun_proofs!ExitIsTold` | `PlainJobs` implies `RunSpec => []ExitTells` |
| `DpcRun_proofs!ComputesBrainfuck` | `PlainJobs` implies `RunSpec => Language!Computes` |
| `DpcRun_proofs!BootloaderClears` | `BootJobs` implies `BootSpec => []BootClears` |
| `BfPc_proofs!WordsStayWords` | `Spec => []TypeOK` |
| `BfPc_proofs!CodeStaysInMemory` | `FilesFit` implies `Spec => []ImageHolds` |
| `BfPc_proofs!JumpsFindTheirMatch` | `FilesFit` and `LoopsFit` imply `Spec => []LinksMatch` |
| `BfPc_proofs!RefusesTheUnclosed` | `Spec => []RejectsUnclosed` |
| `BfTwin_proofs!CompilesTheSource` | `RunsFit` and `ProloguesFit` imply `Spec => []StandsForSource` |
| `BfTwin_proofs!RunsTheSource` | `FilesFit`, `LoopsFit`, `RunsFit`, `ProloguesFit`, `InputsFit` imply `Spec => []SameCells` |
| `BfTwin_proofs!KeepsOffTheCode` | the same imply `Spec => []StaysOnData` |

TLC checked every inductive invariant below on the instance of a run, or on a part
of it, before it was proved.

*Data side.* The inductive invariant is `IInv == TypeOK /\ RegCoherent`. The
refinement needs both: when an operation reads its operand without MemLock it
takes the register, and that this is the cell the tape has at AP is exactly
`RegCoherent`; that leaving a cell saves it (`FlushSavesTape`) needs the types,
to know that AP is an address of the function that is updated. The proof has one
step per operation, each mapped to the action of `CellStore` of the same name or
to a stutter (a bracket's lazy read is one).

*Instruction side.* `LoopCounterClean` is not inductive alone: that a scan's
counter is above zero comes from its start at one and from the iteration that
ends it at zero, and that it stays below the overflow needs its type.
`LoopInv == TypeOK /\ LoopCounterClean` is inductive, under `Next`, for any
interference of the host. `LatchedInsn` is not true under `Next`, for the reason
`ip_line_patched` shows: a host's write changes memory under the register. Under
`QuietNext` it is inductive as it stands. Every quiet behaviour is one of `Spec`,
so what is proved of `Spec` holds of it too.

*The scan.* `ScanInv` says that after `moved` steps IP is at `Walk(moved)`, that
the loop counter is `Depth(moved)`, and that every depth before was between the
match and the overflow. Each iteration adds one place, so it is inductive; what
it takes are lemmas on `Depth`: one more place adds one, subtracts one or changes
nothing, and a whole turn of the ring adds its `Surplus` of own brackets. From
these the bound follows by counting. If the surplus is not above zero, then after
one turn the depth is at most what it was at the start, where the scan's own
bracket counts one, and it has passed zero; if it is above zero, every turn
opens one level at least, and after `LoopSize - 1` turns the counter would be
past its top.

*The machine.* Every action of `DekatronPC` is a step of each line or leaves it
alone (`ApSteps`, `IpSteps`), and memory is loaded at quiet times only. So
`LineInv`, what the lines' proofs bring, holds of the whole machine, and
`TypeInv == ControlTypes /\ LineInv` is inductive. `WaitIsConsistent` and
`HaltedIsFresh` are not, not even together: a HALT leaves a clean machine only
because it was decoded, it was decoded only after a fetch, and a fetch is only
made by a machine that runs. `ControlInv == TypeInv /\ CallInv /\
WaitIsConsistent /\ HaltedIsFresh` adds where a call of `step()` can be.
`CinIsServed` is an action property of that invariant. `PendingTestValid` needs
more: `TestedInv` says of every state, and not only of those in which a bracket
decides, that a bracket that was decoded made the flag valid and that nothing
since took the validity back. The machine implements `CellStore` because its data
side does: `RefinesCellStore` is the refinement of `ApLine` and `ApSteps`.

*Loads.* `LoadInv` adds to the property where the next opcode belongs when the
machine is not waiting for it: `NextPlace`, which depends on whether the machine
has fetched since. The end mark is the exception: from the moment it is taken
until its decode ends the load (`EndTaken`), no opcode is next.

*Architecture.* `HistInv` says where the machine is in a call, told in the terms
of `seen`, the state before the call: nothing that the programmer can see has
changed yet (`Kept`), but that the instruction was fetched, that it was fetched
and the scan is on its way (`Scanning`, with `Walked`: the match is not behind
it), or that an opcode was taken and stored (`Taken`). Then every step of
`DekatronPC` either does not return, and keeps `HistInv`, or returns, and is one
step of `Architecture` or none. `Architecture` finds the match of a bracket at
one stroke by the nesting of the program: that the scan arrives there is
`ScanInv` of the same machine, and that `Architecture` looks far enough is
the bound of `ScansAreBounded`. The attempt to prove the load of the host found
a mistake in `Architecture`: of a program that is longer than the ring, the code
keeps the last opcode that belongs in a place, and it did not say so. The program
that is longer than the ring was added to the `machine` run with it.

*dpcrun.* `RunInv == ControlInv /\ TestedInv /\ MainInv` adds to the invariants
of the machine what `main()` has done to it: in which state it waits for its
program (`Idle`), that memory holds the program (`Holds`), that a machine that
runs stays in the Brainfuck ISA, inside its program and with nothing of a load
or a loader (`Running`), and where a scan is (`Skips`, `Repeats`). A step of the
machine is then the next command of the language, or changes nothing that the
language sees. Four arguments carry it. A bracket takes effect a call after it was
decoded, when the flag it left is the truth about the current cell: this is
`TestedInv`. A scan that looks for a match does not leave the program, because
the program is `Balanced` and no place before the match closes what the bracket
opened; so a ring that wraps, and the HALT and the ROM behind the program, are
never met. The loop counter is the difference of two nesting levels
(`Level`), so the place where it comes to zero is the `Match` of the language.
And when it overflows, a place of the program is nested at least `LoopSize` deep
(`NestingBounds`), which is what `ExitTells` asks of the exit code 2.
`PlainJobs` is evaluated by TLC of every command line of the `dpcrun` run.

*The bootloader.* `DA0B<D{0B<D}BH` clears the first cell and moves down to the
last, and then clears a cell and moves down until AP is zero. That every cell is
zero at its end has one reason, `Zeros`: the first cell is zero, and so is every
cell behind AP. It is true from the first `<` on, before each
instruction, and since the loop ends with AP at 0, every cell is behind AP or is
the first. A `<` keeps it only because the `0` before it left a zero in the
locked counter and the move saves it, which is why `Before` tells MemLock, the
counter and the ISA before each of the fourteen instructions: the `}` must test AP
and not the data, so a `D` must have been decoded since the `B`. `BootRuns` adds
where the machine is: at its `k`-th instruction, decoded or not (`BootWalks`), on
the way back from the `}` to the `{` with the loop counter at one and everything
in between passed over (`BootScans`), or halted (`Cleared`). `BootInv ==
ControlInv /\ BootMain` adds what `main()` did before. Nothing in it depends on
what the cells held, on how many there are, or on what the program loaded next
to the bootloader is. `BootJobs` is evaluated in the `boot` run (`MCJobsBoot`).
That the loop ends at all is `Ends`, which TLC checks.

*bfpp and bfrun.* Three inductive invariants over the seven actions of `BfPc`.
`TypeInv` gives the types of the list, the file, the console and the emulator.
`CodeInv` says what the compiler made and that memory holds it: it rests on
lemmas that follow a list of commands into the file and back, the two headers
written at the places the header gives, every field swapped twice, the sections
read from their `FileBase`, the array read word by word, both to the same memory
(`StartLoads`), and on the emulator, which writes only where AP is. `RejectInv`
says that the status is what `bfpp` decided. `FindLoopEnd` is shown to be the
match by nesting (`FindsMatch`), a loop without a match to be one that stays open
(`UnmatchedStaysOpen`), and each pass to keep what stays open: stripping, merging
and framing because they keep every bracket in its order (`EmbedsOpen`), and
`-O1` because the loops it takes have no command in common and nothing open
between them (`ClearedCount`). The distance to a match is then followed through
the sign and the mask of a word (`JumpForward`, `JumpBack`).

*bfrun and the language.* `TwinInv` holds the emulator and the language together.
It rests on a description of the compiled list that does not mention how it was
compiled: `LaidOut` gives every instruction the place `P` in the source that the
language is at after it, each from the one before: the commands between are a run
of the same command that its count has room for, a single command, or the three
of a loop that clears. That the list is laid out is proved pass by pass (it is
`CompilesTheSource`): of Translate by the runs it merges, of OptimizeDataClr by
the loops it takes. From it follows that brackets that match in the list are at
places that match in the source (`Mates`).
`Place`, the sum of the widths of the instructions before one, then comes to `P`
(`PlaceIs`), which is where widths and words, signed and cut to 13 bits, meet.

`TwinInv` then tells, for each stage, what the one has done that the other has
not. Before an instruction they are `Together`: the language at `P[Here]`, AP at
the origin plus its pointer, and each word of the data, cut to a byte unless in
word mode, equal to its cell. While the language catches up it still `Owes` the
rest of an instruction, told by its kind: the cell differs by as many as there
are commands left (`OwesCount`), AP by as many (`OwesMove`), a character is out
or handed over that the language has not come to yet (`OwesWrite`, `OwesRead`),
the cell is zero already and the language is in the loop that clears it
(`OwesLoop`), or the jump is decided (`OwesJump`), forward or back, and past the
match. In the prologue everything is `Fresh`. A loop that clears is the one place
where what is owed does not get less with each command: the cell of the language
goes round to zero, and nothing but the loop can be left by then. The console adds
`Handed`: after `k` characters the next that it will give is number `k + 1` of
`Stream`, through the ends of words and the last one's repetition.

At an instruction the proof has a case for each command, and each takes the word
of memory apart as ExecCode does. Where AP can be follows: a pointer within
`Reach` of zero is, past the origin and the turn of the words, never below the
length of the code (`FarFromCode`), which is `StaysOnData`.

The five hypotheses are not for the prover's sake; a source that one of them leaves
out is one that nothing in the code refuses. `FilesFit`: a list of half a memory
or more is written with a wrong size (`bfpc_long_source`). `LoopsFit`: a loop of
half a count or more jumps elsewhere (`bfpc_long_loop`). `RunsFit`: a run of `<`
or `>` of half a count or more, or in word mode one of `+` or `-`, is cut to 13
bits and comes out as another number; in byte mode the counts of cells survive that up
to the size of a word. `ProloguesFit`: the move to the middle of memory must be negative in its
field, the number that the code has; `Translate` shortens it when the source is
longer; and an array compiled with `-O1` loses it. `InputsFit`: the console ends a
word at a zero. TLC evaluates all five of every source of the `bfpc` run
(`MCJobsFit`). `WordsStayWords` and `RefusesTheUnclosed` need none of them.

**Only model-checked.**

* Liveness: `ScanEnds`, `StepReturns`, `Ends`, `KeepsUp`, `EndsTogether`, and
  of `RunsBrainfuck` that the program goes on: its specification has a fairness
  condition. Temporal properties of that kind and ENABLED are out of the prover's
  reach. That a scan ends within a bound is proved (`ScansAreBounded`), and the
  safety part of `RunsBrainfuck` (`ComputesBrainfuck`). Of `BootClears` it is
  proved that a run of the bootloader ends with a clear core, not that it ends.

## 7. Not modelled

* `dpcrun`: the trace `-s`, the help and usage errors, which return before
  anything happens, and the printing of the result. `opcodeToSymbol`,
  `mnemonic` and `statusName` are tables of names for a trace. The numbers of
  `-a` and `-n` are taken as parsed. A valid `-a` is the constant `ApTop`.
  `powerOn`, which only the constructor calls, is the initial state and no
  action.
* `bfpp`: option parsing, the text around the words of a listing, debug symbols
  and the names of loops (a pointer that leaves a literal, `Bf.cpp:143`, which
  nothing reads). Without `-i` it does nothing.
* `bfrun`: the listing of a step, the options `-p` and `-H`, which nothing reads,
  and `LoadCode` and `LoadData`, which nothing calls. Of the ExecCode for arrays
  the controls MODE8, MODE16 and PAUSE: the compiler emits none. Words of the
  console fit their buffer and hold no zero.
* Fields of the file that nobody reads back for a decision (`Machine`, `flags`,
  the second byte of each pair) and the contents of memory that a section of a
  wrong file would copy.
* `common/getopt.cpp`, a library for compilers that lack it, and `bfloader`, a
  stub around a serial port library: neither holds state of these machines.

## 8. State of the plan

Done: both machines and the two programs around each, their abstract
specifications (`CellStore`, `Architecture`, `Brainfuck`), the runs above, and the
proofs: of both lines, the scan and the loads, of the whole DekatronPC against
`Architecture`, of `dpcrun` against `Brainfuck`, of the bootloader on every core, and of
`bfpp`, its files and `bfrun` against the same `Brainfuck`.

Every safety property that a passing run checks is a theorem; what is left to TLC
is liveness (section 6).
