# A verification project for protocol-emulator

The chip in this repository runs firmware that bit-bangs protocols, and refuses to start
any whose timing it cannot check. This directory holds TLA+ models of the chip, translated
from the Hardcaml in `src/`, and of the host that drives it, translated from the Python in
`python/`; the TLC runs that check them on small instances; and TLAPS proofs of what matters
most for every size.

The modules here are about what simulation and unit tests hardly reach: several things that
happen in one cycle, or a cycle apart, in an order nobody wrote a test for; a host that reads
and writes a byte at a time beside engines that run; a long script of calls of which the chip
ignores one without a word. Paths below are relative to the repository's root.

- [The system](#the-system)
- [The modules](#the-modules)
- [The runs](#the-runs)
- [What is proved](#what-is-proved)
- [Where the code and its documents differ](#where-the-code-and-its-documents-differ)
- [What is not modelled](#what-is-not-modelled)
- [The plan](#the-plan)

## The system

A host (`python/protocol_emulator.py`) talks to the chip over SPI. The chip (`src/top.ml`,
`src/system.ml`) has a host port, two engines with a program memory and two queues each, a
data memory they share, a load checker that they take in turns, two receivers that write
frames into the data memory, and stamps of a pin's edges. On the host's side an analyser
finds a certificate of a program's timing, and the timing kernel, which is the same code in
OCaml and in hardware, checks it. What it finds for the library's firmware is kept as tables
(`python/*_firmware.py`, `test/*.hex`), which some sixty demos load and drive.

| Component | State | Operations | What makes it correct |
|---|---|---|---|
| Start gate (`engines.ml`) | whose turn it is at the checker; per engine: waiting, certified, refused, verdict, premises | check, start, start all, stop, writes of what was checked, a walk's end, a turn's end | an engine runs only what an undisturbed walk accepted and that has not changed since; a walk never goes on over a word that changed; every check gets a verdict |
| Load checker (`load_checker.ml`) | state machine, search bounds, the entry and the rows being checked, verdict | begin, read, search, check a field, reload, finish, abort | its verdict is its model's (`load_check.ml`), and what it accepts is a sound table |
| Timing kernel (`kernel.ml`, `kernel_accepts.ml`, `kernel_step.ml`, `kernel_types.ml`) | none: a function of a row and a word | accepts a row's ways out | accepted firmware stays inside its rows and enters no deadline wait late |
| Engine core (`engine.ml`, `decoder.ml`, `deadline.ml`) | pc and fetch, stall, timer and deadline, shift registers, capture, faults, premise guard | issue, wait, jump, shift, push and pull, start, stop, flush | it does what the machine model does, cycle for cycle; the watch faults before a broken premise is used |
| Machine model (`machine.ml`) | the same, without the fetch | step, start, stop, flush, queues | it is the reference |
| Host queues (`host_fifo.ml`, routes of `engines.ml`) | levels, words | push, pop, flush; an engine may push to the next one's | no word is lost, doubled or reordered between a host that counts levels and engines that run |
| Data memory (`data_memory.ml`) | words, each engine's held word, whose turn the port has | engines' reads, the walk's, the host's writes, received words | a pull or a walk never takes a word older than it says |
| Frame receivers (`frame_rx.ml`, `usb_frame_rx.ml`) | selected, armed, counts, the word that waits for the port | select, arm, a frame's start, words and end, a word's landing | a finished frame is whole or says it is not, and stays put |
| Line decoders (`manchester_rx.ml`, `usb_rx.ml`) | recovered clock, stuffing run | a line's edges to words | every word of a well-formed frame, and its end |
| Host port (`host_port.ml`, `host_spi.ml`) | command, addresses, latched word, settings | serial frames to register reads and writes | one strobe per write; a read's word is of one moment, and its pop takes that word |
| Edge stamps (`edge_stamps.ml`) | four times, a sticky loss | watch, stamp, read, flush | a stamp is whole and of what is watched; a lost edge is said to be lost |
| Line coder (`line_code.ml`, `line_stuff.ml`, `crc.ml`) | a table's state, bits owed to stuffing | a bit in or out | no owed bit is lost |
| Analyser (`analyser.ml`, `interval.ml`, `kernel_table.ml`) | rows per pc, marks of edges | join and widen to a fixpoint, build a certificate | it ends; what it finds, the kernel accepts |
| Host driver (`protocol_emulator.py`, `bench.py`) | a selected engine; what a call has read | select, configure, load, certify, start, stop, flush, push, pop, now, watch edges, exchange | a word read in two halves is of one moment; words in flight never pass what the queues hold |
| Firmware tables (`*_firmware.py`) | none: words, configuration, certificate, premises | load | the chip's own check accepts every one |
| USB keyboard (`usb_board.py`, `demo_usb.py`) | descriptors' chunks, a pending report, the address; the loop's locals | feed a message, reply, put back, reload for an address | a report is typed once and in order whatever is dropped, reset or lost |
| Demos (`demo_*.py`, `soak.py`, `ethernet.py`, `usb_fs_board.py`, `board_blame.py`, `learn_record.py`, ...) | where the script is; words in flight | scripts of the driver's calls | no call falls where the chip ignores it, no word where it is dropped; every wait is answered |

**How they interact.** All of the chip is one clock domain: every component sees the
others' registers of the last edge, and wires of this cycle. The host port raises a strobe
for a cycle per register write, never in two cycles running (`formal/host_spacing.sv`). The
gate hands a halted engine's program memory and its turn of the data memory's port to the
checker; a write by the host, a received word, a start or the turn's end takes them back and
aborts the walk. Two things bypass the host: a frame receiver writes the data memory when
it gets the port, and an engine may push to the next engine's queue. The host has no
interrupt: it sees the chip by reading registers, a byte at a time, and what it read is old
by the time it acts. A call the chip is not in a state for is ignored without a word.

**What is hard.** A strobe and a walk's end in one cycle; an engine that is neither halted
nor running in the cycle its start is registered; a word read before a landing and used
after it; counters that saturate or wrap; a verdict that outlives what it was about; a
program that reaches a premise's edge case by a sequence of legal words; a level that is old
when the host counts on it; a reset of the bus between any two reads of the Pico's loop; a
script that meets what an earlier one left. The 32 components and the hazards, each at its
line with the properties aimed at it, are in `PROJECT.json`.

## The modules

In each module of hardware, one step is one clock cycle. Operators with a parameter are
wires, in what the cycle brings (`in`); primed variables are registers; the names are the
source's. History variables, which no guard reads, are declared apart.

### The chip

- **`Gate`** is the start gate of `Engines.create`: turns, waiting checks, certificates,
  premises, aborts, starts. What a word says is left out: a walk reads words of the base it
  checks and may accept or reject at any time, so a property holds of any checker. Actions
  are the host's register writes (`ControlWrite`, `ImageWrite`, `DataWrite`, `SetupWrite`,
  `FrameControlWrite`) and `Quiet`; inside each, received words land, engines halt or fault,
  and the walk moves, as they please. `calm`, `used` and `vouched` say what happened under a
  walk and what a certificate is of.
- **`DataMemory`** is `data_memory.ml` with all its users: who has the port in a cycle, the
  word each engine holds and when it may keep it, and how long a walk waits.
- **`FrameRx`** is a receiver, for both `frame_rx.ml` and `usb_frame_rx.ml` (`Rearms` is the
  difference), and the selection between the two: the unselected one gets no new frame but
  still has its word's port. A word is its number in its frame, so that a misplaced one shows.
- **`KernelAccepts`** is what the kernel asks of a row at a word and both ways out
  (`Kernel_accepts.ways`), as sets and intervals. Its widths are constants.
- **`Kernel`** runs a core, as `Kernel_step.step` has it, on any firmware the kernel accepts.
  A program is not fixed: at each entry any word and any next rows are taken that the kernel
  accepts beside the row at hand. An accepted program is one such choice at every pc, so
  what holds of this core holds of every program.
- **`Accepted`** is that choice made: a core with a pc and a program, under a table of rows
  that the load check found sound. It is shown to implement `Kernel` (`CertifiedIsKernel`).
  No run is about it: its theorems are in `KernelProofs`.
- **`LoadCheck`** is the load check's model, `Load_check.walk`, as operators on a program and
  a certificate: the entry held at a pc, the verdict, and `Sound`, what a table must satisfy.
  `Certified` is a program and a table of the kernel's rows that satisfy it.
- **`LoadChecker`** is the hardware walk, one action per state of its machine. It reads the
  program a word at a time: a word is picked when it is read.
- **`GateProofs`**, **`DataMemoryProofs`**, **`FrameRxProofs`**, **`LoadCheckerProofs`** and
  **`EngineProofs`** extend the module they are named for with its theorems, and so do
  **`HostPortProofs`** and **`KeyboardProofs`** those below; **`KernelProofs`** extends
  `Accepted`.
- **`Machine`** is `Machine.step` as operators on a record. Values are left out, but for
  what decides the next step: the shift registers' counts, the queues' levels, whether `p`
  carries the period the check loaded. `in.chance` is what other values would decide.
- **`Engine`** is the pipelined core and its queues, with the machine beside it in `model`
  as `test/lockstep.ml` has it. `Fetch`, `Issuing`, `Shifting`, `Queues`, `Periods`,
  `Capturing` are its registers. `Alongside` is what the test does to the machine in a cycle:
  `Machine.step`, what the host does, and a cycle after a start's pulse `Machine.start`; only
  the program memory is shared, so a write of the host's is in both. The two differ in four
  flags, and `Lockstep` says where: the core's start clears `crc_sending` and `p_loaded` and a
  halted core clears `holding` and `seen`, and the machine does not (`MayKeep`). `kept` is the
  flags the machine has and the core has not for that reason; every other register is equal,
  and a kept flag is set in the machine and clear in the core. `parted` is set when a kept
  flag has made the machine fault a premise that the core does not (`Parts`); the two are then
  in different states for good, the machine is left as it was, and `Lockstep` says no more.

### The port and the driver

- **`Queues`** is the two engines' queues with their words and the route from one engine's
  push to the next one's tx, as `Engines` wires them. A push is judged by the level at the
  last edge. The core that answers words is reduced to a pull, a time and a push.
- **`EdgeStamps`** is `edge_stamps.ml`: times of edges on a mask of pins, read in halves.
- **`HostPort`** composes the two with the port and a host program: `CommandByte`,
  `HighByte`, `LowByte`, `WriteWord` and `ReadDone` are the port's, and the actions named for
  calls (`Write`, `Read`, `Load`, `Push`, `Level`, `Pop`, `NowHi`, `WatchMask`, `Stamp`, ...)
  the driver's. Between any two bytes, any number of cycles pass and the engines go on.
- **`Channel`** is the abstract specification of an exchange: words go in, their answers come
  out in order, none is lost or doubled, and in the end all are out. `HostPort` is shown to
  implement it (`IsAChannel`, by `INSTANCE Channel WITH` what was sent and what was popped).

### The keyboard

- **`UsbBoard`** is `usb_board.Board` as operators on a record: a SETUP's answer, the chunk
  after it, what an ACK, a drop or a flush does to the report in flight.
- **`Keyboard`** composes it with the Pico's loop (`demo_usb.serve` and `usb_board.service`:
  `Top`, `Drain`, `Feed`, `Push`, `LoadStop`, `LoadStart`), the chip's device core and its
  queues (`InTakes`, `InDrops`, `Out`, `PollTakes`, `PollDrops`), and a laptop that
  enumerates, polls, asks again, resets the bus (`BeginReset`, `EndReset`), while the chip
  may lose its power (`Power`).

### The demos

- **`Firmware`** decodes a 16-bit word and a certificate's words, as `isa.ml`,
  `decoder.ml`, `Kernel_step.Class.of_word` and `Load_check` do. **`BenchFirmware`**,
  **`BothRolesFirmware`**, **`OtherFirmware`** and **`UsbDeviceFirmware`** are the tables
  the host ships, as constants: 93 pieces of firmware with their certificates, and the
  words of the USB device at each address.
- **`HostCalls`** is the driver's calls and the loops all demos share (`bench.load`,
  `bench.exchange`, `pio_upstream.feed`): a script is the sequence of its calls. Words are
  told apart by what firmware does with them: a period of *n* cycles, a word it answers,
  any other. **`OutsideDemos`**, **`ChipDemos`** and **`BoardDemos`** are the demos'
  scripts, an operator per function of the demo, under its name.
- **`Demos`** runs a script against the chip: an action per call (`CallSelect`,
  `CallLoad`, `CallCheck`, `CallStart`, `CallPush`, ...), each doing what the chip does
  with it, which is nothing when it is in no state for it; `Take` and `Halt`, the
  engines'; and `Step`, the load check of the real words one pc at a time, by
  `LoadCheck`'s operators. What depends on the outside (`Perhaps`, `Try`) goes either way.
  Every table no demo loads has a script that loads it.
- **`Recording`** is the arithmetic by which `learn_record.py` makes whole cycles of
  16-bit stamps and the Pico's microseconds. No run is about it; the last section of
  `HostPortProofs` is.

**`MCGate`, `MCDataMemory`, `MCKernel`, `MCLoadChecker`, `MCEngine`, `MCHostPort`** and
**`MCDemos`** give the constants their values for TLC, and hold no property. An operator whose
comment begins "Mutant" is a definition gone wrong, beside the right one; no specification
uses it.

**Composition.** `HostPort` composes the queues, stamps, port and driver, and `Keyboard` the
laptop, core, board and Pico, in one state space each. Elsewhere modules meet at what one
promises and another assumes. `Kernel` meets `LoadChecker` in what both extend:
`AcceptedIsSound` says that an accepted table satisfies `KernelAccepts!Accepts` at every
pc, which is the guard under which `Kernel` steps. `Gate` takes from `LoadChecker` only that
a walk ends or is aborted, and from `DataMemory` that a walk reads what memory holds
(`WalkReadsAreFresh`). `Gate` gives `LoadChecker` the promise that what a walk has read holds
still (`WalkUndisturbed`). `KernelAccepts` takes from `Engine` the premise it treats as
given, the single edge (`ReleasedOnItsEdge`), and from `Demos` the other, that the period a
check was told is the one the firmware is sent (`PremiseIsKept`). `Demos` uses `LoadCheck`
on real firmware, and takes from `Gate` when a call counts.

## The runs

`tlc -config X.cfg M` in this directory. Sizes are of the state space TLC finds; with two
workers a run takes between one and four minutes.

| Run | Module | Distinct states | Question |
|---|---|---:|---|
| `gate_two` | `MCGate` | 55,508 | Two engines share the checker while data and received words land: does anything run that an undisturbed walk has not accepted, and does every waiting check get its verdict? |
| `gate_one` | `MCGate` | 8,776 | One engine, every host register, two settings, faults at any cycle: does a certificate outlive what it is of, or a fault a start? |
| `gate_premises` | `MCGate` | violation | Does an engine watch the premises its program was accepted under? |
| `data_turns` | `MCDataMemory` | 149,024 | Is a pulled word, or one a walk takes, ever old? |
| `frame` | `FrameRx` | 204,688 | Is a finished frame whole, in place, and left alone, whichever receiver is selected when? |
| `kernel` | `MCKernel` | 92,880 | Are loops, jumps, periods, fractions and captured edges inside their rows and in time? |
| `load_walk` | `MCLoadChecker` | 290,677 | Does the walk agree with its model, whatever an aborted walk left, accept only sound tables, and end? |
| `engine` | `MCEngine` | 238,641 | Is the pipelined core in lockstep with the machine, but for the flags the machine keeps, on every three-word program of six vocabularies? |
| `host_port` | `MCHostPort` | 132,856 | Is an exchange through the port a channel, a read time one of the call, a popped stamp whole and a lost one said to be? |
| `demos` | `MCDemos` | 236,991 | Is every shipped table accepted by the chip's check, over whatever the demo loaded before, and is no call of a demo ignored, no word dropped, no premise broken and no wait left hanging? |
| `keyboard` | `Keyboard` | 64,902 | Is every report typed, once and in order, through resets, reconfigurations and losses of power? |
| `keyboard_glitch` | `Keyboard` | violation | Is the full load after a power glitch one the chip accepts? |

### Bounds, and why they are enough

- *Gate.* Two engines are the chip. A turn is 2^16 cycles on the chip and 4 or 2 here.
  What matters of a turn is whether a walk fits in it: with 4 a walk of a word may end in
  its turn, or have read it and be cut off in its last cycle. With one engine (`gate_one`)
  no turn ends, so that run has walks of any length, and two words, the least in which one
  has been read and another not; two settings, the least that can be confused. A counter is
  never compared but with its end.
- *DataMemory.* Two engines, two words and two values, which are permuted (symmetry).
  Only engine 0 pulls; the engines are alike but for the phase of their turns, and an
  engine may start in either. `DataWait` is the chip's.
- *FrameRx.* A memory of 4 words, so a frame passes its end from any base; a counter of 3
  bits, so a frame of up to 9 words passes its end too. `SentMax` is the bound on what a
  frame's number tells apart, and all longer frames count as that.
- *Kernel.* A timer of 4 bits and data of 3. The arithmetic has no other sizes in it, and
  the theorems below are for every width. Words are one or two of each class, rows a few
  dozen that hold its edge cases: bounds at both ends of the timer, one point, none.
- *LoadChecker.* Programs of 4 words (the last wraps to 0 by its width), tables of up to 2
  entries, in order or not. Each set of checks varies the fields that its words read and
  keeps the others. `Again` bounds the checks after which another walk may start: an abort
  in any state leaves what it leaves, and the second walk is over the same family.
- *Engine.* Programs of 3 words: a jump, its target and what follows. A queue of 2 has a
  state that is neither full nor empty. A register of 2 bits has a count below, at and
  above the threshold. Six vocabularies because the whole one in three words is out of
  reach, and because words meet through the registers they share, each vocabulary has all the
  words of a group. `around` is what may happen around the core, so that an input that no
  word of a vocabulary reads does not multiply its states. Each of the four flags is kept in
  some state of the run, over a restart too, and a kept `p_loaded` and a kept `holding` with
  `seen` each part the two.
- *HostPort.* Queues and stamps of 2 (a state that is neither full nor empty), 4 words
  exchanged with 2 in flight, so that the queue fills and the count wraps round it. An
  engine's time has a low half of 15 values and a high half of 2. The high half is latched
  again 12 cycles after it was, at the soonest: with 15 it may stand still over the call,
  which then returns, also with a pause between its bytes, or move, and the call reads on;
  `NowSpan` keeps it from coming back to what it was within a call. 4 edges, two more
  than there are places; 2 watches, so that one begins over what another left. The host is
  one of its jobs at a time, since only the port is common to them.
- *Keyboard.* 2 reports, so that one may be confused with the next; 2 requests the laptop
  makes of itself, 1 reset of its own, 1 loss of power. 3 reports, 2 resets and 2 losses of
  power were tried apart from the run, and passed. `MemoryKept` is TRUE: the data memory
  outlives a reset of the chip. FALSE, a new bitstream, is `keyboard_glitch`.
- *Demos.* The tables, widths, depths (15 words in a fifo, 8 kept in flight) and scripts are
  the real ones. Of a stream of words the first 17 are followed, two more than a fifo
  holds. A loop over frames, pages or rounds goes round twice, the least in which what one
  round leaves meets the next. The keyboard's and the mouse's device are loaded at 11
  addresses: every bit of one alone, none, all, and two mixtures. The firmware takes and
  answers words at any pace; a word it takes changes nothing a check reads, so it waits for
  one that is under way. A script's own pauses outlast what they wait for (`Pause`), and
  limits on polls are not reached: whether a millisecond is enough is a matter of the board.
  The chip is reset before each demo, as `demo/outside.sh` and the others do.

### Fairness

`Gate` and `Engine` assume `WF_vars(Next)`: the clock does not stop. Nothing is assumed of
the host or of the lines: `Quiet` is always enabled, and `WaitEnds` holds however the host
behaves. It needs no fairness of the walk, as the turn's end aborts one, and an abort is a
verdict. `LoadChecker` assumes `WF_vars(Walk)`: its machine moves in every cycle, and
nothing but an abort, which also ends the walk, holds it up.

`HostPort` assumes that the host's program goes on (`HostStep`), that a strobe raised is
acted on the next cycle (`Strobes`), and that each running engine moves its word
(`EngineStep(n)`): none of them waits for anything another does not let come. `Channel`'s own
fairness, that words go in and come out, is what `IsAChannel` shows of it.

`Keyboard` assumes weak fairness of the Pico's loop and of what the laptop's driver does by
its script, and strong fairness of what is tried over and over against something that can
be briefly in its way: an IN the core answers with NAK is repeated (`InTakes`, `PollTakes`),
as a host controller does every frame, far more often than the Pico reloads; and the Pico's
look for a reset fires when it sees one last long enough. Nothing makes the laptop reset the
bus of itself, ask again, or the power fail.

`Demos`, `DataMemory`, `FrameRx` and `Kernel` assume nothing. In `Demos` every wait is for
something on its way, whichever order things happen in (`WaitsAreAnswered`); no call, word or
pc of a check comes again, so every demo that does not serve for ever ends.

The deadlock check is off in `keyboard_glitch` only: after the refusal the Pico's loop has
raised an exception and is over. A demo that has ended rests (`Rest`).

### Mutants

Every property of a passing run has a mutant in `PROJECT.json`: one definition of the model,
changed as a plausible mistake in the code would change it, under which the run finds that
property violated. A dropped abort, an order check that is not done, a count that saturates
a word late, a wait that reads on, a queue that refuses a push beside a pop; a high half not
read again, words in flight counted by one queue, an engine left to run while the other is
loaded, a report not put back.

## What is proved

`tlapm M.tla` checks everything in a module `M` of theorems, each from its modules' named
assumptions on their constants only: `GateProofs`, `KernelProofs`, `EngineProofs`,
`LoadCheckerProofs`, `DataMemoryProofs`, `FrameRxProofs`, `HostPortProofs` and
`KeyboardProofs`. Every invariant of a run that is proved here is also checked by TLC on
that run; the theorems about `Accepted` and `Recording` have no run.

**The gate** (`GateProofs`, from `GateAssumption`: at least one engine, turns of two cycles
or more). `GateSafety` (`RunsOnlyVouched`), `GateCertificates`, `GateTurns`, `GateWalk` and
`GateVerdicts` hold for every number of engines, turn length, size of certificate and set of
host registers. None is inductive. The invariant `GateInv` adds:

- `WalkInv`: a walk in progress is calm, of the turn's engine, under that engine's premises,
  and its engine is not certified; every word it used is within its span. This is what makes
  a landing on a used word end it.
- `AcceptInv`: for the one cycle between a walk's end and its verdict's use the same is
  still true. Here lies the race of a strobe with an acceptance.
- `CertifiedInv`: a starting engine still reads halted, and no strobe comes in that cycle.
  Without the host's spacing a write would land in a starting engine. This is the one
  assumption on the environment, and `formal/host_spacing.sv` proves it of the host port.

**The kernel** (`KernelProofs`, from `WidthAssumption` and `KernelAssumption`: data is
narrower than half the timer; words, rows and starts are what they say). `KernelSound`
(`Within`) and `KernelInTime` (`NeverMissed`) hold for every width, period, program and
table. The invariant is
`Safe == TypeOK /\ Within /\ NeverMissed`: `Within` is inductive with its types, since
acceptance speaks of all of a row. Under it there is a lemma per interval the kernel
computes: clamping at a deadline, sums that pass the timer's range, the three sources of a
phase, the offset from a counter across the counter's zero, both arms of a capture.
`KernelEdges` (`EdgeAfterArm`) needs `arm >= 1` beside it.

**An accepted program** (`KernelProofs`, from those and `LoadCheckAssumption`). The chip's
claim in three steps. What an accepted walk read and the rows it held are
`Certified` (`LoadCheckerProofs!AcceptedIsCertified`). A core that runs a certified program
under its table does only what `Kernel` does, and is under the row of its pc
(`CertifiedIsKernel`): `Kernel` asks of a step only the way out it takes, against the
program's row there, and the open row stands for the other, which is always inside it
(`OpenTakes`). So at every pc it is within the row held there and never late
(`CertifiedInTime`). `Covered` has `Kernel`'s `Words` and `Rows` include the program's and
the table's. That the program that runs is the one the walk read is the gate's part
(`GateSafety`). A word's cycles are two short of half the timer at most (they are 32 of
2^23): with one more, an empty row that falls out of a captured edge would pass the timer's
end, where the hardware cuts it to the timer's width and the model does not.

**The core** (`EngineProofs`, from `MachineAssumption` and `EngineAssumption`).
`EngineFetch` is the fetch's inductive invariant: a running core has its pc's word and, at
the memory's output, the next pc's; or it refills, under the stall of a jump, with the
target's word at the output; and a starting core has word 0. `EngineIssues`
(`IssuesItsWord`) follows: whatever the program, its jumps, waits and delays, and whatever
the host wrote and the checker read before, the word that issues is the program's at the pc.
It too rests on the host's spacing, for the cycle in which a start is registered.
`EngineTypes` has the queues within their depth. `EngineEdges` (`ReleasedOnItsEdge`) shows
the watch is enough for the kernel's single-edge premise: while an arm is held, the pin
stays away from the captured level until the edge, and at it after, or the engine faults.

`EngineLockstep` (`Lockstep`) is the core's refinement, with its exception: for every program,
configuration, width and depth, and whatever comes in each cycle, the pipelined core and the
machine agree but for the flags the machine has kept, until it faults a premise by one of
them. Its invariant is in two parts. `Beside(model)` says field by field what the machine
holds when the core's registers hold what they do, the fetch and the four flags put aside.
`FlagsBeside` says of each of the four that it is the same, or kept: set in the machine and
clear in the core. So what the core faults the machine faults (`FaultsBeside`), and the
converse fails only where `Parts` says. A cycle has two halves, as it has in both
models: what the host and the certificate do before a word issues (`Found`), and what the
word does (`Executed`), with a lemma per class of word for the second. Only here do the two
meet the fetch: by `EngineFetch` the word the core issues is the one the machine reads at its
pc. A jump has one of the conditions that decode (`Word`): with any other, a word is `bad`.

**The load checker** (`LoadCheckerProofs`, from `LoadCheckAssumption` and
`LoadCheckerAssumption`). `AcceptedHolds` (`AcceptedIsSound`): whatever an earlier walk left
in its registers and wherever it was aborted, an accepted table is `Sound`, for every
program, table and certificate of any size. Its entries are taken by a pointer
that only goes forward, so the induction over the table is the walk itself. `WalkInv` carries it:

- `TakenInv`: an entry behind the pointer is what is held at its pc, which the walk has
  reached. `PastInv`: at every pc behind the walk's, the word and the row held pass against
  the row held after it and, for a jump, its target's.
- `AtWord`, `RowInv`: the word and the row at hand are the pc's. `ReloadInv`: while a row is
  read back, field by field, it is the entry's as far as it has been read.
- `SearchInv`: what a search looks for, and that an entry it found is one of that pc's.
  `FieldInv`, `WaysInv`: what has been compared so far of a way out passes, or is among what
  has failed.

For this, nothing need be known of the order in which the search halves the table: a target
it does not find, be it there or not, is checked against an empty row, and to pass against
that is to pass against any. `WalkInvariant` is the invariant itself.

`VerdictIsTheModels` (`AgreesWithModel`) is about the verdict, not only about soundness: whether a
walk accepts, the pc at which it rejects and the conjunct it names are those of
`Load_check.walk`, which decides by two recursions, over the pcs and over the halves of the
table. That the equation of a recursive function has a solution needs induction on
the naturals for a set (`Induction`, from the least element of a nonempty one: `Smallest`).
`WalkedIs` and `SearchedIs` are those two facts, and from there on each recursion is only
unfolded, once a step. `ModelInv` says where the hardware is in them:

- `PlaceAgrees`: the entries taken and the row at hand are the model's at the walk's pc.
- `PastAgrees`: the model rejects no pc behind it.
- `HeadAgrees`: the entry at the head is not out of order once the walk is past its check.
- `SearchAgrees`: what the model finds in what is left of the search is what it finds in the
  whole table; this is where the order of halving counts.
- `FailsAgree`: the conjuncts recorded so far as failed are the model's among those compared.

With `WalkInv` it is inductive (`ModelInvariant`); TLC checked `ModelInv` on `load_walk`
before it was proved.

**The data memory** (`DataMemoryProofs`, from `DataMemoryAssumption`). `PulledIsFresh`
(`PullsAreFresh`) holds for one engine and for two, as `data_memory.ml` takes turns, and for
every memory. While an engine's held address is valid, the word it has is the one memory
holds there (`HeldInv`). So a turn leaves the engine's word fresh, unless something landed
in that very cycle (`TurnInv`); and what the other engine's turn can spoil, the word's age
and `data_moved` tell (`WaitInv`). `StartInv` covers the cycle between a start and the run.
`WalkedIsFresh` (`WalkReadsAreFresh`) needs `DataWait >= N + 2` and says so: a cycle for the
address, one for the span, and one turn of each engine. The chip waits 4 cycles for its 2
engines (`load_checker.ml:8`), the least that will do.

**The frame receivers** (`FrameRxProofs`, from `FrameRxAssumption`). `FrameInPlace`
(`LandsInPlace`), `FrameWhole` (`FinishedIsWhole`), `FrameMissing` (`DroppedIsMissing`)
and the action property `FrameStays` (`StaysPut`), for every memory and counter. What the
properties say of a frame that has ended, `FrameInv` says of one on its way, but for the
one word that waits for the port: a word landed is in its place (`LandsInPlace`), and the
one that waits has not landed (`LandsOnce`); unless a loss is noted, every other word sent
has landed (`SoFarWhole`); if one is, some word will not land any more (`LossIsSo`).
`EndsForGood` has a frame that has ended received no more, and its receiver armed only if
its end was to arm it: this is why it stays put.

**The host port** (`HostPortProofs`, from the assumptions of `HostPort`, `Queues` and
`EdgeStamps`). `NowIsOfTheCall` (`NowIsNow`): what `now` returns is the engine's time at
the moment its low half was latched. `NowProgress` says place by place of the call, before
a word is latched and after, which time the halves read so far are of and how long ago: if
two readings of the high half agree, it was the same in between, as a turn of the whole
clock is longer than the call may take (`NowSpan`). `StampsAreOfTheWatch`
(`StampsAreTrue`): the stamps `edge_stamps` returns, each read in four words, are whole,
of what `watch_edges` asked for, in order, and none is missing unless one is said to be
lost. `EdgesInv` joins what the host has to what is queued: those the host has and those
in the queue are one sequence (`QueueSound`), the stamp being read is its oldest until the
last word's read pops it (`StampAt`), and at each place of the call the port is with one
frame, of one word (`FrameAt`, `OneWordFrames`).

`WordsKeepTheirOrder` is the safety half of `IsAChannel`, `Spec => C!Init /\ [][C!Next]_(C!vars)`:
an exchange, and a host popping an engine that another one feeds, lose no word, repeat none and
keep their order, for every depth of the queues, number of words and pace of the engines. Its
invariant, `ChannelInv`, says where each word is:

- `Line`: an engine's `rx`, the word it carries and its `tx`, end to end, are the words that
  follow the last one popped, up to the last one put in. `Answered` is engine 0's line in an
  exchange. `Routed` is engine 1's when engine 0 makes its words up, with the word engine 0
  carries the one after them.
- Nothing is pushed into a full queue. In an exchange `ExchangeFlow` has no more words in
  flight than a queue has places (`ExchangeDepth`): this is why `bench.exchange` counts them.
  A routed engine has seen room since its last push, in a queue none but it fills (`room`).
- `Loading`: which of `bench.load`'s writes have taken effect, and that the engine is stopped
  from the fifth to the eighth: words an earlier program left are flushed, or dropped at the
  start. From there the line is empty.
- A frame is of those words: one being sent has the next ones to put in (`Pushing`), and one
  that asks for a level is told no more than are there by the time the host knows (`Asking`),
  since only the host pops. So a frame that pops never reads an empty queue, and both bytes of a
  word, which the port does not latch, are of the word at the head (`Popping`).

A lemma says what a cycle does to a line (`LineCycle`), and one of what each job's program asks
of the queues (`ExchangeAsks`, `RoutedAsks`) lets each step of it be taken by itself. That all
words come in the end is left to TLC.

**The keyboard** (`KeyboardProofs`, from `KeyboardAssumption`: numbers are natural, and what the
laptop may ask again is one of three requests). `ReportsAreTypedOnce` (`TypedOnce`),
`LogFollowsTheLaptop` (`LoggedIsTaken`) and `AnswersAreAwaited` (`AnswersMatch`), for every
number of reports, of requests while it polls, of resets of the bus and of losses of power, and
whether the data memory outlives these or a load is refused. `BoardAgrees` is the inductive
invariant. What makes it hard is that the Pico lags: between two rounds of `serve` the core goes
on answering, and its messages reach the board only with the next drain. So what the laptop
waits for is compared not with `board` but with what it will be (`Caught`): fed what the Pico has
drained (`pico.words`) and then what the core still holds (`rx`), and, in the middle of a push,
after that push (`Base`, `Sent`). A transaction then moves `Caught` by one message, and a drain
or a push leaves it where it was.

- `LinkedInv`: while the core runs and the bus is up, `Caught` agrees with the laptop (`Agree`):
  what it has queued is what is sent, then what it has still to send, and it is one of the
  `Queues` the laptop may be waiting for, the chunk of its transfer and the report pending, in
  either order; the toggles are the laptop's. What is dropped is queued again, and this keeps
  it so (`RequeueAgrees`). A configuration starts the toggles again: a report queued with
  the old one is in front of the answer to it, and dropped there.
- `ResetInv` and `LoadInv`: a reset of the bus that the Pico has seen leaves nothing of what was
  before it, and between an address and the load for it the core does not answer.
- `CountInv`: the report due by `Caught`, the first the board has not seen acknowledged, is the
  one after the last taken, or that one itself, if its ACK was lost with the chip's power. So
  nothing taken is put back otherwise, and nothing not taken is lost.
- `LogInv`: what is logged is one less than is due by `board`, or two while the round that found
  a report taken has yet to log it. As `board` is never ahead of `Caught`, the log is never ahead
  of the laptop.

`FedAll`, the fold of the messages, is a recursive function; that it takes one message at a time
(`FedOneMore`) is proved from the least counterexample (`Smallest`, `Induction`).

**A recording's times** (the last section of `HostPortProofs`). `ClockIsExact`: the clock
`record` keeps is the engine's own, whole and for ever, as long as the Pico's microseconds are
right to half a wrap (682 us) between two reads. `StampIsExact`: a stamp less than a wrap old is given its
edge's cycle. `NotLateIsExact`: a drain that is not marked late has no older stamp, if the
error and the time from a drain to its read of the clock stay below 17,536 cycles (365 us)
together. The premise is the header's "1.4 ms" made exact: it marks at 1 ms.

**Only model-checked.** `WaitEnds`, `FaultStaysDown`, `WalkEnds`, `AllTyped` and the
fairness in `IsAChannel`: they are liveness, or hold with it, and the prover has no rule for
fairness over `ENABLED`. `Demos` is about fixed tables and scripts: there is nothing in it to
prove for every size. Every other invariant of a run is proved.

## Where the code and its documents differ

Two of these are runs that TLC finds violated by what the code does.

- `gate_premises`. A control word with both the start and the check bit starts the engine on
  its old certificate and gives it the new check's premises. `engines.mli:17-20` says an
  engine watches the premises of the check that accepted it.
- `keyboard_glitch`. A power glitch reloads the bitstream, and with it the data memory.
  `demo_usb.py:133-135` says the chip was reset and "a full load follows the next bus reset",
  and `usb_board.py:238` loads in full then; but the load's check reads a certificate that
  only `start_log` writes, once. The check raises `Refused`, and nothing catches it.

These were met while modelling, and no run is about them.

- A start without a certificate sets `refused` on a running engine, which a write that
  landed nowhere has made uncertified (`engines.ml:124`, `:158`). `engines.mli:62-63` says
  `refused` leaves the engine halted.
- The core's start clears `crc_sending`, `p_loaded` and the line coder's registers
  (`engine.ml:901`, `:1066`, `:1074-1098`); `Machine.start` (`machine.ml:184-199`) keeps them.
  `machine.mli:142-144` says it is a core as the chip leaves it. The same holds of the
  machine's `holding` and `seen` while it is halted. A restarted machine may so fault a
  premise that the core does not: a period compared that this program never loaded, an edge
  of an arm before the halt. `Lockstep` names these flags as its exception (`kept`, `parted`).
- `DemoBoardHost.reload` writes programs, configurations and the data memory again, and says
  "restarting them is up to you" (`demo_board.py:165-166`). A start alone is ignored: no
  engine is certified after it.
- `usb_fs_board.py:195-196` says that after a restart the certificate "and the data memory are
  as they were". The receiver is armed for good on words from 0, with the answers at 16 and
  18, the records from 20 and the certificate after: a packet longer than 32 bytes, to
  another device of the bus, lands over them.
- `usb_fs_board`'s `_setup`, while a report is in flight, forgets it and leaves its replies
  queued. Only a `Board` with reports of its own is exposed to it.
- `now` is right only if its reads of the two halves are less than 2^24 - 2^16 cycles apart.
- `bench.load` stops and flushes engine 1 before engine 0, and `learn_record.load` loads
  engine 1 without stopping engine 0: each leaves words or loses a certificate if engine 0
  runs and feeds engine 1, as after a demo that ended in an exception with no reset after it.
- `bench.DEPTH` is 8 and `demo_self_timing.py` asserts "the tx fifo holds eight": it holds 15.
- `demo_plinkoo.py:23` loads `bench_firmware.PLINKOO`, which is not there.
- `demo/lab.py`: a job turned away by the hourly limit leaves a `result.json`, under which
  the same text submitted later counts as a duplicate that never runs (`lab.py:402` tests the
  new verdict, not the stored one); over the limit again, the folder of a job that did run is
  removed and replaced. A bench run that fails is recorded as "model" and does not count
  against the limit of three an hour (`lab.py:41`, `playground/lab.html`).
- `demo/ledger.py`'s `run_pico` leaves its capture running when an earlier step has failed:
  `ok = ok and b.wait(capture)` does not wait then.

## What is not modelled

- *Values.* What a register, a pin or a queue's word holds, but for a word's place in its
  order (`Queues`, `UsbBoard`) and real firmware (`Firmware`). Where a value decides control
  (a jump, a deadline), both outcomes are taken.
- *The line coder, stuffing, check sequences, side-set and pin merging* in the core: data.
  How many bits are owed to stuffing depends on a line table's words and the data.
- *The spacing of a pin pair's edges* in the kernel (`wide_a`, `wide_b`).
- *The line decoders* but for what they may say to a receiver.
- *The analyser*, and the fixpoint of `kernel_table.ml`. Nothing on the chip depends on it:
  what it finds, the kernel checks, and `Demos` has the chip check what was found for every
  table the host ships.
- *The ungated build* (`gate` false).
- *The zeros `Host.pop` pads with* past the queue's level (`protocol_emulator.py:177-181`):
  they are no words of the channel, and `HostPort.Popped` returns only those the port gave.
- *`SET_CONFIGURATION` 0* (`usb_board.py:132`), after which a keyboard is configured no more:
  `UsbBoard.Setup`'s laptop asks for configuration 1 only.
- *The keyboard's bus* has no errors, and the Pico is fast enough: it drains the core's words
  before their queue is full, sees the bus idle between two resets, and pushes a reply whole;
  endpoint 1 is not polled while the laptop sets the configuration; a reset lasts until the
  Pico has seen it and loaded the core; the power does not fail during a load. `TypedOnce`
  allows a report to be typed again for each loss of power, whose ACK nobody hears of.
- *Of the demos*: giving up after too many polls, faults that end one early, reports' text
  and what a logic analyser is to see. `demo_glitch_map` (its images are made by a search),
  `learn_send` and `demo_lab` (their firmware is made when they run) and `demo_plinkoo`
  (its firmware is not in the repository) have no table to load. `kernel_vs_board`'s search
  for a halt and `board_check`'s test of the clock are left out, and of `usb_fs_board` what
  the board answers.
- *The lab* (`demo/lab.py`), a queue of jobs over files with limits and duplicates:
  the next component to model.
- Compilers, the learner, the PIO translator, the assembler, pages and board code: pure
  functions on a host, with no state of the chip's, or wiring of the host's transfer.

## The plan

What earlier plans listed is done but for the following.

1. **`Lab`**: jobs, verdicts, limits and restarts of `demo/lab.py`, for "every job is run
   once or refused, and no result is lost".
2. **`LineStuff`**: bits owed to stuffing, against the longest run a line table can make.
3. **`LineDecoder`**: `usb_rx.ml` and `manchester_rx.ml`, implementing what `FrameRx` takes
   them to be.
4. **`Analyser`**: the fixpoint of `kernel_table.ml` and `analyser.ml` over a lattice of
   intervals, for its end, and that what it finds `KernelAccepts` accepts.
5. The edge spacing of a pin pair, in `KernelAccepts`, `Kernel` and `Demos`.

Abstract specifications worth stating beside `Channel`: a frame delivered whole or not at all
(for `FrameRx`), a keyboard that types a text (for `Keyboard`), and the gate as a single
promise, "runs only what was accepted".

Theorems, in order: `TypedOnce`; then that the gate, the walk and `Accepted` composed in one
module run nothing late, which is now three theorems and an argument between them.
