----------------------------- MODULE DataMemory -----------------------------
(***************************************************************************)
(* The data memory the engines share (src/data_memory.ml), its one port    *)
(* taken in turns by the engines' own reads, the load checker's, the       *)
(* host's writes and the frame receiver's.  One step is one clock cycle.   *)
(*                                                                         *)
(* An engine's word lags its pointer and the memory by a few cycles.  The  *)
(* module says by how many, and that neither a stolen turn, a start nor a  *)
(* walk ever leaves an old word standing.                                  *)
(***************************************************************************)
EXTENDS Integers, FiniteSets

CONSTANTS
  N,        \* engines
  Words,    \* data words
  Values,   \* what a word may hold
  HostOps,  \* host registers the host writes
  Pullers,  \* the engines that may be configured to pull data
  Walks,    \* whether the checker walks
  DataWait  \* cycles a walk waits for a word (data_wait in load_checker.ml)

ASSUME DataMemoryAssumption ==
  /\ N \in {1, 2}
  /\ Words \in Nat \ {0}
  /\ Values # {}
  /\ HostOps \subseteq {"start", "data", "config", "owner"}
  /\ Pullers \subseteq 0 .. N - 1
  /\ Walks \in BOOLEAN
  /\ DataWait \in Nat \ {0}

Engines == 0 .. N - 1
Addresses == 0 .. Words - 1
NoRead == -1
NoWalk == -1

VARIABLES
  mem, turn, held, held_valid, mine, dout, last,  \* Data_memory
  data_ptr, data_moved, halted, start,            \* Engine
  autopull_data, frame_owner, spaced,             \* Host_port
  walked, target, read_at, read_wait, span,       \* Load_checker
  age                                             \* history

memoryVars == <<mem, turn, held, held_valid, mine, dout, last>>
engineVars == <<data_ptr, data_moved, halted, start>>
hostVars == <<autopull_data, frame_owner, spaced>>
walkVars == <<walked, target, read_at, read_wait, span>>
vars == <<memoryVars, engineVars, hostVars, walkVars, age>>

-----------------------------------------------------------------------------
(***************************************************************************)
(* Wires of a cycle: in is the host's strobe, frame the word the receiver  *)
(* holds, core what each running engine executes.                          *)
(***************************************************************************)

Starting(in, n) == in.op = "start" /\ n \in in.engines /\ halted[n]

Free(in, n) == halted[n] /\ ~Starting(in, n) /\ ~start[n]

\* Where the pointer will be: at 0 through a start, else as the program moves it.
NextPointer(in, core, n) ==
  IF Starting(in, n) \/ start[n] THEN 0
  ELSE IF core[n].moves THEN core[n].to ELSE data_ptr[n]

Lent(in, n) == walked = n /\ Free(in, n)

\* The address engine n's turn reads: the walk's while it is lent to one.
ReadAddress(in, core, n) ==
  IF Lent(in, n) /\ read_at # NoRead THEN read_at ELSE NextPointer(in, core, n)

Keeps(in, core, n) ==
  /\ held_valid[n]
  /\ ~halted[n]
  /\ ReadAddress(in, core, n) = held[n]

HostWrites(in) ==
  /\ in.op = "data"
  /\ \A n \in Engines : halted[n]
  /\ walked \in in.engines \cup {NoWalk}

FrameMayLand(in) == ~HostWrites(in) /\ turn = frame_owner

\* The owner can do without its read: it is free, never pulls data, or keeps
\* its word.
Spared(in, core, n) ==
  Free(in, n) \/ ~autopull_data[n] \/ Keeps(in, core, n)

FrameWrites(in, frame, core) ==
  frame.ready /\ FrameMayLand(in) /\ Spared(in, core, frame_owner)

Writes(in, frame, core) == HostWrites(in) \/ FrameWrites(in, frame, core)

Written(in, frame) ==
  IF HostWrites(in) THEN [at |-> in.at, value |-> in.value]
  ELSE [at |-> frame.at, value |-> frame.value]

Lands(in, frame, core, a) ==
  Writes(in, frame, core) /\ Written(in, frame).at = a

\* The engine whose read this cycle is, if no write takes it.
Reads(in, frame, core, n) == turn = n /\ ~Writes(in, frame, core)

Word(n) == IF mine[n] THEN dout ELSE last[n]

-----------------------------------------------------------------------------
(***************************************************************************)
(* Registers.                                                              *)
(***************************************************************************)

Init ==
  /\ mem \in [Addresses -> Values]
  /\ turn = 0
  /\ held = [n \in Engines |-> 0]
  /\ held_valid = [n \in Engines |-> FALSE]
  /\ mine = [n \in Engines |-> FALSE]
  /\ dout \in Values
  /\ last \in [Engines -> Values]
  /\ data_ptr = [n \in Engines |-> 0]
  /\ data_moved = [n \in Engines |-> FALSE]
  /\ halted = [n \in Engines |-> TRUE]
  /\ start = [n \in Engines |-> FALSE]
  /\ autopull_data = [n \in Engines |-> FALSE]
  /\ frame_owner = 0
  /\ spaced = TRUE
  /\ walked = NoWalk /\ target = NoRead /\ read_at = NoRead
  /\ read_wait = 0 /\ span = 0
  /\ age = [n \in Engines |-> N]

\* Mutant: a write where an engine last read leaves its word standing.
HeldValidThroughWrite(in, frame, core, n) ==
  ~halted[n] /\ (held_valid[n] \/ Reads(in, frame, core, n))

\* A running engine may keep its word until something lands where it read.
HeldValid(in, frame, core, n) ==
  /\ ~halted[n]
  /\ ~Lands(in, frame, core, held[n])
  /\ held_valid[n] \/ Reads(in, frame, core, n)

Memory(in, frame, core) ==
  LET reads == ReadAddress(in, core, turn)
      written == Written(in, frame)
  IN  /\ turn' = (turn + 1) % N
      /\ mem' = IF Writes(in, frame, core)
                THEN [mem EXCEPT ![written.at] = written.value] ELSE mem
      /\ dout' = IF Writes(in, frame, core) THEN written.value ELSE mem[reads]
      /\ held' = [n \in Engines |->
           IF Reads(in, frame, core, n) THEN reads ELSE held[n]]
      /\ held_valid' = [n \in Engines |-> HeldValid(in, frame, core, n)]
      /\ mine' = [n \in Engines |->
           Reads(in, frame, core, n) /\ ~Keeps(in, core, n)]
      /\ last' = [n \in Engines |-> IF mine[n] THEN dout ELSE last[n]]

Pointers(in, core) ==
  /\ data_ptr' = [n \in Engines |-> NextPointer(in, core, n)]
  /\ data_moved' = [n \in Engines |->
       ~start[n] /\ core[n].moves]
  /\ start' = [n \in Engines |-> Starting(in, n)]
  /\ halted' = [n \in Engines |-> ~start[n] /\ (halted[n] \/ core[n].halts)]

\* The walk is cut off: its engine is rewritten or leaves free, a host word lands,
\* its own receiver's word could land, or any word lands below how far it has read.
WalkStops(in, frame, core) ==
  \/ in.op = "config" /\ walked \in in.engines
  \/ ~Lent(in, walked)
  \/ HostWrites(in)
  \/ frame.ready /\ FrameMayLand(in) /\ frame_owner = walked
  \/ \E a \in Addresses : Lands(in, frame, core, a) /\ a < span

\* Mutant: a word counts as there a cycle early.
ReadDoneEarly == read_wait = DataWait - 2

ReadDone == read_wait = DataWait - 1

\* A walk reads one word at a time.  The address goes out a cycle after the read
\* begins, and next, a word or none, follows once the word has been waited for.
Walk(in, frame, core, next) ==
  IF walked = NoWalk
  THEN /\ walked' \in {NoWalk} \cup {n \in Engines : Walks /\ Free(in, n)}
       /\ target' = IF walked' = NoWalk THEN NoRead ELSE next
       /\ read_at' = NoRead
       /\ read_wait' = 0 /\ span' = 0
  ELSE /\ read_at' = target
       /\ span' = IF read_at + 1 > span THEN read_at + 1 ELSE span
       /\ IF WalkStops(in, frame, core)
          THEN walked' = NoWalk /\ target' = NoRead /\ read_wait' = 0
          ELSE /\ walked' = walked
               /\ target' = IF target = NoRead \/ ReadDone THEN next ELSE target
               /\ read_wait' = IF target = NoRead \/ ReadDone THEN 0 ELSE read_wait + 1

\* How long the word at engine n's pointer has stood, up to N cycles.
Ages(in, frame, core) ==
  age' = [n \in Engines |->
    IF Lands(in, frame, core, NextPointer(in, core, n)) THEN 0
    ELSE IF NextPointer(in, core, n) # data_ptr[n] \/ age[n] = N THEN N
    ELSE age[n] + 1]

-----------------------------------------------------------------------------
NoFrame == [ready |-> FALSE, at |-> 0, value |-> dout]

\* A received word that lands changes the word there; one that would not is left
\* out.
FrameChoices ==
  {NoFrame} \cup
  {frame \in [ready: {TRUE}, at: Addresses, value: Values] :
     turn = frame_owner /\ frame.value # mem[frame.at]}

\* What an engine may do in a cycle: leave its pointer, halt, or move it, by a
\* seek or, where the pointer rested a cycle, by a pull to the next word.  A
\* program that never pulls reads no word, so its pointer is left alone.
Stays == [halts |-> FALSE, moves |-> FALSE, to |-> 0]
Halts == [Stays EXCEPT !.halts = TRUE]
Moves == [halts: {FALSE}, moves: {TRUE}, to: Addresses]

CoreOps(n) ==
  IF halted[n] THEN {Stays}
  ELSE {Stays, Halts} \cup (IF autopull_data[n] THEN Moves ELSE {})

CoreChoices ==
  {core \in [Engines -> {Stays, Halts} \cup Moves] :
     \A n \in Engines : core[n] \in CoreOps(n)}

NextReads ==
  IF walked = NoWalk \/ target = NoRead \/ ReadDone
  THEN Addresses \cup {NoRead} ELSE {NoRead}

Cycle(in) ==
  /\ spaced' = (in.op = "none")
  /\ \E frame \in FrameChoices, core \in CoreChoices, next \in NextReads :
       /\ Memory(in, frame, core)
       /\ Pointers(in, core)
       /\ Walk(in, frame, core, next)
       /\ Ages(in, frame, core)

Quietly == [op |-> "none", engines |-> {}, at |-> 0, value |-> NoFrame.value]

Strobe(op) == spaced /\ op \in HostOps

Quiet == Cycle(Quietly) /\ UNCHANGED <<autopull_data, frame_owner>>

\* A start of one engine or of every engine.
StartEngines ==
  /\ Strobe("start")
  /\ \E engines \in SUBSET Engines \ {{}} :
       Cycle([Quietly EXCEPT !.op = "start", !.engines = engines])
  /\ UNCHANGED <<autopull_data, frame_owner>>

DataWrite ==
  /\ Strobe("data")
  /\ \E n \in Engines, a \in Addresses, v \in Values :
       Cycle([op |-> "data", engines |-> {n}, at |-> a, value |-> v])
  /\ UNCHANGED <<autopull_data, frame_owner>>

\* A halted engine's configuration is rewritten.
ConfigWrite ==
  /\ Strobe("config")
  /\ \E n \in Engines :
       /\ halted[n]
       /\ n \in Pullers
       /\ autopull_data' = [autopull_data EXCEPT ![n] = ~@]
       /\ Cycle([Quietly EXCEPT !.op = "config", !.engines = {n}])
  /\ UNCHANGED frame_owner

OwnerWrite ==
  /\ Strobe("owner")
  /\ Cycle([Quietly EXCEPT !.op = "owner"])
  /\ frame_owner' \in Engines
  /\ UNCHANGED autopull_data

Next == Quiet \/ StartEngines \/ DataWrite \/ ConfigWrite \/ OwnerWrite

Spec == Init /\ [][Next]_vars

-----------------------------------------------------------------------------
(***************************************************************************)
(* Properties.                                                             *)
(***************************************************************************)

\* A pull takes the word memory holds at the pointer, unless it was written
\* within the last N cycles (engine.ml: pull_data_ok; data_memory.ml: keeps).
PullsAreFresh ==
  \A n \in Engines :
    ~halted[n] /\ autopull_data[n] /\ ~data_moved[n] /\ age[n] = N =>
      Word(n) = mem[data_ptr[n]]

\* The word a walk takes after its wait is the one memory holds, whatever has
\* landed since the read began (load_checker.ml: read_done, span).
WalkReadsAreFresh ==
  walked # NoWalk /\ target # NoRead /\ ReadDone => Word(walked) = mem[target]
=============================================================================
