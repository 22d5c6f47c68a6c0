-------------------------- MODULE DataMemoryProofs --------------------------
(***************************************************************************)
(* The data memory's words are fresh, for one engine and for two, for      *)
(* every size of memory and whatever a word may hold.                      *)
(*                                                                         *)
(* Everything follows from one fact: while an engine's held address is     *)
(* valid, the word it is given is the one memory holds there.  An engine's *)
(* turn then leaves its word fresh, by a read or because it keeps the word *)
(* it has; and what the next turn of the other engine can spoil, a write   *)
(* or a move, is what the age and data_moved tell.                         *)
(***************************************************************************)
EXTENDS DataMemory, TLAPS

MemTypes ==
  /\ mem \in [Addresses -> Values]
  /\ turn \in Engines
  /\ held \in [Engines -> Addresses]
  /\ held_valid \in [Engines -> BOOLEAN]
  /\ mine \in [Engines -> BOOLEAN]
  /\ dout \in Values
  /\ last \in [Engines -> Values]
  /\ data_ptr \in [Engines -> Addresses]
  /\ data_moved \in [Engines -> BOOLEAN]
  /\ halted \in [Engines -> BOOLEAN]
  /\ start \in [Engines -> BOOLEAN]
  /\ autopull_data \in [Engines -> BOOLEAN]
  /\ frame_owner \in Engines
  /\ spaced \in BOOLEAN
  /\ walked \in Engines \cup {NoWalk}
  /\ target \in Addresses \cup {NoRead}
  /\ read_at \in Addresses \cup {NoRead}
  /\ read_wait \in 0 .. DataWait - 1
  /\ span \in 0 .. Words
  /\ age \in [Engines -> 0 .. N]

\* An engine about to run still reads halted, and its pointer is at 0 by then.
StartInv ==
  \A n \in Engines :
    start[n] => halted[n] /\ ~spaced /\ data_ptr[n] = 0

\* A held address that is valid says where the engine's word is from.
HeldInv ==
  \A n \in Engines : held_valid[n] => Word(n) = mem[held[n]]

\* An engine that pulls: it runs, or starts in the next cycle.
Pulls(n) == autopull_data[n] /\ (~halted[n] \/ start[n])

Fresh(n) == Word(n) = mem[data_ptr[n]]

\* Whether the cycle before this one was engine n's.
JustRead(n) == N = 1 \/ turn # n

\* A turn leaves its engine's word fresh, or something landed there in that cycle.
TurnInv ==
  \A n \in Engines : Pulls(n) /\ JustRead(n) => Fresh(n) \/ age[n] = 0

\* Before its turn a running engine's word is fresh, or it was just written, or
\* just pointed at.
WaitInv ==
  \A n \in Engines :
    ~halted[n] /\ autopull_data[n] /\ ~JustRead(n) =>
      Fresh(n) \/ data_moved[n] \/ age[n] < N

PullInv == MemTypes /\ StartInv /\ HeldInv /\ TurnInv /\ WaitInv

\* A walk's word: the address is out a cycle after the read begins, under the
\* span in the next, and the word there from the first turn it meets on.
WalkInv ==
  walked # NoWalk /\ target # NoRead =>
    /\ read_wait >= 1 => read_at = target
    /\ read_wait >= 2 => target < span
    /\ read_wait >= 2 /\ JustRead(walked) => Word(walked) = mem[target]
    /\ read_wait >= 3 => Word(walked) = mem[target]

Inv == PullInv /\ WalkInv

-----------------------------------------------------------------------------
\* The assumption on the constants, as bounds on their members.
LEMMA Bounds ==
  /\ N = 1 \/ N = 2
  /\ Words \in Nat /\ Words > 0
  /\ DataWait \in Nat /\ DataWait > 0
  /\ 0 \in Engines /\ 0 \in Addresses
  /\ \A n \in Engines : n \in Nat /\ n < N /\ n # NoWalk
  /\ \A a \in Addresses : a \in Nat /\ a < Words /\ a # NoRead
BY DataMemoryAssumption, SMT DEF Engines, Addresses, NoWalk, NoRead

\* What the engines' turns are: of one engine always its own, of two every other.
LEMMA TurnPasses ==
  ASSUME NEW t \in Engines, NEW u, u = (t + 1) % N
  PROVE  /\ u \in Engines
         /\ \A n \in Engines : N = 2 => (u = n <=> t # n)
         /\ \A n \in Engines : N = 1 => (u = n /\ t = n)
<1>1. CASE N = 1
  BY <1>1, SMT DEF Engines
<1>2. CASE N = 2
  BY <1>2, SMT DEF Engines
<1> QED
  BY <1>1, <1>2, Bounds

\* What a host strobe may be, and what the frame receiver holds.
WellFormed(in) ==
  /\ in.op \in {"none", "start", "data", "config", "owner"}
  /\ in.op # "none" => spaced
  /\ in.at \in Addresses
  /\ in.value \in Values

FrameFormed(frame) ==
  /\ frame.ready \in BOOLEAN
  /\ frame.at \in Addresses
  /\ frame.value \in Values

CoreFormed(core) ==
  \A n \in Engines :
    /\ core[n].halts \in BOOLEAN
    /\ core[n].moves \in BOOLEAN
    /\ core[n].to \in Addresses

\* The host's part of a step, whichever its action: a configuration is rewritten
\* only of an engine that is halted, by a strobe.
HostStep(in) ==
  /\ WellFormed(in)
  /\ spaced' = (in.op = "none")
  /\ frame_owner' \in Engines
  /\ autopull_data' \in [Engines -> BOOLEAN]
  /\ \A n \in Engines :
       autopull_data'[n] # autopull_data[n] => halted[n] /\ in.op = "config"

\* What every step is made of.
StepOf(in, frame, core, next) ==
  /\ HostStep(in)
  /\ FrameFormed(frame) /\ CoreFormed(core)
  /\ next \in Addresses \cup {NoRead}
  /\ Memory(in, frame, core)
  /\ Pointers(in, core)
  /\ Walk(in, frame, core, next)
  /\ Ages(in, frame, core)

\* A cycle, by what its frame, its engines and its walk choose.
LEMMA CycleParts ==
  ASSUME MemTypes, NEW in, HostStep(in), Cycle(in)
  PROVE  \E frame, core, next : StepOf(in, frame, core, next)
<1>1. PICK frame \in FrameChoices, core \in CoreChoices, next \in NextReads :
        /\ Memory(in, frame, core)
        /\ Pointers(in, core)
        /\ Walk(in, frame, core, next)
        /\ Ages(in, frame, core)
  BY DEF Cycle
<1>2. FrameFormed(frame)
  <2>1. CASE frame = NoFrame
    BY <2>1, Bounds DEF NoFrame, FrameFormed, MemTypes
  <2>2. CASE frame # NoFrame
    <3>1. frame \in [ready : {TRUE}, at : Addresses, value : Values]
      BY <2>2 DEF FrameChoices
    <3> QED
      BY <3>1 DEF FrameFormed
  <2> QED
    BY <2>1, <2>2
<1>3. CoreFormed(core)
  <2> SUFFICES ASSUME NEW n \in Engines
               PROVE  /\ core[n].halts \in BOOLEAN
                      /\ core[n].moves \in BOOLEAN
                      /\ core[n].to \in Addresses
    BY DEF CoreFormed
  <2>1. core[n] \in {Stays, Halts} \cup Moves
    BY DEF CoreChoices
  <2>2. CASE core[n] = Stays
    BY <2>2, Bounds DEF Stays
  <2>3. CASE core[n] = Halts
    BY <2>3, Bounds DEF Stays, Halts
  <2>4. CASE core[n] \in Moves
    BY <2>4 DEF Moves
  <2> QED
    BY <2>1, <2>2, <2>3, <2>4
<1>4. next \in Addresses \cup {NoRead}
  BY DEF NextReads
<1> QED
  BY <1>1, <1>2, <1>3, <1>4 DEF StepOf

\* Every step of the host is such a cycle.
LEMMA NextParts ==
  ASSUME MemTypes, Next
  PROVE  \E in, frame, core, next : StepOf(in, frame, core, next)
<1> USE Bounds
<1>1. /\ Quietly.op = "none" /\ Quietly.at = 0 /\ Quietly.value = dout
      /\ \A op : [Quietly EXCEPT !.op = op].op = op
      /\ \A op : [Quietly EXCEPT !.op = op].at = 0
      /\ \A op : [Quietly EXCEPT !.op = op].value = dout
      /\ \A op, e : [Quietly EXCEPT !.op = op, !.engines = e].op = op
      /\ \A op, e : [Quietly EXCEPT !.op = op, !.engines = e].at = 0
      /\ \A op, e : [Quietly EXCEPT !.op = op, !.engines = e].value = dout
  BY DEF Quietly, NoFrame
<1>2. SUFFICES \E in : HostStep(in) /\ Cycle(in)
  BY CycleParts
<1>3. CASE Quiet
  <2>1. Cycle(Quietly) /\ UNCHANGED <<autopull_data, frame_owner>>
    BY <1>3 DEF Quiet
  <2>2. HostStep(Quietly)
    BY <1>1, <2>1 DEF HostStep, WellFormed, Cycle, MemTypes
  <2> QED
    BY <2>1, <2>2
<1>4. CASE StartEngines
  <2>1. PICK engines : Cycle([Quietly EXCEPT !.op = "start", !.engines = engines])
    BY <1>4 DEF StartEngines
  <2>2. spaced /\ UNCHANGED <<autopull_data, frame_owner>>
    BY <1>4 DEF StartEngines, Strobe
  <2>3. HostStep([Quietly EXCEPT !.op = "start", !.engines = engines])
    BY <1>1, <2>1, <2>2 DEF HostStep, WellFormed, Cycle, MemTypes
  <2> QED
    BY <2>1, <2>3
<1>5. CASE DataWrite
  <2>1. PICK n \in Engines, a \in Addresses, v \in Values :
          Cycle([op |-> "data", engines |-> {n}, at |-> a, value |-> v])
    BY <1>5 DEF DataWrite
  <2>2. spaced /\ UNCHANGED <<autopull_data, frame_owner>>
    BY <1>5 DEF DataWrite, Strobe
  <2>3. HostStep([op |-> "data", engines |-> {n}, at |-> a, value |-> v])
    BY <2>1, <2>2 DEF HostStep, WellFormed, Cycle, MemTypes
  <2> QED
    BY <2>1, <2>3
<1>6. CASE ConfigWrite
  <2>1. PICK n \in Engines :
          /\ halted[n]
          /\ autopull_data' = [autopull_data EXCEPT ![n] = ~@]
          /\ Cycle([Quietly EXCEPT !.op = "config", !.engines = {n}])
    BY <1>6 DEF ConfigWrite
  <2>2. spaced /\ UNCHANGED frame_owner
    BY <1>6 DEF ConfigWrite, Strobe
  <2>3. /\ autopull_data' \in [Engines -> BOOLEAN]
        /\ \A m \in Engines : autopull_data'[m] # autopull_data[m] => m = n
    BY <2>1 DEF MemTypes
  <2>4. HostStep([Quietly EXCEPT !.op = "config", !.engines = {n}])
    BY <1>1, <2>1, <2>2, <2>3 DEF HostStep, WellFormed, Cycle, MemTypes
  <2> QED
    BY <2>1, <2>4
<1>7. CASE OwnerWrite
  <2>1. /\ Cycle([Quietly EXCEPT !.op = "owner"])
        /\ spaced /\ frame_owner' \in Engines /\ UNCHANGED autopull_data
    BY <1>7 DEF OwnerWrite, Strobe
  <2>2. HostStep([Quietly EXCEPT !.op = "owner"])
    BY <1>1, <2>1 DEF HostStep, WellFormed, Cycle, MemTypes
  <2> QED
    BY <2>1, <2>2
<1> QED
  BY <1>3, <1>4, <1>5, <1>6, <1>7 DEF Next

-----------------------------------------------------------------------------
(***************************************************************************)
(* What a step does, engine by engine.                                     *)
(***************************************************************************)

\* What goes to the port is an address.
LEMMA AddressTypes ==
  ASSUME MemTypes, NEW in, NEW core, CoreFormed(core), NEW n \in Engines
  PROVE  /\ NextPointer(in, core, n) \in Addresses
         /\ ReadAddress(in, core, n) \in Addresses
<1>1. NextPointer(in, core, n) \in Addresses
  BY Bounds DEF NextPointer, CoreFormed, MemTypes
<1> QED
  BY <1>1 DEF ReadAddress, MemTypes

\* What is written is a value, at an address.
LEMMA WrittenTypes ==
  ASSUME NEW in, NEW frame, WellFormed(in), FrameFormed(frame)
  PROVE  /\ Written(in, frame).at \in Addresses
         /\ Written(in, frame).value \in Values
BY DEF Written, WellFormed, FrameFormed

\* A word in memory changes where one lands, and nowhere else.
LEMMA MemoryKeeps ==
  ASSUME MemTypes, NEW in, NEW frame, NEW core, NEW next,
         StepOf(in, frame, core, next),
         NEW a \in Addresses, ~Lands(in, frame, core, a)
  PROVE  mem'[a] = mem[a]
BY WrittenTypes DEF StepOf, HostStep, Memory, Lands, MemTypes

\* An engine's own read gives it the word at the address it read, whether the
\* word is new or kept; without one it keeps what it had.
LEMMA WordStep ==
  ASSUME MemTypes, HeldInv, NEW in, NEW frame, NEW core, NEW next,
         StepOf(in, frame, core, next), NEW n \in Engines
  PROVE  /\ Reads(in, frame, core, n) =>
              Word(n)' = mem'[ReadAddress(in, core, n)]
         /\ ~Reads(in, frame, core, n) => Word(n)' = Word(n)
<1>1. /\ mine'[n] = (Reads(in, frame, core, n) /\ ~Keeps(in, core, n))
      /\ last'[n] = Word(n)
      /\ Word(n)' = IF mine'[n] THEN dout' ELSE last'[n]
  BY DEF StepOf, Memory, Word
<1>2. CASE Reads(in, frame, core, n)
  <2>1. /\ mem' = mem
        /\ dout' = mem[ReadAddress(in, core, n)]
    BY <1>2 DEF StepOf, Memory, Reads
  <2>2. Keeps(in, core, n) => Word(n) = mem[ReadAddress(in, core, n)]
    BY DEF Keeps, HeldInv
  <2> QED
    BY <1>1, <1>2, <2>1, <2>2
<1>3. CASE ~Reads(in, frame, core, n)
  BY <1>1, <1>3
<1> QED
  BY <1>2, <1>3

\* A held address stays valid only while nothing is written there.
LEMMA HeldStep ==
  ASSUME MemTypes, HeldInv, NEW in, NEW frame, NEW core, NEW next,
         StepOf(in, frame, core, next)
  PROVE  HeldInv'
<1> SUFFICES ASSUME NEW n \in Engines, held_valid'[n]
             PROVE  Word(n)' = mem'[held'[n]]
  BY DEF HeldInv, Engines
<1>1. /\ held'[n] = IF Reads(in, frame, core, n)
                    THEN ReadAddress(in, core, turn) ELSE held[n]
      /\ ~Lands(in, frame, core, held[n])
      /\ held_valid[n] \/ Reads(in, frame, core, n)
  BY DEF StepOf, Memory, HeldValid
<1>2. CASE Reads(in, frame, core, n)
  BY <1>1, <1>2, WordStep DEF Reads
<1>3. CASE ~Reads(in, frame, core, n)
  <2>1. Word(n) = mem[held[n]]
    BY <1>1, <1>3 DEF HeldInv
  <2>2. mem'[held[n]] = mem[held[n]]
    BY <1>1, MemoryKeeps DEF MemTypes
  <2> QED
    BY <1>1, <1>3, <2>1, <2>2, WordStep
<1> QED
  BY <1>2, <1>3

\* No engine is pointed elsewhere, or started twice, in the cycle it starts.
LEMMA StartStep ==
  ASSUME MemTypes, StartInv, NEW in, NEW frame, NEW core, NEW next,
         StepOf(in, frame, core, next)
  PROVE  StartInv'
<1> SUFFICES ASSUME NEW n \in Engines, start'[n]
             PROVE  halted'[n] /\ ~spaced' /\ data_ptr'[n] = 0
  BY DEF StartInv, Engines
<1>1. Starting(in, n)
  BY DEF StepOf, Pointers
<1>2. in.op = "start" /\ halted[n]
  BY <1>1 DEF Starting
<1>3. ~start[n]
  BY <1>2 DEF StartInv, StepOf, HostStep, WellFormed
<1> QED
  BY <1>1, <1>2, <1>3 DEF StepOf, HostStep, Pointers, NextPointer

\* An engine that pulls, or is told to start, is one that pulled or that a start
\* takes from halted to its first word; no host word lands on the way.
LEMMA PullsStep ==
  ASSUME MemTypes, StartInv, NEW in, NEW frame, NEW core, NEW next,
         StepOf(in, frame, core, next), NEW n \in Engines, Pulls(n)'
  PROVE  /\ autopull_data[n]
         /\ ~halted[n] \/ start[n] \/ Starting(in, n)
         /\ ~HostWrites(in)
         /\ ~Free(in, n)
         /\ data_ptr'[n] = NextPointer(in, core, n)
<1>1. /\ autopull_data'[n]
      /\ ~halted'[n] \/ start'[n]
  BY DEF Pulls
<1>2. ~halted[n] \/ start[n] \/ Starting(in, n)
  BY <1>1 DEF StepOf, Pointers
<1>3. in.op = "config" \/ in.op = "data" => ~halted[n]
  BY <1>2 DEF StartInv, Starting, StepOf, HostStep, WellFormed
<1>4. autopull_data'[n] = autopull_data[n]
  BY <1>3 DEF StepOf, HostStep
<1>5. ~HostWrites(in)
  BY <1>3 DEF HostWrites
<1>6. ~Free(in, n)
  BY <1>2 DEF Free
<1>7. data_ptr'[n] = NextPointer(in, core, n)
  BY DEF StepOf, Pointers
<1> QED
  BY <1>1, <1>2, <1>4, <1>5, <1>6, <1>7

\* The engine's own turn.
LEMMA TurnStep ==
  ASSUME MemTypes, StartInv, HeldInv, NEW in, NEW frame, NEW core, NEW next,
         StepOf(in, frame, core, next), NEW n \in Engines,
         Pulls(n)', turn = n
  PROVE  Fresh(n)' \/ age'[n] = 0
<1>1. /\ autopull_data[n] /\ ~HostWrites(in) /\ ~Free(in, n)
      /\ data_ptr'[n] = NextPointer(in, core, n)
  BY PullsStep
<1>2. ReadAddress(in, core, n) = NextPointer(in, core, n)
  BY <1>1 DEF ReadAddress, Lent
<1>3. Fresh(n)' <=> Word(n)' = mem'[data_ptr'[n]]
  BY DEF Fresh
<1>4. CASE Writes(in, frame, core)
  <2>1. Keeps(in, core, n)
    BY <1>1, <1>4 DEF Writes, FrameWrites, FrameMayLand, Spared
  <2>2. Word(n) = mem[NextPointer(in, core, n)]
    BY <1>2, <2>1 DEF Keeps, HeldInv
  <2>3. Word(n)' = Word(n)
    BY <1>4, WordStep DEF Reads
  <2>4. CASE Lands(in, frame, core, NextPointer(in, core, n))
    BY <2>4 DEF StepOf, Ages
  <2>5. CASE ~Lands(in, frame, core, NextPointer(in, core, n))
    <3>1. mem'[NextPointer(in, core, n)] = mem[NextPointer(in, core, n)]
      BY <2>5, AddressTypes, MemoryKeeps DEF StepOf
    <3> QED
      BY <1>1, <1>3, <2>2, <2>3, <3>1
  <2> QED
    BY <2>4, <2>5
<1>5. CASE ~Writes(in, frame, core)
  BY <1>1, <1>2, <1>3, <1>5, WordStep DEF Reads
<1> QED
  BY <1>4, <1>5

\* The other engine's turn.
LEMMA OtherStep ==
  ASSUME MemTypes, StartInv, HeldInv, TurnInv,
         NEW in, NEW frame, NEW core, NEW next,
         StepOf(in, frame, core, next), NEW n \in Engines, N = 2, turn # n,
         ~halted'[n], autopull_data'[n]
  PROVE  Fresh(n)' \/ data_moved'[n] \/ age'[n] < N
<1>1. /\ autopull_data[n]
      /\ data_ptr'[n] = NextPointer(in, core, n)
  BY PullsStep DEF Pulls
<1>2. ~halted[n] \/ start[n]
  BY DEF StepOf, Pointers
<1>3. ~Starting(in, n)
  BY <1>2 DEF Starting, StartInv, StepOf, HostStep, WellFormed
<1>4. NextPointer(in, core, n) = data_ptr[n] \/ data_moved'[n]
  BY <1>3 DEF NextPointer, StartInv, StepOf, Pointers
<1>5. /\ Word(n)' = Word(n)
      /\ Fresh(n)' <=> Word(n)' = mem'[data_ptr'[n]]
  BY WordStep DEF Reads, Fresh
<1>6. Fresh(n) \/ age[n] = 0
  BY <1>1, <1>2 DEF TurnInv, Pulls, JustRead
<1>7. ASSUME NextPointer(in, core, n) = data_ptr[n]
      PROVE  Fresh(n)' \/ age'[n] < N
  <2>1. CASE Lands(in, frame, core, data_ptr[n])
    <3>1. age'[n] = 0
      BY <1>7, <2>1 DEF StepOf, Ages
    <3> QED
      BY <3>1, Bounds
  <2>2. CASE ~Lands(in, frame, core, data_ptr[n]) /\ age[n] = 0
    <3>1. age'[n] = 1
      BY <1>7, <2>2, Bounds DEF StepOf, Ages
    <3> QED
      BY <3>1
  <2>3. CASE ~Lands(in, frame, core, data_ptr[n]) /\ Fresh(n)
    <3>1. mem'[data_ptr[n]] = mem[data_ptr[n]]
      BY <2>3, MemoryKeeps DEF MemTypes
    <3> QED
      BY <1>1, <1>5, <1>7, <2>3, <3>1 DEF Fresh
  <2> QED
    BY <1>6, <2>1, <2>2, <2>3
<1> QED
  BY <1>4, <1>7

\* A turn leaves its engine's word fresh, and what may spoil it is marked.
LEMMA FreshStep ==
  ASSUME MemTypes, StartInv, HeldInv, TurnInv,
         NEW in, NEW frame, NEW core, NEW next, StepOf(in, frame, core, next)
  PROVE  TurnInv' /\ WaitInv'
<1>1. \A n \in Engines :
        /\ N = 2 => (turn' = n <=> turn # n)
        /\ N = 1 => turn = n
  BY TurnPasses DEF StepOf, Memory, MemTypes
<1>2. ASSUME NEW n \in Engines, Pulls(n)', JustRead(n)'
      PROVE  Fresh(n)' \/ age'[n] = 0
  <2>1. turn = n
    BY <1>1, <1>2, Bounds DEF JustRead
  <2> QED
    BY <1>2, <2>1, TurnStep
<1>3. ASSUME NEW n \in Engines, ~halted'[n], autopull_data'[n], ~JustRead(n)'
      PROVE  Fresh(n)' \/ data_moved'[n] \/ age'[n] < N
  <2>1. N = 2 /\ turn # n
    BY <1>1, <1>3, Bounds DEF JustRead
  <2> QED
    BY <1>3, <2>1, OtherStep
<1> QED
  BY <1>2, <1>3 DEF TurnInv, WaitInv, Engines

\* Every register keeps to its values.
LEMMA TypeStep ==
  ASSUME MemTypes, NEW in, NEW frame, NEW core, NEW next,
         StepOf(in, frame, core, next)
  PROVE  MemTypes'
<1>1. /\ Written(in, frame).at \in Addresses
      /\ Written(in, frame).value \in Values
  BY WrittenTypes DEF StepOf, HostStep
<1>2. \A n \in Engines : /\ NextPointer(in, core, n) \in Addresses
                         /\ ReadAddress(in, core, n) \in Addresses
  BY AddressTypes DEF StepOf
<1>3. /\ mem' \in [Addresses -> Values]
      /\ dout' \in Values
      /\ held' \in [Engines -> Addresses]
      /\ last' \in [Engines -> Values]
  BY <1>1, <1>2 DEF StepOf, Memory, MemTypes
<1>4. held_valid' \in [Engines -> BOOLEAN] /\ mine' \in [Engines -> BOOLEAN]
  BY DEF StepOf, Memory, HeldValid, Reads, Keeps, Lands, MemTypes
<1>5. turn' \in Engines
  BY TurnPasses DEF StepOf, Memory, MemTypes
<1>6. /\ data_ptr' \in [Engines -> Addresses]
      /\ data_moved' \in [Engines -> BOOLEAN]
      /\ halted' \in [Engines -> BOOLEAN]
      /\ start' \in [Engines -> BOOLEAN]
  BY <1>2 DEF StepOf, CoreFormed, Pointers, Starting, MemTypes
<1>7. /\ frame_owner' \in Engines /\ spaced' \in BOOLEAN
      /\ autopull_data' \in [Engines -> BOOLEAN]
  BY DEF StepOf, HostStep
<1>8. age' \in [Engines -> 0 .. N]
  <2> SUFFICES ASSUME NEW n \in Engines PROVE age'[n] \in 0 .. N
    BY DEF StepOf, Ages
  <2>1. age'[n] = 0 \/ age'[n] = N \/ (age[n] # N /\ age'[n] = age[n] + 1)
    BY DEF StepOf, Ages
  <2>2. age[n] \in 0 .. N
    BY DEF MemTypes
  <2> QED
    BY <2>1, <2>2, Bounds, SMT
<1>9. /\ walked' \in Engines \cup {NoWalk}
      /\ target' \in Addresses \cup {NoRead}
      /\ read_at' \in Addresses \cup {NoRead}
  <2>1. /\ target' \in {NoRead, target, next}
        /\ read_at' \in {NoRead, target}
        /\ walked' \in Engines \cup {NoWalk, walked}
    BY DEF StepOf, Walk
  <2> QED
    BY <2>1 DEF StepOf, MemTypes
<1>10. read_wait' \in 0 .. DataWait - 1
  <2>1. read_wait' = 0 \/ (~ReadDone /\ read_wait' = read_wait + 1)
    BY DEF StepOf, Walk
  <2> QED
    BY <2>1, Bounds, SMT DEF ReadDone, MemTypes
<1>11. span' \in 0 .. Words
  <2>1. span' = 0 \/ span' = span \/ span' = read_at + 1
    BY DEF StepOf, Walk
  <2>2. read_at + 1 \in 0 .. Words
    BY Bounds, SMT DEF MemTypes, NoRead
  <2> QED
    BY <2>1, <2>2, Bounds, SMT DEF MemTypes
<1> QED
  BY <1>3, <1>4, <1>5, <1>6, <1>7, <1>8, <1>9, <1>10, <1>11 DEF MemTypes

-----------------------------------------------------------------------------
(***************************************************************************)
(* The walk.                                                               *)
(***************************************************************************)

\* A walk that goes on is lent its engine's turn, which no write takes from it.
LEMMA WalkGoesOn ==
  ASSUME MemTypes, NEW in, NEW frame, NEW core,
         walked # NoWalk, ~WalkStops(in, frame, core)
  PROVE  /\ walked \in Engines /\ Lent(in, walked)
         /\ turn = walked => Reads(in, frame, core, walked)
         /\ \A a \in Addresses : a < span => ~Lands(in, frame, core, a)
<1>1. walked \in Engines /\ Lent(in, walked) /\ ~HostWrites(in)
  BY DEF WalkStops, MemTypes
<1>2. turn = walked => ~FrameWrites(in, frame, core)
  BY DEF WalkStops, FrameWrites, FrameMayLand
<1> QED
  BY <1>1, <1>2 DEF WalkStops, Reads, Writes

\* A walk's word, a cycle further into its wait.
LEMMA WalkStep ==
  ASSUME MemTypes, HeldInv, WalkInv, NEW in, NEW frame, NEW core, NEW next,
         StepOf(in, frame, core, next)
  PROVE  WalkInv'
<1> SUFFICES ASSUME walked' # NoWalk, target' # NoRead, read_wait' >= 1
             PROVE  /\ read_at' = target'
                    /\ read_wait' >= 2 => target' < span'
                    /\ read_wait' >= 2 /\ JustRead(walked)'
                         => Word(walked)' = mem'[target']
                    /\ read_wait' >= 3 => Word(walked)' = mem'[target']
  <2>1. read_wait' \in Nat
    BY TypeStep, Bounds, SMT DEF MemTypes
  <2>2. read_wait' >= 2 \/ read_wait' >= 3 => read_wait' >= 1
    BY <2>1, SMT
  <2> QED
    BY <2>2 DEF WalkInv
<1>1. walked # NoWalk /\ ~WalkStops(in, frame, core) /\ walked' = walked
  BY SMT DEF StepOf, Walk
<1>2. /\ target # NoRead /\ ~ReadDone
      /\ target' = target /\ read_wait' = read_wait + 1
      /\ read_at' = target
      /\ span' = IF read_at + 1 > span THEN read_at + 1 ELSE span
  BY <1>1, SMT DEF StepOf, Walk
<1>3. read_wait \in Nat /\ target \in Addresses /\ span \in Nat
  BY <1>2, Bounds, SMT DEF MemTypes
<1>4. /\ read_wait >= 1 => read_at = target
      /\ read_wait >= 2 => target < span
      /\ read_wait >= 2 /\ JustRead(walked) => Word(walked) = mem[target]
      /\ read_wait >= 3 => Word(walked) = mem[target]
  BY <1>1, <1>2 DEF WalkInv
<1>5. /\ walked \in Engines /\ Lent(in, walked)
      /\ turn = walked => Reads(in, frame, core, walked)
      /\ \A a \in Addresses : a < span => ~Lands(in, frame, core, a)
  BY <1>1, WalkGoesOn
<1>6. read_wait' >= 2 => target' < span'
  BY <1>2, <1>3, <1>4, Bounds, SMT
\* The turn it is lent reads the walk's word.
<1>7. ASSUME read_wait >= 1, turn = walked
      PROVE  Word(walked)' = mem'[target]
  <2>1. ReadAddress(in, core, walked) = target
    BY <1>2, <1>4, <1>5, <1>7 DEF ReadAddress
  <2>2. PICK n \in Engines : n = walked
    BY <1>5
  <2>3. Word(n)' = mem'[ReadAddress(in, core, n)]
    BY <1>5, <1>7, <2>2, WordStep
  <2>4. Word(n)' = Word(walked)'
    BY <1>1, <2>2 DEF Word
  <2> QED
    BY <2>1, <2>2, <2>3, <2>4
\* A word read stays: nothing lands under the span, and the other turn takes nothing.
<1>8. ASSUME read_wait >= 2, turn # walked, Word(walked) = mem[target]
      PROVE  Word(walked)' = mem'[target]
  <2>1. mem'[target] = mem[target]
    BY <1>3, <1>4, <1>5, <1>8, MemoryKeeps
  <2>2. PICK n \in Engines : n = walked
    BY <1>5
  <2>3. Word(n)' = Word(n)
    BY <1>8, <2>2, WordStep DEF Reads
  <2>4. Word(n)' = Word(walked)'
    BY <1>1, <2>2 DEF Word
  <2> QED
    BY <1>8, <2>1, <2>2, <2>3, <2>4
<1>9. \A n \in Engines :
        /\ N = 2 => (turn' = n <=> turn # n)
        /\ N = 1 => turn = n
  BY TurnPasses DEF StepOf, Memory, MemTypes
<1>10. ASSUME read_wait' >= 2, JustRead(walked)'
       PROVE  Word(walked)' = mem'[target']
  <2>1. turn = walked
    BY <1>1, <1>5, <1>9, <1>10, Bounds DEF JustRead
  <2>2. read_wait >= 1
    BY <1>2, <1>3, <1>10, SMT
  <2> QED
    BY <1>2, <1>7, <2>1, <2>2
<1>11. ASSUME read_wait' >= 3
       PROVE  Word(walked)' = mem'[target']
  <2>1. read_wait >= 2 /\ read_wait >= 1
    BY <1>2, <1>3, <1>11, SMT
  <2>2. CASE turn = walked
    BY <1>2, <1>7, <2>1, <2>2
  <2>3. CASE turn # walked
    BY <1>2, <1>4, <1>8, <2>1, <2>3 DEF JustRead
  <2> QED
    BY <2>2, <2>3
<1> QED
  BY <1>2, <1>6, <1>10, <1>11

-----------------------------------------------------------------------------
\* The invariant holds at reset,
LEMMA InitInv == Init => Inv
<1> SUFFICES ASSUME Init PROVE Inv
  OBVIOUS
<1>1. MemTypes
  <2>1. /\ 0 \in 0 .. DataWait - 1 /\ 0 \in 0 .. Words /\ N \in 0 .. N
    BY Bounds, SMT
  <2> QED
    BY <2>1, Bounds DEF Init, MemTypes
<1>2. StartInv /\ HeldInv /\ TurnInv /\ WaitInv
  BY DEF Init, StartInv, HeldInv, TurnInv, WaitInv, Pulls
<1>3. WalkInv
  BY DEF Init, WalkInv
<1> QED
  BY <1>1, <1>2, <1>3 DEF Inv, PullInv

\* and in every cycle.
LEMMA StepInv == Inv /\ [Next]_vars => Inv'
<1> SUFFICES ASSUME Inv, [Next]_vars PROVE Inv'
  OBVIOUS
<1>1. CASE Next
  <2> USE DEF Inv, PullInv
  <2>1. PICK in, frame, core, next : StepOf(in, frame, core, next)
    BY <1>1, NextParts
  <2> QED
    BY <2>1, TypeStep, StartStep, HeldStep, FreshStep, WalkStep
<1>2. CASE UNCHANGED vars
  BY <1>2 DEF Inv, PullInv, MemTypes, StartInv, HeldInv, TurnInv, WaitInv,
     WalkInv, Pulls, Fresh, JustRead, Word,
     vars, memoryVars, engineVars, hostVars, walkVars
<1> QED
  BY <1>1, <1>2

\* What holds of the memory's words whatever the turns, starts, walks and writes
\* (data_memory.ml, load_checker.ml).
THEOREM DataInvariant == Spec => []Inv
BY InitInv, StepInv, PTL DEF Spec

\* A pull takes the word memory holds at the pointer, unless it was written within
\* the last N cycles (engine.ml: pull_data_ok; data_memory.ml: keeps).
THEOREM PulledIsFresh == Spec => []PullsAreFresh
<1>1. Inv => PullsAreFresh
  <2> SUFFICES ASSUME Inv, NEW n \in Engines, ~halted[n], autopull_data[n],
                      ~data_moved[n], age[n] = N
               PROVE  Fresh(n)
    BY DEF PullsAreFresh, Fresh
  <2>1. age[n] # 0 /\ ~(age[n] < N)
    BY Bounds
  <2> QED
    BY <2>1 DEF Inv, PullInv, TurnInv, WaitInv, Pulls
<1> QED
  BY <1>1, DataInvariant, PTL

\* The word a walk takes is the one memory holds, if the walk waits for it a whole
\* round of turns and the two cycles an address takes: with two engines, the chip's
\* four (load_checker.ml: data_wait, read_done, span).
THEOREM WalkedIsFresh ==
  ASSUME DataWait >= N + 2
  PROVE  Spec => []WalkReadsAreFresh
<1>1. Inv => WalkReadsAreFresh
  <2> SUFFICES ASSUME Inv, walked # NoWalk, target # NoRead,
                      read_wait = DataWait - 1
               PROVE  Word(walked) = mem[target]
    BY DEF WalkReadsAreFresh, ReadDone
  <2>1. CASE N = 1
    <3>1. read_wait >= 2 /\ JustRead(walked)
      BY <2>1, Bounds, SMT DEF JustRead
    <3> QED
      BY <3>1 DEF Inv, WalkInv
  <2>2. CASE N = 2
    <3>1. read_wait >= 3
      BY <2>2, Bounds, SMT
    <3> QED
      BY <3>1 DEF Inv, WalkInv
  <2> QED
    BY <2>1, <2>2, Bounds
<1> QED
  BY <1>1, DataInvariant, PTL
=============================================================================
