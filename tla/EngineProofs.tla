---------------------------- MODULE EngineProofs ----------------------------
(***************************************************************************)
(* Proofs about the engine core, for every size of memory, registers and   *)
(* queues, and every firmware the core may be loaded with.                 *)
(***************************************************************************)
EXTENDS Engine, TLAPS

\* What a cycle may bring.
Given(in) ==
  /\ in.op \in Strobes \cup {"none"}
  /\ in.op # "none" => spaced
  /\ in.op = "program" => in.at \in Pcs /\ in.word \in Words
  /\ in.walk \in Pcs \cup {NoWalk}
  /\ in.level \in BOOLEAN \cup {pin}

\* Every step is a cycle on something the host and the pins may bring.
LEMMA NextIsClock == Next => \E in : Clock(in) /\ Given(in)
<1>1. ASSUME NEW op, NEW at, NEW w, NEW in \in Surrounded(op, at, w)
      PROVE  /\ in.op = op /\ in.at = at /\ in.word = w
             /\ in.walk \in Pcs \cup {NoWalk}
             /\ in.level \in BOOLEAN \cup {pin}
  BY <1>1 DEF Surrounded, Around
<1>2. CASE Quiet
  <2>1. PICK in \in Surrounded("none", 0, ZeroWord) : Clock(in)
    BY <1>2 DEF Quiet, Cycle
  <2> QED BY <2>1, <1>1 DEF Given
<1>3. ASSUME NEW op \in Strobes \ {"program"}, Strobe(op)
      PROVE  \E in : Clock(in) /\ Given(in)
  <2>1. PICK in \in Surrounded(op, 0, ZeroWord) : Clock(in)
    BY <1>3 DEF Strobe, Cycle
  <2>2. spaced
    BY <1>3 DEF Strobe
  <2> QED BY <2>1, <2>2, <1>1 DEF Given
<1>4. CASE WriteProgram
  <2>1. PICK at \in Pcs, w \in Words : Cycle("program", at, w)
    BY <1>4 DEF WriteProgram
  <2>2. PICK in \in Surrounded("program", at, w) : Clock(in)
    BY <2>1 DEF Cycle
  <2>3. spaced
    BY <1>4 DEF WriteProgram
  <2> QED BY <2>2, <2>3, <1>1 DEF Given, Strobes
<1> QED BY <1>2, <1>3, <1>4 DEF Next, Strobes

\* The address after another is one of the memory's.
LEMMA ModIn == ASSUME NEW n \in Nat, NEW k \in Nat \ {0} PROVE n % k \in 0 .. k - 1
  OBVIOUS

\* The pc after a pc is one.
LEMMA AfterIn ==
  ASSUME config \in Config, NEW a \in Pcs
  PROVE  After(a) \in Pcs
<1>1. Size \in Nat \ {0} /\ a + 1 \in Nat
  BY MachineAssumption DEF Pcs
<1>2. (a + 1) % Size \in Pcs
  BY <1>1, ModIn DEF Pcs
<1> QED BY <1>2 DEF After, Config

-----------------------------------------------------------------------------
(***************************************************************************)
(* The fetch.                                                              *)
(***************************************************************************)

FetchTypes ==
  /\ program \in [Pcs -> Word] /\ config \in Config
  /\ pc \in Pcs /\ word \in Word /\ dout \in Word /\ refill \in BOOLEAN
  /\ start \in BOOLEAN /\ halted \in BOOLEAN /\ stall \in Nat

\* A start finds the first word fetched and lasts a cycle, which the host lets pass.
StartFetched == start => halted /\ refill /\ dout = program[0] /\ ~spaced

\* A running core holds its word and has fetched the next, or refills in the
\* second cycle of a jump.
RunFetched ==
  ~halted => IF refill THEN stall > 0 /\ dout = program[pc]
             ELSE word = program[pc] /\ dout = program[After(pc)]

FetchInv == FetchTypes /\ StartFetched /\ RunFetched

\* The fetch at reset.
LEMMA FetchInit == Init => FetchInv
<1> SUFFICES ASSUME Init PROVE FetchInv
  OBVIOUS
<1>1. PICK f \in Firmware : program = f.program /\ config = f.config
  BY DEF Init
<1>2. program \in [Pcs -> Word] /\ config \in Config
  BY <1>1, EngineAssumption
<1>3. 0 \in Pcs /\ 1 \in Counts
  BY MachineAssumption DEF Pcs, Counts
<1>4. ZeroWord \in Word
  BY <1>3 DEF ZeroWord, Word, Conditions
<1>5. dout \in Word
  BY <1>2 DEF Init
<1> QED BY <1>2, <1>3, <1>4, <1>5 DEF Init, FetchInv, FetchTypes, StartFetched, RunFetched

\* A cycle of the fetch: an issue, a jump's refill, a stall, a start, a halted core
\* whose memory the host or the checker reads.
LEMMA FetchStep ==
  ASSUME FetchInv, NEW in, Clock(in), Given(in)
  PROVE  FetchInv'
<1> USE DEF FetchInv, FetchTypes
<1>1. Fetch(in) /\ Issuing(in) /\ spaced' = (in.op = "none") /\ config' = config
  BY DEF Clock, loadVars
<1>2. 0 \in Pcs /\ \A a \in Pcs : After(a) \in Pcs
  BY AfterIn, MachineAssumption DEF Pcs
<1>3. JmpTargetOrNext(in) \in Pcs /\ PcAfterNext(in) \in Pcs /\ FetchAddr(in) \in Pcs
  <2>1. word.target \in Pcs
    BY DEF Word
  <2> QED BY <1>2, <2>1 DEF JmpTargetOrNext, PcAfterNext, FetchAddr
<1>4. Issue => ~refill /\ word = program[pc] /\ dout = program[After(pc)]
  BY DEF Issue, RunFetched
<1>5. ProgramWrite(in) => in.at \in Pcs /\ in.word \in Word
  BY EngineAssumption DEF Given, ProgramWrite
<1>6. FetchTypes'
  <2>1. program' \in [Pcs -> Word]
    BY <1>1, <1>5 DEF Fetch
  <2>2. dout' \in Word
    <3>1. ProgramRead(in) => in.walk \in Pcs
      BY DEF ProgramRead, Given
    <3> QED BY <1>1, <1>3, <1>5, <3>1 DEF Fetch
  <2>3. word' \in Word /\ refill' \in BOOLEAN /\ pc' \in Pcs
    BY <1>1, <1>2, <1>3 DEF Fetch
  <2>4. start' \in BOOLEAN /\ halted' \in BOOLEAN
    BY <1>1 DEF Issuing, Starting
  <2>5. stall' \in Nat
    <3>1. word.delay \in Nat
      BY DEF Word
    <3> QED BY <1>1, <3>1 DEF Issuing, JmpCycles
  <2> QED BY <1>1, <2>1, <2>2, <2>3, <2>4, <2>5
<1>7. StartFetched'
  <2> SUFFICES ASSUME start' PROVE halted' /\ refill' /\ dout' = program'[0] /\ ~spaced'
    BY DEF StartFetched
  <2>1. Starting(in) /\ in.op = "start" /\ halted /\ ~faulted
    BY <1>1 DEF Issuing, Starting
  <2>2. ~start
    BY <2>1 DEF Given, StartFetched
  <2>3. ~ProgramWrite(in) /\ ~ProgramRead(in)
    BY <2>1 DEF ProgramWrite, ProgramRead, Free
  <2> QED BY <1>1, <2>1, <2>2, <2>3 DEF Fetch, Issuing, FetchAddr
<1>8. RunFetched'
  <2> SUFFICES ASSUME ~halted'
               PROVE  IF refill' THEN stall' > 0 /\ dout' = program'[pc']
                      ELSE word' = program'[pc'] /\ dout' = program'[After(pc')]
    BY <1>1 DEF RunFetched, After
  <2>1. CASE start
    <3>1. in.op = "none" /\ ~Starting(in) /\ ~Issue
      BY <2>1 DEF Given, StartFetched, Starting, Issue
    <3>2. ~ProgramWrite(in) /\ ~ProgramRead(in) /\ ~JmpGo /\ ~Advance(in)
      BY <2>1, <3>1 DEF ProgramWrite, ProgramRead, Free, JmpGo, Advance, OpGo, Go
    <3> QED BY <1>1, <2>1, <3>1, <3>2 DEF Fetch, FetchAddr, PcAfterNext, StartFetched
  <2>2. CASE ~start
    <3>1. ~halted
      BY <1>1, <2>2 DEF Issuing
    <3>2. ~ProgramWrite(in) /\ ~ProgramRead(in) /\ ~Starting(in)
      BY <3>1 DEF ProgramWrite, ProgramRead, Free, Starting
    <3>3. program' = program /\ dout' = program[FetchAddr(in)]
      BY <1>1, <3>2 DEF Fetch
    <3>4. CASE JmpGo
      <4>1. pc' = JmpTargetOrNext(in) /\ FetchAddr(in) = JmpTargetOrNext(in)
        BY <1>1, <2>2, <3>2, <3>4 DEF Fetch, FetchAddr
      <4>2. refill'
        BY <1>1, <3>4 DEF Fetch
      <4>3. stall' = 1
        BY <1>1, <2>2, <3>4 DEF Issuing, JmpCycles
      <4> QED BY <3>3, <4>1, <4>2, <4>3
    <3>5. CASE ~JmpGo /\ Advance(in)
      <4>1. ~refill /\ dout = program[After(pc)]
        BY <1>4, <3>5 DEF Advance, OpGo, Go
      <4>2. ~refill' /\ pc' = After(pc) /\ word' = dout
        BY <1>1, <2>2, <3>2, <3>5 DEF Fetch
      <4>3. FetchAddr(in) = After(After(pc))
        BY <2>2, <3>2, <3>5 DEF FetchAddr, PcAfterNext
      <4> QED BY <3>3, <4>1, <4>2, <4>3
    <3>6. CASE ~JmpGo /\ ~Advance(in)
      <4>1. ~refill' /\ pc' = pc /\ word' = IF refill THEN dout ELSE word
        BY <1>1, <2>2, <3>2, <3>6 DEF Fetch
      <4>2. FetchAddr(in) = After(pc)
        BY <2>2, <3>2, <3>6 DEF FetchAddr, PcAfterNext
      <4> QED BY <3>1, <3>3, <4>1, <4>2 DEF RunFetched
    <3> QED BY <3>4, <3>5, <3>6
  <2> QED BY <2>1, <2>2
<1> QED BY <1>6, <1>7, <1>8

\* The fetch where nothing moves.
LEMMA FetchStutter == ASSUME FetchInv, UNCHANGED vars PROVE FetchInv'
  BY DEF FetchInv, FetchTypes, StartFetched, RunFetched, After, vars, loadVars,
         fetchVars, issueVars, historyVars

\* The inductive invariant of the fetch: a running core holds the word at pc and
\* has the next at its memory's output, or refills under a stall (engine.ml:
\* fetch_addr, refill, ir_load).
THEOREM EngineFetch == Spec => []FetchInv
<1>1. ASSUME FetchInv, [Next]_vars PROVE FetchInv'
  BY <1>1, NextIsClock, FetchStep, FetchStutter
<1> QED BY FetchInit, <1>1, PTL DEF Spec

\* The word that issues is the program's at pc, whatever the program, its jumps
\* and delays, and the host's writes and the checker's reads before it.
THEOREM EngineIssues == Spec => []IssuesItsWord
<1>1. FetchInv => IssuesItsWord
  BY DEF FetchInv, FetchTypes, RunFetched, IssuesItsWord, Issue
<1> QED BY <1>1, EngineFetch, PTL

-----------------------------------------------------------------------------
(***************************************************************************)
(* Types.                                                                  *)
(***************************************************************************)

\* The registers the fetch does not need.
RestTypes ==
  /\ irq \in BOOLEAN /\ fault \subseteq FaultKinds
  /\ osr_count \in 0 .. DataBits /\ isr_count \in 0 .. DataBits
  /\ data_moved \in BOOLEAN /\ crc_sending \in BOOLEAN /\ flip_pending \in BOOLEAN
  /\ tx \in 0 .. Depth /\ rx \in 0 .. Depth /\ pushed \in BOOLEAN
  /\ p \in BOOLEAN /\ p_loaded \in BOOLEAN
  /\ pin \in BOOLEAN /\ capture_armed \in BOOLEAN
  /\ capture \in 0 .. 2 /\ edges \in 0 .. 2
  /\ holding \in BOOLEAN /\ seen \in BOOLEAN
  /\ spaced \in BOOLEAN /\ released \in BOOLEAN
  /\ kept \subseteq Flags /\ parted \in BOOLEAN

\* A shift count stops at the register's width.
LEMMA SaturateIn == ASSUME NEW n \in Nat PROVE Saturate(n) \in 0 .. DataBits
  BY MachineAssumption DEF Saturate

\* The rest of the registers at reset.
LEMMA TypesInit == Init => RestTypes
<1> SUFFICES ASSUME Init PROVE RestTypes
  OBVIOUS
<1>1. DataBits \in 0 .. DataBits /\ 0 \in 0 .. DataBits /\ 0 \in 0 .. Depth
  BY MachineAssumption
<1>2. osr_count \in 0 .. DataBits /\ isr_count \in 0 .. DataBits
      /\ tx \in 0 .. Depth /\ rx \in 0 .. Depth
  BY <1>1 DEF Init
<1>3. irq \in BOOLEAN /\ fault \subseteq FaultKinds
  BY DEF Init
<1>4. capture \in 0 .. 2 /\ edges \in 0 .. 2
  <2>1. capture = 0 /\ edges = 0
    BY DEF Init
  <2> QED BY <2>1
<1>5. /\ data_moved \in BOOLEAN /\ crc_sending \in BOOLEAN /\ flip_pending \in BOOLEAN
      /\ pushed \in BOOLEAN /\ p \in BOOLEAN /\ p_loaded \in BOOLEAN
  BY DEF Init
<1>6. /\ pin \in BOOLEAN /\ capture_armed \in BOOLEAN
      /\ holding \in BOOLEAN /\ seen \in BOOLEAN
      /\ spaced \in BOOLEAN /\ released \in BOOLEAN
  BY DEF Init
<1>7. kept \subseteq Flags /\ parted \in BOOLEAN
  BY DEF Init
<1> QED BY <1>2, <1>3, <1>4, <1>5, <1>6, <1>7 DEF RestTypes

\* A queue's level stays within its depth, whatever is pushed and popped.
LEMMA QueueTypes ==
  ASSUME RestTypes, NEW in, Queues(in)
  PROVE  tx' \in 0 .. Depth /\ rx' \in 0 .. Depth /\ pushed' \in BOOLEAN
<1> DEFINE lands == OpGo /\ Pushes /\ ~RxFull(in)
           Level(n, push, pop) == n + (IF push THEN 1 ELSE 0) - (IF pop THEN 1 ELSE 0)
<1>1. Depth \in Nat \ {0} /\ tx \in 0 .. Depth /\ rx \in 0 .. Depth
  BY MachineAssumption DEF RestTypes
<1>2. ASSUME NEW n \in 0 .. Depth, NEW push, NEW pop,
             push /\ n = Depth => pop, pop => n # 0
      PROVE  Level(n, push, pop) \in 0 .. Depth
  BY <1>1, <1>2
<1>3. Level(tx, in.tx /\ ~TxFull, TxPop) \in 0 .. Depth
  BY <1>1, <1>2 DEF TxFull, TxPop
<1>4. Level(rx, lands /\ ~config.route, Pops(in)) \in 0 .. Depth
  BY <1>1, <1>2 DEF RxFull, Pops
<1>5. /\ tx' = IF Flushes(in) THEN 0 ELSE Level(tx, in.tx /\ ~TxFull, TxPop)
      /\ rx' = IF Flushes(in) THEN 0 ELSE Level(rx, lands /\ ~config.route, Pops(in))
      /\ pushed' = (lands /\ config.route)
  BY DEF Queues
<1> HIDE DEF Level, lands
<1> QED BY <1>1, <1>3, <1>4, <1>5

\* The rest of the registers after a cycle.
LEMMA TypesStep ==
  ASSUME FetchInv, RestTypes, NEW in, Clock(in), Given(in)
  PROVE  RestTypes'
<1>1. word.count \in 1 .. DataBits /\ DataBits \in Nat
  BY MachineAssumption DEF FetchInv, FetchTypes, Word, Counts
<1>2. irq' \in BOOLEAN /\ fault' \subseteq FaultKinds
  BY DEF Clock, Issuing, RestTypes, Faulted
<1>3. osr_count' \in 0 .. DataBits
  <2>1. Saturate((IF PullNow THEN 0 ELSE osr_count) + word.count) \in 0 .. DataBits
    BY <1>1, SaturateIn DEF RestTypes
  <2> QED BY <1>1, <2>1 DEF Clock, Shifting, RestTypes
<1>4. isr_count' \in 0 .. DataBits
  <2>1. Saturate(isr_count + word.count) \in 0 .. DataBits
    BY <1>1, SaturateIn DEF RestTypes
  <2> QED BY <1>1, <2>1 DEF Clock, Shifting, RestTypes
<1>5. data_moved' \in BOOLEAN /\ crc_sending' \in BOOLEAN /\ flip_pending' \in BOOLEAN
  BY DEF Clock, Shifting
<1>6. tx' \in 0 .. Depth /\ rx' \in 0 .. Depth /\ pushed' \in BOOLEAN
  BY QueueTypes DEF Clock
<1>7. p' \in BOOLEAN /\ p_loaded' \in BOOLEAN
  BY DEF Clock, Periods, RestTypes
<1>8. /\ pin' \in BOOLEAN /\ capture_armed' \in BOOLEAN
      /\ holding' \in BOOLEAN /\ seen' \in BOOLEAN
  BY DEF Clock, Capturing, RestTypes, Given
<1>9. capture' \in 0 .. 2 /\ edges' \in 0 .. 2 /\ released' \in BOOLEAN
  BY DEF Clock, Remembering, RestTypes
<1>10. spaced' \in BOOLEAN
  BY DEF Clock
<1>11. kept' \subseteq Flags /\ parted' \in BOOLEAN
  <2>1. Matching(in)
    BY DEF Clock
  <2>2. Differing' \subseteq Flags
    BY DEF Differing
  <2> QED BY <2>1, <2>2 DEF Matching, RestTypes
<1> QED BY <1>2, <1>3, <1>4, <1>5, <1>6, <1>7, <1>8, <1>9, <1>10, <1>11 DEF RestTypes

\* Every register of the core keeps to its values; the queues never pass their
\* depth, nor the shift counts the data register (host_fifo.ml: full; engine.ml:
\* saturate).
THEOREM EngineTypes == Spec => []TypeOK
<1>1. ASSUME FetchInv, RestTypes, [Next]_vars PROVE RestTypes'
  <2>1. CASE Next
    BY <1>1, <2>1, NextIsClock, TypesStep
  <2>2. CASE UNCHANGED vars
    BY <1>1, <2>2 DEF RestTypes, vars, issueVars, shiftVars, queueVars, periodVars,
                      captureVars, historyVars
  <2> QED BY <1>1, <2>1, <2>2
<1>2. FetchInv /\ RestTypes => TypeOK
  BY DEF FetchInv, FetchTypes, RestTypes, TypeOK
<1> QED BY TypesInit, EngineFetch, <1>1, <1>2, PTL DEF Spec

-----------------------------------------------------------------------------
(***************************************************************************)
(* The captured edge.                                                      *)
(***************************************************************************)

\* A held arm waits for its edge with the pin away from the captured level, and
\* once the edge has come the register holds it and the pin stays.
Held ==
  holding => IF seen THEN edges = 1 /\ capture = 1 /\ ~capture_armed /\ pin
             ELSE edges = 0 /\ capture = 0 /\ capture_armed /\ ~pin

CaptureInv ==
  /\ premises.single_edge /\ "assumption" \notin fault => Held
  /\ released => premises.single_edge
  /\ ReleasedOnItsEdge

\* The watch of a captured edge after a cycle.
LEMMA CaptureStep ==
  ASSUME RestTypes, CaptureInv, NEW in, Clock(in), Given(in)
  PROVE  CaptureInv'
<1>1. Capturing(in) /\ Remembering(in) /\ premises' = premises
      /\ fault' = fault \cup Faulted(in)
  BY DEF Clock, Issuing, loadVars
<1>2. in.level \in BOOLEAN /\ pin \in BOOLEAN
  BY DEF Given, RestTypes
<1>3. "assumption" \notin fault' => "assumption" \notin fault /\ ~EdgeOff(in)
  <2>1. EdgeOff(in) => "assumption" \in Faulted(in)
    BY DEF Faulted, FaultKinds
  <2> QED BY <1>1, <2>1
<1>4. released' => premises'.single_edge
  BY <1>1 DEF Remembering, Releases
<1>5. ASSUME premises.single_edge, "assumption" \notin fault'
      PROVE  Held' /\ ReleasedOnItsEdge'
  <2>1. Held /\ ~EdgeOff(in)
    BY <1>3, <1>5 DEF CaptureInv
  <2>2. Releases(in) => in.level
    BY DEF Releases, Advance, Is, WaitReady
  <2>3. Held'
    <3>1. CASE Arms(in)
      BY <1>1, <1>2, <1>5, <2>1, <3>1
         DEF Held, EdgeOff, Capturing, Remembering, Captured, Arms, Advance, OpGo, Go, Issue, IsSys
    <3>2. CASE ~Arms(in)
      <4> SUFFICES ASSUME holding'
                   PROVE  IF seen' THEN edges' = 1 /\ capture' = 1 /\ ~capture_armed' /\ pin'
                          ELSE edges' = 0 /\ capture' = 0 /\ capture_armed' /\ ~pin'
        BY DEF Held
      <4>1. holding /\ ~Releases(in) /\ ~halted
        BY <1>1, <3>2 DEF Capturing
      <4>2. ~(OpGo /\ IsSys("capture_arm"))
        BY <3>2 DEF Arms, Advance, IsSys, Is
      <4>3. CASE seen
        <5>1. edges = 1 /\ capture = 1 /\ ~capture_armed /\ pin
          BY <2>1, <4>1, <4>3 DEF Held
        <5>2. in.level /\ ~Captured(in)
          BY <1>5, <2>1, <4>1, <4>3, <5>1 DEF EdgeOff, Captured
        <5> QED BY <1>1, <3>2, <4>1, <4>2, <4>3, <5>1, <5>2 DEF Capturing, Remembering
      <4>4. CASE ~seen
        <5>1. edges = 0 /\ capture = 0 /\ capture_armed /\ ~pin
          BY <2>1, <4>1, <4>4 DEF Held
        <5>2. Captured(in) <=> in.level
          BY <1>2, <5>1 DEF Captured
        <5> QED BY <1>1, <1>2, <3>2, <4>1, <4>2, <4>4, <5>1, <5>2 DEF Capturing, Remembering
      <4> QED BY <4>3, <4>4
    <3> QED BY <3>1, <3>2
  <2>4. ReleasedOnItsEdge'
    <3> SUFFICES ASSUME released' PROVE edges' = 1 /\ capture' = 1
      BY DEF ReleasedOnItsEdge
    <3>1. Releases(in) /\ holding /\ in.level /\ ~Arms(in)
      BY <1>1, <2>2 DEF Remembering, Releases, Arms, IsSys, Is
    <3>2. CASE seen
      <4>1. edges = 1 /\ capture = 1 /\ ~Captured(in) /\ pin
        BY <2>1, <3>1, <3>2 DEF Held, Captured
      <4> QED BY <1>1, <3>1, <4>1 DEF Remembering
    <3>3. CASE ~seen
      <4>1. edges = 0 /\ Captured(in) /\ ~pin
        BY <1>2, <2>1, <3>1, <3>3 DEF Held, Captured
      <4> QED BY <1>1, <3>1, <4>1 DEF Remembering
    <3> QED BY <3>2, <3>3
  <2> QED BY <2>3, <2>4
<1> QED BY <1>1, <1>4, <1>5 DEF CaptureInv, ReleasedOnItsEdge

\* A wait for the captured edge releases on that edge, the only one since its
\* arm, unless a premise has failed: the watch is enough for what the kernel
\* takes a captured time for (engine.ml: armed_at_level, second_edge).
THEOREM EngineEdges == Spec => []ReleasedOnItsEdge
<1>1. Init => CaptureInv
  BY DEF Init, CaptureInv, Held, ReleasedOnItsEdge
<1>2. ASSUME TypeOK, CaptureInv, [Next]_vars PROVE CaptureInv'
  <2>1. RestTypes
    BY <1>2 DEF TypeOK, RestTypes
  <2>2. CASE Next
    BY <1>2, <2>1, <2>2, NextIsClock, CaptureStep
  <2>3. CASE UNCHANGED vars
    BY <1>2, <2>3 DEF CaptureInv, Held, ReleasedOnItsEdge, vars, loadVars, issueVars,
                      captureVars, historyVars
  <2> QED BY <1>2, <2>2, <2>3
<1>3. CaptureInv => ReleasedOnItsEdge
  BY DEF CaptureInv
<1> QED BY <1>1, <1>2, <1>3, EngineTypes, PTL DEF Spec

-----------------------------------------------------------------------------
(***************************************************************************)
(* Lockstep: the core against the machine, a record of its registers.      *)
(***************************************************************************)

MachineFields ==
  {"program", "config", "premises", "pc", "stall", "halted", "irq", "fault", "osr_count",
   "isr_count", "data_age", "tx", "rx", "routed", "crc_sending", "flip", "p", "p_loaded",
   "level", "capture_armed", "holding", "seen"}

IsMachine(m) == m = [f \in MachineFields |-> m[f]]

\* n is the machine m but for the registers in changed.
Keeps(m, n, changed) ==
  IsMachine(n) /\ \A f \in MachineFields \ changed : n[f] = m[f]

\* The machine beside the core.  It counts the cycles since its data memory was
\* asked, and the core marks the last one; and some of its flags are its own.
Beside(m) ==
  /\ IsMachine(m)
  /\ m.program = program /\ m.config = config /\ m.premises = premises
  /\ m.pc = pc /\ m.stall = stall /\ m.halted = halted /\ m.irq = irq /\ m.fault = fault
  /\ m.osr_count = osr_count /\ m.isr_count = isr_count
  /\ m.data_age \in 0 .. DataSettle /\ (m.data_age = 0 <=> data_moved)
  /\ m.tx = tx /\ m.rx = rx /\ m.routed = pushed
  /\ m.flip = flip_pending /\ m.p = p
  /\ m.level = pin /\ m.capture_armed = capture_armed

\* The machine as a word finds it in the cycle.
Found(in, m) ==
  /\ IsMachine(m)
  /\ m.program = program /\ m.config = config /\ m.premises = premises
  /\ m.pc = pc /\ m.stall = stall /\ m.halted = halted /\ m.fault = fault
  /\ m.irq = (irq /\ in.op # "clear_irq")
  /\ m.osr_count = osr_count /\ m.isr_count = isr_count
  /\ m.data_age \in 1 .. DataSettle /\ (m.data_age < DataSettle <=> data_moved)
  /\ m.tx = (IF Flushes(in) THEN 0 ELSE tx)
  /\ m.rx = (IF Flushes(in) THEN 0 ELSE IF Pops(in) THEN rx - 1 ELSE rx)
  /\ m.routed = FALSE
  /\ m.crc_sending = model.crc_sending /\ m.flip = flip_pending
  /\ m.p = p /\ m.p_loaded = model.p_loaded
  /\ m.level = pin /\ m.capture_armed = capture_armed
  /\ m.holding = model.holding /\ m.seen = model.seen

\* The machine's crc_sending after a word of the system group, and after the word at
\* hand if it goes.
SendsAfter(arg) ==
  IF arg = "crc_init" THEN FALSE ELSE IF arg = "crc_send" THEN TRUE ELSE model.crc_sending

SendsOn(go) == IF go /\ Is("sys") THEN SendsAfter(word.arg) ELSE model.crc_sending

\* The machine as a word leaves it, but for where it goes on.
Executed(in, m) ==
  /\ IsMachine(m)
  /\ m.program = program /\ m.config = config /\ m.premises = premises
  /\ m.halted = ((Issue /\ Is("bad")) \/ (OpGo /\ IsSys("halt")) \/ halted)
  /\ m.fault = fault \cup (Faulted(in) \ {"assumption"})
  /\ m.irq = irq'
  /\ m.osr_count = osr_count' /\ m.isr_count = isr_count'
  /\ m.data_age \in 0 .. DataSettle /\ (m.data_age = 0 <=> Seeks \/ PullsData)
  /\ m.tx = (IF Flushes(in) THEN 0 ELSE tx - (IF TxPop THEN 1 ELSE 0))
  /\ m.rx = rx' /\ m.routed = pushed'
  /\ m.crc_sending = SendsOn(OpGo)
  /\ m.flip = (\/ OpGo /\ Bare("out", "pins") /\ config.manchester /\ word.count = 1
               \/ ~Issue /\ flip_pending)
  /\ m.p = p' /\ m.p_loaded = model.p_loaded
  /\ m.level = pin
  /\ m.capture_armed = ((OpGo /\ IsSys("capture_arm")) \/ capture_armed)
  /\ m.holding = model.holding /\ m.seen = model.seen

Went(in, m) ==
  /\ m.pc = (IF JmpGo THEN JmpTargetOrNext(in) ELSE IF Advance(in) THEN After(pc) ELSE pc)
  /\ m.stall = (IF JmpGo THEN JmpCycles - 1 ELSE IF Advance(in) THEN word.delay
                ELSE IF stall # 0 THEN stall - 1 ELSE stall)

\* A fault changes the machine's faults and nothing else.
LEMMA FaultingFields ==
  ASSUME NEW m, IsMachine(m), NEW kind
  PROVE  /\ Keeps(m, Faulting(m, kind), {"fault"})
         /\ Faulting(m, kind).fault = m.fault \cup {kind}
BY DEF IsMachine, Keeps, Faulting, MachineFields

\* Before its step the machine is as its word finds it.
LEMMA FoundBefore ==
  ASSUME RestTypes, FetchInv, NEW in, Beside(model)
  PROVE  Found(in, [HostBefore(model, in) EXCEPT
                      !.data_age = IF @ < DataSettle THEN @ + 1 ELSE @, !.routed = FALSE])
<1> DEFINE b == HostBefore(model, in)
           d == [b EXCEPT !.data_age = IF @ < DataSettle THEN @ + 1 ELSE @, !.routed = FALSE]
<1>1. IsMachine(model)
  BY DEF Beside
<1>2. /\ Keeps(model, b, {"irq", "tx", "rx"})
      /\ b.irq = (model.irq /\ in.op # "clear_irq")
      /\ b.tx = (IF in.op = "flush" /\ model.halted THEN 0 ELSE model.tx)
      /\ b.rx = (IF in.op = "flush" /\ model.halted THEN 0
                 ELSE IF in.op = "pop" /\ model.rx > 0 THEN model.rx - 1 ELSE model.rx)
  BY <1>1 DEF IsMachine, Keeps, HostBefore, MachineFields
<1> HIDE DEF b
<1>3. /\ Keeps(b, d, {"data_age", "routed"})
      /\ d.data_age = (IF b.data_age < DataSettle THEN b.data_age + 1 ELSE b.data_age)
      /\ d.routed = FALSE
  BY <1>2 DEF IsMachine, Keeps, MachineFields
<1> HIDE DEF d
<1>4. rx \in Nat /\ tx \in Nat /\ (rx > 0 <=> rx # 0)
  BY MachineAssumption DEF RestTypes
<1>5. Keeps(model, d, {"irq", "tx", "rx", "data_age", "routed"})
  BY <1>2, <1>3 DEF Keeps, MachineFields
<1>6. d.irq = b.irq /\ d.tx = b.tx /\ d.rx = b.rx /\ b.data_age = model.data_age
  BY <1>2, <1>3 DEF Keeps, MachineFields
<1>7. d.data_age \in 1 .. DataSettle /\ (d.data_age < DataSettle <=> data_moved)
  BY <1>3, <1>6 DEF Beside, DataSettle
<1>8. /\ d.irq = (irq /\ in.op # "clear_irq")
      /\ d.tx = (IF Flushes(in) THEN 0 ELSE tx)
      /\ d.rx = (IF Flushes(in) THEN 0 ELSE IF Pops(in) THEN rx - 1 ELSE rx)
  BY <1>2, <1>4, <1>6 DEF Beside, Flushes, Pops
<1>9. Found(in, d)
  BY <1>3, <1>5, <1>7, <1>8 DEF Beside, Found, Keeps, MachineFields
<1> QED
  BY <1>9 DEF b, d

\* What the wires of a cycle are that every word shares.
LEMMA IssuedWord ==
  ASSUME FetchInv, Issue, NEW in, NEW m, Found(in, m)
  PROVE  m.program[m.pc] = word /\ PcAfter(m) = After(pc)
<1>1. word = program[pc]
  BY DEF FetchInv, FetchTypes, RunFetched, Issue
<1> QED
  BY <1>1 DEF Found, PcAfter, After

\* What the queues' wires come to.
LEMMA QueueWires ==
  ASSUME RestTypes, NEW in, Clock(in)
  PROVE  /\ rx' = (IF Flushes(in) THEN 0
                   ELSE (IF Pops(in) THEN rx - 1 ELSE rx)
                          + (IF OpGo /\ Pushes /\ ~RxFull(in) /\ ~config.route THEN 1 ELSE 0))
         /\ pushed' = (OpGo /\ Pushes /\ ~RxFull(in) /\ config.route)
<1>1. rx \in Nat
  BY MachineAssumption DEF RestTypes
<1>2. /\ rx' = (IF Flushes(in) THEN 0
                ELSE rx + (IF (OpGo /\ Pushes /\ ~RxFull(in)) /\ ~config.route THEN 1 ELSE 0)
                       - (IF Pops(in) THEN 1 ELSE 0))
      /\ pushed' = ((OpGo /\ Pushes /\ ~RxFull(in)) /\ config.route)
  BY DEF Clock, Queues
<1> QED
  BY <1>1, <1>2

\* The flags are Booleans.
LEMMA FlagTypes ==
  ASSUME FetchInv, RestTypes
  PROVE  /\ halted \in BOOLEAN /\ irq \in BOOLEAN /\ crc_sending \in BOOLEAN
         /\ flip_pending \in BOOLEAN /\ capture_armed \in BOOLEAN /\ p_loaded \in BOOLEAN
         /\ holding \in BOOLEAN /\ seen \in BOOLEAN /\ pin \in BOOLEAN
         /\ data_moved \in BOOLEAN /\ p \in BOOLEAN
BY DEF FetchInv, FetchTypes, RestTypes

\* A cycle in which no word issues.
LEMMA RestsInStep ==
  ASSUME FetchInv, RestTypes, NEW in, Clock(in), NEW m, Found(in, m), ~Issue,
         start => halted
  PROVE  LET s == IF m.stall > 0 THEN [m EXCEPT !.stall = @ - 1] ELSE m
         IN  Executed(in, s) /\ Went(in, s)
<1> DEFINE s == IF m.stall > 0 THEN [m EXCEPT !.stall = @ - 1] ELSE m
<1>1. ~Go /\ ~OpGo /\ ~JmpGo /\ ~Advance(in) /\ ~TxPop /\ ~Seeks /\ ~PullsData
  BY DEF Go, OpGo, JmpGo, Advance, TxPop, Seeks, PullsData
<1>2. Keeps(m, s, {"stall"}) /\ s.stall = (IF m.stall > 0 THEN m.stall - 1 ELSE m.stall)
  BY DEF Found, IsMachine, Keeps, MachineFields
<1> HIDE DEF s
<1>3. stall \in Nat
  BY DEF FetchInv, FetchTypes
<1>4. Went(in, s)
  BY <1>1, <1>2, <1>3 DEF Found, Went, Keeps, MachineFields
<1>5. Faulted(in) \ {"assumption"} = {}
  BY <1>1 DEF Faulted, FaultKinds
<1>6. /\ irq' = (in.op # "clear_irq" /\ irq) /\ osr_count' = osr_count
      /\ isr_count' = isr_count /\ p' = p
  BY <1>1 DEF Clock, Issuing, Shifting, Periods
<1>7. /\ pushed' = FALSE
      /\ rx' = (IF Flushes(in) THEN 0 ELSE IF Pops(in) THEN rx - 1 ELSE rx)
  <2>1. rx \in Int /\ \A n \in Int : n + 0 = n /\ n - 1 \in Int
    BY MachineAssumption DEF RestTypes
  <2>2. /\ rx' = (IF Flushes(in) THEN 0 ELSE (IF Pops(in) THEN rx - 1 ELSE rx) + 0)
        /\ pushed' = FALSE
    BY <1>1, QueueWires
  <2> QED
    BY <2>1, <2>2
<1>8. s.data_age \in 0 .. DataSettle /\ s.data_age # 0
  BY <1>2 DEF Found, Keeps, MachineFields, DataSettle
<1>9. tx \in Nat
  BY MachineAssumption DEF RestTypes
<1>10. /\ s.program = program /\ s.config = config /\ s.premises = premises
       /\ s.halted = halted /\ s.fault = fault /\ s.irq = (irq /\ in.op # "clear_irq")
       /\ s.osr_count = osr_count /\ s.isr_count = isr_count
       /\ s.tx = (IF Flushes(in) THEN 0 ELSE tx)
       /\ s.rx = (IF Flushes(in) THEN 0 ELSE IF Pops(in) THEN rx - 1 ELSE rx)
       /\ s.routed = FALSE /\ s.crc_sending = model.crc_sending /\ s.flip = flip_pending
       /\ s.p = p /\ s.p_loaded = model.p_loaded /\ s.level = pin
       /\ s.capture_armed = capture_armed /\ s.holding = model.holding /\ s.seen = model.seen
  BY <1>2 DEF Found, Keeps, MachineFields
<1>11. /\ s.fault = fault \cup (Faulted(in) \ {"assumption"})
       /\ s.tx = (IF Flushes(in) THEN 0 ELSE tx - (IF TxPop THEN 1 ELSE 0))
  BY <1>1, <1>5, <1>9, <1>10
<1>12. /\ s.halted = ((Issue /\ Is("bad")) \/ (OpGo /\ IsSys("halt")) \/ halted)
       /\ s.irq = irq'
       /\ s.crc_sending = SendsOn(OpGo)
       /\ s.flip = (\/ OpGo /\ Bare("out", "pins") /\ config.manchester /\ word.count = 1
                    \/ ~Issue /\ flip_pending)
       /\ s.capture_armed = ((OpGo /\ IsSys("capture_arm")) \/ capture_armed)
  BY <1>1, <1>6, <1>10, FlagTypes DEF SendsOn
<1>13. Executed(in, s)
  BY <1>1, <1>2, <1>6, <1>7, <1>8, <1>10, <1>11, <1>12 DEF Executed, Keeps
<1> QED
  BY <1>4, <1>13 DEF s

\* The machine as a word that issues finds it, the second half of a bit over.
FoundAt(in, n) ==
  /\ IsMachine(n)
  /\ n.program = program /\ n.config = config /\ n.premises = premises
  /\ n.halted = FALSE /\ n.fault = fault
  /\ n.irq = (irq /\ in.op # "clear_irq")
  /\ n.osr_count = osr_count /\ n.isr_count = isr_count
  /\ n.data_age \in 1 .. DataSettle /\ (n.data_age < DataSettle <=> data_moved)
  /\ n.tx = tx /\ n.rx = (IF Pops(in) THEN rx - 1 ELSE rx)
  /\ n.routed = FALSE /\ n.crc_sending = model.crc_sending /\ n.flip = FALSE
  /\ n.p = p /\ n.p_loaded = model.p_loaded
  /\ n.level = pin /\ n.capture_armed = capture_armed
  /\ n.holding = model.holding /\ n.seen = model.seen
  /\ (IsRxFull(n, in) <=> RxFull(in))

\* Where a word issues, the machine finds the same word at its pc.
LEMMA AtIssue ==
  ASSUME FetchInv, RestTypes, Issue, NEW in, NEW m, Found(in, m)
  PROVE  FoundAt(in, [m EXCEPT !.flip = FALSE])
<1> DEFINE n == [m EXCEPT !.flip = FALSE]
<1>1. Keeps(m, n, {"flip"}) /\ n.flip = FALSE
  BY DEF Found, IsMachine, Keeps, MachineFields
<1> HIDE DEF n
<1>2. ~halted /\ ~Flushes(in)
  BY DEF Issue, Flushes
<1>3. halted = FALSE
  BY <1>2, FlagTypes
<1>4. /\ IsMachine(n)
      /\ n.program = program /\ n.config = config /\ n.premises = premises
      /\ n.halted = FALSE /\ n.fault = fault
      /\ n.irq = (irq /\ in.op # "clear_irq")
      /\ n.osr_count = osr_count /\ n.isr_count = isr_count
      /\ n.data_age = m.data_age
      /\ n.tx = tx /\ n.rx = (IF Pops(in) THEN rx - 1 ELSE rx)
      /\ n.routed = FALSE /\ n.crc_sending = model.crc_sending /\ n.flip = FALSE
      /\ n.p = p /\ n.p_loaded = model.p_loaded
      /\ n.level = pin /\ n.capture_armed = capture_armed
      /\ n.holding = model.holding /\ n.seen = model.seen
  BY <1>1, <1>2, <1>3 DEF Found, Keeps, MachineFields
<1>5. n.data_age \in 1 .. DataSettle /\ (n.data_age < DataSettle <=> data_moved)
  BY <1>4 DEF Found
<1>6. IsRxFull(n, in) <=> RxFull(in)
  <2>1. rx \in 0 .. Depth /\ Depth \in Nat \ {0}
    BY MachineAssumption DEF RestTypes
  <2>2. n.rx >= Depth <=> rx = Depth /\ in.op # "pop"
    BY <1>4, <2>1 DEF Pops
  <2> QED
    BY <1>4, <2>2 DEF IsRxFull, RxFull
<1>7. FoundAt(in, n)
  BY <1>4, <1>5, <1>6 DEF FoundAt
<1> QED
  BY <1>7 DEF n

\* A word that leaves the shift registers, the queues and the flags alone.
LEMMA QuietWires ==
  ASSUME RestTypes, FetchInv, Issue, NEW in, Clock(in), ~Is("jmp"), ~Is("bad")
  PROVE  /\ OpGo /\ Go
         /\ ~Is("sys") => irq' = (irq /\ in.op # "clear_irq")
         /\ ~Is("sys") /\ ~Is("in") => ~Pushes
         /\ ~Pushes => pushed' = FALSE /\ rx' = (IF Pops(in) THEN rx - 1 ELSE rx)
         /\ ~Is("sys") /\ ~Is("out") => ~TxPop /\ ~PullsData
         /\ ~Is("sys") => ~Seeks
         /\ ~Is("sys") /\ ~Is("out") /\ ~Is("mov") => osr_count' = osr_count
         /\ ~Is("sys") /\ ~Is("in") /\ ~Is("out") /\ ~Is("mov") => isr_count' = isr_count
<1>1. OpGo /\ Go
  BY DEF OpGo, Go
<1>2. ~Flushes(in)
  BY DEF Flushes, Issue
<1>3. ~Is("sys") => irq' = (irq /\ in.op # "clear_irq")
  BY FlagTypes DEF Clock, Issuing, IsSys
<1>4. ~Is("sys") /\ ~Is("in") => ~Pushes
  BY DEF Pushes, IsSys
<1>5. ASSUME ~Pushes PROVE pushed' = FALSE /\ rx' = (IF Pops(in) THEN rx - 1 ELSE rx)
  <2>1. rx \in Int /\ \A n \in Int : n + 0 = n /\ n - 1 \in Int
    BY MachineAssumption DEF RestTypes
  <2>2. /\ rx' = (IF Pops(in) THEN rx - 1 ELSE rx) + 0
        /\ pushed' = FALSE
    BY <1>2, <1>5, QueueWires
  <2> QED
    BY <2>1, <2>2
<1>6. ~Is("sys") /\ ~Is("out") => ~TxPop /\ ~PullsData
  BY DEF TxPop, PullsData, Pulls, IsSys
<1>7. ~Is("sys") => ~Seeks
  BY DEF Seeks, IsSys
<1>8. ~Is("sys") /\ ~Is("out") /\ ~Is("mov") => osr_count' = osr_count
  BY DEF Clock, Shifting, Pulls, IsSys, Bare
<1>9. ~Is("sys") /\ ~Is("in") /\ ~Is("out") /\ ~Is("mov") => isr_count' = isr_count
  BY DEF Clock, Shifting, IsSys, Bare
<1> QED
  BY <1>1, <1>3, <1>4, <1>5, <1>6, <1>7, <1>8, <1>9

\* The registers a word may change, put together.
LEMMA Together ==
  ASSUME FetchInv, RestTypes, Issue, NEW in, NEW n, FoundAt(in, n), ~Is("jmp"), ~Is("bad"),
         NEW e,
         Keeps(n, e, {"halted", "fault", "irq", "osr_count", "isr_count", "data_age", "tx",
                      "rx", "routed", "crc_sending", "flip", "p", "capture_armed"}),
         e.halted = IsSys("halt"), e.fault = fault \cup (Faulted(in) \ {"assumption"}),
         e.irq = irq', e.osr_count = osr_count', e.isr_count = isr_count',
         e.data_age \in 0 .. DataSettle, e.data_age = 0 <=> Seeks \/ PullsData,
         e.tx = tx - (IF TxPop THEN 1 ELSE 0), e.rx = rx', e.routed = pushed',
         e.crc_sending = SendsOn(TRUE),
         e.flip = (Bare("out", "pins") /\ config.manchester /\ word.count = 1),
         e.p = p', e.capture_armed = (IsSys("capture_arm") \/ capture_armed)
  PROVE  Executed(in, e)
<1>1. OpGo /\ Go /\ ~Flushes(in) /\ ~halted
  BY DEF OpGo, Go, Flushes, Issue
<1>2. /\ IsMachine(e)
      /\ e.program = program /\ e.config = config /\ e.premises = premises
      /\ e.p_loaded = model.p_loaded /\ e.level = pin
      /\ e.holding = model.holding /\ e.seen = model.seen
  BY DEF FoundAt, Keeps, MachineFields
<1>3. e.halted = ((Issue /\ Is("bad")) \/ (OpGo /\ IsSys("halt")) \/ halted)
  BY <1>1 DEF IsSys
<1>4. e.flip = (\/ OpGo /\ Bare("out", "pins") /\ config.manchester /\ word.count = 1
                \/ ~Issue /\ flip_pending)
  BY <1>1
<1>5. /\ e.crc_sending = SendsOn(OpGo)
      /\ e.capture_armed = ((OpGo /\ IsSys("capture_arm")) \/ capture_armed)
      /\ e.tx = (IF Flushes(in) THEN 0 ELSE tx - (IF TxPop THEN 1 ELSE 0))
  BY <1>1 DEF SendsOn
<1> QED
  BY <1>2, <1>3, <1>4, <1>5 DEF Executed

\* mov, set and alu.
LEMMA MovExecutes ==
  ASSUME FetchInv, RestTypes, Issue, NEW in, Clock(in), NEW n, FoundAt(in, n),
         Is("mov") \/ Is("set") \/ Is("alu")
  PROVE  Executed(in, Execute(n, word, in))
<1> DEFINE e == Execute(n, word, in)
<1>1. ~Is("jmp") /\ ~Is("bad") /\ ~Is("sys") /\ ~Is("in") /\ ~Is("out") /\ ~Is("wait")
  BY DEF Is
<1>2. /\ OpGo /\ Go /\ irq' = (irq /\ in.op # "clear_irq")
      /\ pushed' = FALSE /\ rx' = (IF Pops(in) THEN rx - 1 ELSE rx)
      /\ ~TxPop /\ ~PullsData /\ ~Seeks
  BY <1>1, QuietWires
<1>3. Faulted(in) \ {"assumption"} = {}
  BY <1>1 DEF Faulted, FaultKinds, Pushes, Pulls, IsSys, ReleasesDeadline
<1>4. /\ Keeps(n, e, {"p", "osr_count", "isr_count"})
      /\ e.p = (IF word.arg = "p" THEN in.chance = "yes" ELSE n.p)
      /\ e.osr_count = (IF Is("mov") /\ word.arg = "osr" THEN 0 ELSE n.osr_count)
      /\ e.isr_count = (IF Is("mov") /\ word.arg = "isr" THEN 0 ELSE n.isr_count)
  <2>1. IsMachine(n)
    BY DEF FoundAt
  <2>2. CASE word.op = "mov"
    <3>1. e = MovDest(n, word, in)
      BY <2>2 DEF Execute
    <3> HIDE DEF e
    <3>2. CASE word.arg = "isr"
      BY <2>1, <2>2, <3>1, <3>2 DEF MovDest, Is, IsMachine, Keeps, MachineFields
    <3>3. CASE word.arg = "osr"
      BY <2>1, <2>2, <3>1, <3>3 DEF MovDest, Is, IsMachine, Keeps, MachineFields
    <3>4. CASE word.arg = "p"
      BY <2>1, <2>2, <3>1, <3>4 DEF MovDest, WritesP, Is, IsMachine, Keeps, MachineFields
    <3>5. CASE word.arg \notin {"isr", "osr", "p"}
      BY <2>1, <2>2, <3>1, <3>5 DEF MovDest, Is, IsMachine, Keeps, MachineFields
    <3> QED
      BY <3>2, <3>3, <3>4, <3>5
  <2>3. CASE word.op \in {"set", "alu"}
    <3>1. e = IF word.arg = "p" THEN WritesP(n, in) ELSE n
      BY <2>3 DEF Execute
    <3> HIDE DEF e
    <3> QED
      BY <2>1, <2>3, <3>1 DEF WritesP, Is, IsMachine, Keeps, MachineFields
  <2> QED
    BY <2>2, <2>3 DEF Is
<1> HIDE DEF e
<1>5. /\ osr_count' = (IF Is("mov") /\ word.arg = "osr" THEN 0 ELSE osr_count)
      /\ isr_count' = (IF Is("mov") /\ word.arg = "isr" THEN 0 ELSE isr_count)
  BY <1>1, <1>2 DEF Clock, Shifting, Bare, Pulls, IsSys
<1>6. p' = (IF word.arg = "p" THEN in.chance = "yes" ELSE p)
  BY <1>1, <1>2 DEF Clock, Periods, Bare, Is
<1>7. Keeps(n, e, {"halted", "fault", "irq", "osr_count", "isr_count", "data_age", "tx",
                   "rx", "routed", "crc_sending", "flip", "p", "capture_armed"})
  BY <1>4 DEF Keeps
<1>8. /\ e.halted = FALSE /\ e.fault = fault /\ e.irq = (irq /\ in.op # "clear_irq")
      /\ e.data_age \in 1 .. DataSettle
      /\ e.tx = tx /\ e.rx = (IF Pops(in) THEN rx - 1 ELSE rx) /\ e.routed = FALSE
      /\ e.crc_sending = model.crc_sending /\ e.flip = FALSE /\ e.capture_armed = capture_armed
      /\ n.p = p /\ n.osr_count = osr_count /\ n.isr_count = isr_count
  BY <1>4 DEF FoundAt, Keeps, MachineFields
<1>9. /\ ~IsSys("halt") /\ ~IsSys("crc_init") /\ ~IsSys("crc_send") /\ ~IsSys("capture_arm")
      /\ ~Bare("out", "pins") /\ tx - 0 = tx
      /\ e.data_age \in 0 .. DataSettle /\ e.data_age # 0
  BY <1>1, <1>8, MachineAssumption DEF IsSys, Bare, DataSettle, RestTypes
<1>10. /\ e.halted = IsSys("halt")
       /\ e.crc_sending = SendsOn(TRUE)
       /\ e.flip = (Bare("out", "pins") /\ config.manchester /\ word.count = 1)
       /\ e.capture_armed = (IsSys("capture_arm") \/ capture_armed)
  BY <1>1, <1>8, FlagTypes DEF SendsOn, IsSys, Bare, Is
<1>11. /\ e.fault = fault \cup (Faulted(in) \ {"assumption"})
       /\ e.irq = irq' /\ e.rx = rx' /\ e.routed = pushed'
       /\ e.tx = tx - (IF TxPop THEN 1 ELSE 0)
       /\ (e.data_age = 0 <=> Seeks \/ PullsData)
       /\ e.p = p' /\ e.osr_count = osr_count' /\ e.isr_count = isr_count'
  BY <1>2, <1>3, <1>4, <1>5, <1>6, <1>8, <1>9
<1>12. Executed(in, e)
  BY <1>1, <1>7, <1>9, <1>10, <1>11, Together
<1> QED
  BY <1>12 DEF e

\* What a push and a pull do to the machine.
LEMMA PushedFields ==
  ASSUME NEW m, IsMachine(m), NEW in
  PROVE  LET n == Pushed(m, in)
             full == IsRxFull(m, in)
         IN  /\ Keeps(m, n, {"fault", "routed", "rx", "isr_count"})
             /\ n.isr_count = 0
             /\ n.fault = (IF full THEN m.fault \cup {"overflow"} ELSE m.fault)
             /\ n.routed = (IF ~full /\ m.config.route THEN TRUE ELSE m.routed)
             /\ n.rx = (IF ~full /\ ~m.config.route THEN m.rx + 1 ELSE m.rx)
<1> DEFINE full == IsRxFull(m, in)
           n == Pushed(m, in)
           a == IF full THEN Faulting(m, "overflow")
                ELSE IF m.config.route THEN [m EXCEPT !.routed = TRUE]
                ELSE [m EXCEPT !.rx = @ + 1]
<1>1. n = [a EXCEPT !.isr_count = 0]
  BY DEF Pushed
<1> HIDE DEF full, n
<1>2. /\ Keeps(m, a, {"fault", "routed", "rx"})
      /\ a.fault = (IF full THEN m.fault \cup {"overflow"} ELSE m.fault)
      /\ a.routed = (IF ~full /\ m.config.route THEN TRUE ELSE m.routed)
      /\ a.rx = (IF ~full /\ ~m.config.route THEN m.rx + 1 ELSE m.rx)
  <2>1. CASE full
    BY <2>1 DEF Faulting, IsMachine, Keeps, MachineFields
  <2>2. CASE ~full /\ m.config.route
    BY <2>2 DEF IsMachine, Keeps, MachineFields
  <2>3. CASE ~full /\ ~m.config.route
    BY <2>3 DEF IsMachine, Keeps, MachineFields
  <2> QED
    BY <2>1, <2>2, <2>3
<1> HIDE DEF a
<1>3. Keeps(a, n, {"isr_count"}) /\ n.isr_count = 0
  BY <1>1, <1>2 DEF IsMachine, Keeps, MachineFields
<1> QED
  BY <1>2, <1>3 DEF full, n, Keeps, MachineFields

\* An automatic pull changes what a pull does in the core.
LEMMA PulledFields ==
  ASSUME NEW m, IsMachine(m)
  PROVE  LET n == Pulled(m)
         IN  /\ Keeps(m, n, {"fault", "osr_count", "tx"})
             /\ n.osr_count = 0
             /\ n.fault = (IF m.tx = 0 THEN m.fault \cup {"underflow"} ELSE m.fault)
             /\ n.tx = (IF m.tx = 0 THEN m.tx ELSE m.tx - 1)
<1>1. CASE m.tx = 0
  BY <1>1 DEF Pulled, Faulting, IsMachine, Keeps, MachineFields
<1>2. CASE m.tx # 0
  BY <1>2 DEF Pulled, IsMachine, Keeps, MachineFields
<1> QED
  BY <1>1, <1>2

\* in, with its autopush.
LEMMA InExecutes ==
  ASSUME FetchInv, RestTypes, Issue, NEW in, Clock(in), NEW n, FoundAt(in, n), Is("in")
  PROVE  Executed(in, Execute(n, word, in))
<1> DEFINE e == Execute(n, word, in)
           i == [n EXCEPT !.isr_count = Saturate(@ + word.count)]
<1>1. ~Is("jmp") /\ ~Is("bad") /\ ~Is("sys") /\ ~Is("mov") /\ ~Is("out") /\ ~Is("wait")
  BY DEF Is
<1>2. /\ OpGo /\ Go /\ irq' = (irq /\ in.op # "clear_irq")
      /\ ~TxPop /\ ~PullsData /\ ~Seeks /\ osr_count' = osr_count
      /\ (Pushes <=> AutopushNow)
  BY <1>1, QuietWires DEF Pushes, IsSys
<1>3. /\ Keeps(n, i, {"isr_count"})
      /\ i.isr_count = Saturate(isr_count + word.count)
  BY DEF FoundAt, IsMachine, Keeps, MachineFields
<1>4. e = (IF AutopushNow THEN Pushed(i, in) ELSE i)
  <2>1. e = AutopushAfterIn(i, in)
    BY DEF Execute, Is
  <2>2. i.config = config
    BY <1>3 DEF FoundAt, Keeps, MachineFields
  <2> HIDE DEF i, e
  <2> QED
    BY <1>3, <2>1, <2>2 DEF AutopushAfterIn, AutopushNow
<1>5. (IsRxFull(i, in) <=> RxFull(in)) /\ i.config = config
  BY <1>3 DEF FoundAt, IsRxFull, Keeps, MachineFields
<1> HIDE DEF i, e
<1>6. /\ Keeps(i, e, {"fault", "routed", "rx", "isr_count"})
      /\ e.isr_count = (IF AutopushNow THEN 0 ELSE i.isr_count)
      /\ e.fault = (IF AutopushNow /\ RxFull(in) THEN i.fault \cup {"overflow"} ELSE i.fault)
      /\ e.routed = (IF AutopushNow /\ ~RxFull(in) /\ config.route THEN TRUE ELSE i.routed)
      /\ e.rx = (IF AutopushNow /\ ~RxFull(in) /\ ~config.route THEN i.rx + 1 ELSE i.rx)
  <2>1. IsMachine(i)
    BY <1>3 DEF Keeps
  <2>2. CASE AutopushNow
    BY <1>4, <1>5, <2>1, <2>2, PushedFields
  <2>3. CASE ~AutopushNow
    BY <1>4, <2>1, <2>3 DEF Keeps
  <2> QED
    BY <2>2, <2>3
<1>7. Faulted(in) \ {"assumption"} = IF AutopushNow /\ RxFull(in) THEN {"overflow"} ELSE {}
  BY <1>1, <1>2 DEF Faulted, FaultKinds, Pulls, IsSys, ReleasesDeadline
<1>8. isr_count' = (IF AutopushNow THEN 0 ELSE Saturate(isr_count + word.count))
  BY <1>2 DEF Clock, Shifting
<1>9. p' = p
  BY <1>1 DEF Clock, Periods, Bare, Is
<1>10. /\ rx' = (IF Pops(in) THEN rx - 1 ELSE rx)
                  + (IF AutopushNow /\ ~RxFull(in) /\ ~config.route THEN 1 ELSE 0)
       /\ pushed' = (AutopushNow /\ ~RxFull(in) /\ config.route)
  BY <1>2, QueueWires DEF Flushes, Issue
<1>11. Keeps(n, e, {"halted", "fault", "irq", "osr_count", "isr_count", "data_age", "tx",
                    "rx", "routed", "crc_sending", "flip", "p", "capture_armed"})
  BY <1>3, <1>6 DEF Keeps, MachineFields
<1>12. /\ e.halted = FALSE /\ e.irq = (irq /\ in.op # "clear_irq")
       /\ e.data_age \in 1 .. DataSettle /\ e.osr_count = osr_count /\ e.p = p
       /\ e.tx = tx /\ i.rx = (IF Pops(in) THEN rx - 1 ELSE rx) /\ i.routed = FALSE
       /\ e.crc_sending = model.crc_sending /\ e.flip = FALSE /\ e.capture_armed = capture_armed
       /\ i.fault = fault
  BY <1>3, <1>6 DEF FoundAt, Keeps, MachineFields
<1>13. /\ e.halted = IsSys("halt")
       /\ e.crc_sending = SendsOn(TRUE)
       /\ e.flip = (Bare("out", "pins") /\ config.manchester /\ word.count = 1)
       /\ e.capture_armed = (IsSys("capture_arm") \/ capture_armed)
  BY <1>1, <1>12, FlagTypes DEF SendsOn, IsSys, Bare, Is
<1>14. /\ tx - 0 = tx /\ e.data_age \in 0 .. DataSettle /\ e.data_age # 0
       /\ (IF Pops(in) THEN rx - 1 ELSE rx) + 0 = (IF Pops(in) THEN rx - 1 ELSE rx)
  BY <1>12, MachineAssumption DEF DataSettle, RestTypes
<1>15. /\ e.rx = rx' /\ e.routed = pushed'
       /\ e.fault = fault \cup (Faulted(in) \ {"assumption"})
  BY <1>6, <1>7, <1>10, <1>12, <1>14
<1>16. Executed(in, e)
  BY <1>1, <1>2, <1>3, <1>6, <1>8, <1>9, <1>11, <1>12, <1>13, <1>14, <1>15, Together
<1> QED
  BY <1>16 DEF e

\* The pull an out may begin with.
LEMMA AutopullFields ==
  ASSUME NEW in, NEW n, FoundAt(in, n)
  PROVE  LET m == AutopullBeforeOut(n)
         IN  /\ Keeps(n, m, {"fault", "osr_count", "tx", "data_age"})
             /\ m.osr_count = (IF PullNow THEN 0 ELSE osr_count)
             /\ m.fault = (IF (PullFifo /\ tx = 0) \/ (PullData /\ data_moved)
                           THEN fault \cup {"underflow"} ELSE fault)
             /\ m.tx = (IF PullFifo /\ tx # 0 THEN tx - 1 ELSE tx)
             /\ m.data_age = (IF PullData /\ ~data_moved THEN 0 ELSE n.data_age)
<1> DEFINE m == AutopullBeforeOut(n)
<1>1. /\ IsMachine(n) /\ n.config = config /\ n.osr_count = osr_count /\ n.tx = tx
      /\ n.fault = fault /\ (n.data_age < DataSettle <=> data_moved)
  BY DEF FoundAt
<1>2. CASE ~PullNow
  <2>1. m = n
    BY <1>1, <1>2 DEF AutopullBeforeOut, PullNow
  <2> QED
    BY <1>1, <1>2, <2>1 DEF Keeps, PullFifo, PullData
<1>3. CASE PullFifo
  <2>1. m = Pulled(n)
    BY <1>1, <1>3 DEF AutopullBeforeOut, PullNow, PullFifo
  <2>2. PullNow /\ ~PullData
    BY <1>3 DEF PullFifo, PullData
  <2>3. /\ Keeps(n, m, {"fault", "osr_count", "tx"}) /\ m.osr_count = 0
        /\ m.fault = (IF n.tx = 0 THEN n.fault \cup {"underflow"} ELSE n.fault)
        /\ m.tx = (IF n.tx = 0 THEN n.tx ELSE n.tx - 1)
    BY <1>1, <2>1, PulledFields
  <2> HIDE DEF m
  <2>4. m.data_age = n.data_age
    BY <2>3 DEF Keeps, MachineFields
  <2>5. Keeps(n, m, {"fault", "osr_count", "tx", "data_age"})
    BY <2>3 DEF Keeps
  <2>6. /\ m.osr_count = (IF PullNow THEN 0 ELSE osr_count)
        /\ m.fault = (IF (PullFifo /\ tx = 0) \/ (PullData /\ data_moved)
                      THEN fault \cup {"underflow"} ELSE fault)
        /\ m.tx = (IF PullFifo /\ tx # 0 THEN tx - 1 ELSE tx)
        /\ m.data_age = (IF PullData /\ ~data_moved THEN 0 ELSE n.data_age)
    BY <1>1, <1>3, <2>2, <2>3, <2>4
  <2> QED
    BY <2>5, <2>6 DEF m
<1>4. CASE PullData /\ data_moved
  <2>1. m = Faulting([n EXCEPT !.osr_count = 0], "underflow")
    BY <1>1, <1>4 DEF AutopullBeforeOut, PullNow, PullData
  <2>2. PullNow /\ ~PullFifo
    BY <1>4 DEF PullFifo, PullData
  <2> HIDE DEF m
  <2>3. /\ Keeps(n, m, {"fault", "osr_count"}) /\ m.osr_count = 0
        /\ m.fault = n.fault \cup {"underflow"}
    BY <1>1, <2>1 DEF Faulting, IsMachine, Keeps, MachineFields
  <2>4. m.data_age = n.data_age /\ m.tx = n.tx
    BY <2>3 DEF Keeps, MachineFields
  <2>5. Keeps(n, m, {"fault", "osr_count", "tx", "data_age"})
    BY <2>3 DEF Keeps
  <2> QED
    BY <1>1, <1>4, <2>2, <2>3, <2>4, <2>5 DEF m
<1>5. CASE PullData /\ ~data_moved
  <2>1. m = [n EXCEPT !.osr_count = 0, !.data_age = 0]
    BY <1>1, <1>5 DEF AutopullBeforeOut, PullNow, PullData
  <2>2. PullNow /\ ~PullFifo
    BY <1>5 DEF PullFifo, PullData
  <2> HIDE DEF m
  <2>3. /\ Keeps(n, m, {"osr_count", "data_age"}) /\ m.osr_count = 0 /\ m.data_age = 0
    BY <1>1, <2>1 DEF IsMachine, Keeps, MachineFields
  <2>4. m.fault = n.fault /\ m.tx = n.tx
    BY <2>3 DEF Keeps, MachineFields
  <2>5. Keeps(n, m, {"fault", "osr_count", "tx", "data_age"})
    BY <2>3 DEF Keeps
  <2> QED
    BY <1>1, <1>5, <2>2, <2>3, <2>4, <2>5 DEF m
<1> QED
  BY <1>2, <1>3, <1>4, <1>5 DEF PullFifo, PullData

\* out, with its autopull.
LEMMA OutExecutes ==
  ASSUME FetchInv, RestTypes, Issue, NEW in, Clock(in), NEW n, FoundAt(in, n), Is("out")
  PROVE  Executed(in, Execute(n, word, in))
<1> DEFINE e == Execute(n, word, in)
           m == AutopullBeforeOut(n)
           o == [m EXCEPT !.osr_count = Saturate(@ + word.count)]
<1>1. ~Is("jmp") /\ ~Is("bad") /\ ~Is("sys") /\ ~Is("mov") /\ ~Is("in") /\ ~Is("wait")
  BY DEF Is
<1>2. /\ OpGo /\ Go /\ irq' = (irq /\ in.op # "clear_irq") /\ ~Seeks
      /\ pushed' = FALSE /\ rx' = (IF Pops(in) THEN rx - 1 ELSE rx)
  BY <1>1, QuietWires
<1>3. /\ Keeps(n, m, {"fault", "osr_count", "tx", "data_age"})
      /\ m.osr_count = (IF PullNow THEN 0 ELSE osr_count)
      /\ m.fault = (IF (PullFifo /\ tx = 0) \/ (PullData /\ data_moved)
                    THEN fault \cup {"underflow"} ELSE fault)
      /\ m.tx = (IF PullFifo /\ tx # 0 THEN tx - 1 ELSE tx)
      /\ m.data_age = (IF PullData /\ ~data_moved THEN 0 ELSE n.data_age)
  BY AutopullFields
<1>4. e = OutDest(o, word, in)
  BY DEF Execute, Is
<1> HIDE DEF m
<1>5. Keeps(m, o, {"osr_count"}) /\ o.osr_count = Saturate(m.osr_count + word.count)
  BY <1>3 DEF IsMachine, Keeps, MachineFields
<1> HIDE DEF o, e
<1>6. Keeps(n, o, {"fault", "osr_count", "tx", "data_age"})
  BY <1>3, <1>5 DEF Keeps, MachineFields
<1>7. /\ IsMachine(o) /\ o.config = config /\ o.p = p /\ o.flip = FALSE
      /\ o.isr_count = isr_count /\ o.fault = m.fault /\ o.tx = m.tx
      /\ o.data_age = m.data_age
  BY <1>5, <1>6 DEF FoundAt, Keeps, MachineFields
<1>8. /\ Keeps(o, e, {"flip", "isr_count", "p"})
      /\ e.flip = (Bare("out", "pins") /\ config.manchester /\ word.count = 1)
      /\ e.isr_count = (IF word.arg = "isr" THEN word.count ELSE isr_count)
      /\ e.p = (IF word.arg = "p" THEN in.chance = "yes" ELSE p)
  <2>1. CASE word.arg = "pins" /\ config.manchester /\ word.count = 1
    <3>1. e = [o EXCEPT !.flip = TRUE]
      BY <1>4, <1>7, <2>1 DEF OutDest
    <3> QED
      BY <1>7, <2>1, <3>1 DEF IsMachine, Keeps, MachineFields, Bare, Is
  <2>2. CASE word.arg = "isr"
    <3>1. e = [o EXCEPT !.isr_count = word.count]
      BY <1>4, <1>7, <2>2 DEF OutDest
    <3> QED
      BY <1>7, <2>2, <3>1 DEF IsMachine, Keeps, MachineFields, Bare, Is
  <2>3. CASE word.arg = "p"
    <3>1. e = [o EXCEPT !.p = (in.chance = "yes")]
      BY <1>4, <1>7, <2>3 DEF OutDest, WritesP
    <3> QED
      BY <1>7, <2>3, <3>1 DEF IsMachine, Keeps, MachineFields, Bare, Is
  <2>4. CASE /\ ~(word.arg = "pins" /\ config.manchester /\ word.count = 1)
             /\ word.arg # "isr" /\ word.arg # "p"
    <3>1. e = o
      BY <1>4, <1>7, <2>4 DEF OutDest
    <3>2. ~(Bare("out", "pins") /\ config.manchester /\ word.count = 1)
      BY <2>4 DEF Bare
    <3>3. e.flip = (Bare("out", "pins") /\ config.manchester /\ word.count = 1)
      BY <1>7, <3>1, <3>2 DEF Bare
    <3> QED
      BY <1>7, <2>4, <3>1, <3>3 DEF Keeps
  <2> QED
    BY <2>1, <2>2, <2>3, <2>4
<1>9. Faulted(in) \ {"assumption"}
        = IF (PullFifo /\ tx = 0) \/ (PullData /\ data_moved) THEN {"underflow"} ELSE {}
  BY <1>1, <1>2 DEF Faulted, FaultKinds, Pulls, Pushes, IsSys, ReleasesDeadline
<1>10. /\ osr_count' = Saturate((IF PullNow THEN 0 ELSE osr_count) + word.count)
       /\ isr_count' = (IF word.arg = "isr" THEN word.count ELSE isr_count)
  BY <1>1, <1>2 DEF Clock, Shifting, Bare, IsSys
<1>11. p' = (IF word.arg = "p" THEN in.chance = "yes" ELSE p)
  BY <1>1, <1>2 DEF Clock, Periods, Bare, Is
<1>12. /\ (TxPop <=> PullFifo /\ tx # 0) /\ (PullsData <=> PullData /\ ~data_moved)
  BY <1>1, <1>2 DEF TxPop, PullsData, Pulls, IsSys
<1>13. Keeps(n, e, {"halted", "fault", "irq", "osr_count", "isr_count", "data_age", "tx",
                    "rx", "routed", "crc_sending", "flip", "p", "capture_armed"})
  BY <1>6, <1>8 DEF Keeps, MachineFields
<1>14. /\ e.halted = FALSE /\ e.irq = (irq /\ in.op # "clear_irq")
       /\ e.rx = (IF Pops(in) THEN rx - 1 ELSE rx) /\ e.routed = FALSE
       /\ e.crc_sending = model.crc_sending /\ e.capture_armed = capture_armed
  BY <1>6, <1>8 DEF FoundAt, Keeps, MachineFields
<1>15. /\ e.fault = m.fault /\ e.tx = m.tx /\ e.data_age = m.data_age
       /\ e.osr_count = Saturate(m.osr_count + word.count)
  BY <1>5, <1>7, <1>8 DEF Keeps, MachineFields
<1>16. /\ e.halted = IsSys("halt")
       /\ e.crc_sending = SendsOn(TRUE)
       /\ e.capture_armed = (IsSys("capture_arm") \/ capture_armed)
  BY <1>1, <1>14, FlagTypes DEF SendsOn, IsSys, Is
<1>17. /\ e.data_age \in 0 .. DataSettle /\ (e.data_age = 0 <=> Seeks \/ PullsData)
  <2>1. n.data_age \in 1 .. DataSettle
    BY DEF FoundAt
  <2>2. \A a \in 1 .. DataSettle : a \in 0 .. DataSettle /\ a # 0
    BY DEF DataSettle
  <2>3. 0 \in 0 .. DataSettle
    BY DEF DataSettle
  <2> QED
    BY <1>2, <1>3, <1>12, <1>15, <2>1, <2>2, <2>3
<1>18. e.tx = tx - (IF TxPop THEN 1 ELSE 0)
  <2>1. tx - 0 = tx
    BY MachineAssumption DEF RestTypes
  <2> QED
    BY <1>3, <1>12, <1>15, <2>1
<1>19. /\ e.fault = fault \cup (Faulted(in) \ {"assumption"})
       /\ e.osr_count = osr_count' /\ e.isr_count = isr_count' /\ e.p = p'
       /\ e.irq = irq' /\ e.rx = rx' /\ e.routed = pushed'
  BY <1>2, <1>3, <1>8, <1>9, <1>10, <1>11, <1>14, <1>15
<1>20. Executed(in, e)
  BY <1>1, <1>8, <1>13, <1>16, <1>17, <1>18, <1>19, Together
<1> QED
  BY <1>20 DEF e

\* A sys word.
LEMMA SysFields ==
  ASSUME FetchInv, RestTypes, NEW in, NEW n, FoundAt(in, n), NEW w, w.op = "sys"
  PROVE  LET e == Execute(n, w, in)
             arg == w.arg
         IN  /\ Keeps(n, e, {"halted", "irq", "isr_count", "osr_count", "fault", "tx", "rx",
                             "routed", "crc_sending", "capture_armed", "data_age"})
             /\ e.halted = (arg = "halt")
             /\ e.irq = (arg = "irq" \/ (in.op # "clear_irq" /\ irq))
             /\ e.isr_count = (IF arg = "push" THEN 0 ELSE isr_count)
             /\ e.osr_count = (IF arg = "pull" THEN 0 ELSE osr_count)
             /\ e.fault = (IF arg = "pull" /\ tx = 0 THEN fault \cup {"underflow"}
                           ELSE IF arg = "push" /\ RxFull(in) THEN fault \cup {"overflow"}
                           ELSE fault)
             /\ e.tx = (IF arg = "pull" /\ tx # 0 THEN tx - 1 ELSE tx)
             /\ e.rx = (IF arg = "push" /\ ~RxFull(in) /\ ~config.route THEN n.rx + 1
                        ELSE n.rx)
             /\ e.routed = (arg = "push" /\ ~RxFull(in) /\ config.route)
             /\ e.crc_sending = SendsAfter(arg)
             /\ e.capture_armed = (arg = "capture_arm" \/ capture_armed)
             /\ e.data_age = (IF arg = "seek" THEN 0 ELSE n.data_age)
<1> DEFINE e == Execute(n, w, in)
           arg == w.arg
<1>1. e = Sys(n, w, in)
  BY DEF Execute
<1>2. /\ IsMachine(n) /\ n.config = config /\ n.halted = FALSE
      /\ n.irq = (irq /\ in.op # "clear_irq") /\ n.osr_count = osr_count
      /\ n.isr_count = isr_count /\ n.fault = fault /\ n.tx = tx /\ n.routed = FALSE
      /\ n.crc_sending = model.crc_sending /\ n.capture_armed = capture_armed
      /\ (IsRxFull(n, in) <=> RxFull(in))
  BY DEF FoundAt
<1>3. irq \in BOOLEAN /\ capture_armed \in BOOLEAN
  BY FlagTypes
<1> HIDE DEF e
<1>4. CASE arg = "halt"
  <2>1. e = [n EXCEPT !.halted = TRUE]
    BY <1>1, <1>4 DEF Sys
  <2> QED
    BY <1>2, <1>3, <1>4, <2>1 DEF e, IsMachine, Keeps, MachineFields, SendsAfter
<1>5. CASE arg = "irq"
  <2>1. e = [n EXCEPT !.irq = TRUE]
    BY <1>1, <1>5 DEF Sys
  <2> QED
    BY <1>2, <1>3, <1>5, <2>1 DEF e, IsMachine, Keeps, MachineFields, SendsAfter
<1>6. CASE arg = "crc_init"
  <2>1. e = [n EXCEPT !.crc_sending = FALSE]
    BY <1>1, <1>6 DEF Sys
  <2> QED
    BY <1>2, <1>3, <1>6, <2>1 DEF e, IsMachine, Keeps, MachineFields, SendsAfter
<1>7. CASE arg = "crc_send"
  <2>1. e = [n EXCEPT !.crc_sending = TRUE]
    BY <1>1, <1>7 DEF Sys
  <2> QED
    BY <1>2, <1>3, <1>7, <2>1 DEF e, IsMachine, Keeps, MachineFields, SendsAfter
<1>8. CASE arg = "capture_arm"
  <2>1. e = [n EXCEPT !.capture_armed = TRUE]
    BY <1>1, <1>8 DEF Sys
  <2> QED
    BY <1>2, <1>3, <1>8, <2>1 DEF e, IsMachine, Keeps, MachineFields, SendsAfter
<1>9. CASE arg = "seek"
  <2>1. e = [n EXCEPT !.data_age = 0]
    BY <1>1, <1>9 DEF Sys
  <2> QED
    BY <1>2, <1>3, <1>9, <2>1 DEF e, IsMachine, Keeps, MachineFields, SendsAfter
<1>10. CASE arg = "push"
  <2>1. e = Pushed(n, in)
    BY <1>1, <1>10 DEF Sys
  <2>2. /\ Keeps(n, e, {"fault", "routed", "rx", "isr_count"}) /\ e.isr_count = 0
        /\ e.fault = (IF RxFull(in) THEN fault \cup {"overflow"} ELSE fault)
        /\ e.routed = (IF ~RxFull(in) /\ config.route THEN TRUE ELSE n.routed)
        /\ e.rx = (IF ~RxFull(in) /\ ~config.route THEN n.rx + 1 ELSE n.rx)
    BY <1>2, <2>1, PushedFields
  <2>3. /\ e.halted = n.halted /\ e.irq = n.irq /\ e.osr_count = n.osr_count /\ e.tx = n.tx
        /\ e.crc_sending = n.crc_sending /\ e.capture_armed = n.capture_armed
        /\ e.data_age = n.data_age
        /\ Keeps(n, e, {"halted", "irq", "isr_count", "osr_count", "fault", "tx", "rx",
                        "routed", "crc_sending", "capture_armed", "data_age"})
    BY <2>2 DEF Keeps, MachineFields
  <2>4. e.routed = (arg = "push" /\ ~RxFull(in) /\ config.route)
    BY <1>2, <1>10, <2>2
  <2> QED
    BY <1>2, <1>3, <1>10, <2>2, <2>3, <2>4 DEF e, SendsAfter
<1>11. CASE arg = "pull"
  <2>1. e = Pulled(n)
    BY <1>1, <1>11 DEF Sys
  <2>2. /\ Keeps(n, e, {"fault", "osr_count", "tx"}) /\ e.osr_count = 0
        /\ e.fault = (IF tx = 0 THEN fault \cup {"underflow"} ELSE fault)
        /\ e.tx = (IF tx = 0 THEN tx ELSE tx - 1)
    BY <1>2, <2>1, PulledFields
  <2>3. /\ e.halted = n.halted /\ e.irq = n.irq /\ e.isr_count = n.isr_count /\ e.rx = n.rx
        /\ e.crc_sending = n.crc_sending /\ e.capture_armed = n.capture_armed
        /\ e.data_age = n.data_age /\ e.routed = n.routed
        /\ Keeps(n, e, {"halted", "irq", "isr_count", "osr_count", "fault", "tx", "rx",
                        "routed", "crc_sending", "capture_armed", "data_age"})
    BY <2>2 DEF Keeps, MachineFields
  <2> QED
    BY <1>2, <1>3, <1>11, <2>2, <2>3 DEF e, SendsAfter
<1>12. CASE arg \notin {"halt", "irq", "push", "pull", "crc_init", "crc_send", "capture_arm",
                         "seek"}
  <2>1. e = n
    BY <1>1, <1>12 DEF Sys
  <2> QED
    BY <1>2, <1>3, <1>12, <2>1 DEF e, Keeps, SendsAfter
<1> QED
  BY <1>4, <1>5, <1>6, <1>7, <1>8, <1>9, <1>10, <1>11, <1>12

\* The words of the system group, each on the core and on the machine.
LEMMA SysExecutes ==
  ASSUME FetchInv, RestTypes, Issue, NEW in, Clock(in), NEW n, FoundAt(in, n), Is("sys")
  PROVE  Executed(in, Execute(n, word, in))
<1> DEFINE e == Execute(n, word, in)
           arg == word.arg
<1>1. ~Is("jmp") /\ ~Is("bad") /\ ~Is("in") /\ ~Is("mov") /\ ~Is("out") /\ ~Is("wait")
  BY DEF Is
<1>2. \A a : IsSys(a) <=> arg = a
  BY DEF IsSys
<1>3. OpGo /\ Go /\ ~Flushes(in)
  BY <1>1 DEF OpGo, Go, Flushes, Issue
<1>4. /\ (Pushes <=> arg = "push") /\ (Pulls <=> arg = "pull")
      /\ (TxPop <=> arg = "pull" /\ tx # 0) /\ ~PullsData /\ (Seeks <=> arg = "seek")
  BY <1>1, <1>2, <1>3 DEF Pushes, Pulls, TxPop, PullsData, Seeks
<1>5. /\ Keeps(n, e, {"halted", "irq", "isr_count", "osr_count", "fault", "tx", "rx",
                      "routed", "crc_sending", "capture_armed", "data_age"})
      /\ e.halted = (arg = "halt")
      /\ e.irq = (arg = "irq" \/ (in.op # "clear_irq" /\ irq))
      /\ e.isr_count = (IF arg = "push" THEN 0 ELSE isr_count)
      /\ e.osr_count = (IF arg = "pull" THEN 0 ELSE osr_count)
      /\ e.fault = (IF arg = "pull" /\ tx = 0 THEN fault \cup {"underflow"}
                    ELSE IF arg = "push" /\ RxFull(in) THEN fault \cup {"overflow"}
                    ELSE fault)
      /\ e.tx = (IF arg = "pull" /\ tx # 0 THEN tx - 1 ELSE tx)
      /\ e.rx = (IF arg = "push" /\ ~RxFull(in) /\ ~config.route THEN n.rx + 1 ELSE n.rx)
      /\ e.routed = (arg = "push" /\ ~RxFull(in) /\ config.route)
      /\ e.crc_sending = SendsAfter(arg)
      /\ e.capture_armed = (arg = "capture_arm" \/ capture_armed)
      /\ e.data_age = (IF arg = "seek" THEN 0 ELSE n.data_age)
  BY SysFields DEF Is
<1> HIDE DEF e
<1>6. Faulted(in) \ {"assumption"}
        = IF arg = "pull" /\ tx = 0 THEN {"underflow"}
          ELSE IF arg = "push" /\ RxFull(in) THEN {"overflow"} ELSE {}
  BY <1>1, <1>3, <1>4 DEF Faulted, FaultKinds, ReleasesDeadline
<1>7. irq' = (arg = "irq" \/ (in.op # "clear_irq" /\ irq))
  BY <1>2, <1>3 DEF Clock, Issuing
<1>8. /\ osr_count' = (IF arg = "pull" THEN 0 ELSE osr_count)
      /\ isr_count' = (IF arg = "push" THEN 0 ELSE isr_count)
  BY <1>1, <1>2, <1>3, <1>4 DEF Clock, Shifting, Bare
<1>9. p' = p
  BY <1>1 DEF Clock, Periods, Bare, Is
<1>10. /\ rx' = (IF Pops(in) THEN rx - 1 ELSE rx)
                  + (IF arg = "push" /\ ~RxFull(in) /\ ~config.route THEN 1 ELSE 0)
       /\ pushed' = (arg = "push" /\ ~RxFull(in) /\ config.route)
  BY <1>3, <1>4, QueueWires
<1>11. Keeps(n, e, {"halted", "fault", "irq", "osr_count", "isr_count", "data_age", "tx",
                    "rx", "routed", "crc_sending", "flip", "p", "capture_armed"})
  BY <1>5 DEF Keeps, MachineFields
<1>12. /\ n.data_age \in 1 .. DataSettle /\ n.rx = (IF Pops(in) THEN rx - 1 ELSE rx)
       /\ e.flip = FALSE /\ e.p = p
  BY <1>5 DEF FoundAt, Keeps, MachineFields
<1>13. /\ e.halted = IsSys("halt")
       /\ e.crc_sending = SendsOn(TRUE)
       /\ e.flip = (Bare("out", "pins") /\ config.manchester /\ word.count = 1)
       /\ e.capture_armed = (IsSys("capture_arm") \/ capture_armed)
  BY <1>1, <1>5, <1>12 DEF SendsOn, IsSys, Bare
<1>14. /\ tx - 0 = tx
       /\ (IF Pops(in) THEN rx - 1 ELSE rx) + 0 = (IF Pops(in) THEN rx - 1 ELSE rx)
       /\ 0 \in 0 .. DataSettle
       /\ \A a \in 1 .. DataSettle : a \in 0 .. DataSettle /\ a # 0
  BY MachineAssumption DEF DataSettle, RestTypes
<1>15. /\ e.rx = rx' /\ e.routed = pushed' /\ e.irq = irq' /\ e.p = p'
       /\ e.osr_count = osr_count' /\ e.isr_count = isr_count'
       /\ e.tx = tx - (IF TxPop THEN 1 ELSE 0)
  BY <1>4, <1>5, <1>7, <1>8, <1>9, <1>10, <1>12, <1>14
<1>16. /\ e.data_age \in 0 .. DataSettle /\ (e.data_age = 0 <=> Seeks \/ PullsData)
       /\ e.fault = fault \cup (Faulted(in) \ {"assumption"})
  BY <1>4, <1>5, <1>6, <1>12, <1>14
<1>17. Executed(in, e)
  BY <1>1, <1>11, <1>13, <1>15, <1>16, Together
<1> QED
  BY <1>17 DEF e

\* A wait, over and not over.
LEMMA WaitExecutes ==
  ASSUME FetchInv, RestTypes, Issue, NEW in, Clock(in), NEW n, FoundAt(in, n), Is("wait")
  PROVE  Executed(in, IF WaitReady(in) THEN Released(n, word, in) ELSE n)
<1> DEFINE e == IF WaitReady(in) THEN Released(n, word, in) ELSE n
<1>1. ~Is("jmp") /\ ~Is("bad") /\ ~Is("sys") /\ ~Is("in") /\ ~Is("out") /\ ~Is("mov")
  BY DEF Is
<1>2. /\ OpGo /\ Go /\ irq' = (irq /\ in.op # "clear_irq")
      /\ ~Pushes /\ pushed' = FALSE /\ rx' = (IF Pops(in) THEN rx - 1 ELSE rx)
      /\ ~TxPop /\ ~PullsData /\ ~Seeks
      /\ osr_count' = osr_count /\ isr_count' = isr_count
  BY <1>1, QuietWires
<1>3. p' = p
  BY <1>1 DEF Clock, Periods, Bare, Is
<1>4. Faulted(in) \ {"assumption"}
        = IF ReleasesDeadline(in) /\ in.chance = "late" THEN {"missed_deadline"} ELSE {}
  BY <1>1, <1>2 DEF Faulted, FaultKinds, Pulls, IsSys
<1>5. /\ Keeps(n, e, {"fault"})
      /\ e.fault = (IF ReleasesDeadline(in) /\ in.chance = "late"
                    THEN fault \cup {"missed_deadline"} ELSE fault)
  <2>1. IsMachine(n) /\ n.fault = fault
    BY DEF FoundAt
  <2>2. CASE ReleasesDeadline(in) /\ in.chance = "late"
    <3>1. e = Faulting(n, "missed_deadline")
      BY <2>2 DEF ReleasesDeadline, Released
    <3> QED
      BY <2>1, <2>2, <3>1, FaultingFields
  <2>3. CASE ~(ReleasesDeadline(in) /\ in.chance = "late")
    <3>1. e = n
      BY <2>3 DEF ReleasesDeadline, Released
    <3> QED
      BY <2>1, <2>3, <3>1 DEF Keeps
  <2> QED
    BY <2>2, <2>3
<1> HIDE DEF e
<1>6. Keeps(n, e, {"halted", "fault", "irq", "osr_count", "isr_count", "data_age", "tx",
                   "rx", "routed", "crc_sending", "flip", "p", "capture_armed"})
  BY <1>5 DEF Keeps
<1>7. /\ e.halted = FALSE /\ e.irq = (irq /\ in.op # "clear_irq")
      /\ e.data_age \in 1 .. DataSettle
      /\ e.osr_count = osr_count /\ e.isr_count = isr_count
      /\ e.tx = tx /\ e.rx = (IF Pops(in) THEN rx - 1 ELSE rx) /\ e.routed = FALSE
      /\ e.crc_sending = model.crc_sending /\ e.flip = FALSE /\ e.capture_armed = capture_armed
      /\ e.p = p
  BY <1>5 DEF FoundAt, Keeps, MachineFields
<1>8. /\ e.halted = IsSys("halt")
      /\ e.crc_sending = SendsOn(TRUE)
      /\ e.flip = (Bare("out", "pins") /\ config.manchester /\ word.count = 1)
      /\ e.capture_armed = (IsSys("capture_arm") \/ capture_armed)
  BY <1>1, <1>7, FlagTypes DEF SendsOn, IsSys, Bare, Is
<1>9. /\ tx - 0 = tx /\ e.data_age \in 0 .. DataSettle /\ e.data_age # 0
  BY <1>7, MachineAssumption DEF DataSettle, RestTypes
<1>10. /\ e.fault = fault \cup (Faulted(in) \ {"assumption"})
       /\ e.irq = irq' /\ e.rx = rx' /\ e.routed = pushed' /\ e.p = p'
       /\ e.osr_count = osr_count' /\ e.isr_count = isr_count'
       /\ e.tx = tx - (IF TxPop THEN 1 ELSE 0)
       /\ (e.data_age = 0 <=> Seeks \/ PullsData)
  BY <1>2, <1>3, <1>4, <1>5, <1>7, <1>9
<1>11. Executed(in, e)
  BY <1>1, <1>6, <1>8, <1>9, <1>10, Together
<1> QED
  BY <1>11 DEF e

\* A jump, and a word no instruction encodes.
LEMMA OthersExecute ==
  ASSUME FetchInv, RestTypes, Issue, NEW in, Clock(in), NEW n, FoundAt(in, n),
         Is("jmp") \/ Is("bad")
  PROVE  Executed(in, IF Is("bad") THEN Faulting([n EXCEPT !.halted = TRUE], "decode") ELSE n)
<1> DEFINE h == [n EXCEPT !.halted = TRUE]
           e == IF Is("bad") THEN Faulting(h, "decode") ELSE n
<1>1. /\ ~Is("sys") /\ ~Is("in") /\ ~Is("out") /\ ~Is("mov") /\ ~Is("set") /\ ~Is("alu")
      /\ ~OpGo /\ ~TxPop /\ ~Seeks /\ ~PullsData /\ ~halted /\ ~Flushes(in)
      /\ \A op : ~IsSys(op)
  BY DEF Is, IsSys, OpGo, Go, TxPop, Seeks, PullsData, Issue, Flushes
<1>2. Faulted(in) \ {"assumption"} = IF Is("bad") THEN {"decode"} ELSE {}
  BY <1>1 DEF Faulted, FaultKinds
<1>3. IsMachine(n) /\ n.fault = fault /\ n.halted = FALSE
  BY DEF FoundAt
<1>4. Keeps(n, e, {"halted", "fault"}) /\ e.halted = Is("bad")
      /\ e.fault = (IF Is("bad") THEN fault \cup {"decode"} ELSE fault)
  <2>1. CASE Is("bad")
    <3>1. Keeps(n, h, {"halted"}) /\ h.halted = TRUE
      BY <1>3 DEF IsMachine, Keeps, MachineFields
    <3>2. e = Faulting(h, "decode")
      BY <2>1
    <3> HIDE DEF h, e
    <3>3. Keeps(h, e, {"fault"}) /\ e.fault = h.fault \cup {"decode"}
      BY <3>1, <3>2, FaultingFields DEF Keeps
    <3>4. h.fault = fault /\ e.halted = TRUE
      BY <1>3, <3>1, <3>3 DEF Keeps, MachineFields
    <3>5. Keeps(n, e, {"halted", "fault"})
      BY <3>1, <3>3 DEF Keeps
    <3>6. e.halted = Is("bad")
      BY <2>1, <3>4 DEF Is
    <3> QED
      BY <2>1, <3>3, <3>4, <3>5, <3>6
  <2>2. CASE ~Is("bad")
    <3>1. e = n
      BY <2>2
    <3>2. e.halted = Is("bad")
      BY <1>3, <2>2, <3>1 DEF Is
    <3> QED
      BY <1>3, <2>2, <3>1, <3>2 DEF Keeps
  <2> QED
    BY <2>1, <2>2
<1> HIDE DEF h, e
<1>5. /\ irq' = (irq /\ in.op # "clear_irq")
      /\ osr_count' = osr_count /\ isr_count' = isr_count /\ p' = p
  BY <1>1, FlagTypes DEF Clock, Issuing, Shifting, Periods, Bare, Is, Pulls
<1>6. /\ pushed' = FALSE /\ rx' = (IF Pops(in) THEN rx - 1 ELSE rx)
  <2>1. rx \in Int /\ \A x \in Int : x + 0 = x /\ x - 1 \in Int
    BY MachineAssumption DEF RestTypes
  <2>2. rx' = (IF Pops(in) THEN rx - 1 ELSE rx) + 0 /\ pushed' = FALSE
    BY <1>1, QueueWires
  <2> QED
    BY <2>1, <2>2
<1>7. /\ e.irq = (irq /\ in.op # "clear_irq") /\ e.data_age \in 1 .. DataSettle
      /\ e.osr_count = osr_count /\ e.isr_count = isr_count /\ e.p = p
      /\ e.tx = tx /\ e.rx = (IF Pops(in) THEN rx - 1 ELSE rx) /\ e.routed = FALSE
      /\ e.crc_sending = model.crc_sending /\ e.flip = FALSE /\ e.capture_armed = capture_armed
      /\ IsMachine(e)
      /\ e.program = program /\ e.config = config /\ e.premises = premises
      /\ e.p_loaded = model.p_loaded /\ e.level = pin
      /\ e.holding = model.holding /\ e.seen = model.seen
  BY <1>4 DEF FoundAt, Keeps, MachineFields
<1>8. tx - 0 = tx /\ e.data_age \in 0 .. DataSettle /\ e.data_age # 0
  BY <1>7, MachineAssumption DEF DataSettle, RestTypes
<1>9. /\ e.halted = ((Issue /\ Is("bad")) \/ (OpGo /\ IsSys("halt")) \/ halted)
      /\ e.crc_sending = SendsOn(OpGo)
      /\ e.flip = (\/ OpGo /\ Bare("out", "pins") /\ config.manchester /\ word.count = 1
                   \/ ~Issue /\ flip_pending)
      /\ e.capture_armed = ((OpGo /\ IsSys("capture_arm")) \/ capture_armed)
  <2>1. e.halted = ((Issue /\ Is("bad")) \/ (OpGo /\ IsSys("halt")) \/ halted)
    BY <1>1, <1>4 DEF Is
  <2>2. e.flip = (\/ OpGo /\ Bare("out", "pins") /\ config.manchester /\ word.count = 1
                  \/ ~Issue /\ flip_pending)
    BY <1>1, <1>7
  <2>3. /\ e.crc_sending = SendsOn(OpGo)
        /\ e.capture_armed = ((OpGo /\ IsSys("capture_arm")) \/ capture_armed)
    BY <1>1, <1>7, FlagTypes DEF SendsOn
  <2> QED
    BY <2>1, <2>2, <2>3
<1>10. /\ e.fault = fault \cup (Faulted(in) \ {"assumption"})
       /\ e.tx = (IF Flushes(in) THEN 0 ELSE tx - (IF TxPop THEN 1 ELSE 0))
       /\ e.data_age \in 0 .. DataSettle /\ (e.data_age = 0 <=> Seeks \/ PullsData)
  BY <1>1, <1>2, <1>4, <1>7, <1>8
<1>11. Executed(in, e)
  BY <1>5, <1>6, <1>7, <1>9, <1>10 DEF Executed
<1> QED
  BY <1>11 DEF e, h

\* The machine asks what the core's wires say.
LEMMA AskedAtIssue ==
  ASSUME FetchInv, RestTypes, Issue, NEW in, in.level \in BOOLEAN, NEW m, Found(in, m)
  PROVE  /\ IsReady(m, word, in) <=> WaitReady(in)
         /\ Is("jmp") => (IsTaken(m, word, in) <=> JmpTaken(in))
<1>1. FoundAt(in, [m EXCEPT !.flip = FALSE])
  BY AtIssue
<1>2. /\ m.config = config /\ m.tx = tx /\ m.level = pin /\ m.osr_count = osr_count
  BY DEF Found, Issue, Flushes
<1>3. pin \in BOOLEAN
  BY FlagTypes
<1>4. IsRxFull(m, in) <=> RxFull(in)
  <2>1. /\ m.rx = [m EXCEPT !.flip = FALSE].rx
        /\ m.config = [m EXCEPT !.flip = FALSE].config
    BY DEF Found, IsMachine, MachineFields
  <2> QED
    BY <1>1, <2>1 DEF FoundAt, IsRxFull
<1>5. IsReady(m, word, in) <=> WaitReady(in)
  <2>1. CASE word.arg = "captured_level"
    BY <2>1 DEF IsReady, WaitReady
  <2>2. CASE word.arg = "captured_edge"
    BY <1>2, <1>3, <2>2 DEF IsReady, WaitReady
  <2>3. CASE word.arg = "tx_not_empty"
    BY <1>2, <2>3 DEF IsReady, WaitReady
  <2>4. CASE word.arg = "rx_not_full"
    BY <1>4, <2>4 DEF IsReady, WaitReady
  <2>5. CASE word.arg \notin {"captured_level", "captured_edge", "tx_not_empty", "rx_not_full"}
    BY <2>5 DEF IsReady, WaitReady
  <2> QED
    BY <2>1, <2>2, <2>3, <2>4, <2>5
<1>6. ASSUME Is("jmp")
      PROVE  IsTaken(m, word, in) <=> JmpTaken(in)
  <2>1. word.arg \in Conditions
    BY <1>6 DEF FetchInv, FetchTypes, Word, Is
  <2>2. CASE word.arg = "always"
    BY <2>2 DEF IsTaken, JmpTaken
  <2>3. CASE word.arg = "data"
    BY <2>3 DEF IsTaken, JmpTaken
  <2>4. CASE word.arg = "osr_not_empty"
    BY <1>2, <2>4 DEF IsTaken, JmpTaken
  <2>5. CASE word.arg = "tx_not_empty"
    BY <1>2, <2>5 DEF IsTaken, JmpTaken
  <2>6. CASE word.arg = "tx_empty"
    BY <1>2, <2>6 DEF IsTaken, JmpTaken
  <2>7. CASE word.arg = "rx_not_full"
    BY <1>4, <2>7 DEF IsTaken, JmpTaken
  <2>8. CASE word.arg = "rx_full"
    BY <1>4, <2>8 DEF IsTaken, JmpTaken
  <2> QED
    BY <2>1, <2>2, <2>3, <2>4, <2>5, <2>6, <2>7, <2>8 DEF Conditions
<1> QED
  BY <1>5, <1>6

\* Where a word goes on to is no part of what it leaves.
LEMMA GoesOn ==
  ASSUME NEW in, NEW e, Executed(in, e), NEW s, Keeps(e, s, {"pc", "stall"})
  PROVE  Executed(in, s)
BY DEF Executed, Keeps, MachineFields

\* A cycle in which a word issues.
LEMMA IssuesInStep ==
  ASSUME FetchInv, RestTypes, Issue, NEW in, in.level \in BOOLEAN, Clock(in),
         NEW m, Found(in, m)
  PROVE  Executed(in, Issued(m, in)) /\ Went(in, Issued(m, in))
<1> DEFINE n == [m EXCEPT !.flip = FALSE]
           s == Issued(m, in)
<1>1. FoundAt(in, n)
  BY AtIssue
<1>2. m.program[m.pc] = word /\ PcAfter(m) = After(pc)
  BY IssuedWord
<1>3. n.pc = pc /\ n.stall = 0
  BY DEF Found, IsMachine, MachineFields, Issue
<1>4. /\ IsReady(m, word, in) <=> WaitReady(in)
      /\ Is("jmp") => (IsTaken(m, word, in) <=> JmpTaken(in))
  BY AskedAtIssue
<1>5. word.op \in {"jmp", "wait", "in", "out", "mov", "set", "alu", "sys", "bad"}
  BY DEF FetchInv, FetchTypes, Word
<1>6. stall = 0
  BY DEF Issue
<1>7. CASE Is("bad")
  <2>1. s = Faulting([n EXCEPT !.halted = TRUE], "decode")
    BY <1>2, <1>7 DEF Issued, Is
  <2>2. Executed(in, s)
    BY <1>1, <1>7, <2>1, OthersExecute
  <2>3. s.pc = pc /\ s.stall = 0
    <3>1. /\ Keeps(n, [n EXCEPT !.halted = TRUE], {"halted"})
      BY <1>1 DEF FoundAt, IsMachine, Keeps, MachineFields
    <3> DEFINE h == [n EXCEPT !.halted = TRUE]
    <3>2. h.pc = pc /\ h.stall = 0
      BY <1>3, <3>1 DEF Keeps, MachineFields
    <3> HIDE DEF n, h, s
    <3>3. s = Faulting(h, "decode")
      BY <2>1 DEF h
    <3>4. Keeps(h, s, {"fault"})
      BY <3>1, <3>3, FaultingFields DEF h, Keeps
    <3> QED
      BY <3>2, <3>4 DEF Keeps, MachineFields
  <2>4. ~JmpGo /\ ~Advance(in)
    BY <1>7 DEF JmpGo, Go, Advance, OpGo
  <2> QED
    BY <1>6, <2>2, <2>3, <2>4 DEF Went
<1>8. CASE Is("jmp")
  <2> DEFINE to == IF IsTaken(m, word, in) THEN word.target ELSE PcAfter(m)
  <2>1. s = [n EXCEPT !.pc = to, !.stall = JmpCycles - 1]
    BY <1>2, <1>8 DEF Issued, Is
  <2>2. ~Is("bad")
    BY <1>8 DEF Is
  <2>3. Executed(in, n)
    BY <1>1, <1>8, <2>2, OthersExecute
  <2>4. to = JmpTargetOrNext(in)
    BY <1>2, <1>4, <1>8 DEF JmpTargetOrNext
  <2>5. JmpGo
    BY <1>8, <2>2 DEF JmpGo, Go
  <2> HIDE DEF n, s, to
  <2>6. Keeps(n, s, {"pc", "stall"}) /\ s.pc = to /\ s.stall = JmpCycles - 1
    BY <2>1, <2>3 DEF Executed, IsMachine, Keeps, MachineFields
  <2>7. Executed(in, s)
    BY <2>3, <2>6, GoesOn
  <2> QED
    BY <2>4, <2>5, <2>6, <2>7 DEF Went, s
<1>9. CASE Is("wait") /\ ~WaitReady(in)
  <2>1. s = n
    BY <1>2, <1>4, <1>9 DEF Issued, Is
  <2>2. Executed(in, n)
    BY <1>1, <1>9, WaitExecutes
  <2>3. ~JmpGo /\ ~Advance(in)
    BY <1>9 DEF JmpGo, Advance, Is
  <2> QED
    BY <1>3, <1>6, <2>1, <2>2, <2>3 DEF Went
<1>10. ASSUME ~Is("bad"), ~Is("jmp"), ~(Is("wait") /\ ~WaitReady(in)),
              NEW e, Executed(in, e), s = [e EXCEPT !.pc = PcAfter(m), !.stall = word.delay]
       PROVE  Executed(in, s) /\ Went(in, s)
  <2>1. ~JmpGo /\ Advance(in)
    BY <1>10 DEF JmpGo, Advance, OpGo, Go
  <2>2. Keeps(e, s, {"pc", "stall"}) /\ s.pc = PcAfter(m) /\ s.stall = word.delay
    BY <1>10 DEF Executed, IsMachine, Keeps, MachineFields
  <2>3. Executed(in, s)
    BY <1>10, <2>2, GoesOn
  <2> QED
    BY <1>2, <2>1, <2>2, <2>3 DEF Went
<1>11. CASE Is("wait") /\ WaitReady(in)
  <2>1. s = [Released(n, word, in) EXCEPT !.pc = PcAfter(m), !.stall = word.delay]
    BY <1>2, <1>4, <1>11 DEF Issued, Is
  <2>2. Executed(in, Released(n, word, in))
    BY <1>1, <1>11, WaitExecutes
  <2>3. ~Is("bad") /\ ~Is("jmp")
    BY <1>11 DEF Is
  <2> HIDE DEF n, s
  <2> QED
    BY <1>10, <1>11, <2>1, <2>2, <2>3 DEF s
<1>12. CASE word.op \in {"in", "out", "mov", "set", "alu", "sys"}
  <2>1. s = [Execute(n, word, in) EXCEPT !.pc = PcAfter(m), !.stall = word.delay]
    BY <1>2, <1>12 DEF Issued
  <2>2. Executed(in, Execute(n, word, in))
    BY <1>1, <1>12, InExecutes, OutExecutes, MovExecutes, SysExecutes DEF Is
  <2>3. ~Is("bad") /\ ~Is("jmp") /\ ~Is("wait")
    BY <1>12 DEF Is
  <2> HIDE DEF n, s
  <2> QED
    BY <1>10, <2>1, <2>2, <2>3 DEF s
<1> QED
  BY <1>5, <1>7, <1>8, <1>9, <1>11, <1>12 DEF Is

\* The premises the machine faults, on the flags it has.
MachineOff(in) ==
  \/ UsesP(in) /\ model.p_loaded /\ premises.period /\ ~p
  \/ /\ premises.single_edge
     /\ (Arms(in) /\ in.level) \/ (model.holding /\ model.seen /\ ~in.level)

\* The machine after its step, before the host has its turn.
Stepped(in, n) ==
  /\ IsMachine(n) /\ Went(in, n)
  /\ n.program = program /\ n.config = config /\ n.premises = premises
  /\ n.halted = ((Issue /\ Is("bad")) \/ (OpGo /\ IsSys("halt")) \/ halted)
  /\ n.fault = fault \cup (Faulted(in) \ {"assumption"})
                     \cup (IF MachineOff(in) THEN {"assumption"} ELSE {})
  /\ n.irq = irq'
  /\ n.osr_count = osr_count' /\ n.isr_count = isr_count'
  /\ n.data_age \in 0 .. DataSettle /\ (n.data_age = 0 <=> Seeks \/ PullsData)
  /\ n.tx = (IF Flushes(in) THEN 0 ELSE tx - (IF TxPop THEN 1 ELSE 0))
  /\ n.rx = rx' /\ n.routed = pushed'
  /\ n.crc_sending = SendsOn(OpGo)
  /\ n.flip = (\/ OpGo /\ Bare("out", "pins") /\ config.manchester /\ word.count = 1
               \/ ~Issue /\ flip_pending)
  /\ n.p = p'
  /\ n.p_loaded = (~(Advance(in) /\ Bare("set", "p"))
                     /\ (\/ Advance(in) /\ word.op \in {"mov", "out", "alu"} /\ word.arg = "p"
                         \/ model.p_loaded))
  /\ n.level = pin' /\ n.capture_armed = capture_armed'
  /\ n.holding = (Arms(in) \/ (~Releases(in) /\ model.holding))
  /\ n.seen = (~Arms(in) /\ (model.seen \/ (~Releases(in) /\ model.holding /\ in.level)))

\* The machine's cycle, word or stall, ends where the core's registers do.
LEMMA StepLands ==
  ASSUME FetchInv, RestTypes, NEW in, in.level \in BOOLEAN, Clock(in), Beside(model)
  PROVE  Stepped(in, Step(HostBefore(model, in), in))
<1> DEFINE b == HostBefore(model, in)
           w == b.program[b.pc]
           a == [b EXCEPT !.data_age = IF @ < DataSettle THEN @ + 1 ELSE @, !.routed = FALSE]
           s == IF b.stall > 0 THEN [a EXCEPT !.stall = @ - 1]
                ELSE IF b.halted THEN a ELSE Issued(a, in)
           effect == (b.stall = 0 /\ ~b.halted) /\ TookEffect(a, w, in)
           captured == b.capture_armed /\ in.level /\ ~b.level
           x == Watched(s, b, w, effect, in)
           n == Step(b, in)
<1>1. n = [x EXCEPT !.capture_armed = @ /\ ~captured, !.level = in.level]
  BY DEF Step
<1>2. Found(in, a)
  BY FoundBefore
<1>3. Keeps(model, b, {"irq", "tx", "rx"})
  BY DEF Beside, IsMachine, Keeps, HostBefore, MachineFields
<1> HIDE DEF b
<1>4. /\ b.program = program /\ b.pc = pc /\ b.stall = stall /\ b.halted = halted
      /\ b.capture_armed = capture_armed /\ b.level = pin /\ b.premises = premises
      /\ b.holding = model.holding /\ b.seen = model.seen 
      /\ b.p = p /\ b.p_loaded = model.p_loaded
  BY <1>3 DEF Beside, Keeps, MachineFields
<1>5. a.program = program /\ a.pc = pc /\ a.stall = stall /\ a.halted = halted
  BY <1>2 DEF Found
<1> HIDE DEF a
<1>6. stall \in Nat /\ (start => halted) /\ (Issue <=> stall = 0 /\ ~halted)
  BY DEF FetchInv, FetchTypes, StartFetched, Issue
<1>7. Executed(in, s) /\ Went(in, s)
  <2>1. CASE Issue
    <3>1. s = Issued(a, in)
      BY <1>4, <1>6, <2>1
    <3> QED
      BY <1>2, <2>1, <3>1, IssuesInStep
  <2>2. CASE ~Issue
    <3>1. s = IF a.stall > 0 THEN [a EXCEPT !.stall = @ - 1] ELSE a
      BY <1>4, <1>5, <1>6, <2>2
    <3> HIDE DEF s
    <3>2. LET r == IF a.stall > 0 THEN [a EXCEPT !.stall = @ - 1] ELSE a
          IN  Executed(in, r) /\ Went(in, r)
      BY <1>2, <1>6, <2>2, RestsInStep
    <3> QED
      BY <3>1, <3>2
  <2> QED
    BY <2>1, <2>2
<1>8. (effect <=> Advance(in)) /\ (Advance(in) => w = word)
  <2>1. CASE Issue
    <3>1. w = word
      BY <1>2, <1>4, <1>5, <2>1, IssuedWord
    <3>2. IsReady(a, word, in) <=> WaitReady(in)
      BY <1>2, <2>1, AskedAtIssue
    <3>3. effect <=> TookEffect(a, word, in)
      BY <1>4, <1>6, <2>1, <3>1
    <3>4. TookEffect(a, word, in) <=> Advance(in)
      BY <2>1, <3>2 DEF TookEffect, Advance, OpGo, Go, Is
    <3> QED
      BY <3>1, <3>3, <3>4
  <2>2. CASE ~Issue
    BY <1>4, <1>6, <2>2 DEF Advance, OpGo, Go
  <2> QED
    BY <2>1, <2>2
<1> HIDE DEF s, effect, w
<1>9. /\ IsMachine(s) /\ s.p_loaded = model.p_loaded
      /\ s.holding = model.holding /\ s.seen = model.seen
      /\ s.fault = fault \cup (Faulted(in) \ {"assumption"}) /\ s.level = pin
  BY <1>7 DEF Executed
<1>10. /\ effect /\ w.op = "sys" /\ w.arg = "capture_arm" <=> Arms(in)
       /\ b.premises.single_edge /\ effect /\ w.op = "wait"
            /\ w.arg \in {"captured_level", "captured_edge"} <=> Releases(in)
       /\ effect /\ w.op \in {"mov", "out", "alu"} /\ w.arg = "p"
            <=> Advance(in) /\ word.op \in {"mov", "out", "alu"} /\ word.arg = "p"
       /\ effect /\ w.op = "set" /\ w.arg = "p" <=> Advance(in) /\ Bare("set", "p")
       /\ effect /\ <<w.op, w.arg>> \in {<<"wait", "advance">>, <<"alu", "add_p">>}
            <=> UsesP(in)
  BY <1>4, <1>8 DEF Arms, Releases, UsesP, IsSys, Bare, Is
<1>11. /\ Keeps(s, x, {"fault", "p_loaded", "holding", "seen"})
       /\ x.p_loaded = (~(Advance(in) /\ Bare("set", "p"))
                          /\ (\/ /\ Advance(in)
                                 /\ word.op \in {"mov", "out", "alu"} /\ word.arg = "p"
                              \/ model.p_loaded))
       /\ x.holding = (Arms(in) \/ (~Releases(in) /\ model.holding))
       /\ x.seen = (~Arms(in)
                      /\ (model.seen \/ (~Releases(in) /\ model.holding /\ in.level)))
       /\ x.fault = (IF MachineOff(in) THEN s.fault \cup {"assumption"} ELSE s.fault)
  <2> DEFINE arms == effect /\ w.op = "sys" /\ w.arg = "capture_arm"
             releases == /\ b.premises.single_edge /\ effect /\ w.op = "wait"
                         /\ w.arg \in {"captured_level", "captured_edge"}
             loads == effect /\ w.op \in {"mov", "out", "alu"} /\ w.arg = "p"
             sets == effect /\ w.op = "set" /\ w.arg = "p"
             uses == effect /\ <<w.op, w.arg>> \in {<<"wait", "advance">>, <<"alu", "add_p">>}
             off == \/ uses /\ b.p_loaded /\ b.premises.period /\ ~b.p
                    \/ /\ b.premises.single_edge
                       /\ (arms /\ in.level) \/ (b.holding /\ b.seen /\ ~in.level)
             l == [s EXCEPT !.p_loaded = ~sets /\ (loads \/ @),
                            !.holding = arms \/ (~releases /\ @),
                            !.seen = ~arms /\ (@ \/ (~releases /\ b.holding /\ in.level))]
  <2>1. x = IF off THEN Faulting(l, "assumption") ELSE l
    BY DEF Watched
  <2>2. /\ (arms <=> Arms(in)) /\ (releases <=> Releases(in)) /\ (uses <=> UsesP(in))
        /\ (loads <=> Advance(in) /\ word.op \in {"mov", "out", "alu"} /\ word.arg = "p")
        /\ (sets <=> Advance(in) /\ Bare("set", "p"))
    BY <1>10
  <2> HIDE DEF x, arms, releases, loads, sets, uses
  <2>3. off <=> MachineOff(in)
    BY <1>4, <2>2 DEF MachineOff
  <2> HIDE DEF off
  <2>4. /\ Keeps(s, l, {"p_loaded", "holding", "seen"})
        /\ l.p_loaded = (~sets /\ (loads \/ s.p_loaded))
        /\ l.holding = (arms \/ (~releases /\ s.holding))
        /\ l.seen = (~arms /\ (s.seen \/ (~releases /\ b.holding /\ in.level)))
    BY <1>9 DEF IsMachine, Keeps, MachineFields
  <2> HIDE DEF l
  <2>5. IsMachine(l) /\ l.fault = s.fault
    BY <2>4 DEF Keeps, MachineFields
  <2>6. /\ Keeps(l, x, {"fault"})
        /\ x.fault = (IF off THEN l.fault \cup {"assumption"} ELSE l.fault)
    <3>1. CASE off
      BY <2>1, <2>5, <3>1, FaultingFields
    <3>2. CASE ~off
      BY <2>1, <2>5, <3>2 DEF Keeps
    <3> QED
      BY <3>1, <3>2
  <2>7. /\ Keeps(s, x, {"fault", "p_loaded", "holding", "seen"})
        /\ x.p_loaded = l.p_loaded /\ x.holding = l.holding /\ x.seen = l.seen
    BY <2>4, <2>6 DEF Keeps, MachineFields
  <2> QED
    BY <1>4, <1>9, <2>2, <2>3, <2>4, <2>5, <2>6, <2>7
<1> HIDE DEF x
<1>12. x.fault = fault \cup (Faulted(in) \ {"assumption"})
                       \cup (IF MachineOff(in) THEN {"assumption"} ELSE {})
  BY <1>9, <1>11
<1> HIDE DEF captured, n
<1>13. /\ Keeps(x, n, {"capture_armed", "level"}) /\ n.level = in.level
       /\ n.capture_armed = (x.capture_armed /\ ~captured)
  BY <1>1, <1>11 DEF IsMachine, Keeps, MachineFields
<1>14. /\ pin' = in.level
       /\ capture_armed' = (((OpGo /\ IsSys("capture_arm")) \/ capture_armed) /\ ~captured)
  <2>1. captured <=> Captured(in)
    BY <1>4, FlagTypes DEF captured, Captured
  <2> QED
    BY <2>1 DEF Clock, Capturing
<1>15. x.capture_armed = s.capture_armed
  BY <1>11 DEF Keeps, MachineFields
<1>16. n.capture_armed = capture_armed'
  BY <1>7, <1>13, <1>14, <1>15 DEF Executed
<1>17. Keeps(s, n, {"fault", "p_loaded", "holding", "seen", "capture_armed", "level"})
  BY <1>11, <1>13 DEF Keeps, MachineFields
<1>18. /\ n.p_loaded = x.p_loaded /\ n.holding = x.holding /\ n.seen = x.seen
       /\ n.fault = x.fault
  BY <1>13 DEF Keeps, MachineFields
<1>19. /\ IsMachine(n)
       /\ n.program = s.program /\ n.config = s.config /\ n.premises = s.premises
       /\ n.halted = s.halted /\ n.irq = s.irq
       /\ n.osr_count = s.osr_count /\ n.isr_count = s.isr_count
       /\ n.data_age = s.data_age /\ n.tx = s.tx /\ n.rx = s.rx /\ n.routed = s.routed
       /\ n.crc_sending = s.crc_sending /\ n.flip = s.flip /\ n.p = s.p
       /\ n.pc = s.pc /\ n.stall = s.stall
  BY <1>17 DEF Keeps, MachineFields
<1>20. Went(in, n)
  BY <1>7, <1>19 DEF Went
<1>21. Stepped(in, n)
  BY <1>7, <1>11, <1>12, <1>13, <1>14, <1>16, <1>18, <1>19, <1>20 DEF Stepped, Executed
<1> QED
  BY <1>21 DEF n, b

\* After the host's turn the machine is beside the core again, but for what a start
\* and a halt do to one of them.
LEMMA CycledFields ==
  ASSUME FetchInv, RestTypes, NEW in, Clock(in), Beside(model),
         NEW n, Stepped(in, n), NEW c, c = HostAfter(n, model, in)
  PROVE  /\ Keeps(n, c, {"halted", "tx"})
         /\ c.halted = (\/ Stops(in) \/ (Issue /\ Is("bad")) \/ (OpGo /\ IsSys("halt"))
                        \/ halted)
         /\ c.tx = tx'
<1>1. /\ IsMachine(n) /\ model.halted = halted /\ model.fault = fault
      /\ n.halted = ((Issue /\ Is("bad")) \/ (OpGo /\ IsSys("halt")) \/ halted)
      /\ n.tx = (IF Flushes(in) THEN 0 ELSE tx - (IF TxPop THEN 1 ELSE 0))
  BY DEF Stepped, Beside
<1>2. /\ Keeps(n, c, {"halted", "tx"})
      /\ c.halted = (n.halted \/ in.op = "stop" \/ model.fault # {})
      /\ c.tx = (IF in.tx /\ n.tx < Depth /\ ~(in.op = "flush" /\ model.halted)
                 THEN n.tx + 1 ELSE n.tx)
  BY <1>1 DEF HostAfter, IsMachine, Keeps, MachineFields
<1>3. c.halted = (\/ Stops(in) \/ (Issue /\ Is("bad")) \/ (OpGo /\ IsSys("halt")) \/ halted)
  BY <1>1, <1>2 DEF Stops, faulted
<1>4. c.tx = tx'
  <2>1. tx \in 0 .. Depth /\ Depth \in Nat \ {0}
    BY MachineAssumption DEF RestTypes
  <2>2. tx' = IF Flushes(in) THEN 0
              ELSE tx + (IF in.tx /\ ~TxFull THEN 1 ELSE 0) - (IF TxPop THEN 1 ELSE 0)
    BY DEF Clock, Queues
  <2>3. CASE Flushes(in)
    BY <1>1, <1>2, <2>2, <2>3 DEF Flushes
  <2>4. CASE ~Flushes(in)
    <3>1. (TxPop => tx # 0) /\ (TxFull <=> tx = Depth /\ ~TxPop)
      BY DEF TxPop, TxFull
    <3>2. c.tx = IF in.tx /\ n.tx < Depth THEN n.tx + 1 ELSE n.tx
      BY <1>1, <1>2, <2>4 DEF Flushes
    <3>3. n.tx = tx - (IF TxPop THEN 1 ELSE 0)
      BY <1>1, <2>4
    <3> QED
      BY <2>1, <2>2, <2>4, <3>1, <3>2, <3>3
  <2> QED
    BY <2>3, <2>4
<1> QED
  BY <1>2, <1>3, <1>4

-----------------------------------------------------------------------------
(***************************************************************************)
(* The flags the machine may have kept.                                    *)
(***************************************************************************)

\* A flag of the core's that the machine has too, kept or the same.
Of(f, ours, theirs) ==
  /\ ours \in BOOLEAN /\ theirs \in BOOLEAN
  /\ IF f \in kept THEN theirs /\ ~ours ELSE theirs = ours

FlagsBeside ==
  /\ Of("crc_sending", crc_sending, model.crc_sending)
  /\ Of("p_loaded", p_loaded, model.p_loaded)
  /\ Of("holding", holding, model.holding)
  /\ Of("seen", seen, model.seen)

\* What a flag that differs after a cycle comes to, and where it may.
May(f, ours, theirs) ==
  /\ ours \in BOOLEAN /\ theirs \in BOOLEAN /\ (ours => theirs)
  /\ theirs # ours => f \in kept \cup MayKeep

\* The flags that differ after a cycle are the ones kept, if each may.
LEMMA FlagsKept ==
  ASSUME NEW in, Matching(in), ~parted',
         May("crc_sending", crc_sending', model'.crc_sending),
         May("p_loaded", p_loaded', model'.p_loaded),
         May("holding", holding', model'.holding),
         May("seen", seen', model'.seen)
  PROVE  FlagsBeside'
<1>1. kept' = Differing' \cap (kept \cup MayKeep)
  BY DEF Matching
<1>2. /\ View.crc_sending' = crc_sending' /\ View.p_loaded' = p_loaded'
      /\ View.holding' = holding' /\ View.seen' = seen'
  BY DEF View
<1>3. ASSUME NEW f \in Flags, NEW ours, NEW theirs, ours = View[f]', theirs = model'[f],
             May(f, ours, theirs)
      PROVE  /\ ours \in BOOLEAN /\ theirs \in BOOLEAN
             /\ IF f \in kept' THEN theirs /\ ~ours ELSE theirs = ours
  <2>1. f \in Differing' <=> theirs # ours
    BY <1>3 DEF Differing
  <2> QED
    BY <1>1, <1>3, <2>1 DEF May
<1>4. Of("crc_sending", crc_sending, model.crc_sending)'
  BY <1>2, <1>3 DEF Of, Flags
<1>5. Of("p_loaded", p_loaded, model.p_loaded)'
  BY <1>2, <1>3 DEF Of, Flags
<1>6. Of("holding", holding, model.holding)'
  BY <1>2, <1>3 DEF Of, Flags
<1>7. Of("seen", seen, model.seen)'
  BY <1>2, <1>3 DEF Of, Flags
<1> QED
  BY <1>4, <1>5, <1>6, <1>7 DEF FlagsBeside

\* Until they part, the machine faults a premise where the core does.
LEMMA FaultsBeside ==
  ASSUME FlagsBeside, NEW in, ~Parts(in),
         NEW off, off = fault \cup (Faulted(in) \ {"assumption"})
                              \cup (IF MachineOff(in) THEN {"assumption"} ELSE {})
  PROVE  off = fault \cup Faulted(in)
<1>1. Faulted(in) = (Faulted(in) \ {"assumption"})
                      \cup (IF PeriodOff(in) \/ EdgeOff(in) THEN {"assumption"} ELSE {})
  BY DEF Faulted, FaultKinds
<1>2. PeriodOff(in) \/ EdgeOff(in) => MachineOff(in)
  BY DEF PeriodOff, EdgeOff, MachineOff, FlagsBeside, Of
<1>3. ASSUME MachineOff(in), ~PeriodOff(in), ~EdgeOff(in)
      PROVE  "assumption" \in fault
  <2>1. CASE UsesP(in) /\ model.p_loaded /\ premises.period /\ ~p
    <3>1. "p_loaded" \in kept
      BY <1>3, <2>1 DEF PeriodOff, FlagsBeside, Of
    <3> QED
      BY <1>3, <2>1, <3>1 DEF Parts
  <2>2. CASE /\ premises.single_edge
             /\ (Arms(in) /\ in.level) \/ (model.holding /\ model.seen /\ ~in.level)
    <3>1. model.holding /\ model.seen /\ ~in.level
      BY <1>3, <2>2 DEF EdgeOff
    <3>2. ~holding \/ ~seen
      BY <1>3, <2>2, <3>1 DEF EdgeOff
    <3>3. {"holding", "seen"} \cap kept # {}
      BY <3>1, <3>2 DEF FlagsBeside, Of
    <3> QED
      BY <1>3, <2>2, <3>1, <3>3 DEF Parts
  <2> QED
    BY <1>3, <2>1, <2>2 DEF MachineOff
<1>4. CASE MachineOff(in) <=> PeriodOff(in) \/ EdgeOff(in)
  BY <1>1, <1>4
<1>5. CASE MachineOff(in) /\ ~(PeriodOff(in) \/ EdgeOff(in))
  BY <1>1, <1>3, <1>5
<1> QED
  BY <1>2, <1>4, <1>5

\* The machine's flags after its cycle, against the core's.
LEMMA FlagsStep ==
  ASSUME FetchInv, RestTypes, FlagsBeside, NEW in, Clock(in), Given(in),
         NEW n, Stepped(in, n)
  PROVE  /\ May("crc_sending", crc_sending', n.crc_sending)
         /\ May("p_loaded", p_loaded', n.p_loaded)
         /\ May("holding", holding', n.holding)
         /\ May("seen", seen', n.seen)
<1>1. in.level \in BOOLEAN /\ start \in BOOLEAN /\ halted \in BOOLEAN /\ (start => halted)
  BY FlagTypes DEF FetchInv, FetchTypes, StartFetched, Given
<1>2. /\ start => {"crc_sending", "p_loaded"} \subseteq MayKeep
      /\ halted => {"holding", "seen"} \subseteq MayKeep
      /\ "holding" \in kept => "seen" \in MayKeep
  BY DEF MayKeep
<1>3. May("crc_sending", crc_sending', n.crc_sending)
  <2>1. crc_sending' = (~start /\ ~(OpGo /\ IsSys("crc_init"))
                               /\ ((OpGo /\ IsSys("crc_send")) \/ crc_sending))
    BY DEF Clock, Shifting
  <2>2. n.crc_sending = SendsOn(OpGo)
    BY DEF Stepped
  <2> QED
    BY <1>2, <2>1, <2>2 DEF May, SendsOn, SendsAfter, IsSys, FlagsBeside, Of
<1>4. May("p_loaded", p_loaded', n.p_loaded)
  <2> DEFINE sets == Advance(in) /\ Bare("set", "p")
             loads == Advance(in) /\ word.op \in {"mov", "out", "alu"} /\ word.arg = "p"
  <2>1. p_loaded' = (~start /\ ~sets /\ (loads \/ p_loaded))
    BY DEF Clock, Periods
  <2>2. n.p_loaded = (~sets /\ (loads \/ model.p_loaded))
    BY DEF Stepped
  <2> HIDE DEF sets, loads
  <2> QED
    BY <1>2, <2>1, <2>2 DEF May, FlagsBeside, Of
<1>5. /\ holding' = (~halted /\ (Arms(in) \/ (~Releases(in) /\ holding)))
      /\ seen' = (~halted /\ ~Arms(in)
                          /\ (seen \/ (~Releases(in) /\ holding /\ in.level)))
  BY DEF Clock, Capturing
<1>6. /\ n.holding = (Arms(in) \/ (~Releases(in) /\ model.holding))
      /\ n.seen = (~Arms(in) /\ (model.seen \/ (~Releases(in) /\ model.holding /\ in.level)))
  BY DEF Stepped
<1>7. May("holding", holding', n.holding)
  BY <1>2, <1>5, <1>6 DEF May, FlagsBeside, Of
<1>8. May("seen", seen', n.seen)
  BY <1>1, <1>2, <1>5, <1>6 DEF May, FlagsBeside, Of
<1> QED
  BY <1>3, <1>4, <1>7, <1>8

\* The machine stays beside the core for a cycle, with what the host does at its end,
\* unless they part in it.
LEMMA BesideStep ==
  ASSUME FetchInv, RestTypes, Beside(model), FlagsBeside, NEW in, Clock(in), Given(in),
         ~parted'
  PROVE  Beside(model)' /\ FlagsBeside'
<1> DEFINE n == Step(HostBefore(model, in), in)
           c == Cycled(model, in)
<1>1. in.level \in BOOLEAN
  BY FlagTypes DEF Given
<1>2. Stepped(in, n)
  BY <1>1, StepLands
<1>3. c = HostAfter(n, model, in)
  BY DEF Cycled
<1>4. Matching(in) /\ ~Parts(in) /\ model' = Alongside(in)
  BY DEF Clock, Matching
<1>5. start \in BOOLEAN /\ halted \in BOOLEAN /\ (start => halted /\ in.op = "none")
  BY DEF FetchInv, FetchTypes, StartFetched, Given
<1> DEFINE d == [c EXCEPT !.program = program']
<1>6. model' = IF start THEN Started(d) ELSE d
  BY <1>4 DEF Alongside
<1> HIDE DEF n, c
<1>7. /\ Keeps(n, c, {"halted", "tx"})
      /\ c.halted = (\/ Stops(in) \/ (Issue /\ Is("bad")) \/ (OpGo /\ IsSys("halt"))
                     \/ halted)
      /\ c.tx = tx'
  BY <1>2, <1>3, CycledFields
<1>8. PICK q : q = program'
  OBVIOUS
<1>9. d = [c EXCEPT !.program = q]
  BY <1>8
<1> HIDE DEF d
<1>10. Keeps(c, d, {"program"}) /\ d.program = q
  BY <1>7, <1>9 DEF IsMachine, Keeps, MachineFields
<1>11. /\ Keeps(n, d, {"halted", "tx", "program"})
       /\ d.halted = c.halted /\ d.tx = c.tx
  BY <1>7, <1>10 DEF Keeps, MachineFields
<1>12. config' = config /\ premises' = premises
  BY DEF Clock, loadVars
<1>13. n.fault = fault'
  <2>1. n.fault = fault \cup (Faulted(in) \ {"assumption"})
                        \cup (IF MachineOff(in) THEN {"assumption"} ELSE {})
    BY <1>2 DEF Stepped
  <2>2. n.fault = fault \cup Faulted(in)
    BY <1>4, <2>1, FaultsBeside
  <2> QED
    BY <2>2 DEF Clock, Issuing
<1>14. /\ d.program = program' /\ d.config = config' /\ d.premises = premises'
       /\ d.fault = fault' /\ d.irq = irq'
       /\ d.osr_count = osr_count' /\ d.isr_count = isr_count'
       /\ d.data_age \in 0 .. DataSettle /\ (d.data_age = 0 <=> Seeks \/ PullsData)
       /\ d.tx = tx' /\ d.rx = rx' /\ d.routed = pushed' /\ d.p = p'
       /\ d.level = pin' /\ d.capture_armed = capture_armed'
  BY <1>2, <1>7, <1>8, <1>10, <1>11, <1>12, <1>13 DEF Stepped, Keeps, MachineFields
<1>15. /\ IsMachine(d) /\ Went(in, n) /\ d.pc = n.pc /\ d.stall = n.stall
       /\ d.flip = (\/ OpGo /\ Bare("out", "pins") /\ config.manchester /\ word.count = 1
                    \/ ~Issue /\ flip_pending)
       /\ d.crc_sending = n.crc_sending /\ d.p_loaded = n.p_loaded
       /\ d.holding = n.holding /\ d.seen = n.seen
  BY <1>2, <1>11 DEF Stepped, Keeps, MachineFields
<1>16. PICK e : e = model'
  OBVIOUS
<1>17. Keeps(d, e, {"halted", "pc", "stall", "data_age", "flip"})
  <2>1. CASE start
    <3>1. e = IF ~d.halted THEN d
              ELSE [d EXCEPT !.halted = FALSE, !.pc = 0, !.stall = 0,
                             !.data_age = DataSettle, !.flip = FALSE]
      BY <1>6, <1>16, <2>1 DEF Started
    <3> QED
      BY <1>15, <3>1 DEF IsMachine, Keeps, MachineFields
  <2>2. CASE ~start
    BY <1>6, <1>15, <1>16, <2>2 DEF Keeps
  <2> QED
    BY <1>5, <2>1, <2>2
<1>18. /\ IsMachine(e)
       /\ e.program = program' /\ e.config = config' /\ e.premises = premises'
       /\ e.fault = fault' /\ e.irq = irq'
       /\ e.osr_count = osr_count' /\ e.isr_count = isr_count'
       /\ e.tx = tx' /\ e.rx = rx' /\ e.routed = pushed' /\ e.p = p'
       /\ e.level = pin' /\ e.capture_armed = capture_armed'
  BY <1>14, <1>17 DEF Keeps, MachineFields
<1>19. ASSUME start PROVE Beside(model)'
  <2>1. /\ pc' = 0 /\ stall' = 0 /\ halted' = FALSE /\ data_moved' = FALSE
        /\ flip_pending' = FALSE
    BY <1>5, <1>19 DEF Clock, Fetch, Issuing, Shifting
  <2>2. d.halted = TRUE
    BY <1>5, <1>7, <1>11, <1>19
  <2>3. e = [d EXCEPT !.halted = FALSE, !.pc = 0, !.stall = 0,
                      !.data_age = DataSettle, !.flip = FALSE]
    BY <1>6, <1>16, <1>19, <2>2 DEF Started
  <2>4. /\ Keeps(d, e, {"halted", "pc", "stall", "data_age", "flip"})
        /\ e.halted = FALSE /\ e.pc = 0 /\ e.stall = 0 /\ e.data_age = DataSettle
        /\ e.flip = FALSE
    BY <1>15, <2>3 DEF IsMachine, Keeps, MachineFields
  <2>5. e.data_age \in 0 .. DataSettle /\ (e.data_age = 0 <=> data_moved')
    BY <2>1, <2>4 DEF DataSettle
  <2> QED
    BY <1>16, <1>18, <2>1, <2>4, <2>5 DEF Beside
<1>20. ASSUME ~start PROVE Beside(model)'
  <2>1. e = d
    BY <1>6, <1>16, <1>20
  <2>2. halted' = (\/ Stops(in) \/ (Issue /\ Is("bad")) \/ (OpGo /\ IsSys("halt"))
                   \/ halted)
    BY <1>20 DEF Clock, Issuing
  <2>3. pc' = n.pc /\ stall' = n.stall
    BY <1>15, <1>20 DEF Clock, Fetch, Issuing, Went
  <2>4. /\ data_moved' <=> Seeks \/ PullsData
        /\ flip_pending' = (\/ /\ OpGo /\ Bare("out", "pins")
                               /\ config.manchester /\ word.count = 1
                            \/ ~Issue /\ flip_pending)
    BY <1>20 DEF Clock, Shifting
  <2>5. /\ e.halted = halted' /\ e.pc = pc' /\ e.stall = stall' /\ e.flip = flip_pending'
        /\ e.data_age \in 0 .. DataSettle /\ (e.data_age = 0 <=> data_moved')
    BY <1>7, <1>11, <1>14, <1>15, <2>1, <2>2, <2>3, <2>4
  <2> QED
    BY <1>16, <1>18, <2>5 DEF Beside
<1>21. FlagsBeside'
  <2>1. /\ e.crc_sending = n.crc_sending /\ e.p_loaded = n.p_loaded
        /\ e.holding = n.holding /\ e.seen = n.seen
    BY <1>15, <1>17 DEF Keeps, MachineFields
  <2>2. /\ May("crc_sending", crc_sending', e.crc_sending)
        /\ May("p_loaded", p_loaded', e.p_loaded)
        /\ May("holding", holding', e.holding)
        /\ May("seen", seen', e.seen)
    BY <1>2, <2>1, FlagsStep
  <2> QED
    BY <1>4, <1>16, <2>2, FlagsKept
<1> QED
  BY <1>19, <1>20, <1>21

\* The core's registers, by name.
LEMMA ViewFields ==
  /\ IsMachine(View) /\ DOMAIN View = MachineFields
  /\ View.program = program /\ View.config = config /\ View.premises = premises
  /\ View.pc = pc /\ View.stall = stall /\ View.halted = halted
  /\ View.irq = irq /\ View.fault = fault
  /\ View.osr_count = osr_count /\ View.isr_count = isr_count
  /\ View.data_age = (IF data_moved THEN 0 ELSE DataSettle)
  /\ View.tx = tx /\ View.rx = rx /\ View.routed = pushed
  /\ View.crc_sending = crc_sending /\ View.flip = flip_pending
  /\ View.p = p /\ View.p_loaded = p_loaded
  /\ View.level = pin /\ View.capture_armed = capture_armed
  /\ View.holding = holding /\ View.seen = seen
BY DEF View, IsMachine, MachineFields

\* The machine is beside the core at reset.
LEMMA BesideInit == Init => Beside(model) /\ FlagsBeside
<1> SUFFICES ASSUME Init PROVE Beside(model) /\ FlagsBeside
  OBVIOUS
<1>1. model = View /\ kept = {}
  BY DEF Init
<1>2. View.data_age \in 0 .. DataSettle /\ (View.data_age = 0 <=> data_moved)
  BY ViewFields DEF DataSettle
<1>3. Beside(model)
  BY <1>1, <1>2, ViewFields DEF Beside
<1>4. FlagsBeside
  BY <1>1, ViewFields, TypesInit DEF FlagsBeside, Of, RestTypes
<1> QED
  BY <1>3, <1>4

\* A machine beside the core has its registers, but for the flags it kept.
LEMMA BesideIsView ==
  ASSUME Beside(model), FlagsBeside, kept \subseteq Flags
  PROVE  Lockstep
<1> DEFINE m == [model EXCEPT !.data_age = IF @ = 0 THEN 0 ELSE DataSettle]
<1>1. IsMachine(model)
  BY DEF Beside
<1>2. /\ Keeps(model, m, {"data_age"})
      /\ m.data_age = (IF model.data_age = 0 THEN 0 ELSE DataSettle)
  BY <1>1 DEF IsMachine, Keeps, MachineFields
<1> HIDE DEF m
<1>3. m.data_age = View.data_age
  BY <1>2, ViewFields DEF Beside
<1>4. \A f \in MachineFields \ {"data_age"} : m[f] = model[f]
  BY <1>2 DEF Keeps
<1>5. \A f \in MachineFields \ (Flags \cup {"data_age"}) : model[f] = View[f]
  BY ViewFields DEF Beside, MachineFields, Flags
<1>6. \A f \in Flags : IF f \in kept THEN model[f] /\ ~View[f] ELSE model[f] = View[f]
  BY ViewFields DEF FlagsBeside, Of, Flags
<1>7. \A f \in DOMAIN View \ kept : m[f] = View[f]
  <2>1. Flags \subseteq MachineFields \ {"data_age"} /\ DOMAIN View = MachineFields
    BY ViewFields DEF Flags, MachineFields
  <2> QED
    BY <1>3, <1>4, <1>5, <1>6, <2>1
<1>8. \A f \in kept : model[f] /\ ~View[f]
  BY <1>6
<1> QED
  BY <1>7, <1>8 DEF m, Lockstep

\* The machine beside the core until they part.
LockstepInv == ~parted => Beside(model) /\ FlagsBeside

\* The core and the machine run in lockstep, whatever the program, the pins and the
\* host: the machine model, which has no fetch, no flight of words and no wires,
\* promises what the clocked core does (machine.mli; test_engine.ml compares them), but
\* for the flags it keeps over a start or a halt, and until it faults a premise by one.
THEOREM EngineLockstep == Spec => []Lockstep
<1>1. ASSUME FetchInv, TypeOK, LockstepInv, [Next]_vars PROVE LockstepInv'
  <2>1. RestTypes
    BY <1>1 DEF TypeOK, RestTypes
  <2>2. CASE Next
    <3>1. PICK in : Clock(in) /\ Given(in)
      BY <2>2, NextIsClock
    <3>2. parted' = (parted \/ Parts(in))
      BY <3>1 DEF Clock, Matching
    <3>3. ASSUME ~parted' PROVE Beside(model)' /\ FlagsBeside'
      <4>1. Beside(model) /\ FlagsBeside
        BY <1>1, <3>2, <3>3 DEF LockstepInv
      <4> QED
        BY <1>1, <2>1, <3>1, <3>3, <4>1, BesideStep
    <3> QED
      BY <3>3 DEF LockstepInv
  <2>3. CASE UNCHANGED vars
    BY <1>1, <2>3 DEF LockstepInv, Beside, FlagsBeside, Of, vars, loadVars, fetchVars,
                      issueVars, shiftVars, queueVars, periodVars, captureVars, historyVars
  <2> QED
    BY <1>1, <2>2, <2>3
<1>2. ASSUME Init PROVE LockstepInv
  BY <1>2, BesideInit DEF LockstepInv
<1>3. ASSUME TypeOK, LockstepInv PROVE Lockstep
  <2>1. CASE parted
    BY <2>1 DEF Lockstep
  <2>2. CASE ~parted
    BY <1>3, <2>2, BesideIsView DEF LockstepInv, TypeOK
  <2> QED
    BY <2>1, <2>2
<1> QED
  BY <1>1, <1>2, <1>3, EngineFetch, EngineTypes, PTL DEF Spec
=============================================================================
