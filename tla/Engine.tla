------------------------------- MODULE Engine -------------------------------
(***************************************************************************)
(* The engine core (src/engine.ml), a clock cycle at a time, with its two  *)
(* queues (src/host_fifo.ml): its fetch reads a word ahead of the one that *)
(* issues, its registers are clocked, and a word's parts are decided side  *)
(* by side.  The machine model runs beside it in lockstep.                 *)
(*                                                                         *)
(* The operators with a parameter are the wires of a cycle, in what it     *)
(* brings from outside; the primed variables are its registers.  Values    *)
(* are left out as in Machine, and the line coder, whose tables are data.  *)
(***************************************************************************)
EXTENDS Machine

CONSTANTS
  Words,    \* words the host may write
  Firmware  \* what the core may be loaded with, and what may happen around it

Strobes == {"start", "stop", "flush", "pop", "clear_irq", "program"}

Surroundings == Strobes \cup {"tx", "level", "route_full", "walk"}

ASSUME EngineAssumption ==
  /\ Words \subseteq Word
  /\ Firmware \subseteq [program : [Pcs -> Word], config : Config,
                         premises : Premises, around : SUBSET Surroundings]

VARIABLES
  program, config, premises,               \* what the host loaded
  around,                                  \* bound: what happens around the core
  pc, word, dout, refill,                  \* fetch
  start, halted, stall, irq, fault,        \* issue
  osr_count, isr_count, data_moved, crc_sending, flip_pending,
  tx, rx, pushed,                          \* queues, and a routed push's wire
  p, p_loaded,
  pin, capture_armed, capture, holding, seen,  \* the capture pin
  spaced,                                  \* no strobe in the last cycle
  edges, released,                         \* history of the capture pin
  model,                                   \* the machine beside the core
  kept, parted                             \* history of where the two differ

loadVars == <<config, premises, around>>
fetchVars == <<program, pc, word, dout, refill>>
issueVars == <<start, halted, stall, irq, fault>>
shiftVars == <<osr_count, isr_count, data_moved, crc_sending, flip_pending>>
queueVars == <<tx, rx, pushed>>
periodVars == <<p, p_loaded>>
captureVars == <<pin, capture_armed, capture, holding, seen>>
historyVars == <<spaced, edges, released, model, kept, parted>>
vars == <<loadVars, fetchVars, issueVars, shiftVars, queueVars, periodVars,
          captureVars, historyVars>>

NoWalk == -1

-----------------------------------------------------------------------------
(***************************************************************************)
(* Wires.                                                                  *)
(***************************************************************************)

faulted == fault # {}

\* Only a halted core sees a start, and no start runs a faulted one (engines.ml).
Starting(in) == in.op = "start" /\ ~faulted /\ halted

Stops(in) == in.op = "stop" \/ faulted

\* A halted core touches neither queue, so a flush never races the program.
Flushes(in) == in.op = "flush" /\ halted

ProgramWrite(in) == in.op = "program" /\ halted

Free(in) == halted /\ ~(in.op = "start" /\ ~faulted) /\ ~start

ProgramRead(in) == in.walk # NoWalk /\ Free(in)

Is(op) == word.op = op
IsSys(op) == Is("sys") /\ word.arg = op
Bare(op, arg) == Is(op) /\ word.arg = arg

Issue == ~halted /\ stall = 0 /\ ~start
Go == Issue /\ ~Is("bad")
JmpGo == Go /\ Is("jmp")
OpGo == Go /\ ~Is("jmp")

\* Mutant: a full queue refuses a push beside a pop.
RxFullThroughPop(in) == IF config.route THEN in.route_full ELSE rx = Depth

\* A push beside a pop at a full queue lands.
RxFull(in) ==
  IF config.route THEN in.route_full ELSE rx = Depth /\ in.op # "pop"

WaitReady(in) ==
  CASE word.arg = "captured_level" -> in.level
    [] word.arg = "captured_edge" -> in.level # pin /\ in.level
    [] word.arg = "tx_not_empty" -> tx # 0
    [] word.arg = "rx_not_full" -> ~RxFull(in)
    [] OTHER -> in.chance # "no"

JmpTaken(in) ==
  CASE word.arg = "always" -> TRUE
    [] word.arg = "data" -> in.chance = "yes"
    [] word.arg = "osr_not_empty" -> osr_count < config.pull_threshold
    [] word.arg = "tx_not_empty" -> tx # 0
    [] word.arg = "tx_empty" -> tx = 0
    [] word.arg = "rx_not_full" -> ~RxFull(in)
    [] word.arg = "rx_full" -> RxFull(in)

Advance(in) == OpGo /\ ~(Is("wait") /\ ~WaitReady(in))

ReleasesDeadline(in) ==
  Is("wait") /\ word.arg \in {"deadline", "advance"} /\ WaitReady(in)

AutopushNow ==
  config.autopush /\ Saturate(isr_count + word.count) >= config.push_threshold
PullNow == config.autopull /\ osr_count >= config.pull_threshold
PullData == PullNow /\ config.autopull_data
PullFifo == PullNow /\ ~config.autopull_data

Pushes == (Is("in") /\ AutopushNow) \/ IsSys("push")
Pulls == IsSys("pull")
TxPop == OpGo /\ tx # 0 /\ ((Is("out") /\ PullFifo) \/ Pulls)
TxFull == tx = Depth /\ ~TxPop

\* Mutant: a pop of an empty queue is not ignored.
PopsEmpty(in) == in.op = "pop"

Pops(in) == in.op = "pop" /\ rx # 0

Seeks == OpGo /\ IsSys("seek")
PullsData == OpGo /\ Is("out") /\ PullData /\ ~data_moved

Arms(in) == Advance(in) /\ IsSys("capture_arm")

Captured(in) == capture_armed /\ in.level # pin /\ in.level

Releases(in) ==
  /\ Advance(in) /\ premises.single_edge
  /\ Is("wait") /\ word.arg \in {"captured_level", "captured_edge"}

UsesP(in) ==
  Advance(in) /\ (Bare("wait", "advance") \/ Bare("alu", "add_p"))

PeriodOff(in) == UsesP(in) /\ p_loaded /\ premises.period /\ ~p

\* No edge before the arm, and one after it.
EdgeOff(in) ==
  /\ premises.single_edge
  /\ \/ Arms(in) /\ in.level
     \/ holding /\ seen /\ ~in.level

-----------------------------------------------------------------------------
(***************************************************************************)
(* Fetch: the memory reads one address ahead of word, the word at pc.      *)
(***************************************************************************)

After(a) == IF a = config.wrap_top THEN config.wrap_bottom ELSE (a + 1) % Size

JmpTargetOrNext(in) == IF JmpTaken(in) THEN word.target ELSE After(pc)

\* Mutant: a wait that holds reads on.
PcAfterNextThroughWaits(in) ==
  IF start THEN After(0) ELSE IF OpGo THEN After(After(pc)) ELSE After(pc)

PcAfterNext(in) ==
  IF start THEN After(0) ELSE IF Advance(in) THEN After(After(pc)) ELSE After(pc)

FetchAddr(in) ==
  IF Starting(in) THEN 0 ELSE IF JmpGo THEN JmpTargetOrNext(in) ELSE PcAfterNext(in)

\* A write shows in its own cycle's read.
Fetch(in) ==
  /\ program' = IF ProgramWrite(in) THEN [program EXCEPT ![in.at] = in.word] ELSE program
  /\ dout' = IF ProgramWrite(in) THEN in.word
             ELSE IF ProgramRead(in) THEN program[in.walk]
             ELSE program[FetchAddr(in)]
  /\ word' = IF Advance(in) \/ refill THEN dout ELSE word
  /\ refill' = (JmpGo \/ Starting(in))
  /\ pc' = IF start THEN 0
           ELSE IF JmpGo THEN JmpTargetOrNext(in)
           ELSE IF Advance(in) THEN After(pc) ELSE pc

-----------------------------------------------------------------------------
(***************************************************************************)
(* The other registers.                                                    *)
(***************************************************************************)

Faulted(in) ==
  {kind \in FaultKinds :
    CASE kind = "underflow" ->
           OpGo /\ \/ Is("out") /\ PullFifo /\ tx = 0
                   \/ Is("out") /\ PullData /\ data_moved
                   \/ Pulls /\ tx = 0
      [] kind = "overflow" -> OpGo /\ Pushes /\ RxFull(in)
      [] kind = "missed_deadline" ->
           OpGo /\ ReleasesDeadline(in) /\ in.chance = "late"
      [] kind = "decode" -> Issue /\ Is("bad")
      [] kind = "assumption" -> PeriodOff(in) \/ EdgeOff(in)}

\* A start takes a cycle and overrides a stop.
Issuing(in) ==
  /\ start' = Starting(in)
  /\ halted' = (~start /\ (Stops(in) \/ (Issue /\ Is("bad")) \/ (OpGo /\ IsSys("halt"))
                           \/ halted))
  /\ stall' = IF start THEN 0
              ELSE IF JmpGo THEN JmpCycles - 1
              ELSE IF Advance(in) THEN word.delay
              ELSE IF stall # 0 THEN stall - 1 ELSE stall
  /\ irq' = ((OpGo /\ IsSys("irq")) \/ (in.op # "clear_irq" /\ irq))
  /\ fault' = fault \cup Faulted(in)

Shifting(in) ==
  /\ osr_count' =
       IF ~Go THEN osr_count
       ELSE IF Is("out") THEN Saturate((IF PullNow THEN 0 ELSE osr_count) + word.count)
       ELSE IF Bare("mov", "osr") \/ Pulls THEN 0
       ELSE osr_count
  /\ isr_count' =
       IF ~Go THEN isr_count
       ELSE IF Is("in") THEN IF AutopushNow THEN 0 ELSE Saturate(isr_count + word.count)
       ELSE IF Bare("out", "isr") THEN word.count
       ELSE IF Bare("mov", "isr") \/ IsSys("push") THEN 0
       ELSE isr_count
  /\ data_moved' = (~start /\ (Seeks \/ PullsData))
  /\ crc_sending' = (~start /\ ~(OpGo /\ IsSys("crc_init"))
                            /\ ((OpGo /\ IsSys("crc_send")) \/ crc_sending))
  /\ flip_pending' =
       (~start /\ \/ OpGo /\ Bare("out", "pins") /\ config.manchester /\ word.count = 1
                  \/ ~Issue /\ flip_pending)

Queues(in) ==
  LET lands == OpGo /\ Pushes /\ ~RxFull(in)
      Level(n, push, pop) == n + (IF push THEN 1 ELSE 0) - (IF pop THEN 1 ELSE 0)
  IN  /\ tx' = IF Flushes(in) THEN 0 ELSE Level(tx, in.tx /\ ~TxFull, TxPop)
      /\ rx' = IF Flushes(in) THEN 0
               ELSE Level(rx, lands /\ ~config.route, Pops(in))
      /\ pushed' = (lands /\ config.route)

Periods(in) ==
  LET writes == word.op \in {"mov", "out", "alu"} /\ word.arg = "p"
      sets == Bare("set", "p")
  IN  /\ p' = IF Go /\ (writes \/ sets) THEN in.chance = "yes" ELSE p
      /\ p_loaded' = (~start /\ ~(Advance(in) /\ sets)
                             /\ ((Advance(in) /\ writes) \/ p_loaded))

\* The guard is cleared only while halted.
Capturing(in) ==
  /\ pin' = in.level
  /\ capture_armed' = (~Captured(in) /\ ((OpGo /\ IsSys("capture_arm")) \/ capture_armed))
  /\ holding' = (~halted /\ (Arms(in) \/ (~Releases(in) /\ holding)))
  /\ seen' = (~halted /\ ~Arms(in) /\ (seen \/ (~Releases(in) /\ holding /\ in.level)))

\* Mutant: an edge that ends its wait is not captured.
RememberingBesideNoRelease(in) ==
  LET edge == in.level /\ ~pin
      count == IF edge /\ edges < 2 THEN edges + 1 ELSE edges
  IN  /\ edges' = IF Arms(in) THEN 0 ELSE count
      /\ capture' = IF Arms(in) THEN 0
                    ELSE IF Captured(in) /\ ~Releases(in) THEN count ELSE capture
      /\ released' = (Releases(in) /\ holding)

(***************************************************************************)
(* edges counts the pin's edges to the captured level since the last arm,  *)
(* up to 2, and capture is the number of the one whose time the capture    *)
(* register holds, 0 for one before the arm.  released marks a wait's      *)
(* release of a held arm.                                                  *)
(***************************************************************************)
Remembering(in) ==
  LET edge == in.level /\ ~pin
      count == IF edge /\ edges < 2 THEN edges + 1 ELSE edges
  IN  /\ edges' = IF Arms(in) THEN 0 ELSE count
      /\ capture' = IF Arms(in) THEN 0 ELSE IF Captured(in) THEN count ELSE capture
      /\ released' = (Releases(in) /\ holding)

-----------------------------------------------------------------------------
(***************************************************************************)
(* The machine beside the core.                                            *)
(***************************************************************************)

\* The core's registers as the machine has them.
View ==
  [program |-> program, config |-> config, premises |-> premises,
   pc |-> pc, stall |-> stall, halted |-> halted, irq |-> irq, fault |-> fault,
   osr_count |-> osr_count, isr_count |-> isr_count,
   data_age |-> IF data_moved THEN 0 ELSE DataSettle,
   tx |-> tx, rx |-> rx, routed |-> pushed,
   crc_sending |-> crc_sending, flip |-> flip_pending,
   p |-> p, p_loaded |-> p_loaded,
   level |-> pin, capture_armed |-> capture_armed, holding |-> holding, seen |-> seen]

\* The machine's cycle, with the program memory that it shares, and its start a cycle
\* after the pulse.
Alongside(in) ==
  LET m == [Cycled(model, in) EXCEPT !.program = program']
  IN  IF start THEN Started(m) ELSE m

Flags == {"crc_sending", "p_loaded", "holding", "seen"}

Differing == {f \in Flags : model[f] # View[f]}

\* What the core clears and Machine.start, or a halted Machine.step, does not; and a
\* guard the machine keeps goes on watching.
MayKeep ==
  UNION {IF start THEN {"crc_sending", "p_loaded"} ELSE {},
         IF halted THEN {"holding", "seen"} ELSE {},
         IF "holding" \in kept THEN {"seen"} ELSE {}}

\* A flag it kept makes the machine fault a premise, and the core does not.
Parts(in) ==
  /\ ~PeriodOff(in) /\ ~EdgeOff(in) /\ "assumption" \notin fault
  /\ \/ "p_loaded" \in kept /\ UsesP(in) /\ premises.period /\ ~p
     \/ /\ {"holding", "seen"} \cap kept # {}
        /\ premises.single_edge /\ model.holding /\ model.seen /\ ~in.level

(***************************************************************************)
(* kept is the flags the machine has kept where the core has not, and      *)
(* parted that one of them has made the two fault apart: the lockstep test *)
(* ends there, and the machine is left as it was.                          *)
(***************************************************************************)
Matching(in) ==
  /\ parted' = (parted \/ Parts(in))
  /\ model' = IF parted' THEN model ELSE Alongside(in)
  /\ kept' = IF parted' THEN kept ELSE Differing' \cap (kept \cup MayKeep)

-----------------------------------------------------------------------------
(***************************************************************************)
(* A cycle of the core.  The host's strobes are at least a cycle apart     *)
(* (formal/host_spacing.sv); a word for the tx queue may also come from    *)
(* the engine before this one.                                             *)
(***************************************************************************)

ZeroWord == [op |-> "jmp", arg |-> "always", count |-> 1, delay |-> 0, target |-> 0]

Around(what, choices, still) == IF what \in around THEN choices ELSE still

Chances ==
  CASE Issue /\ Is("wait") /\ word.arg \in {"deadline", "advance"} -> {"no", "yes", "late"}
    [] Issue /\ <<word.op, word.arg>> \in {"jmp", "wait", "out", "mov", "set", "alu"}
                                         \X {"data", "pin", "p"} -> {"no", "yes"}
    [] OTHER -> {"no"}

Surrounded(op, at, w) ==
  [op : {op}, at : {at}, word : {w}, chance : Chances,
   level : Around("level", BOOLEAN, {pin}),
   tx : Around("tx", BOOLEAN, {FALSE}),
   route_full : Around("route_full", BOOLEAN, {FALSE}),
   walk : IF halted THEN Around("walk", Pcs \cup {NoWalk}, {NoWalk}) ELSE {NoWalk}]

Clock(in) ==
  /\ Fetch(in) /\ Issuing(in) /\ Shifting(in) /\ Queues(in) /\ Periods(in)
  /\ Capturing(in) /\ Remembering(in)
  /\ UNCHANGED loadVars
  /\ Matching(in)
  /\ spaced' = (in.op = "none")

Cycle(op, at, w) == \E in \in Surrounded(op, at, w) : Clock(in)

Quiet == Cycle("none", 0, ZeroWord)

Strobe(op) == spaced /\ op \in around /\ Cycle(op, 0, ZeroWord)

WriteProgram ==
  /\ spaced /\ "program" \in around
  /\ \E at \in Pcs, w \in Words : Cycle("program", at, w)

Init ==
  /\ \E f \in Firmware :
       /\ program = f.program /\ config = f.config
       /\ premises = f.premises /\ around = f.around
  /\ pc = 0 /\ word = ZeroWord /\ dout \in {program[a] : a \in Pcs} /\ refill = FALSE
  /\ start = FALSE /\ halted = TRUE /\ stall = 0 /\ irq = FALSE /\ fault = {}
  /\ osr_count = DataBits /\ isr_count = 0
  /\ data_moved = FALSE /\ crc_sending = FALSE /\ flip_pending = FALSE
  /\ tx = 0 /\ rx = 0 /\ pushed = FALSE
  /\ p = FALSE /\ p_loaded = FALSE
  /\ pin \in BOOLEAN /\ capture_armed = FALSE /\ capture = 0
  /\ holding = FALSE /\ seen = FALSE
  /\ spaced = TRUE /\ edges = 0 /\ released = FALSE
  /\ model = View /\ kept = {} /\ parted = FALSE

Next ==
  \/ Quiet
  \/ Strobe("start") \/ Strobe("stop") \/ Strobe("flush")
  \/ Strobe("pop") \/ Strobe("clear_irq")
  \/ WriteProgram

\* The clock does not stop.
Spec == Init /\ [][Next]_vars /\ WF_vars(Next)

-----------------------------------------------------------------------------
(***************************************************************************)
(* Properties.                                                             *)
(***************************************************************************)

TypeOK ==
  /\ program \in [Pcs -> Word]
  /\ pc \in Pcs /\ word \in Word /\ dout \in Word /\ refill \in BOOLEAN
  /\ start \in BOOLEAN /\ halted \in BOOLEAN /\ stall \in Nat
  /\ irq \in BOOLEAN /\ fault \subseteq FaultKinds
  /\ osr_count \in 0 .. DataBits /\ isr_count \in 0 .. DataBits
  /\ data_moved \in BOOLEAN /\ crc_sending \in BOOLEAN /\ flip_pending \in BOOLEAN
  /\ tx \in 0 .. Depth /\ rx \in 0 .. Depth /\ pushed \in BOOLEAN
  /\ p \in BOOLEAN /\ p_loaded \in BOOLEAN
  /\ pin \in BOOLEAN /\ capture_armed \in BOOLEAN
  /\ capture \in 0 .. 2 /\ edges \in 0 .. 2
  /\ holding \in BOOLEAN /\ seen \in BOOLEAN
  /\ spaced \in BOOLEAN /\ released \in BOOLEAN
  /\ kept \subseteq Flags /\ parted \in BOOLEAN

\* The word that issues is the program's at pc, across jumps, waits, delays,
\* wraps, starts, and the host's writes and the checker's reads before them
\* (engine.ml: word, fetch_addr, ir_load).
IssuesItsWord == Issue => word = program[pc]

\* After every cycle the core is where the machine model is (machine.mli: the hardware
\* tests compare against it), but for the flags that the machine has kept over a start or
\* a halt and the core has not, until one of those makes it fault a premise the core does
\* not fault.
Lockstep ==
  ~parted =>
    LET same == [model EXCEPT !.data_age = IF @ = 0 THEN 0 ELSE DataSettle]
    IN  /\ \A f \in kept : model[f] /\ ~View[f]
        /\ \A f \in DOMAIN View \ kept : same[f] = View[f]

\* When a wait for the captured edge releases and no premise has failed, the
\* capture register holds that edge's time, the only one since the arm, which
\* is what the kernel takes it for (engine.ml: armed_at_level, second_edge).
ReleasedOnItsEdge ==
  released /\ "assumption" \notin fault => edges = 1 /\ capture = 1
=============================================================================
