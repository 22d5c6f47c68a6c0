-------------------------------- MODULE Gate --------------------------------
(***************************************************************************)
(* The start gate of Engines.create (src/engines.ml): one load checker     *)
(* walks the program memory of the engines in turn, and an engine starts   *)
(* only while it is certified.  One step of the model is one clock cycle:  *)
(* the operators with a parameter are the wires of that cycle and the      *)
(* primed variables are its registers.                                     *)
(*                                                                         *)
(* What a word says is left out.  A walk may accept or reject at any time; *)
(* what matters here is what may have changed under it.  calm, used and    *)
(* vouched are history variables: no guard reads them.                     *)
(***************************************************************************)
EXTENDS Integers, FiniteSets

CONSTANTS
  N,           \* engines on the chip
  TurnCycles,  \* cycles of an engine's turn at the checker (2^16 on the chip)
  Words,       \* data words from the checked base that a walk may read
  Setups,      \* settings a check may be asked with: period, floor, single edge
  NoSetup,     \* no setting
  HostOps,     \* host registers the host writes
  ControlWords, \* the sets of bits a control word may carry
  Hazards      \* whether engines may fault

ASSUME GateAssumption ==
  /\ N \in Nat \ {0}
  /\ TurnCycles \in Nat \ {0, 1}
  /\ Words \in Nat \ {0}
  /\ Setups # {}
  /\ NoSetup \notin Setups
  /\ HostOps \subseteq {"control", "program", "config", "line", "data",
                        "setup", "frame"}
  /\ ControlWords \subseteq SUBSET {"start", "stop", "check", "start_all"}
  /\ Hazards \in BOOLEAN

Engines == 0 .. N - 1
Offsets == 0 .. Words - 1
NoRead == -1

VARIABLES
  turn_cycle, chosen, waiting, checked, certified, premises, refused, verdict,
  checking, walk_setup, read_at, span, finished, accepted,     \* Load_checker
  turn,                                                        \* Data_memory
  halted, start, faulted, holding,                             \* Engine
  setup, frame_owner, spaced,                                  \* Host_port
  calm, used, vouched                                          \* history

turnVars == <<turn_cycle, chosen, turn>>
gateVars == <<waiting, checked, certified, premises, refused, verdict>>
walkVars == <<checking, walk_setup, read_at, span, finished, accepted>>
coreVars == <<halted, start, faulted, holding>>
hostVars == <<setup, frame_owner, spaced>>
historyVars == <<calm, used, vouched>>
vars == <<turnVars, gateVars, walkVars, coreVars, hostVars, historyVars>>

-----------------------------------------------------------------------------
(***************************************************************************)
(* Wires.                                                                  *)
(***************************************************************************)

Bit(in, n, b) == in.op = "control" /\ in.n = n /\ b \in in.bits

Mine(n) == checking /\ checked = n

TurnEnds == N > 1 /\ turn_cycle = TurnCycles - 1

\* One engine alone is served whenever the checker is idle; several each at the
\* start of their turn.
TurnStarts == IF N = 1 THEN ~checking ELSE turn_cycle = 0

\* Mutant: a check between its engine's turns is forgotten.
AsksNotWaiting(in, n) == Bit(in, n, "check") /\ halted[n]

\* A check is heard only while its engine is halted, and an unserved one waits.
Asks(in, n) == (Bit(in, n, "check") \/ waiting[n]) /\ halted[n]

Go(in) == TurnStarts /\ Asks(in, chosen)

ChecksBegin(in, n) == Go(in) /\ chosen = n

\* Mutant: a line table write keeps the certificate.
RewritesButLine(in, n) ==
  in.n = n /\ (in.op = "program" \/ (in.op = "config" /\ halted[n]))

\* program_write.valid, config_written and line_write.valid.  Host_port raises
\* config_written only for a halted engine.
Rewrites(in, n) ==
  /\ in.n = n
  /\ \/ in.op \in {"program", "line"}
     \/ in.op = "config" /\ halted[n]

\* Mutant: starting every engine asks for no certificates.
AllReadyUnchecked == \A n \in Engines : halted[n] /\ ~faulted[n]

AllReady == \A n \in Engines : halted[n] /\ certified[n] /\ ~faulted[n]

StartAll(in) == in.op = "control" /\ "start_all" \in in.bits

\* Mutant: a fault does not gate the start.
StartsFaulted(in, n) ==
  \/ Bit(in, n, "start") /\ certified[n]
  \/ StartAll(in) /\ AllReady

\* i.start of engine n: certified or with every engine, and never once faulted.
Starts(in, n) ==
  /\ \/ Bit(in, n, "start") /\ certified[n]
     \/ StartAll(in) /\ AllReady
  /\ ~faulted[n]

Free(in, n) == halted[n] /\ ~Starts(in, n) /\ ~start[n]

Lent(in, n) == Mine(n) /\ Free(in, n)

\* A host data word lands with every engine halted and no other engine walked.
HostWrites(in) ==
  /\ in.op = "data"
  /\ \A n \in Engines : halted[n]
  /\ \A n \in Engines \ {in.n} : ~Mine(n)

FrameMayLand(in) == ~HostWrites(in) /\ turn = frame_owner

FrameCouldWrite(in, frame) == frame.ready /\ FrameMayLand(in)

FrameWrites(in, frame) ==
  FrameCouldWrite(in, frame) /\ (Free(in, frame_owner) \/ frame.spared)

\* The word, if any, that lands in the data memory this cycle.
Lands(in, frame, a) ==
  \/ HostWrites(in) /\ in.at = a
  \/ FrameWrites(in, frame) /\ frame.at = a

\* Mutant: a walk outlives its turn.
AbortPastTurn(in, frame) ==
  /\ checking
  /\ \/ Rewrites(in, checked)
     \/ FrameCouldWrite(in, frame) /\ frame_owner = checked
     \/ HostWrites(in)
     \/ ~Lent(in, checked)

\* Mutant: only a word that lands ends its owner's walk, read or not.
AbortButFrames(in, frame) ==
  /\ checking
  /\ \/ Rewrites(in, checked)
     \/ HostWrites(in)
     \/ ~Lent(in, checked)
     \/ TurnEnds

\* The walked engine is rewritten, one of its own receivers' words could land,
\* a host data word lands, it leaves free, or its turn ends.
Abort(in, frame) ==
  /\ checking
  /\ \/ Rewrites(in, checked)
     \/ FrameCouldWrite(in, frame) /\ frame_owner = checked
     \/ HostWrites(in)
     \/ ~Lent(in, checked)
     \/ TurnEnds

\* A word lands below how far the walk has read.
Overwritten(in, frame) ==
  checking /\ \E a \in Offsets : Lands(in, frame, a) /\ a < span

Stopped(in, frame) == Abort(in, frame) \/ Overwritten(in, frame)

Accepts == finished /\ accepted

-----------------------------------------------------------------------------
(***************************************************************************)
(* Registers, each with the value the clock edge gives it.                 *)
(***************************************************************************)

Init ==
  /\ turn_cycle = 0 /\ chosen = 0 /\ turn = 0
  /\ waiting = [n \in Engines |-> FALSE]
  /\ checked = 0
  /\ certified = [n \in Engines |-> FALSE]
  /\ premises = [n \in Engines |-> NoSetup]
  /\ refused = [n \in Engines |-> FALSE]
  /\ verdict = [n \in Engines |-> FALSE]
  /\ checking = FALSE /\ walk_setup = NoSetup /\ read_at = NoRead /\ span = 0
  /\ finished = FALSE /\ accepted = FALSE
  /\ halted = [n \in Engines |-> TRUE]
  /\ start = [n \in Engines |-> FALSE]
  /\ faulted = [n \in Engines |-> FALSE]
  /\ holding = [n \in Engines |-> FALSE]
  /\ setup \in Setups
  /\ frame_owner = 0
  /\ spaced = TRUE
  /\ calm = TRUE /\ used = {}
  /\ vouched = [n \in Engines |-> NoSetup]

\* Mutant: wraps one late.
AdvanceLate(c, last) == IF c > last THEN 0 ELSE c + 1

\* A counter that wraps after its last value.
Advance(c, last) == IF c = last THEN 0 ELSE c + 1

\* One engine has no turns at the checker, so its count is left out.
Turns ==
  /\ turn_cycle' = IF N = 1 THEN 0 ELSE Advance(turn_cycle, TurnCycles - 1)
  /\ chosen' = IF TurnEnds THEN Advance(chosen, N - 1) ELSE chosen
  /\ turn' = Advance(turn, N - 1)

\* Mutant: the next check leaves the last certificate standing.
CertifiedThroughCheck(in, n) ==
  /\ ~Rewrites(in, n)
  /\ certified[n] \/ (Accepts /\ checked = n)

\* A start counts from an accepted walk to the next write or check.
Certified(in, n) ==
  /\ ~Rewrites(in, n)
  /\ ~ChecksBegin(in, n)
  /\ certified[n] \/ (Accepts /\ checked = n)

Certificates(in) ==
  /\ waiting' = [n \in Engines |-> Asks(in, n) /\ ~ChecksBegin(in, n)]
  /\ checked' = IF Go(in) THEN chosen ELSE checked
  /\ certified' = [n \in Engines |-> Certified(in, n)]
  /\ premises' = [n \in Engines |->
       IF ChecksBegin(in, n) THEN setup ELSE premises[n]]
  /\ refused' = [n \in Engines |->
       /\ ~ChecksBegin(in, n)
       /\ \/ refused[n]
          \/ (Bit(in, n, "start") \/ StartAll(in)) /\ ~certified[n]]
  /\ verdict' = [n \in Engines |->
       IF finished /\ checked = n THEN accepted ELSE verdict[n]]

\* The walk begins, ends or reads on.  How far it has read is counted a cycle
\* after the read's address goes out, as the address is a register.
Walk(in, frame, move) ==
  /\ span' = IF ~checking THEN 0
             ELSE IF read_at + 1 > span THEN read_at + 1 ELSE span
  /\ walk_setup' = IF Go(in) /\ ~checking THEN setup ELSE walk_setup
  /\ IF checking
     THEN LET ends == Stopped(in, frame) \/ move.does # "work"
          IN  /\ checking' = ~ends
              /\ finished' = ends
              /\ accepted' = (move.does = "accept" /\ ~Stopped(in, frame))
              /\ read_at' = IF ends THEN NoRead ELSE move.read
     ELSE /\ checking' = Go(in)
          /\ finished' = FALSE
          /\ accepted' = (accepted /\ ~Go(in))
          /\ read_at' = NoRead

\* A start takes a cycle and overrides a stop; a fault stops its engine.  The
\* single-edge guard may fault an engine in its first halted cycle.
Run(in, core) ==
  /\ start' = [n \in Engines |-> Starts(in, n) /\ halted[n]]
  /\ halted' = [n \in Engines |->
       /\ ~start[n]
       /\ halted[n] \/ Bit(in, n, "stop") \/ faulted[n] \/ n \in core.halts]
  /\ faulted' = [n \in Engines |-> faulted[n] \/ n \in core.faults]
  /\ holding' = [n \in Engines |-> ~halted[n] /\ n \in core.holds]

Running == {n \in Engines : ~halted[n]}

\* A running engine may halt, fault or arm its guard.
CoreChoices ==
  [halts : SUBSET Running,
   faults : SUBSET (IF Hazards THEN Running \cup {n \in Engines : holding[n]}
                    ELSE {}),
   holds : SUBSET (IF Hazards THEN Running ELSE {})]

(***************************************************************************)
(* calm: the walk's engine stayed free, and nothing it stands on was       *)
(* written or displaced: neither the engine's program, configuration or    *)
(* line table, nor a read of its data turn, nor a word it had read (used). *)
(* vouched: the setting under which a calm walk accepted engine n's        *)
(* program, configuration and line table as they now are.                  *)
(***************************************************************************)
Changes(in, n) ==
  in.n = n /\ in.op \in {"program", "config", "line"} /\ halted[n]

Disturbs(in, frame) ==
  \/ ~Free(in, checked)
  \/ Changes(in, checked)
  \/ \E a \in Offsets : Lands(in, frame, a) /\ (turn = checked \/ a \in used)

History(in, frame) ==
  /\ calm' = IF checking THEN calm /\ ~Disturbs(in, frame)
             ELSE calm \/ Go(in)
  /\ used' = IF checking /\ checking' THEN used \cup ({read_at} \ {NoRead}) ELSE {}
  /\ vouched' = [n \in Engines |->
       IF Changes(in, n) THEN NoSetup
       ELSE IF Accepts /\ checked = n /\ calm THEN walk_setup
       ELSE vouched[n]]

-----------------------------------------------------------------------------
(***************************************************************************)
(* A cycle of the chip under the host's strobes.  Two strobes are at least *)
(* a cycle apart (formal/host_spacing.sv).                                 *)
(***************************************************************************)

CycleWith(in, frame, core, move) ==
  /\ Turns
  /\ Certificates(in)
  /\ Walk(in, frame, move)
  /\ Run(in, core)
  /\ History(in, frame)

Quietly == [op |-> "none", n |-> 0, bits |-> {}, at |-> 0]

\* A frame word, or a move of the walk, that nothing reads is left at one value.
NoFrame == [ready |-> FALSE, at |-> 0, spared |-> FALSE]

FrameChoices ==
  IF checking /\ turn = frame_owner
  THEN [ready: {TRUE}, at: Offsets, spared: BOOLEAN] \cup {NoFrame}
  ELSE {NoFrame}

MoveChoices ==
  IF checking
  THEN [does: {"work"}, read: Offsets \cup {NoRead}]
         \cup [does: {"accept", "reject"}, read: {NoRead}]
  ELSE {[does |-> "work", read |-> NoRead]}

Cycle(in) ==
  /\ spaced' = (in.op = "none")
  /\ \E frame \in FrameChoices, core \in CoreChoices, move \in MoveChoices :
       CycleWith(in, frame, core, move)

Strobe(op) == spaced /\ op \in HostOps

\* No strobe reaches the engines.
Quiet == Cycle(Quietly) /\ UNCHANGED <<setup, frame_owner>>

\* The control register: start, stop and check of the selected engine, and
\* start_all, in any combination.
ControlWrite ==
  /\ Strobe("control")
  /\ \E n \in Engines, bits \in ControlWords :
       Cycle([op |-> "control", n |-> n, bits |-> bits, at |-> 0])
  /\ UNCHANGED <<setup, frame_owner>>

\* A program word, a configuration register or a line table word of engine n.
ImageWrite(op) ==
  /\ Strobe(op)
  /\ \E n \in Engines : Cycle([op |-> op, n |-> n, bits |-> {}, at |-> 0])
  /\ UNCHANGED <<setup, frame_owner>>

\* A data word.
DataWrite ==
  /\ Strobe("data")
  /\ \E n \in Engines, a \in Offsets :
       Cycle([op |-> "data", n |-> n, bits |-> {}, at |-> a])
  /\ UNCHANGED <<setup, frame_owner>>

\* The settings of the next check.
SetupWrite ==
  /\ Strobe("setup")
  /\ Cycle([Quietly EXCEPT !.op = "setup"])
  /\ setup' \in Setups
  /\ UNCHANGED frame_owner

\* frame_control: the engine the receivers belong to.
FrameControlWrite ==
  /\ Strobe("frame")
  /\ Cycle([Quietly EXCEPT !.op = "frame"])
  /\ frame_owner' \in Engines
  /\ UNCHANGED setup

Next ==
  \/ Quiet
  \/ ControlWrite
  \/ ImageWrite("program")
  \/ ImageWrite("config")
  \/ ImageWrite("line")
  \/ DataWrite
  \/ SetupWrite
  \/ FrameControlWrite

\* The clock does not stop.
Spec == Init /\ [][Next]_vars /\ WF_vars(Next)

-----------------------------------------------------------------------------
(***************************************************************************)
(* Properties.                                                             *)
(***************************************************************************)

TypeOK ==
  /\ turn_cycle \in 0 .. TurnCycles - 1
  /\ chosen \in Engines /\ turn \in Engines /\ checked \in Engines
  /\ waiting \in [Engines -> BOOLEAN]
  /\ certified \in [Engines -> BOOLEAN]
  /\ premises \in [Engines -> Setups \cup {NoSetup}]
  /\ refused \in [Engines -> BOOLEAN]
  /\ verdict \in [Engines -> BOOLEAN]
  /\ checking \in BOOLEAN /\ finished \in BOOLEAN /\ accepted \in BOOLEAN
  /\ walk_setup \in Setups \cup {NoSetup}
  /\ read_at \in Offsets \cup {NoRead}
  /\ span \in 0 .. Words
  /\ halted \in [Engines -> BOOLEAN]
  /\ start \in [Engines -> BOOLEAN]
  /\ faulted \in [Engines -> BOOLEAN]
  /\ holding \in [Engines -> BOOLEAN]
  /\ setup \in Setups
  /\ frame_owner \in Engines
  /\ spaced \in BOOLEAN
  /\ calm \in BOOLEAN
  /\ used \subseteq Offsets
  /\ vouched \in [Engines -> Setups \cup {NoSetup}]

\* An engine that starts or runs does so on a program, configuration and line
\* table that a walk accepted with nothing disturbing it, and that have not
\* changed since (engines.ml: certified, abort, lent; engine.ml: starting).
RunsOnlyVouched ==
  \A n \in Engines : start[n] \/ ~halted[n] => vouched[n] # NoSetup

\* While engine n is certified its core watches the premises of the walk that
\* vouches for what it holds (engines.ml: premises beside certified).
CertifiedIsVouched ==
  \A n \in Engines :
    certified[n] => vouched[n] # NoSetup /\ vouched[n] = premises[n]

\* The checker walks an engine only in that engine's turn and is idle when a
\* turn opens, so the check it is then handed is never lost (turn_ends, abort).
TurnsKept ==
  /\ checking => checked = chosen
  /\ TurnStarts => ~checking

\* The host never reads a rejection beside a certificate: a certified engine's
\* last kept verdict is an acceptance (verdicts and certified, engines.ml).
VerdictStands == \A n \in Engines : certified[n] => verdict[n]

\* The word the walk has read is the word memory holds: any landing on a word
\* it used, or in its engine's data turn, ends the walk (abort, span).
WalkUndisturbed == checking \/ Accepts => calm

\* Every check an engine waits for gets a verdict, unless the engine is started
\* meanwhile, whatever the other engine and its host do (waiting, turn_ends).
WaitEnds ==
  \A n \in Engines : waiting[n] ~> (finished /\ checked = n) \/ ~halted[n]

\* A faulted engine halts and no start runs it again (engines.ml: starts, stop).
FaultStaysDown ==
  \A n \in Engines : faulted[n] ~> [](halted[n] /\ ~start[n])

\* engines.mli: an engine "watches the premises that check took", the check
\* that accepted the program it starts on.
WatchesItsPremises ==
  \A n \in Engines : start[n] \/ ~halted[n] => premises[n] = vouched[n]
=============================================================================
