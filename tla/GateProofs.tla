----------------------------- MODULE GateProofs -----------------------------
(***************************************************************************)
(* The start gate for every number of engines, turn length, number of      *)
(* certificate words and set of check settings.                            *)
(***************************************************************************)
EXTENDS Gate, TLAPS

\* A walk in flight: it walks the engine whose turn it is, which it holds
\* uncertified and whose premises are its own, and nothing has disturbed it.
WalkInv ==
  /\ checking =>
       /\ checked = chosen
       /\ calm
       /\ walk_setup \in Setups
       /\ premises[checked] = walk_setup
       /\ ~finished
  /\ checking \/ finished => ~certified[checked]
  /\ \A a \in used : a < span
  /\ N > 1 /\ turn_cycle = 0 => ~checking

\* A walk that has just accepted leaves all this true for the cycle in which
\* its acceptance is taken.
AcceptInv ==
  Accepts => /\ calm
             /\ walk_setup \in Setups
             /\ premises[checked] = walk_setup

\* A certificate, and with it a start, stands on a calm walk.  A starting
\* engine still reads halted, which is why no strobe may follow at once.
CertifiedInv ==
  /\ CertifiedIsVouched
  /\ RunsOnlyVouched
  /\ VerdictStands
  /\ \A n \in Engines : start[n] => halted[n] /\ ~spaced

GateInv == TypeOK /\ WalkInv /\ AcceptInv /\ CertifiedInv

-----------------------------------------------------------------------------

\* What the assumption says of the constants, in the form the proofs use it.
LEMMA Bounds ==
  /\ N \in Nat /\ N >= 1
  /\ TurnCycles \in Nat /\ TurnCycles >= 2
  /\ Words \in Nat /\ Words >= 1
  /\ NoSetup \notin Setups
  /\ 0 \in Engines
BY GateAssumption DEF Engines

\* The invariant holds at reset.
LEMMA InitInv == Init => GateInv
<1> SUFFICES ASSUME Init PROVE GateInv
  OBVIOUS
<1> USE Bounds DEF Init
<1>1. TypeOK
  <2>1. /\ turn_cycle \in 0 .. TurnCycles - 1
        /\ chosen \in Engines /\ turn \in Engines /\ checked \in Engines
        /\ read_at \in Offsets \cup {NoRead}
        /\ span \in 0 .. Words
        /\ frame_owner \in Engines
        /\ used \subseteq Offsets
    OBVIOUS
  <2> QED
    BY <2>1 DEF TypeOK
<1>2. WalkInv
  BY DEF WalkInv
<1>3. AcceptInv
  BY DEF AcceptInv, Accepts
<1>4. CertifiedInv
  BY DEF CertifiedInv, CertifiedIsVouched, RunsOnlyVouched, VerdictStands
<1> QED
  BY <1>1, <1>2, <1>3, <1>4 DEF GateInv

\* What a strobe may be: it names an engine and a data word, and none comes in
\* the cycle after another.
WellFormed(in) ==
  /\ in.n \in Engines
  /\ in.at \in Offsets
  /\ in.op # "none" => spaced

\* Every register keeps to its values.
LEMMA CycleType ==
  ASSUME TypeOK, NEW in, WellFormed(in), NEW frame, NEW core, NEW move,
         move.read \in Offsets \cup {NoRead},
         setup' \in Setups, frame_owner' \in Engines, spaced' \in BOOLEAN,
         CycleWith(in, frame, core, move)
  PROVE  TypeOK'
<1> USE Bounds DEF TypeOK
<1>1. Turns => /\ turn_cycle' \in 0 .. TurnCycles - 1
               /\ chosen' \in Engines /\ turn' \in Engines
  BY DEF Turns, Advance, Engines
<1>2. Certificates(in) =>
        /\ waiting' \in [Engines -> BOOLEAN]
        /\ checked' \in Engines
        /\ certified' \in [Engines -> BOOLEAN]
        /\ premises' \in [Engines -> Setups \cup {NoSetup}]
        /\ refused' \in [Engines -> BOOLEAN]
        /\ verdict' \in [Engines -> BOOLEAN]
  BY DEF Certificates, Asks, ChecksBegin, Certified, Bit
<1>3. Walk(in, frame, move) =>
        /\ checking' \in BOOLEAN /\ finished' \in BOOLEAN /\ accepted' \in BOOLEAN
        /\ walk_setup' \in Setups \cup {NoSetup}
        /\ read_at' \in Offsets \cup {NoRead}
        /\ span' \in 0 .. Words
  <2> SUFFICES ASSUME Walk(in, frame, move)
               PROVE  /\ checking' \in BOOLEAN /\ finished' \in BOOLEAN
                      /\ accepted' \in BOOLEAN
                      /\ walk_setup' \in Setups \cup {NoSetup}
                      /\ read_at' \in Offsets \cup {NoRead}
                      /\ span' \in 0 .. Words
    OBVIOUS
  <2>1. span' \in 0 .. Words
    BY DEF Walk, Offsets, NoRead
  <2>2. walk_setup' \in Setups \cup {NoSetup}
    BY DEF Walk
  <2>3. CASE checking
    BY <2>1, <2>2, <2>3 DEF Walk, Stopped, Abort, Overwritten
  <2>4. CASE ~checking
    BY <2>1, <2>2, <2>4 DEF Walk, Go, TurnStarts, Asks, Bit
  <2> QED
    BY <2>3, <2>4
<1>4. Run(in, core) =>
        /\ halted' \in [Engines -> BOOLEAN]
        /\ start' \in [Engines -> BOOLEAN]
        /\ faulted' \in [Engines -> BOOLEAN]
        /\ holding' \in [Engines -> BOOLEAN]
  BY DEF Run, Starts
<1>5. History(in, frame) =>
        /\ calm' \in BOOLEAN
        /\ used' \subseteq Offsets
        /\ vouched' \in [Engines -> Setups \cup {NoSetup}]
  BY DEF History, Disturbs, Go, Asks, TurnStarts, Bit, Free
<1> QED
  BY <1>1, <1>2, <1>3, <1>4, <1>5 DEF CycleWith

-----------------------------------------------------------------------------
\* A check is not served while a walk is going on.
LEMMA NoGo ==
  ASSUME GateInv, NEW in, checking
  PROVE  ~Go(in)
<1> USE Bounds
<1>1. CASE N = 1
  BY <1>1 DEF Go, TurnStarts
<1>2. CASE N > 1
  BY <1>2 DEF Go, TurnStarts, GateInv, WalkInv
<1> QED
  BY <1>1, <1>2

\* What the checker is not stopped by leaves the walk undisturbed.
LEMMA UnstoppedIsUndisturbed ==
  ASSUME GateInv, NEW in, NEW frame, checking, ~Stopped(in, frame)
  PROVE  ~Disturbs(in, frame)
<1>1. ~Abort(in, frame) /\ ~Overwritten(in, frame)
  BY DEF Stopped
<1>2. Free(in, checked) /\ ~Rewrites(in, checked) /\ ~HostWrites(in)
  BY <1>1 DEF Abort, Lent
<1>3. ~Changes(in, checked)
  BY <1>2 DEF Changes, Rewrites
<1>4. ASSUME NEW a \in Offsets, Lands(in, frame, a), turn = checked
      PROVE  FALSE
  <2>1. FrameCouldWrite(in, frame)
    BY <1>2, <1>4 DEF Lands, FrameWrites
  <2>2. frame_owner = checked
    BY <2>1, <1>4 DEF FrameCouldWrite, FrameMayLand
  <2> QED
    BY <2>1, <2>2, <1>1 DEF Abort
<1>5. ASSUME NEW a \in Offsets, Lands(in, frame, a), a \in used
      PROVE  FALSE
  BY <1>1, <1>5 DEF Overwritten, GateInv, WalkInv
<1> QED
  BY <1>2, <1>3, <1>4, <1>5 DEF Disturbs

\* A walk that goes on or has just accepted was not stopped.
LEMMA WalkGoesOn ==
  ASSUME GateInv, NEW in, NEW frame, NEW core, NEW move,
         CycleWith(in, frame, core, move), checking, checking' \/ Accepts'
  PROVE  /\ ~Stopped(in, frame)
         /\ checked' = checked /\ checked \in Engines
         /\ calm'
         /\ walk_setup' = walk_setup /\ walk_setup' \in Setups
         /\ premises'[checked'] = walk_setup'
<1> USE DEF GateInv
<1>1. ~Stopped(in, frame)
  BY DEF CycleWith, Walk, Accepts
<1>2. ~Go(in)
  BY NoGo
<1>3. checked' = checked /\ checked \in Engines
  BY <1>2 DEF CycleWith, Certificates, TypeOK
<1>4. calm'
  BY <1>1, UnstoppedIsUndisturbed DEF CycleWith, History, WalkInv
<1>5. walk_setup' = walk_setup /\ walk_setup' \in Setups
  BY <1>2 DEF CycleWith, Walk, WalkInv
<1>6. premises'[checked] = premises[checked]
  BY <1>2, <1>3 DEF CycleWith, Certificates, ChecksBegin
<1> QED
  BY <1>1, <1>3, <1>4, <1>5, <1>6 DEF WalkInv

\* What holds of a walk, after a cycle.
LEMMA CycleWalk ==
  ASSUME GateInv, NEW in, NEW frame, NEW core, NEW move,
         CycleWith(in, frame, core, move)
  PROVE  WalkInv'
<1> USE Bounds DEF GateInv
<1>1. ASSUME checking'
      PROVE  /\ checked' = chosen' /\ calm' /\ walk_setup' \in Setups
             /\ premises'[checked'] = walk_setup' /\ ~finished'
             /\ ~certified'[checked']
  <2>1. CASE checking
    <3>1. /\ ~Stopped(in, frame) /\ checked' = checked /\ checked \in Engines /\ calm'
          /\ walk_setup' \in Setups /\ premises'[checked'] = walk_setup'
      BY <1>1, <2>1, WalkGoesOn
    <3>2. chosen' = chosen
      BY <2>1, <3>1 DEF Stopped, Abort, CycleWith, Turns
    <3>3. ~finished'
      BY <1>1, <2>1 DEF CycleWith, Walk
    <3>4. ~certified'[checked']
      BY <2>1, <3>1 DEF CycleWith, Certificates, Certified, Accepts, WalkInv
    <3> QED
      BY <2>1, <3>1, <3>2, <3>3, <3>4 DEF WalkInv
  <2>2. CASE ~checking
    <3>1. Go(in) /\ ~finished' /\ walk_setup' = setup /\ checked' = chosen
      BY <1>1, <2>2 DEF CycleWith, Walk, Certificates
    <3>2. chosen' = chosen
      BY <3>1 DEF Go, TurnStarts, TurnEnds, CycleWith, Turns
    <3>3. calm'
      BY <2>2, <3>1 DEF CycleWith, History
    <3>4. premises'[chosen] = setup /\ ~certified'[chosen]
      BY <3>1 DEF CycleWith, Certificates, Certified, ChecksBegin, TypeOK
    <3> QED
      BY <3>1, <3>2, <3>3, <3>4 DEF TypeOK
  <2> QED
    BY <2>1, <2>2
<1>2. ASSUME finished'
      PROVE  ~certified'[checked']
  <2>1. checking
    BY <1>2 DEF CycleWith, Walk
  <2>2. checked' = checked /\ checked \in Engines
    BY <2>1, NoGo DEF CycleWith, Certificates, TypeOK
  <2> QED
    BY <2>1, <2>2 DEF CycleWith, Certificates, Certified, Accepts, WalkInv
<1>3. \A a \in used' : a < span'
  <2>1. CASE checking /\ checking'
    <3>1. used' = used \cup ({read_at} \ {NoRead}) /\ used \subseteq Offsets
      BY <2>1 DEF CycleWith, History, TypeOK
    <3>2. span' = IF read_at + 1 > span THEN read_at + 1 ELSE span
      BY <2>1 DEF CycleWith, Walk
    <3>3. read_at \in Int /\ span \in Int /\ \A a \in used : a \in Int /\ a < span
      BY <3>1 DEF TypeOK, Offsets, NoRead, WalkInv
    <3> QED
      BY <3>1, <3>2, <3>3
  <2>2. CASE ~(checking /\ checking')
    BY <2>2 DEF CycleWith, History
  <2> QED
    BY <2>1, <2>2
<1>4. ASSUME N > 1, turn_cycle' = 0
      PROVE  ~checking'
  <2>1. turn_cycle = TurnCycles - 1
    BY <1>4 DEF CycleWith, Turns, Advance, TypeOK
  <2>2. CASE checking
    <3>1. Stopped(in, frame)
      BY <1>4, <2>1, <2>2 DEF TurnEnds, Stopped, Abort
    <3> QED
      BY <2>2, <3>1, WalkGoesOn
  <2>3. CASE ~checking
    <3>1. ~Go(in)
      BY <1>4, <2>1 DEF Go, TurnStarts
    <3> QED
      BY <2>3, <3>1 DEF CycleWith, Walk
  <2> QED
    BY <2>2, <2>3
<1> QED
  BY <1>1, <1>2, <1>3, <1>4 DEF WalkInv

\* What holds of a walk that ends in a cycle.
LEMMA CycleAccept ==
  ASSUME GateInv, NEW in, NEW frame, NEW core, NEW move,
         CycleWith(in, frame, core, move)
  PROVE  AcceptInv'
<1> SUFFICES ASSUME Accepts'
             PROVE  /\ calm' /\ walk_setup' \in Setups
                    /\ premises'[checked'] = walk_setup'
  BY DEF AcceptInv
<1>1. checking
  BY DEF CycleWith, Walk, Accepts
<1> QED
  BY <1>1, WalkGoesOn

\* What holds of the certified and the starting, after a cycle.
LEMMA CycleCertified ==
  ASSUME GateInv, NEW in, WellFormed(in), NEW frame, NEW core, NEW move,
         spaced' = (in.op = "none"), CycleWith(in, frame, core, move)
  PROVE  CertifiedInv'
<1> USE Bounds DEF GateInv
<1>1. ASSUME NEW n \in Engines, ~Changes(in, n)
      PROVE  \/ /\ Accepts /\ checked = n
                /\ vouched'[n] = walk_setup /\ walk_setup \in Setups
             \/ ~(Accepts /\ checked = n) /\ vouched'[n] = vouched[n]
  BY <1>1 DEF CycleWith, History, AcceptInv
<1>2. CertifiedIsVouched'
  <2> SUFFICES ASSUME NEW n \in Engines, certified'[n]
               PROVE  vouched'[n] # NoSetup /\ vouched'[n] = premises'[n]
    BY DEF CertifiedIsVouched
  <2>1. ~Rewrites(in, n) /\ ~ChecksBegin(in, n)
    BY DEF CycleWith, Certificates, Certified
  <2>2. ~Changes(in, n) /\ premises'[n] = premises[n]
    BY <2>1 DEF Changes, Rewrites, CycleWith, Certificates
  <2>3. certified[n] \/ (Accepts /\ checked = n)
    BY DEF CycleWith, Certificates, Certified
  <2> QED
    BY <1>1, <2>2, <2>3 DEF CertifiedInv, CertifiedIsVouched, AcceptInv
<1>3. ASSUME NEW n \in Engines, start'[n]
      PROVE  halted'[n] /\ ~spaced' /\ vouched'[n] # NoSetup
  <2>1. Starts(in, n) /\ halted[n]
    BY <1>3 DEF CycleWith, Run
  <2>2. in.op = "control" /\ certified[n]
    BY <2>1 DEF Starts, Bit, StartAll, AllReady
  <2>3. ~start[n]
    BY <2>2 DEF WellFormed, CertifiedInv
  <2>4. halted'[n]
    BY <2>1, <2>3 DEF CycleWith, Run
  <2>5. ~Changes(in, n)
    BY <2>2 DEF Changes
  <2> QED
    BY <1>1, <2>2, <2>4, <2>5 DEF CertifiedInv, CertifiedIsVouched
<1>4. ASSUME NEW n \in Engines, ~halted'[n]
      PROVE  vouched'[n] # NoSetup
  <2>1. start[n] \/ ~halted[n]
    BY <1>4 DEF CycleWith, Run
  <2>2. ~Changes(in, n)
    BY <2>1 DEF Changes, CertifiedInv, WellFormed
  <2> QED
    BY <1>1, <2>1, <2>2 DEF CertifiedInv, RunsOnlyVouched
<1>5. VerdictStands'
  <2> SUFFICES ASSUME NEW n \in Engines, certified'[n]
               PROVE  verdict'[n]
    BY DEF VerdictStands
  <2>1. certified[n] \/ (Accepts /\ checked = n)
    BY DEF CycleWith, Certificates, Certified
  <2>2. verdict'[n] = IF finished /\ checked = n THEN accepted ELSE verdict[n]
    BY DEF CycleWith, Certificates
  <2>3. finished /\ checked = n => Accepts
    BY <2>1 DEF WalkInv
  <2> QED
    BY <2>1, <2>2, <2>3 DEF Accepts, CertifiedInv, VerdictStands
<1> QED
  BY <1>2, <1>3, <1>4, <1>5 DEF CertifiedInv, RunsOnlyVouched

\* Together,
LEMMA CycleInv ==
  ASSUME GateInv, NEW in, WellFormed(in), NEW frame, NEW core, NEW move,
         move.read \in Offsets \cup {NoRead},
         setup' \in Setups, frame_owner' \in Engines,
         spaced' = (in.op = "none"),
         CycleWith(in, frame, core, move)
  PROVE  GateInv'
<1>1. TypeOK'
  BY CycleType DEF GateInv
<1> QED
  BY <1>1, CycleWalk, CycleAccept, CycleCertified DEF GateInv

\* Whatever strobe a cycle takes, it keeps the invariant.
LEMMA StrobeInv ==
  ASSUME GateInv, NEW in, WellFormed(in), Cycle(in),
         setup' \in Setups, frame_owner' \in Engines
  PROVE  GateInv'
<1>1. PICK frame \in FrameChoices, core \in CoreChoices, move \in MoveChoices :
        CycleWith(in, frame, core, move)
  BY DEF Cycle
<1>2. move.read \in Offsets \cup {NoRead}
  BY DEF MoveChoices
<1>3. spaced' = (in.op = "none")
  BY DEF Cycle
<1> QED
  BY <1>1, <1>2, <1>3, CycleInv

\* and of every step, whose strobes are a cycle's.
LEMMA NextInv == GateInv /\ [Next]_vars => GateInv'
<1> SUFFICES ASSUME GateInv, [Next]_vars PROVE GateInv'
  OBVIOUS
<1> USE Bounds
<1>1. setup \in Setups /\ frame_owner \in Engines /\ 0 \in Offsets
  BY DEF GateInv, TypeOK, Offsets
<1>2. WellFormed(Quietly)
  BY <1>1 DEF WellFormed, Quietly
<1>3. CASE Quiet
  BY <1>1, <1>2, <1>3, StrobeInv DEF Quiet
<1>4. CASE ControlWrite
  <2>1. PICK n \in Engines, bits \in ControlWords :
          Cycle([op |-> "control", n |-> n, bits |-> bits, at |-> 0])
    BY <1>4 DEF ControlWrite
  <2>2. WellFormed([op |-> "control", n |-> n, bits |-> bits, at |-> 0])
    BY <1>1, <1>4 DEF ControlWrite, Strobe, WellFormed
  <2> QED
    BY <1>1, <1>4, <2>1, <2>2, StrobeInv DEF ControlWrite
<1>5. ASSUME NEW op, ImageWrite(op)
      PROVE  GateInv'
  <2>1. PICK n \in Engines : Cycle([op |-> op, n |-> n, bits |-> {}, at |-> 0])
    BY <1>5 DEF ImageWrite
  <2>2. WellFormed([op |-> op, n |-> n, bits |-> {}, at |-> 0])
    BY <1>1, <1>5 DEF ImageWrite, Strobe, WellFormed
  <2> QED
    BY <1>1, <1>5, <2>1, <2>2, StrobeInv DEF ImageWrite
<1>6. CASE DataWrite
  <2>1. PICK n \in Engines, a \in Offsets :
          Cycle([op |-> "data", n |-> n, bits |-> {}, at |-> a])
    BY <1>6 DEF DataWrite
  <2>2. WellFormed([op |-> "data", n |-> n, bits |-> {}, at |-> a])
    BY <1>6 DEF DataWrite, Strobe, WellFormed
  <2> QED
    BY <1>1, <1>6, <2>1, <2>2, StrobeInv DEF DataWrite
<1>7. CASE SetupWrite
  <2>1. WellFormed([Quietly EXCEPT !.op = "setup"])
    BY <1>1, <1>7 DEF SetupWrite, Strobe, WellFormed, Quietly
  <2> QED
    BY <1>1, <1>7, <2>1, StrobeInv DEF SetupWrite
<1>8. CASE FrameControlWrite
  <2>1. WellFormed([Quietly EXCEPT !.op = "frame"])
    BY <1>1, <1>8 DEF FrameControlWrite, Strobe, WellFormed, Quietly
  <2> QED
    BY <1>1, <1>8, <2>1, StrobeInv DEF FrameControlWrite
<1>9. CASE UNCHANGED vars
  <2>1. UNCHANGED <<turn_cycle, chosen, turn, waiting, checked, certified, premises,
                    refused, verdict, checking, walk_setup, read_at, span, finished,
                    accepted, halted, start, faulted, holding, setup, frame_owner,
                    spaced, calm, used, vouched>>
    BY <1>9 DEF vars, turnVars, gateVars, walkVars, coreVars, hostVars, historyVars
  <2>2. TypeOK'
    BY <2>1 DEF GateInv, TypeOK
  <2>3. WalkInv' /\ AcceptInv' /\ CertifiedInv'
    BY <2>1 DEF GateInv, WalkInv, AcceptInv, Accepts, CertifiedInv,
                CertifiedIsVouched, RunsOnlyVouched, VerdictStands
  <2> QED
    BY <2>2, <2>3 DEF GateInv
<1> QED
  BY <1>3, <1>4, <1>5, <1>6, <1>7, <1>8, <1>9 DEF Next

\* The gate's invariant holds in every reachable state.
THEOREM GateInvariant == Spec => []GateInv
BY InitInv, NextInv, PTL DEF Spec

\* Every register keeps to its values (the widths in engines.ml).
THEOREM GateTypes == Spec => []TypeOK
<1>1. GateInv => TypeOK
  BY DEF GateInv
<1> QED
  BY <1>1, GateInvariant, PTL

\* No engine, of any number, starts or runs on firmware that a walk did not
\* accept undisturbed (engines.ml: certified, abort, lent).
THEOREM GateSafety == Spec => []RunsOnlyVouched
<1>1. GateInv => RunsOnlyVouched
  BY DEF GateInv, CertifiedInv
<1> QED
  BY <1>1, GateInvariant, PTL

\* A certificate is of what the engine holds, under the premises it watches
\* (engines.ml: premises beside certified).
THEOREM GateCertificates == Spec => []CertifiedIsVouched
<1>1. GateInv => CertifiedIsVouched
  BY DEF GateInv, CertifiedInv
<1> QED
  BY <1>1, GateInvariant, PTL

\* However long a turn is, a walk keeps to its engine's own and leaves the
\* checker idle for the next (engines.ml: turn_ends).
THEOREM GateTurns == Spec => []TurnsKept
<1>1. GateInv => TurnsKept
  BY Bounds DEF GateInv, WalkInv, TurnsKept, TurnStarts
<1> QED
  BY <1>1, GateInvariant, PTL

\* No walk goes on over, or accepts, a word that changed after it was read
\* (load_checker.ml: span; engines.ml: abort).
THEOREM GateWalk == Spec => []WalkUndisturbed
<1>1. GateInv => WalkUndisturbed
  BY DEF GateInv, WalkInv, AcceptInv, WalkUndisturbed
<1> QED
  BY <1>1, GateInvariant, PTL

\* A certified engine's verdict never reads as a rejection (engines.ml:
\* verdicts and certified).
THEOREM GateVerdicts == Spec => []VerdictStands
<1>1. GateInv => VerdictStands
  BY DEF GateInv, CertifiedInv
<1> QED
  BY <1>1, GateInvariant, PTL
=============================================================================
