---------------------------- MODULE KernelAccepts ----------------------------
(***************************************************************************)
(* What the timing kernel asks of a certificate: Kernel_accepts.ways       *)
(* (src/kernel_accepts.ml) over the classes of words of Kernel_step        *)
(* (src/kernel_step.ml).                                                   *)
(*                                                                         *)
(* phase is now - t at a word's entry.  A row bounds the core's state at a *)
(* word's entry by intervals.  The kernel's sums are two bits wider than   *)
(* the timer, enough never to wrap, so they are plain sums here.  The      *)
(* spacing of a pin pair's edges is left out.                              *)
(***************************************************************************)
EXTENDS Integers

CONSTANTS
  Half,      \* half the timer's range: 2^(timer_bits - 1)
  DataMax,   \* the largest data word: 2^data_bits - 1
  Fraction,  \* whether the period has a fraction
  Loaded     \* what a check says of a period loaded at run time

Timer == -Half .. Half - 1
Data == 0 .. DataMax

\* The classes of words the kernel tells apart.  "plain" leaves t, p, x and y
\* alone, "unbounded" gives t a value the kernel does not follow, "wait" is for a
\* pin or a queue, "capturing" for the captured edge, "jump" has a condition the
\* kernel does not follow, and "halt" is sys halt or no instruction.
Jumps == {"always", "x_dec", "y_dec", "x_ne_y", "jump"}
Kinds == Jumps \cup
  {"plain", "deadline", "advance", "anchor", "add_imm", "add_p", "add_x",
   "add_y", "sub_imm", "unbounded", "set_p", "writes_p", "set_x", "writes_x",
   "set_y", "writes_y", "capture_arm", "wait", "capturing", "from_capture",
   "halt"}

\* imm is the literal of a set or of an addition to t.  The cycles, of a delay's five
\* bits, are far from the timer's range.
Word == [kind : Kinds, cycles : 1 .. Half - 2, imm : Data]

Row ==
  [phase : [lo : Timer, hi : Timer],
   slope : Timer, offset : [lo : Timer, hi : Timer],
   period : [lo : Data, hi : Data],
   x : [lo : Data, hi : Data], y : [lo : Data, hi : Data],
   arm : [lo : 0 .. 2 * Half - 1, hi : 0 .. 2 * Half - 1],
   captured : BOOLEAN, awaiting : BOOLEAN]

ASSUME WidthAssumption ==
  /\ Half \in Nat /\ Half > 2
  /\ DataMax \in Nat \ {0}
  /\ DataMax < Half
  /\ Fraction \in BOOLEAN
  /\ Loaded \in [valid : BOOLEAN, value : Data, floor : BOOLEAN]

-----------------------------------------------------------------------------
(***************************************************************************)
(* Intervals.                                                              *)
(***************************************************************************)

Point(v) == [lo |-> v, hi |-> v]
In(v, i) == i.lo <= v /\ v <= i.hi
Inside(i, j) == j.lo <= i.lo /\ i.hi <= j.hi
Plus(i, j) == [lo |-> i.lo + j.lo, hi |-> i.hi + j.hi]
Later(i, n) == [lo |-> i.lo + n, hi |-> i.hi + n]
Larger(a, b) == IF a > b THEN a ELSE b
Smaller(a, b) == IF a < b THEN a ELSE b

WholeTimer == [lo |-> -Half, hi |-> Half - 1]
WholeData == [lo |-> 0, hi |-> DataMax]
WholeArm == [lo |-> 0, hi |-> 2 * Half - 1]

\* The row of pc 0, where a core enters: it says nothing.
OpenRow ==
  [phase |-> WholeTimer, slope |-> 0, offset |-> WholeTimer,
   period |-> WholeData, x |-> WholeData, y |-> WholeData,
   arm |-> WholeArm, captured |-> FALSE, awaiting |-> FALSE]

Released(v) == Larger(v, 0)

-----------------------------------------------------------------------------
(***************************************************************************)
(* Words.                                                                  *)
(***************************************************************************)

Deadlines == {"deadline", "advance"}
Waits == {"wait", "capturing"}
ArmLimit == Half

\* What t is after the word is known up to the registers it adds.
Bounded(w) == w.kind \notin Waits \cup {"unbounded", "from_capture"}

\* Only the first wait for the edge since the arm sees it.
Captures(w, is_awaiting) == w.kind = "capturing" /\ is_awaiting
OtherWait(w, is_awaiting) == w.kind \in Waits /\ ~Captures(w, is_awaiting)

\* Mutant: counters go below zero.
Less1Below(v) == v - 1

\* Counters wrap below zero.
Less1(v) == IF v = 0 THEN DataMax ELSE v - 1

-----------------------------------------------------------------------------
(***************************************************************************)
(* The kernel: what the word w under the row r asks of a row s on the way  *)
(* out that taken picks (Kernel_accepts.ways).                             *)
(***************************************************************************)

IsEmpty(r) ==
  \/ r.phase.lo > r.phase.hi \/ r.period.lo > r.period.hi
  \/ r.x.lo > r.x.hi \/ r.y.lo > r.y.hi \/ r.arm.lo > r.arm.hi

ArmKnown(r) == r.arm # WholeArm

CaptureBounded(w, r) == w.kind = "from_capture" /\ r.captured /\ ArmKnown(r)

AddedIn(w, r) ==
  CASE w.kind = "advance" -> [r.period EXCEPT !.hi = @ + (IF Fraction THEN 1 ELSE 0)]
    [] w.kind = "add_p" -> r.period
    [] w.kind = "add_x" -> r.x
    [] w.kind = "add_y" -> r.y
    [] w.kind = "add_imm" -> Point(w.imm)
    [] w.kind = "sub_imm" -> Point(-w.imm)
    [] OTHER -> Point(0)

\* What the step adds to the phase on top of where it starts.
Delta(w, r) ==
  [lo |-> w.cycles - AddedIn(w, r).hi, hi |-> w.cycles - AddedIn(w, r).lo]

PhaseFromIn(w, r, from) ==
  CASE w.kind = "anchor" -> Point(0)
    [] CaptureBounded(w, r) -> [lo |-> 1, hi |-> r.arm.hi - 1]
    [] w.kind \in Deadlines -> [lo |-> Released(from.lo), hi |-> Released(from.hi)]
    [] OTHER -> from

\* Falling through x_dec leaves x = 0, where the phase lies in the offset too.
Entry(w, r, taken) ==
  IF w.kind = "x_dec" /\ ~taken
  THEN [lo |-> Larger(r.phase.lo, r.offset.lo), hi |-> Smaller(r.phase.hi, r.offset.hi)]
  ELSE r.phase

Image(w, r, taken) ==
  Plus(PhaseFromIn(w, r, Entry(w, r, taken)), Delta(w, r))

PhaseKnown(w, r) == Bounded(w) \/ CaptureBounded(w, r)

PhaseHolds(w, r, s, taken) ==
  \/ s.phase = WholeTimer
  \/ /\ PhaseKnown(w, r)
     /\ Inside(Image(w, r, taken), WholeTimer)
     /\ Inside(Image(w, r, taken), s.phase)

\* A word that adds to the phase moves the offset, the phase minus the slope
\* times x, by as much: known while the slope and x stay, where a counted jump
\* takes one from x, and after set x.
Adds(w) == Bounded(w) /\ w.kind \notin Deadlines \cup {"anchor"}

OffsetKnown(w, r, s, taken) ==
  IF w.kind = "set_x" THEN PhaseKnown(w, r)
  ELSE /\ Adds(w)
       /\ w.kind # "writes_x"
       /\ w.kind = "x_dec" => taken
       /\ s.slope = r.slope

\* Mutant: a counted jump leaves the offset where it was.
OffsetImageUncounted(w, r, s, taken) ==
  IF w.kind = "set_x" THEN Later(Image(w, r, taken), -(s.slope * w.imm))
  ELSE Plus(r.offset, Delta(w, r))

OffsetImage(w, r, s, taken) ==
  IF w.kind = "set_x" THEN Later(Image(w, r, taken), -(s.slope * w.imm))
  ELSE Later(Plus(r.offset, Delta(w, r)),
             IF w.kind = "x_dec" /\ taken THEN r.slope ELSE 0)

OffsetHolds(w, r, s, taken) ==
  \/ s.offset = WholeTimer
  \/ OffsetKnown(w, r, s, taken) /\ Inside(OffsetImage(w, r, s, taken), s.offset)

PeriodImage(w, r) ==
  CASE w.kind = "set_p" -> Point(w.imm)
    [] w.kind = "writes_p" ->
         [lo |-> Loaded.value, hi |-> IF Loaded.floor THEN DataMax ELSE Loaded.value]
    [] OTHER -> r.period

PeriodHolds(w, r, s) ==
  IF w.kind = "writes_p" /\ ~Loaded.valid THEN s.period = WholeData
  ELSE Inside(PeriodImage(w, r), s.period)

\* A counted jump takes one on both ways; falling through x_ne_y leaves x = y.
Common(r) == [lo |-> Larger(r.x.lo, r.y.lo), hi |-> Smaller(r.x.hi, r.y.hi)]

Counter(w, r, i, sets, dec, taken) ==
  CASE sets -> Point(w.imm)
    [] dec /\ taken -> [lo |-> Released(i.lo - 1), hi |-> Less1(i.hi)]
    [] dec /\ ~taken -> Point(DataMax)
    [] w.kind = "x_ne_y" /\ ~taken -> Common(r)
    [] OTHER -> i

XHolds(w, r, s, taken) ==
  IF w.kind = "writes_x" THEN s.x = WholeData
  ELSE Inside(Counter(w, r, r.x, w.kind = "set_x", w.kind = "x_dec", taken), s.x)

YHolds(w, r, s, taken) ==
  IF w.kind = "writes_y" THEN s.y = WholeData
  ELSE Inside(Counter(w, r, r.y, w.kind = "set_y", w.kind = "y_dec", taken), s.y)

\* How long a deadline wait stalls.
Stall(r) == [lo |-> Released(-r.phase.hi), hi |-> Released(-r.phase.lo)]

ArmImage(w, r) ==
  CASE w.kind = "capture_arm" -> Point(w.cycles)
    [] w.kind \in Deadlines -> Later(Plus(r.arm, Stall(r)), w.cycles)
    [] OTHER -> Later(r.arm, w.cycles)

ArmImageKnown(w, r) ==
  \/ w.kind = "capture_arm"
  \/ ArmKnown(r) /\ ~OtherWait(w, r.awaiting) /\ ArmImage(w, r).hi < ArmLimit

ArmHolds(w, r, s) ==
  \/ s.arm = WholeArm
  \/ ArmImageKnown(w, r) /\ Inside(ArmImage(w, r), s.arm)

CapturedImage(w, r) ==
  /\ w.kind # "capture_arm"
  /\ r.captured \/ (Captures(w, r.awaiting) /\ ArmKnown(r))

AwaitingImage(w, r) ==
  w.kind = "capture_arm" \/ (r.awaiting /\ w.kind # "capturing")

CapturedHolds(w, r, s) == s.captured => CapturedImage(w, r)
AwaitingHolds(w, r, s) == s.awaiting => AwaitingImage(w, r)

Holds(w, r, s, taken) ==
  /\ PhaseHolds(w, r, s, taken)
  /\ OffsetHolds(w, r, s, taken)
  /\ PeriodHolds(w, r, s)
  /\ XHolds(w, r, s, taken)
  /\ YHolds(w, r, s, taken)
  /\ ArmHolds(w, r, s)
  /\ CapturedHolds(w, r, s)
  /\ AwaitingHolds(w, r, s)

MayTake(w, r) ==
  CASE w.kind = "x_dec" -> r.x.hi # 0
    [] w.kind = "y_dec" -> r.y.hi # 0
    [] w.kind = "x_ne_y" -> ~(r.x.lo = r.x.hi /\ r.y.lo = r.y.hi /\ r.x.lo = r.y.lo)
    [] OTHER -> TRUE

MayFall(w, r) ==
  CASE w.kind = "always" -> FALSE
    [] w.kind = "x_dec" -> r.x.lo = 0
    [] w.kind = "y_dec" -> r.y.lo = 0
    [] w.kind = "x_ne_y" -> r.x.lo <= r.y.hi /\ r.y.lo <= r.x.hi
    [] OTHER -> TRUE

\* An empty row and a halt ask nothing.
Asks(w, r) == ~IsEmpty(r) /\ w.kind # "halt"
Takes(w, r) == Asks(w, r) /\ w.kind \in Jumps /\ MayTake(w, r)
Falls(w, r) == Asks(w, r) /\ (w.kind \notin Jumps \/ MayFall(w, r))

\* Mutant: only the earliest entry has to be in time.
InTimeAtBest(w, r) == Asks(w, r) /\ w.kind \in Deadlines => r.phase.lo <= 0

InTime(w, r) == Asks(w, r) /\ w.kind \in Deadlines => r.phase.hi <= 0

\* The tightest row for falling through.  Its offset says nothing.
Fallen(w, r) ==
  [OpenRow EXCEPT
     !.phase = IF PhaseKnown(w, r) /\ Inside(Image(w, r, FALSE), WholeTimer)
               THEN Image(w, r, FALSE) ELSE WholeTimer,
     !.period = IF w.kind = "writes_p" /\ ~Loaded.valid THEN WholeData
                ELSE PeriodImage(w, r),
     !.x = IF w.kind = "writes_x" THEN WholeData
           ELSE Counter(w, r, r.x, w.kind = "set_x", w.kind = "x_dec", FALSE),
     !.y = IF w.kind = "writes_y" THEN WholeData
           ELSE Counter(w, r, r.y, w.kind = "set_y", w.kind = "y_dec", FALSE),
     !.arm = IF ArmImageKnown(w, r) THEN ArmImage(w, r) ELSE WholeArm,
     !.captured = CapturedImage(w, r),
     !.awaiting = AwaitingImage(w, r)]

\* Kernel_accepts.accepts: in time, and each way out that is asked leads into the
\* row kept there.
Accepts(w, r, next, target) ==
  /\ InTime(w, r)
  /\ Falls(w, r) => Holds(w, r, next, FALSE)
  /\ Takes(w, r) => Holds(w, r, target, TRUE)
=============================================================================
