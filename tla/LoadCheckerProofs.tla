------------------------- MODULE LoadCheckerProofs -------------------------
(***************************************************************************)
(* An accepted walk is sound, for every memory, program and certificate:   *)
(* what it held at each pc is what the kernel accepts there, against what  *)
(* it held where the pc's ways out lead (formal/certify.sv).               *)
(*                                                                         *)
(* The walk judges a jump by what it looks up, long before it holds a row  *)
(* at the jump's target.  What it finds is an entry, which it has taken at *)
(* its pc by the end of an accepted walk; what it does not find it judges  *)
(* by the empty row, and the kernel asks more than that row of any way out.*)
(***************************************************************************)
EXTENDS LoadChecker, WellFoundedInduction, TLAPS

Phases == [lo : Timer, hi : Timer]

\* A row a walk holds: one of a certificate's whose offset says nothing.
HeldRow ==
  [phase : Phases, slope : {0}, offset : {WholeTimer},
   period : Narrow, x : Narrow, y : Narrow,
   arm : Wide, captured : BOOLEAN, awaiting : BOOLEAN]

Entries == image.cert.entries

DecodedAt(i) == Decode(image.cert, EntryAt(i))

\* A way out to pc t that is looked up passes.
LookupPasses(t, w, r, taken) ==
  \/ t = 0
  \/ \E i \in 0 .. Len(Entries) - 1 :
       EntryAt(i).pc = t /\ Failing(w, r, DecodedAt(i), taken) = {}
  \/ Failing(w, r, EmptyRow, taken) = {}

\* The two ways out of pc p under the row r, with s the row held at the next pc.
TargetPasses(p, r) ==
  LET w == image.words[p]
  IN  w.op.kind \in Jumps => LookupPasses(w.target, w.op, r, TRUE)

NextPasses(p, r, s) ==
  LET w == image.words[p].op
  IN  IF FallsToNext(image.config, p) THEN Failing(w, r, s, FALSE) = {}
      ELSE LookupPasses(Following(image.config, p), w, r, FALSE)

Passes(p, r, s) ==
  InTime(image.words[p].op, r) /\ TargetPasses(p, r) /\ NextPasses(p, r, s)

-----------------------------------------------------------------------------
(***************************************************************************)
(* The invariant.                                                          *)
(***************************************************************************)

Walking == sm \notin {"idle", "header"}

\* The row is the one held at pc, but while it is overwritten by the next pc's.
Reloading == sm = "field" /\ purpose = "reload"

WalkTypes ==
  /\ sm \in {"idle", "header", "word", "head", "target", "search", "entry", "field",
             "following", "check_next", "finish"}
  /\ purpose \in {"target", "stored", "fallen", "following", "reload"}
  /\ source \in {"dictionary", "empty", "fallen"}
  /\ image \in Contents /\ instructions \in SUBSET Instruction
  /\ pc \in Pcs /\ ptr \in Nat /\ ptr <= Len(Entries) /\ word \in Instruction
  /\ stored \in BOOLEAN /\ key \in Pcs /\ field \in 0 .. 5
  /\ row \in HeldRow /\ held \in [Pcs -> HeldRow]
  /\ accepted \in BOOLEAN
  /\ lo \in Nat /\ hi \in Nat /\ sel \in Nat
  /\ Walking => count = Len(Entries)

\* The entries the walk has taken are the rows it held at their pcs.
TakenInv ==
  /\ held[0] = OpenRow
  /\ \A i \in 0 .. ptr - 1 :
       EntryAt(i).pc \in 1 .. pc /\ held[EntryAt(i).pc] = DecodedAt(i)

\* Every pc the walk is past passed.
PastInv == \A p \in 0 .. pc - 1 : Passes(p, held[p], held[p + 1])

\* The walk at a pc.
AtWord ==
  sm \notin {"idle", "header", "word", "finish"} =>
    /\ word = image.words[pc]
    /\ sm # "head" => (stored <=> ptr < count /\ EntryAt(ptr).pc = NextPc)

RowInv == sm \notin {"idle", "finish"} /\ ~Reloading => row = held[pc]

\* What a search looks for, and the row it found.
SearchInv ==
  /\ sm \in {"search", "entry"} \/ (sm = "field" /\ source # "fallen") =>
       CASE purpose = "target" -> IsJump /\ key = word.target
         [] purpose = "following" -> ~FallsOn /\ key = NextFollowing
         [] purpose = "stored" -> FallsOn /\ stored /\ sel = ptr /\ sm # "search"
         [] purpose = "reload" -> stored /\ sel = ptr /\ sm # "search"
         [] OTHER -> FALSE
  /\ sm = "search" => hi <= count
  /\ sm = "entry" \/ (sm = "field" /\ source = "dictionary") =>
       /\ sel < count
       /\ purpose \in {"target", "following"} => EntryAt(sel).pc = key
  /\ sm = "field" /\ source = "dictionary" => entry = EntryAt(sel)
  /\ sm = "field" /\ source = "fallen" => purpose = "fallen" /\ FallsOn /\ ~stored
  /\ sm = "field" /\ source = "empty" => purpose \in {"target", "following"}
  /\ sm = "field" /\ purpose # "reload" => field < 5

\* The conjuncts checked so far of the row being checked.
Checked == UNION {Recorded(Fields[k]) : k \in 1 .. field}

FieldInv ==
  /\ sm = "field" /\ purpose = "target" =>
       Failing(word.op, row, CheckedRow, TRUE) \cap Checked \subseteq failed_target
  /\ sm = "field" /\ purpose \in {"stored", "fallen", "following"} =>
       Failing(word.op, row, CheckedRow, FALSE) \cap Checked \subseteq failed_next

\* The row of the next pc, if this pc is accepted.
NextRowHere ==
  IF stored THEN DecodedAt(ptr) ELSE IF FallsOn THEN FellRow ELSE EmptyRow

\* What is known of the ways out of pc once they are checked.
WaysInv ==
  /\ (\/ sm \in {"following", "check_next"}
      \/ sm \in {"search", "entry", "field"} /\ purpose \in {"stored", "fallen", "following"})
       => (failed_target = {} => TargetPasses(pc, row))
  /\ sm = "check_next" => (failed_next = {} => NextPasses(pc, row, NextRowHere))
  /\ sm \in {"entry", "field"} /\ purpose = "reload" =>
       Passes(pc, held[pc], DecodedAt(ptr))
  /\ sm = "finish" => pc = Size - 1 /\ Passes(pc, held[pc], held[0])

\* A row being reloaded has the entry's fields so far, the whole range after.
Partly(e, n) ==
  [OpenRow EXCEPT
     !.phase = IF n > 0 THEN Interval(image.cert, e, "phase") ELSE @,
     !.arm = IF n > 1 THEN Interval(image.cert, e, "arm") ELSE @,
     !.period = IF n > 2 THEN Interval(image.cert, e, "period") ELSE @,
     !.x = IF n > 3 THEN Interval(image.cert, e, "x") ELSE @,
     !.y = IF n > 4 THEN Interval(image.cert, e, "y") ELSE @,
     !.captured = e.captured, !.awaiting = e.awaiting]

ReloadInv == Reloading => row = Partly(entry, field)

VerdictInv == accepted => sm = "idle" /\ Sound(image.words, image.config, held)

WalkInv ==
  /\ WalkTypes
  /\ sm # "idle" => TakenInv /\ PastInv /\ AtWord /\ RowInv /\ SearchInv
                    /\ FieldInv /\ WaysInv /\ ReloadInv
  /\ VerdictInv

-----------------------------------------------------------------------------
(***************************************************************************)
(* The kernel on the rows a walk holds.                                    *)
(***************************************************************************)

\* The assumption on the widths.
LEMMA Widths ==
  /\ Half \in Int /\ Half > DataMax /\ DataMax \in Int /\ DataMax >= 1 /\ Half >= 3
  /\ 0 \in Data /\ DataMax \in Data /\ 2 * Half - 1 \in Nat /\ 2 * Half - 1 # 0
  /\ \A v : v \in Data <=> v \in Int /\ 0 <= v /\ v <= DataMax
BY WidthAssumption, SMT DEF Data

\* The parts of a held row.
LEMMA HeldParts ==
  ASSUME NEW r \in HeldRow
  PROVE  /\ r.phase.lo \in Int /\ r.phase.hi \in Int
         /\ r.phase.lo \in Timer /\ r.phase.hi \in Timer
         /\ r.slope = 0 /\ r.offset = WholeTimer
         /\ r.period.lo \in Data /\ r.period.hi \in Data
         /\ r.x.lo \in Data /\ r.x.hi \in Data /\ r.y.lo \in Data /\ r.y.hi \in Data
         /\ r.period \in Narrow /\ r.x \in Narrow /\ r.y \in Narrow
         /\ r.arm.lo \in Int /\ r.arm.hi \in Nat /\ r.arm.hi \in Int /\ r.arm.hi >= 0
         /\ r.captured \in BOOLEAN /\ r.awaiting \in BOOLEAN
<1>1. /\ r.phase.lo \in Timer /\ r.phase.hi \in Timer
      /\ r.slope = 0 /\ r.offset = WholeTimer
      /\ r.period \in Narrow /\ r.x \in Narrow /\ r.y \in Narrow
      /\ r.arm.lo \in 0 .. 2 * Half - 1 /\ r.arm.hi \in 0 .. 2 * Half - 1
      /\ r.captured \in BOOLEAN /\ r.awaiting \in BOOLEAN
  BY DEF HeldRow, Phases, Wide
<1>2. \A v \in Timer : v \in Int
  BY DEF Timer
<1>3. \A v \in 0 .. 2 * Half - 1 : v \in Int /\ v \in Nat /\ v >= 0
  BY Widths, SMT
<1> QED
  BY <1>1, <1>2, <1>3 DEF Narrow

\* Data's intervals are of data.
LEMMA NarrowIs ==
  ASSUME NEW a \in Data, NEW b \in Data
  PROVE  [lo |-> a, hi |-> b] \in Narrow
BY DEF Narrow

\* The rows nothing is said by, and asked of.
LEMMA OpenIsHeld == OpenRow \in HeldRow /\ EmptyRow \in HeldRow
<1>1. /\ WholeTimer \in Phases /\ WholeData \in Narrow
      /\ WholeArm \in Wide /\ Point(0) \in Narrow
      /\ Point(0) \in Wide
      /\ [lo |-> 1, hi |-> 0] \in Phases
  BY Widths, SMT
  DEF WholeTimer, WholeData, WholeArm, Point, Narrow, Phases, Wide, Timer
<1> QED
  BY <1>1 DEF OpenRow, EmptyRow, HeldRow

\* The intervals of an entry, and the row of one.
LEMMA IntervalsAreHeld ==
  ASSUME NEW cert \in Certificate, NEW e \in TableEntry
  PROVE  /\ Interval(cert, e, "phase") \in Phases
         /\ Interval(cert, e, "arm") \in Wide
         /\ Interval(cert, e, "period") \in Narrow /\ Interval(cert, e, "x") \in Narrow
         /\ Interval(cert, e, "y") \in Narrow
         /\ e.captured \in BOOLEAN /\ e.awaiting \in BOOLEAN
<1>1. /\ WholeTimer \in Phases /\ WholeData \in Narrow
      /\ WholeArm \in Wide
  BY Widths, SMT DEF WholeTimer, WholeData, WholeArm, Narrow, Phases, Wide, Timer
<1>2. /\ cert.wide \in [1 .. IndexMax -> Wide] /\ cert.narrow \in [1 .. IndexMax -> Narrow]
      /\ e.captured \in BOOLEAN /\ e.awaiting \in BOOLEAN
      /\ e.phase \in Indices /\ e.arm \in Indices /\ e.period \in Indices
      /\ e.x \in Indices /\ e.y \in Indices
  BY DEF Certificate, TableEntry
<1>3. \A i \in Indices : i # 0 => i \in 1 .. IndexMax
  BY LoadCheckAssumption, SMT DEF Indices
<1>4. /\ e.phase # 0 => cert.wide[e.phase] \in Wide
      /\ e.arm # 0 => cert.wide[e.arm] \in Wide
      /\ e.period # 0 => cert.narrow[e.period] \in Narrow
      /\ e.x # 0 => cert.narrow[e.x] \in Narrow
      /\ e.y # 0 => cert.narrow[e.y] \in Narrow
  BY <1>2, <1>3
<1>5. \A v \in 0 .. 2 * Half - 1 : Signed(v) \in Timer
  BY Widths, SMT DEF Signed, Timer
<1>6. Interval(cert, e, "phase") \in Phases
  BY <1>1, <1>4, <1>5 DEF Interval, Wide, OpenRow, Phases
<1>7. Interval(cert, e, "arm") \in Wide
  BY <1>1, <1>4 DEF Interval, OpenRow
<1>8. /\ Interval(cert, e, "period") \in Narrow /\ Interval(cert, e, "x") \in Narrow
      /\ Interval(cert, e, "y") \in Narrow
  BY <1>1, <1>4 DEF Interval, OpenRow
<1> QED
  BY <1>2, <1>6, <1>7, <1>8

\* A decoded entry is a row a walk may hold.
LEMMA DecodedIsHeld ==
  ASSUME NEW cert \in Certificate, NEW e \in TableEntry
  PROVE  Decode(cert, e) \in HeldRow
BY IntervalsAreHeld, OpenIsHeld DEF Decode, OpenRow, HeldRow

\* What a word leaves of a counter, and of the period.
LEMMA CounterIsHeld ==
  ASSUME NEW w \in Word, NEW r \in HeldRow, NEW i \in Narrow,
         NEW sets \in BOOLEAN, NEW dec \in BOOLEAN, NEW taken \in BOOLEAN
  PROVE  Counter(w, r, i, sets, dec, taken) \in Narrow
<1>1. i.lo \in Data /\ i.hi \in Data /\ w.imm \in Data
  BY DEF Narrow, Word
<1>2. Released(i.lo - 1) \in Data /\ Less1(i.hi) \in Data
  BY <1>1, Widths, SMT DEF Released, Larger, Less1
<1>3. /\ r.x.lo \in Data /\ r.x.hi \in Data /\ r.y.lo \in Data /\ r.y.hi \in Data
  BY HeldParts
<1>4. Larger(r.x.lo, r.y.lo) \in Data /\ Smaller(r.x.hi, r.y.hi) \in Data
  BY <1>3 DEF Larger, Smaller
<1> QED
  BY <1>1, <1>2, <1>4, Widths, NarrowIs DEF Counter, Point, Common

\* The period after a word is data.
LEMMA PeriodIsHeld ==
  ASSUME NEW w \in Word, NEW r \in HeldRow
  PROVE  PeriodImage(w, r) \in Narrow
<1>1. w.imm \in Data /\ Loaded.value \in Data /\ DataMax \in Data
  BY Widths, WidthAssumption DEF Word
<1> QED
  BY <1>1, HeldParts, NarrowIs DEF PeriodImage, Point

\* What a word adds to the phase is a number.
LEMMA ImageIsHeld ==
  ASSUME NEW w \in Word, NEW r \in HeldRow, NEW taken \in BOOLEAN
  PROVE  Image(w, r, taken) \in [lo : Int, hi : Int]
<1>1. w.imm \in Int /\ w.cycles \in Int
  BY Widths, SMT DEF Word
<1>2. /\ r.period.lo \in Int /\ r.period.hi \in Int /\ r.x.lo \in Int /\ r.x.hi \in Int
      /\ r.y.lo \in Int /\ r.y.hi \in Int /\ r.phase.lo \in Int /\ r.phase.hi \in Int
      /\ r.arm.hi \in Int /\ r.offset.lo \in Int /\ r.offset.hi \in Int
      /\ r.period \in Narrow
  BY HeldParts, Widths, SMT DEF WholeTimer
<1>3. AddedIn(w, r).lo \in Int /\ AddedIn(w, r).hi \in Int
  <2>1. r.period = [lo |-> r.period.lo, hi |-> r.period.hi]
    BY <1>2 DEF Narrow
  <2>2. CASE w.kind = "advance"
    <3>1. AddedIn(w, r) = [lo |-> r.period.lo,
                           hi |-> r.period.hi + (IF Fraction THEN 1 ELSE 0)]
      BY <2>1, <2>2 DEF AddedIn
    <3> QED
      BY <1>2, <3>1, SMT
  <2>3. CASE w.kind # "advance"
    BY <1>1, <1>2, <2>3, SMT DEF AddedIn, Point
  <2> QED
    BY <2>2, <2>3
<1>4. Delta(w, r).lo \in Int /\ Delta(w, r).hi \in Int
  <2> DEFINE a == AddedIn(w, r).lo
             b == AddedIn(w, r).hi
  <2>1. Delta(w, r).lo = w.cycles - b /\ Delta(w, r).hi = w.cycles - a
    BY DEF Delta
  <2>2. a \in Int /\ b \in Int
    BY <1>3
  <2> HIDE DEF a, b
  <2> QED
    BY <1>1, <2>1, <2>2, SMT
<1>5. Entry(w, r, taken).lo \in Int /\ Entry(w, r, taken).hi \in Int
  BY <1>2, SMT DEF Entry, Larger, Smaller
<1>6. /\ PhaseFromIn(w, r, Entry(w, r, taken)).lo \in Int
      /\ PhaseFromIn(w, r, Entry(w, r, taken)).hi \in Int
  <2> DEFINE from == Entry(w, r, taken)
  <2>1. from.lo \in Int /\ from.hi \in Int
    BY <1>5
  <2> HIDE DEF from
  <2>2. PhaseFromIn(w, r, from).lo \in Int /\ PhaseFromIn(w, r, from).hi \in Int
    BY <1>2, <2>1, SMT DEF PhaseFromIn, Point, Released, Larger
  <2> QED
    BY <2>2 DEF from
<1>7. \A a, b, c, d \in Int : Plus([lo |-> a, hi |-> b], [lo |-> c, hi |-> d])
                                \in [lo : Int, hi : Int]
  BY SMT DEF Plus
<1> DEFINE p == PhaseFromIn(w, r, Entry(w, r, taken))
           q == Delta(w, r)
<1>8. p.lo \in Int /\ p.hi \in Int /\ q.lo \in Int /\ q.hi \in Int
  BY <1>4, <1>6
<1>9. Image(w, r, taken) = [lo |-> p.lo + q.lo, hi |-> p.hi + q.hi]
  BY DEF Image, Plus
<1> HIDE DEF p, q
<1> QED
  BY <1>8, <1>9, SMT

\* What a word does to the arm: it goes up.
LEMMA ArmIsHeld ==
  ASSUME NEW w \in Word, NEW r \in HeldRow
  PROVE  /\ ArmImage(w, r) \in [lo : Int, hi : Nat]
         /\ ArmImage(w, r).hi \in Int /\ ArmImage(w, r).hi >= 1
<1>1. w.cycles \in Int /\ w.cycles >= 1
  BY Widths, SMT DEF Word
<1>2. /\ r.arm.lo \in Int /\ r.arm.hi \in Int /\ r.arm.hi >= 0
      /\ r.phase.lo \in Int /\ r.phase.hi \in Int
  BY HeldParts
<1>3. CASE w.kind = "capture_arm"
  <2>1. ArmImage(w, r) = [lo |-> w.cycles, hi |-> w.cycles]
    BY <1>3 DEF ArmImage, Point, Deadlines
  <2> QED
    BY <1>1, <2>1, SMT
<1>4. CASE w.kind \in Deadlines
  <2>1. ArmImage(w, r) = [lo |-> (r.arm.lo + Released(-r.phase.hi)) + w.cycles,
                          hi |-> (r.arm.hi + Released(-r.phase.lo)) + w.cycles]
    BY <1>4 DEF ArmImage, Later, Plus, Stall, Deadlines
  <2>2. /\ Released(-r.phase.hi) \in Int /\ Released(-r.phase.lo) \in Int
        /\ Released(-r.phase.lo) >= 0
    BY <1>2, SMT DEF Released, Larger
  <2> QED
    BY <1>1, <1>2, <2>1, <2>2, SMT
<1>5. CASE w.kind # "capture_arm" /\ w.kind \notin Deadlines
  <2>1. ArmImage(w, r) = [lo |-> r.arm.lo + w.cycles, hi |-> r.arm.hi + w.cycles]
    BY <1>5 DEF ArmImage, Later
  <2> QED
    BY <1>1, <1>2, <2>1, SMT
<1> QED
  BY <1>3, <1>4, <1>5

\* What the offset adds to x_dec's fall is nothing: a held row's says nothing.
LEMMA EntryIsHeld ==
  ASSUME NEW w \in Word, NEW r \in HeldRow, NEW taken \in BOOLEAN
  PROVE  /\ Entry(w, r, taken).lo = r.phase.lo
         /\ Entry(w, r, taken).hi = r.phase.hi
<1>1. /\ r.offset.lo = -Half /\ r.offset.hi = Half - 1
      /\ r.phase.lo \in Timer /\ r.phase.hi \in Timer
  BY HeldParts DEF WholeTimer
<1> QED
  BY <1>1, Widths, SMT DEF Entry, Larger, Smaller, Timer

\* An interval that the timer holds.
LEMMA TimerBounds ==
  ASSUME NEW a, NEW b, Inside([lo |-> a, hi |-> b], WholeTimer)
  PROVE  -Half <= a /\ b <= Half - 1
BY DEF Inside, WholeTimer

LEMMA PhasesAre ==
  ASSUME NEW a \in Timer, NEW b \in Timer
  PROVE  [lo |-> a, hi |-> b] \in Phases
BY DEF Phases

\* A word under a row it is asked about falls through with a phase of the timer's, if
\* the image is inside it: its bounds are in their order, or those of a captured edge.
LEMMA ImageInTimer ==
  ASSUME NEW w \in Word, NEW r \in HeldRow, ~IsEmpty(r),
         Inside(Image(w, r, FALSE), WholeTimer)
  PROVE  Image(w, r, FALSE) \in Phases
<1> DEFINE from == PhaseFromIn(w, r, Entry(w, r, FALSE))
           add == AddedIn(w, r)
<1>1. /\ w.imm \in Int /\ w.cycles \in Int /\ w.cycles >= 1 /\ w.cycles <= Half - 2
  BY Widths, SMT DEF Word
<1>2. /\ r.phase.lo \in Int /\ r.phase.hi \in Int /\ r.phase.lo <= r.phase.hi
      /\ r.period.lo \in Int /\ r.period.hi \in Int /\ r.period.lo <= r.period.hi
      /\ r.x.lo \in Int /\ r.x.hi \in Int /\ r.x.lo <= r.x.hi
      /\ r.y.lo \in Int /\ r.y.hi \in Int /\ r.y.lo <= r.y.hi
      /\ r.arm.hi \in Int /\ r.arm.hi >= 0
  <2>1. /\ r.phase.lo \in Int /\ r.phase.hi \in Int /\ r.arm.hi \in Int /\ r.arm.hi >= 0
        /\ r.period.lo \in Int /\ r.period.hi \in Int /\ r.x.lo \in Int /\ r.x.hi \in Int
        /\ r.y.lo \in Int /\ r.y.hi \in Int
    BY HeldParts, Widths
  <2>2. /\ ~(r.phase.lo > r.phase.hi) /\ ~(r.period.lo > r.period.hi)
        /\ ~(r.x.lo > r.x.hi) /\ ~(r.y.lo > r.y.hi)
    BY DEF IsEmpty
  <2> QED
    BY <2>1, <2>2, SMT
<1>3. /\ Entry(w, r, FALSE).lo = r.phase.lo /\ Entry(w, r, FALSE).hi = r.phase.hi
  BY EntryIsHeld
<1>4. add.lo \in Int /\ add.hi \in Int /\ add.lo <= add.hi
  <2>1. r.period = [lo |-> r.period.lo, hi |-> r.period.hi]
    BY HeldParts DEF Narrow
  <2>2. CASE w.kind = "advance"
    <3>1. add = [lo |-> r.period.lo, hi |-> r.period.hi + (IF Fraction THEN 1 ELSE 0)]
      BY <2>1, <2>2 DEF AddedIn
    <3> QED
      BY <1>2, <3>1, SMT
  <2>3. CASE w.kind # "advance"
    BY <1>1, <1>2, <2>3, SMT DEF AddedIn, Point
  <2> QED
    BY <2>2, <2>3
<1>5. /\ Image(w, r, FALSE) = [lo |-> from.lo + (w.cycles - add.hi),
                               hi |-> from.hi + (w.cycles - add.lo)]
  BY DEF Image, Plus, Delta
<1>6. CASE CaptureBounded(w, r)
  <2>0. w.kind = "from_capture" /\ w.kind # "anchor"
    BY <1>6 DEF CaptureBounded
  <2>1. from.lo = 1 /\ from.hi = r.arm.hi - 1
    BY <1>6, <2>0 DEF PhaseFromIn, Deadlines
  <2>2. add.lo = 0 /\ add.hi = 0
    BY <2>0 DEF AddedIn, Point
  <2> DEFINE lo1 == 1 + (w.cycles - 0)
             hi1 == (r.arm.hi - 1) + (w.cycles - 0)
  <2>3. Image(w, r, FALSE) = [lo |-> lo1, hi |-> hi1]
    <3> HIDE DEF from, add
    <3> QED
      BY <1>5, <2>1, <2>2
  <2>4. hi1 <= Half - 1
    BY <2>3, TimerBounds
  <2>5. lo1 \in Timer /\ hi1 \in Timer
    BY <1>1, <1>2, <2>4, Widths, SMT DEF Timer
  <2> HIDE DEF lo1, hi1
  <2> QED
    BY <2>3, <2>5, PhasesAre
<1>7. CASE ~CaptureBounded(w, r)
  <2>1. from.lo \in Int /\ from.hi \in Int /\ from.lo <= from.hi
    <3> DEFINE a == Entry(w, r, FALSE)
    <3>1. a.lo \in Int /\ a.hi \in Int /\ a.lo <= a.hi
      BY <1>2, <1>3
    <3> HIDE DEF a
    <3>2. \/ PhaseFromIn(w, r, a) = Point(0)
          \/ PhaseFromIn(w, r, a) = [lo |-> Released(a.lo), hi |-> Released(a.hi)]
          \/ PhaseFromIn(w, r, a) = a
      BY <1>7 DEF PhaseFromIn
    <3>3. /\ Released(a.lo) \in Int /\ Released(a.hi) \in Int
          /\ Released(a.lo) <= Released(a.hi)
      BY <3>1, SMT DEF Released, Larger
    <3>4. /\ PhaseFromIn(w, r, a).lo \in Int /\ PhaseFromIn(w, r, a).hi \in Int
          /\ PhaseFromIn(w, r, a).lo <= PhaseFromIn(w, r, a).hi
      BY <3>1, <3>2, <3>3 DEF Point
    <3> QED
      BY <3>4 DEF a
  <2> DEFINE lo1 == from.lo + (w.cycles - add.hi)
             hi1 == from.hi + (w.cycles - add.lo)
  <2>2. Image(w, r, FALSE) = [lo |-> lo1, hi |-> hi1]
    BY <1>5
  <2>3. from.lo + (w.cycles - add.hi) \in Int /\ from.hi + (w.cycles - add.lo) \in Int
        /\ from.lo + (w.cycles - add.hi) <= from.hi + (w.cycles - add.lo)
    <3> HIDE DEF from, add
    <3> QED
      BY <1>1, <1>4, <2>1, SMT
  <2>4. lo1 \in Int /\ hi1 \in Int /\ lo1 <= hi1
    BY <2>3
  <2> HIDE DEF lo1, hi1
  <2>5. -Half <= lo1 /\ hi1 <= Half - 1
    BY <2>2, TimerBounds
  <2>6. lo1 \in Timer /\ hi1 \in Timer
    BY <2>4, <2>5, Widths, SMT DEF Timer
  <2> QED
    BY <2>2, <2>6, PhasesAre
<1> QED
  BY <1>6, <1>7

\* The cycles since the arm, where they are known, are a count.
LEMMA ArmInTimer ==
  ASSUME NEW w \in Word, NEW r \in HeldRow, ~IsEmpty(r), ArmImageKnown(w, r)
  PROVE  ArmImage(w, r) \in Wide
<1>1. w.cycles \in Int /\ w.cycles >= 1 /\ w.cycles <= Half - 2
  BY Widths, SMT DEF Word
<1>2. /\ r.arm.lo \in Int /\ r.arm.hi \in Int /\ r.arm.lo >= 0 /\ r.arm.lo <= r.arm.hi
      /\ r.phase.lo \in Int /\ r.phase.hi \in Int /\ r.phase.lo <= r.phase.hi
  <2>1. r.arm.lo \in 0 .. 2 * Half - 1
    BY DEF HeldRow, Wide
  <2>2. ~(r.phase.lo > r.phase.hi) /\ ~(r.arm.lo > r.arm.hi)
    BY DEF IsEmpty
  <2> QED
    BY <2>1, <2>2, HeldParts, Widths, SMT
<1>3. CASE w.kind = "capture_arm"
  <2>1. ArmImage(w, r) = [lo |-> w.cycles, hi |-> w.cycles]
    BY <1>3 DEF ArmImage, Point, Deadlines
  <2>2. w.cycles \in 0 .. 2 * Half - 1
    BY <1>1, Widths, SMT
  <2> QED
    BY <2>1, <2>2 DEF Wide
<1>4. CASE w.kind # "capture_arm"
  <2>1. ArmImage(w, r).hi < Half
    BY <1>4 DEF ArmImageKnown, ArmLimit
  <2> DEFINE stalls == w.kind \in Deadlines
             l == (r.arm.lo + (IF stalls THEN Released(-r.phase.hi) ELSE 0)) + w.cycles
             h == (r.arm.hi + (IF stalls THEN Released(-r.phase.lo) ELSE 0)) + w.cycles
  <2>2. ArmImage(w, r) = [lo |-> l, hi |-> h]
    <3>1. r.arm.lo + 0 = r.arm.lo /\ r.arm.hi + 0 = r.arm.hi
      BY <1>2, SMT
    <3> QED
      BY <1>4, <3>1 DEF ArmImage, Later, Plus, Stall
  <2>3. h < Half
    BY <2>1, <2>2
  <2>4. /\ Released(-r.phase.hi) \in Int /\ Released(-r.phase.lo) \in Int
        /\ Released(-r.phase.hi) >= 0 /\ Released(-r.phase.hi) <= Released(-r.phase.lo)
    BY <1>2, SMT DEF Released, Larger
  <2>5. l \in 0 .. 2 * Half - 1 /\ h \in 0 .. 2 * Half - 1
    BY <1>1, <1>2, <2>3, <2>4, Widths, SMT
  <2> QED
    BY <2>2, <2>5 DEF Wide
<1> QED
  BY <1>3, <1>4

\* The row that falls to the next pc is one a walk may hold.
LEMMA FallenIsHeld ==
  ASSUME NEW w \in Word, NEW r \in HeldRow, Falls(w, r)
  PROVE  Fallen(w, r) \in HeldRow
<1>1. /\ WholeTimer \in Phases /\ WholeData \in Narrow
      /\ WholeArm \in Wide
  BY Widths, SMT DEF WholeTimer, WholeData, WholeArm, Narrow, Phases, Wide, Timer
<1>2. CapturedImage(w, r) \in BOOLEAN /\ AwaitingImage(w, r) \in BOOLEAN
  BY DEF CapturedImage, AwaitingImage
<1>3. /\ Inside(Image(w, r, FALSE), WholeTimer) => Image(w, r, FALSE) \in Phases
      /\ PeriodImage(w, r) \in Narrow
      /\ ArmImageKnown(w, r) => ArmImage(w, r) \in Wide
  <2>1. ~IsEmpty(r)
    BY DEF Falls, Asks
  <2> QED
    BY <2>1, ImageInTimer, PeriodIsHeld, ArmInTimer
<1>4. /\ Counter(w, r, r.x, w.kind = "set_x", w.kind = "x_dec", FALSE) \in Narrow
      /\ Counter(w, r, r.y, w.kind = "set_y", w.kind = "y_dec", FALSE) \in Narrow
  BY HeldParts, CounterIsHeld
<1>5. ASSUME NEW ph \in Phases, NEW p \in Narrow, NEW xs \in Narrow,
             NEW ys \in Narrow, NEW a \in Wide,
             NEW c \in BOOLEAN, NEW e \in BOOLEAN
      PROVE  [OpenRow EXCEPT !.phase = ph, !.period = p, !.x = xs, !.y = ys, !.arm = a,
                             !.captured = c, !.awaiting = e] \in HeldRow
  BY <1>5 DEF OpenRow, HeldRow
<1> DEFINE ph == IF PhaseKnown(w, r) /\ Inside(Image(w, r, FALSE), WholeTimer)
                 THEN Image(w, r, FALSE) ELSE WholeTimer
           p == IF w.kind = "writes_p" /\ ~Loaded.valid THEN WholeData
                ELSE PeriodImage(w, r)
           xs == IF w.kind = "writes_x" THEN WholeData
                 ELSE Counter(w, r, r.x, w.kind = "set_x", w.kind = "x_dec", FALSE)
           ys == IF w.kind = "writes_y" THEN WholeData
                 ELSE Counter(w, r, r.y, w.kind = "set_y", w.kind = "y_dec", FALSE)
           a == IF ArmImageKnown(w, r) THEN ArmImage(w, r) ELSE WholeArm
<1>6. /\ ph \in Phases /\ p \in Narrow /\ xs \in Narrow /\ ys \in Narrow
      /\ a \in Wide
  BY <1>1, <1>3, <1>4
<1> DEFINE c == CapturedImage(w, r)
           e == AwaitingImage(w, r)
<1>7. Fallen(w, r) = [OpenRow EXCEPT !.phase = ph, !.period = p, !.x = xs, !.y = ys,
                                     !.arm = a, !.captured = c, !.awaiting = e]
  BY DEF Fallen
<1>8. c \in BOOLEAN /\ e \in BOOLEAN
  BY <1>2
<1> HIDE DEF ph, p, xs, ys, a, c, e
<1>9. [OpenRow EXCEPT !.phase = ph, !.period = p, !.x = xs, !.y = ys,
                      !.arm = a, !.captured = c, !.awaiting = e] \in HeldRow
  BY <1>5, <1>6, <1>8
<1> QED
  BY <1>7, <1>9

\* A way out whose conjuncts do not fail is accepted.
LEMMA NoneFails ==
  ASSUME NEW w, NEW r, NEW s, NEW taken,
         Failing(w, r, s, taken) = {}, Asked(w, r, taken)
  PROVE  Holds(w, r, s, taken)
<1>1. {Conjuncts[i] : i \in 1 .. Len(Conjuncts)} =
        {"phase", "offset", "period", "x", "y", "arm", "captured", "awaiting"}
  <2>1. Len(Conjuncts) = 8
    BY DEF Conjuncts
  <2>2. 1 .. 8 = {1, 2, 3, 4, 5, 6, 7, 8}
    BY SMT
  <2> QED
    BY <2>1, <2>2 DEF Conjuncts
<1>2. \A f \in {"phase", "offset", "period", "x", "y", "arm", "captured", "awaiting"} :
        ConjunctHolds(w, r, s, taken, f)
  BY <1>1 DEF Failing
<1>3. /\ ConjunctHolds(w, r, s, taken, "phase") /\ ConjunctHolds(w, r, s, taken, "offset")
      /\ ConjunctHolds(w, r, s, taken, "period") /\ ConjunctHolds(w, r, s, taken, "x")
      /\ ConjunctHolds(w, r, s, taken, "y") /\ ConjunctHolds(w, r, s, taken, "arm")
      /\ ConjunctHolds(w, r, s, taken, "captured")
      /\ ConjunctHolds(w, r, s, taken, "awaiting")
  BY <1>2
<1> QED
  BY <1>3 DEF ConjunctHolds, Holds

\* The open row takes any core.
LEMMA OpenIsAccepted ==
  ASSUME NEW w \in Word, NEW r \in HeldRow, NEW taken \in BOOLEAN
  PROVE  Holds(w, r, OpenRow, taken)
<1>1. \A i \in Narrow : Inside(i, WholeData)
  BY Widths, SMT DEF Narrow, Inside, WholeData
<1>2. /\ OpenRow.phase = WholeTimer /\ OpenRow.offset = WholeTimer
      /\ OpenRow.period = WholeData /\ OpenRow.x = WholeData /\ OpenRow.y = WholeData
      /\ OpenRow.arm = WholeArm /\ ~OpenRow.captured /\ ~OpenRow.awaiting
  BY DEF OpenRow
<1>3. PeriodHolds(w, r, OpenRow)
  BY <1>1, <1>2, PeriodIsHeld DEF PeriodHolds
<1>4. XHolds(w, r, OpenRow, taken)
  BY <1>1, <1>2, HeldParts, CounterIsHeld DEF XHolds
<1>5. YHolds(w, r, OpenRow, taken)
  BY <1>1, <1>2, HeldParts, CounterIsHeld DEF YHolds
<1> QED
  BY <1>2, <1>3, <1>4, <1>5
  DEF Holds, PhaseHolds, OffsetHolds, ArmHolds, CapturedHolds, AwaitingHolds

\* The empty row takes none: a word's cycles since the arm are never zero.
LEMMA EmptyIsRefused ==
  ASSUME NEW w \in Word, NEW r \in HeldRow, NEW taken \in BOOLEAN,
         Failing(w, r, EmptyRow, taken) = {}
  PROVE  ~Asked(w, r, taken)
<1> SUFFICES ASSUME Asked(w, r, taken) PROVE FALSE
  OBVIOUS
<1>1. ArmHolds(w, r, EmptyRow)
  BY NoneFails DEF Holds
<1>2. EmptyRow.arm = Point(0) /\ Point(0) # WholeArm /\ Point(0).hi = 0
  BY Widths DEF EmptyRow, OpenRow, Point, WholeArm
<1>3. ArmImage(w, r).hi <= 0
  BY <1>1, <1>2 DEF ArmHolds, Inside
<1> QED
  BY <1>3, ArmIsHeld, SMT

-----------------------------------------------------------------------------
(***************************************************************************)
(* Places.                                                                 *)
(***************************************************************************)

\* The pc that follows is one.
LEMMA FollowingIn ==
  ASSUME NEW config \in Config, NEW p \in Pcs
  PROVE  Following(config, p) \in Pcs /\ (FallsToNext(config, p) => p + 1 \in Pcs)
<1>1. Size \in Nat /\ Size > 0 /\ p + 1 \in Nat
  BY LoadCheckAssumption, SMT DEF Pcs
<1>2. (p + 1) % Size \in Pcs
  BY <1>1, SMT DEF Pcs
<1> QED
  BY <1>2 DEF Following, FallsToNext, Config

\* The certificate's entries, one by one.
LEMMA EntriesTypes ==
  ASSUME WalkTypes
  PROVE  /\ image.cert \in Certificate /\ image.config \in Config
         /\ Len(Entries) \in Nat
         /\ \A i \in 0 .. Len(Entries) - 1 :
              EntryAt(i) \in TableEntry /\ EntryAt(i).pc \in Pcs /\ DecodedAt(i) \in HeldRow
         /\ \A p \in Pcs : /\ image.words[p] \in Instruction
                           /\ image.words[p].op \in Word /\ image.words[p].target \in Pcs
<1>1. /\ image.cert \in Certificate /\ image.config \in Config
      /\ Entries \in Seq(TableEntry) /\ image.words \in [Pcs -> Instruction]
  BY DEF WalkTypes, Contents, Certificate, Entries
<1>2. Len(Entries) \in Nat
  BY <1>1
<1>3. ASSUME NEW i \in 0 .. Len(Entries) - 1
      PROVE  EntryAt(i) \in TableEntry /\ EntryAt(i).pc \in Pcs /\ DecodedAt(i) \in HeldRow
  <2>1. i + 1 \in 1 .. Len(Entries)
    BY <1>2, SMT
  <2>2. EntryAt(i) \in TableEntry
    BY <1>1, <2>1 DEF EntryAt, Entries
  <2> QED
    BY <1>1, <2>2, DecodedIsHeld DEF DecodedAt, TableEntry
<1> QED
  BY <1>1, <1>2, <1>3 DEF Instruction

\* What the ways out are judged by is the certificate, the configuration and the word.
LEMMA LookupStays ==
  ASSUME image'.cert = image.cert, NEW t, NEW w, NEW r, NEW taken
  PROVE  LookupPasses(t, w, r, taken)' <=> LookupPasses(t, w, r, taken)
BY DEF LookupPasses, Entries, EntryAt, DecodedAt

\* What passed still does when a later pc's row is held.
LEMMA PassesStays ==
  ASSUME image'.cert = image.cert, image'.config = image.config,
         NEW p, image'.words[p] = image.words[p], NEW r, NEW s
  PROVE  /\ TargetPasses(p, r)' <=> TargetPasses(p, r)
         /\ NextPasses(p, r, s)' <=> NextPasses(p, r, s)
         /\ Passes(p, r, s)' <=> Passes(p, r, s)
<1>1. PICK t, w : t = image.words[p].target /\ w = image.words[p].op
  OBVIOUS
<1>2. PICK f : f = Following(image.config, p)
  OBVIOUS
<1>3. /\ LookupPasses(t, w, r, TRUE)' <=> LookupPasses(t, w, r, TRUE)
      /\ LookupPasses(f, w, r, FALSE)' <=> LookupPasses(f, w, r, FALSE)
  BY LookupStays
<1>4. TargetPasses(p, r) <=> (w.kind \in Jumps => LookupPasses(t, w, r, TRUE))
  BY <1>1 DEF TargetPasses
<1>5. TargetPasses(p, r)' <=> (w.kind \in Jumps => LookupPasses(t, w, r, TRUE)')
  BY <1>1 DEF TargetPasses, LookupPasses
<1>6. NextPasses(p, r, s) <=>
        IF FallsToNext(image.config, p) THEN Failing(w, r, s, FALSE) = {}
        ELSE LookupPasses(f, w, r, FALSE)
  BY <1>1, <1>2 DEF NextPasses
<1>7. NextPasses(p, r, s)' <=>
        IF FallsToNext(image.config, p) THEN Failing(w, r, s, FALSE) = {}
        ELSE LookupPasses(f, w, r, FALSE)'
  BY <1>1, <1>2 DEF NextPasses, LookupPasses
<1>8. /\ Passes(p, r, s) <=> InTime(w, r) /\ TargetPasses(p, r) /\ NextPasses(p, r, s)
      /\ Passes(p, r, s)' <=> InTime(w, r) /\ TargetPasses(p, r)' /\ NextPasses(p, r, s)'
  BY <1>1 DEF Passes
<1> QED
  BY <1>3, <1>4, <1>5, <1>6, <1>7, <1>8

\* A step that holds no new row and takes no entry.
LEMMA PlaceStays ==
  ASSUME TakenInv, PastInv, image'.cert = image.cert, image'.config = image.config,
         \A p \in 0 .. pc - 1 : image'.words[p] = image.words[p],
         UNCHANGED <<held, pc, ptr>>
  PROVE  TakenInv' /\ PastInv'
<1>1. TakenInv'
  BY DEF TakenInv, EntryAt, DecodedAt
<1>2. PastInv'
  <2> SUFFICES ASSUME NEW p \in 0 .. pc - 1
               PROVE  Passes(p, held[p], held[p + 1])'
    BY DEF PastInv
  <2>1. PICK r, s : r = held[p] /\ s = held[p + 1]
    OBVIOUS
  <2>2. Passes(p, r, s)
    BY <2>1 DEF PastInv
  <2>3. Passes(p, r, s)'
    BY <2>2, PassesStays
  <2> QED
    BY <2>1, <2>3 DEF Passes, TargetPasses, NextPasses, LookupPasses
<1> QED
  BY <1>1, <1>2

\* The walk goes on to the next pc with the row s for it, or is at its end.
LEMMA NextPcHolds ==
  ASSUME WalkTypes, Walking, TakenInv, PastInv, NEW s \in HeldRow, NextPcOrFinish(s),
         UNCHANGED image, stored <=> ptr < count /\ EntryAt(ptr).pc = NextPc,
         stored => s = DecodedAt(ptr), Passes(pc, held[pc], s)
  PROVE  /\ TakenInv' /\ PastInv'
         /\ pc' \in Pcs /\ ptr' \in Nat /\ ptr' <= Len(Entries)
         /\ held' \in [Pcs -> HeldRow]
         /\ \/ sm' = "word" /\ held'[pc'] = s
            \/ sm' = "finish" /\ pc' = Size - 1 /\ Passes(pc, held[pc], held[0])'
<1>1. /\ pc \in Pcs /\ Size \in Nat /\ pc \in Nat /\ pc <= Size - 1
      /\ ptr \in Nat /\ count = Len(Entries) /\ Len(Entries) \in Nat
      /\ held \in [Pcs -> HeldRow]
  BY LoadCheckAssumption, EntriesTypes, SMT DEF WalkTypes, Pcs
<1>2. PICK r : r = held[pc]
  OBVIOUS
<1>3. Passes(pc, r, s)
  BY <1>2
<1>4. CASE AtEnd
  <2>1. pc = Size - 1 /\ sm' = "finish" /\ pc' = pc /\ held' = held
    BY <1>4 DEF AtEnd, NextPcOrFinish
  <2>2. ~stored
    <3>1. SUFFICES ASSUME ptr < count, EntryAt(ptr).pc = NextPc PROVE FALSE
      OBVIOUS
    <3>2. ptr \in 0 .. Len(Entries) - 1
      BY <1>1, <3>1
    <3>3. EntryAt(ptr).pc \in Pcs
      BY <3>2, EntriesTypes
    <3> QED
      BY <1>1, <2>1, <3>1, <3>3, SMT DEF NextPc, Pcs
  <2>3. ptr' = ptr
    BY <1>1, <2>2 DEF NextPcOrFinish
  <2>4. TakenInv' /\ PastInv'
    BY <2>1, <2>3, PlaceStays
  <2>5. PICK p, q : p = pc /\ q = held[0]
    OBVIOUS
  <2>6. ~FallsToNext(image.config, p)
    <3>1. p + 1 \notin Pcs
      BY <1>1, <2>1, <2>5, SMT DEF Pcs
    <3> QED
      BY <1>1, <2>5, <3>1, EntriesTypes, FollowingIn
  <2>7. Passes(p, r, q)
    BY <1>3, <2>5, <2>6 DEF Passes, NextPasses
  <2>8. Passes(p, r, q)'
    BY <2>7, PassesStays
  <2>9. Passes(pc, held[pc], held[0])'
    BY <1>2, <2>1, <2>5, <2>8
    DEF Passes, TargetPasses, NextPasses, LookupPasses
  <2> QED
    BY <1>1, <2>1, <2>3, <2>4, <2>9 DEF WalkTypes
<1>5. CASE ~AtEnd
  <2>1. /\ sm' = "word" /\ pc' = pc + 1 /\ held' = [held EXCEPT ![pc + 1] = s]
        /\ ptr' = ptr + (IF stored THEN 1 ELSE 0)
    BY <1>5 DEF NextPcOrFinish, NextPc
  <2>2. pc + 1 \in Pcs /\ 0 \in Pcs /\ 0 # pc + 1
    BY <1>1, <1>5, SMT DEF AtEnd, Pcs
  <2>3. /\ held' \in [Pcs -> HeldRow] /\ held'[pc + 1] = s
        /\ \A q \in Pcs : q # pc + 1 => held'[q] = held[q]
    BY <1>1, <2>1, <2>2
  <2>4. ptr' \in Nat /\ ptr' <= Len(Entries)
    <3>1. CASE stored
      <4>1. ptr < count /\ ptr' = ptr + 1
        BY <2>1, <3>1
      <4> QED
        BY <1>1, <4>1, SMT
    <3>2. CASE ~stored
      <4>1. ptr' = ptr
        BY <1>1, <2>1, <3>2
      <4> QED
        BY <4>1 DEF WalkTypes
    <3> QED
      BY <3>1, <3>2
  <2>5. TakenInv'
    <3>1. held'[0] = OpenRow
      BY <2>2, <2>3 DEF TakenInv
    <3>2. ASSUME NEW i \in 0 .. ptr' - 1
          PROVE  EntryAt(i).pc \in 1 .. pc + 1 /\ held'[EntryAt(i).pc] = DecodedAt(i)
      <4>1. CASE i \in 0 .. ptr - 1
        <5>1. EntryAt(i).pc \in 1 .. pc /\ held[EntryAt(i).pc] = DecodedAt(i)
          BY <4>1 DEF TakenInv
        <5>2. EntryAt(i).pc \in Pcs /\ EntryAt(i).pc # pc + 1 /\ EntryAt(i).pc \in 1 .. pc + 1
          BY <1>1, <5>1, SMT DEF Pcs
        <5> QED
          BY <2>3, <5>1, <5>2
      <4>2. CASE i \notin 0 .. ptr - 1
        <5>1. stored /\ i = ptr
          BY <1>1, <2>1, <3>2, <4>2
        <5>2. EntryAt(ptr).pc = pc + 1 /\ s = DecodedAt(ptr)
          BY <5>1 DEF NextPc
        <5>3. pc + 1 \in 1 .. pc + 1
          BY <1>1
        <5> QED
          BY <2>3, <5>1, <5>2, <5>3
      <4> QED
        BY <4>1, <4>2
    <3> QED
      BY <2>1, <3>1, <3>2 DEF TakenInv, EntryAt, DecodedAt
  <2>6. PastInv'
    <3> SUFFICES ASSUME NEW p \in 0 .. pc' - 1
                 PROVE  Passes(p, held[p], held[p + 1])'
      BY DEF PastInv
    <3>1. p \in Pcs /\ p + 1 \in Pcs /\ p # pc + 1
      BY <1>1, <2>1, <2>2, SMT DEF Pcs
    <3>2. PICK u, v : u = held'[p] /\ v = held'[p + 1]
      OBVIOUS
    <3>3. Passes(p, u, v)
      <4>1. CASE p = pc
        BY <1>2, <1>3, <2>3, <3>1, <3>2, <4>1
      <4>2. CASE p # pc
        <5>1. p \in 0 .. pc - 1 /\ p + 1 # pc + 1
          BY <1>1, <2>1, <4>2, SMT
        <5>2. Passes(p, held[p], held[p + 1])
          BY <5>1 DEF PastInv
        <5> QED
          BY <2>3, <3>1, <3>2, <5>1, <5>2
      <4> QED
        BY <4>1, <4>2
    <3>4. Passes(p, u, v)'
      BY <3>3, PassesStays
    <3> QED
      BY <3>2, <3>4 DEF Passes, TargetPasses, NextPasses, LookupPasses
  <2> QED
    BY <2>1, <2>2, <2>3, <2>4, <2>5, <2>6
<1> QED
  BY <1>4, <1>5

\* Rows that pass are rows the kernel accepts, once every entry is taken.
LEMMA PassesAccepted ==
  ASSUME WalkTypes, Walking, TakenInv, ptr = count, NEW p \in Pcs, NEW s,
         Passes(p, held[p], s), FallsToNext(image.config, p) => s = held[p + 1]
  PROVE  Accepts(image.words[p].op, held[p], held[Following(image.config, p)],
                 held[image.words[p].target])
<1> DEFINE w == image.words[p].op
           r == held[p]
           f == Following(image.config, p)
           t == image.words[p].target
<1>1. w \in Word /\ r \in HeldRow /\ f \in Pcs /\ t \in Pcs
  BY EntriesTypes, FollowingIn DEF WalkTypes
<1>2. ASSUME NEW u \in Pcs, NEW taken \in BOOLEAN, LookupPasses(u, w, r, taken),
             Asked(w, r, taken)
      PROVE  Holds(w, r, held[u], taken)
  <2> HIDE DEF w, r
  <2>1. CASE u = 0
    <3>1. held[u] = OpenRow
      BY <2>1 DEF TakenInv
    <3> QED
      BY <1>1, <3>1, OpenIsAccepted
  <2>2. CASE \E i \in 0 .. Len(Entries) - 1 :
               EntryAt(i).pc = u /\ Failing(w, r, DecodedAt(i), taken) = {}
    <3>1. PICK i \in 0 .. Len(Entries) - 1 :
                 EntryAt(i).pc = u /\ Failing(w, r, DecodedAt(i), taken) = {}
      BY <2>2
    <3>2. i \in 0 .. ptr - 1
      BY DEF WalkTypes
    <3>3. held[u] = DecodedAt(i)
      BY <3>1, <3>2 DEF TakenInv
    <3> QED
      BY <1>2, <3>1, <3>3, NoneFails
  <2>3. CASE Failing(w, r, EmptyRow, taken) = {}
    BY <1>1, <1>2, <2>3, EmptyIsRefused
  <2> QED
    BY <1>2, <2>1, <2>2, <2>3 DEF LookupPasses
<1>3. InTime(w, r)
  BY DEF Passes
<1>4. ASSUME Takes(w, r) PROVE Holds(w, r, held[t], TRUE)
  <2>1. w.kind \in Jumps /\ Asked(w, r, TRUE)
    BY <1>4 DEF Takes, Asked
  <2>2. LookupPasses(t, w, r, TRUE)
    BY <2>1 DEF Passes, TargetPasses
  <2> QED
    BY <1>1, <1>2, <2>1, <2>2
<1>5. ASSUME Falls(w, r) PROVE Holds(w, r, held[f], FALSE)
  <2>1. Asked(w, r, FALSE)
    BY <1>5 DEF Asked
  <2>2. CASE FallsToNext(image.config, p)
    <3>1. Failing(w, r, s, FALSE) = {} /\ f = p + 1
      BY <2>2 DEF Passes, NextPasses, FallsToNext
    <3>2. s = held[f]
      BY <2>2, <3>1
    <3> HIDE DEF w, r, f
    <3>3. Holds(w, r, s, FALSE)
      BY <2>1, <3>1, NoneFails
    <3> QED
      BY <3>2, <3>3
  <2>3. CASE ~FallsToNext(image.config, p)
    <3>1. LookupPasses(f, w, r, FALSE)
      BY <2>3 DEF Passes, NextPasses
    <3> QED
      BY <1>1, <1>2, <2>1, <3>1
  <2> QED
    BY <2>2, <2>3
<1> QED
  BY <1>3, <1>4, <1>5 DEF Accepts

-----------------------------------------------------------------------------
(***************************************************************************)
(* The steps.                                                              *)
(***************************************************************************)

WalkHere ==
  TakenInv /\ PastInv /\ AtWord /\ RowInv /\ SearchInv /\ FieldInv /\ WaysInv /\ ReloadInv

\* A walk begins with no row held and no entry taken.
LEMMA BeginHolds == ASSUME WalkInv, Begin PROVE WalkInv'
<1>1. WalkTypes
  BY DEF WalkInv
<1>2. /\ sm' = "header" /\ purpose' = "target" /\ source' = "dictionary"
      /\ pc' = 0 /\ ptr' = 0 /\ count' = 0 /\ stored' = FALSE
      /\ key' = 0 /\ lo' = 0 /\ hi' = 0 /\ sel' = 0 /\ field' = 0
      /\ row' = OpenRow /\ accepted' = FALSE
      /\ held' = [p \in Pcs |-> OpenRow] /\ word' = word
  BY DEF Begin, FirstRow
<1>3. image' \in Contents /\ instructions' \in SUBSET Instruction
  <2>1. Halt \in Instruction
    <3>1. 1 \in 1 .. Half - 2 /\ 0 \in Data /\ 0 \in Pcs
      BY Widths, LoadCheckAssumption, SMT DEF Data, Pcs
    <3> QED
      BY <3>1 DEF Halt, Instruction, Word, Kinds
  <2>2. PICK c \in IF Check \in Again THEN Again ELSE {x \in {Check} : FirstWalk} :
          /\ image' = [words |-> [p \in Pcs |-> Halt], config |-> c.config, cert |-> c.cert]
          /\ instructions' = c.instructions
    BY DEF Begin
  <2>3. /\ c.config \in Config /\ c.cert \in Certificate
        /\ c.instructions \in SUBSET Instruction
    <3>1. CASE Check \in Again
      <4>1. c \in Checks
        BY <2>2, <3>1, LoadCheckerAssumption
      <4> QED
        BY <4>1, LoadCheckerAssumption
    <3>2. CASE Check \notin Again
      <4>1. c = Check
        BY <2>2, <3>2
      <4> QED
        BY <1>1, <4>1 DEF Check, WalkTypes, Contents
    <3> QED
      BY <3>1, <3>2
  <2> QED
    BY <2>1, <2>2, <2>3 DEF Contents
<1>4. 0 \in Pcs
  BY LoadCheckAssumption, SMT DEF Pcs
<1>5. Len(Entries') \in Nat
  <2>1. Entries' \in Seq(TableEntry)
    BY <1>3 DEF Contents, Certificate, Entries
  <2> QED
    BY <2>1
<1>6. WalkTypes'
  <2>1. 0 <= Len(Entries') /\ ~Walking'
    BY <1>2, <1>5 DEF Walking
  <2> QED
    BY <1>1, <1>2, <1>3, <1>4, <2>1, OpenIsHeld DEF WalkTypes
<1>7. TakenInv' /\ PastInv'
  <2>1. held'[0] = OpenRow /\ 0 .. ptr' - 1 = {} /\ 0 .. pc' - 1 = {}
    BY <1>2, <1>4
  <2> QED
    BY <2>1 DEF TakenInv, PastInv
<1>8. AtWord' /\ RowInv' /\ ReloadInv'
  BY <1>2, <1>4 DEF AtWord, RowInv, ReloadInv, Reloading
<1>9. SearchInv' /\ FieldInv' /\ WaysInv'
  BY <1>2 DEF SearchInv, FieldInv, WaysInv
<1> QED
  BY <1>2, <1>6, <1>7, <1>8, <1>9 DEF WalkInv, VerdictInv

\* A rejection, and the wait after one.
LEMMA RejectHolds ==
  ASSUME WalkInv, HeadOutOfOrder \/ CheckNextRejects \/ Abort PROVE WalkInv'
<1>1. /\ sm' = "idle" /\ accepted' = FALSE
      /\ UNCHANGED <<purpose, source, pc, ptr, count, word, searchVars, rowVars, image,
                     held, instructions>>
      /\ stored' \in BOOLEAN
  BY DEF WalkInv, WalkTypes, HeadOutOfOrder, CheckNextRejects, Abort, Reject, placeVars
<1>2. WalkTypes'
  BY <1>1 DEF WalkInv, WalkTypes, searchVars, rowVars, Walking, Entries
<1> QED
  BY <1>1, <1>2 DEF WalkInv, VerdictInv

\* A cycle in which the machine rests.
LEMMA RestHolds == ASSUME WalkInv, Rest PROVE WalkInv'
<1>1. /\ sm = "idle"
      /\ UNCHANGED <<stateVars, placeVars, searchVars, rowVars, accepted, image, held,
                     instructions>>
  BY DEF Rest
<1> QED
  BY <1>1
  DEF WalkInv, VerdictInv, WalkTypes, stateVars, placeVars, searchVars, rowVars, Walking,
      Entries

\* The first steps at a pc.
LEMMA HeaderHolds == ASSUME WalkInv, Header PROVE WalkInv'
<1>1. /\ sm = "header" /\ sm' = "word" /\ count' = Len(Entries)
      /\ UNCHANGED <<purpose, source, pc, ptr, word, stored, searchVars, rowVars,
                     verdictVars, image, held, instructions>>
  BY DEF Header, Entries
<1>2. WalkTypes /\ WalkHere /\ VerdictInv
  BY <1>1 DEF WalkInv, WalkHere
<1>3. WalkTypes'
  BY <1>1, <1>2
  DEF WalkTypes, searchVars, rowVars, verdictVars, Walking, Entries
<1>4. TakenInv' /\ PastInv'
  BY <1>1, <1>2, PlaceStays DEF WalkHere
<1>5. AtWord' /\ RowInv' /\ ReloadInv'
  BY <1>1, <1>2 DEF WalkHere, AtWord, RowInv, ReloadInv, Reloading, rowVars
<1>6. SearchInv' /\ FieldInv' /\ WaysInv'
  BY <1>1 DEF SearchInv, FieldInv, WaysInv
<1> QED
  BY <1>1, <1>2, <1>3, <1>4, <1>5, <1>6 DEF WalkInv, VerdictInv, verdictVars

\* The word at the pc is read.
LEMMA ReadWordHolds == ASSUME WalkInv, ReadWord PROVE WalkInv'
<1>1. /\ sm = "word" /\ sm' = "head" /\ word' \in instructions
      /\ image' = [image EXCEPT !.words[pc] = word']
      /\ UNCHANGED <<purpose, source, pc, ptr, count, stored, searchVars, entry, field, row,
                     verdictVars, held, instructions>>
  BY DEF ReadWord
<1>2. WalkTypes /\ WalkHere /\ VerdictInv
  BY <1>1 DEF WalkInv, WalkHere
<1>3. word' \in Instruction /\ pc \in Pcs /\ image \in Contents
  BY <1>1, <1>2 DEF WalkTypes
<1>4. /\ image' \in Contents /\ image'.cert = image.cert /\ image'.config = image.config
      /\ image'.words[pc] = word'
      /\ \A p \in Pcs : p # pc => image'.words[p] = image.words[p]
  <2>1. image = [words |-> image.words, config |-> image.config, cert |-> image.cert]
        /\ image.words \in [Pcs -> Instruction]
    BY <1>3 DEF Contents
  <2>2. image' = [words |-> [image.words EXCEPT ![pc] = word'], config |-> image.config,
                  cert |-> image.cert]
    BY <1>1, <2>1
  <2>3. [image.words EXCEPT ![pc] = word'] \in [Pcs -> Instruction]
    BY <1>3, <2>1
  <2> QED
    BY <1>3, <2>1, <2>2, <2>3 DEF Contents
<1>5. WalkTypes'
  BY <1>1, <1>2, <1>3, <1>4
  DEF WalkTypes, searchVars, verdictVars, Walking, Entries
<1>6. TakenInv' /\ PastInv'
  <2>1. \A p \in 0 .. pc - 1 : p \in Pcs /\ p # pc
    BY <1>3, LoadCheckAssumption, SMT DEF Pcs
  <2> QED
    BY <1>1, <1>2, <1>4, <2>1, PlaceStays DEF WalkHere
<1>7. AtWord' /\ RowInv' /\ ReloadInv'
  BY <1>1, <1>2, <1>4 DEF WalkHere, AtWord, RowInv, ReloadInv, Reloading
<1>8. SearchInv' /\ FieldInv' /\ WaysInv'
  BY <1>1 DEF SearchInv, FieldInv, WaysInv
<1> QED
  BY <1>1, <1>2, <1>5, <1>6, <1>7, <1>8 DEF WalkInv, VerdictInv, verdictVars

\* The next entry's head is in order.
LEMMA HeadHolds == ASSUME WalkInv, HeadInOrder PROVE WalkInv'
<1>1. /\ sm = "head" /\ sm' = "target"
      /\ stored' = (ptr < count /\ EntryAt(ptr).pc = NextPc)
      /\ UNCHANGED <<purpose, source, pc, ptr, count, word, searchVars, rowVars,
                     verdictVars, image, held, instructions>>
  BY DEF HeadInOrder
<1>2. WalkTypes /\ WalkHere /\ VerdictInv
  BY <1>1 DEF WalkInv, WalkHere
<1>3. stored' \in BOOLEAN
  BY <1>1
<1>4. WalkTypes'
  BY <1>1, <1>2, <1>3 DEF WalkTypes, searchVars, rowVars, verdictVars, Walking, Entries
<1>5. TakenInv' /\ PastInv'
  BY <1>1, <1>2, PlaceStays DEF WalkHere
<1>6. RowInv' /\ ReloadInv'
  BY <1>1, <1>2 DEF WalkHere, RowInv, ReloadInv, Reloading, rowVars
<1>7. AtWord'
  BY <1>1, <1>2 DEF WalkHere, AtWord, EntryAt, NextPc
<1>8. SearchInv' /\ FieldInv' /\ WaysInv'
  BY <1>1 DEF SearchInv, FieldInv, WaysInv
<1> QED
  BY <1>1, <1>2, <1>4, <1>5, <1>6, <1>7, <1>8 DEF WalkInv, VerdictInv, verdictVars

\* A search for a jump's target, or for where a pc that does not fall on goes.
LEMMA TargetHolds == ASSUME WalkInv, Target PROVE WalkInv'
<1>1. /\ sm = "target"
      /\ UNCHANGED <<source, placeVars, sel, rowVars, verdictVars, image, held, instructions>>
  BY DEF Target
<1>2. WalkTypes /\ WalkHere /\ VerdictInv
  BY <1>1 DEF WalkInv, WalkHere
<1>3. \/ /\ ~IsJump /\ sm' = "following" /\ UNCHANGED <<purpose, key, lo, hi>>
      \/ /\ IsJump /\ purpose' = "target" /\ key' = word.target /\ word.target = 0
         /\ sm' = "following" /\ UNCHANGED <<lo, hi>>
      \/ /\ IsJump /\ purpose' = "target" /\ key' = word.target /\ word.target # 0
         /\ sm' = "search" /\ lo' = 0 /\ hi' = count
  BY DEF Target, StartLookup
<1>4. word.target \in Pcs /\ count \in Nat /\ word = image.words[pc] /\ row = held[pc]
  BY <1>1, <1>2, EntriesTypes
  DEF WalkTypes, Walking, WalkHere, AtWord, RowInv, Reloading, Instruction
<1>5. WalkTypes'
  BY <1>1, <1>2, <1>3, <1>4
  DEF WalkTypes, rowVars, verdictVars, placeVars, Walking, Entries
<1>6. TakenInv' /\ PastInv'
  BY <1>1, <1>2, PlaceStays DEF WalkHere, placeVars
<1>7. AtWord' /\ RowInv' /\ ReloadInv'
  BY <1>1, <1>2, <1>3
  DEF WalkHere, AtWord, RowInv, ReloadInv, Reloading, EntryAt, NextPc, placeVars, rowVars
<1>8. SearchInv'
  <2>1. CASE sm' = "search"
    <3>1. /\ purpose' = "target" /\ key' = word.target /\ hi' = count /\ IsJump
          /\ word' = word /\ count' = count
      BY <1>1, <1>3, <2>1 DEF placeVars
    <3>2. IsJump' /\ key' = word'.target /\ hi' <= count'
      BY <1>4, <3>1 DEF IsJump
    <3> QED
      BY <2>1, <3>1, <3>2 DEF SearchInv
  <2>2. CASE sm' = "following"
    BY <2>2 DEF SearchInv
  <2> QED
    BY <1>3, <2>1, <2>2
<1>9. FieldInv'
  BY <1>3 DEF FieldInv
<1>10. WaysInv'
  <2>1. CASE sm' = "search"
    BY <1>3, <2>1 DEF WaysInv
  <2>2. CASE sm' = "following"
    <3>1. PICK p, r : p = pc /\ r = row
      OBVIOUS
    <3>2. TargetPasses(p, r)
      BY <1>3, <1>4, <2>2, <3>1 DEF TargetPasses, IsJump, LookupPasses
    <3>3. TargetPasses(p, r)'
      BY <1>1, <3>2, PassesStays
    <3>4. TargetPasses(pc, row)'
      BY <1>1, <3>1, <3>3 DEF TargetPasses, LookupPasses, placeVars, rowVars
    <3> QED
      BY <2>2, <3>4 DEF WaysInv
  <2> QED
    BY <1>3, <2>1, <2>2
<1> QED
  BY <1>1, <1>2, <1>3, <1>5, <1>6, <1>7, <1>8, <1>9, <1>10 DEF WalkInv, VerdictInv, verdictVars

\* A search that ends without an entry takes the empty row.
LEMMA SearchMissedHolds == ASSUME WalkInv, SearchMissed PROVE WalkInv'
<1>1. /\ sm = "search" /\ source' = "empty" /\ field' = 0 /\ sm' = "field"
      /\ UNCHANGED <<purpose, placeVars, searchVars, entry, row, failed_next, failed_target,
                     verdictVars, image, held, instructions>>
  BY DEF SearchMissed, CheckFields
<1>2. WalkTypes /\ WalkHere /\ VerdictInv
  BY <1>1 DEF WalkInv, WalkHere
<1>3. WalkTypes'
  BY <1>1, <1>2
  DEF WalkTypes, verdictVars, placeVars, searchVars, Walking, Entries
<1>4. TakenInv' /\ PastInv'
  BY <1>1, <1>2, PlaceStays DEF WalkHere, placeVars
<1>5. purpose \in {"target", "following"}
  BY <1>1, <1>2 DEF WalkHere, SearchInv, WalkTypes
<1>6. AtWord' /\ RowInv' /\ ReloadInv'
  BY <1>1, <1>2, <1>5
  DEF WalkHere, AtWord, RowInv, ReloadInv, Reloading, EntryAt, NextPc, placeVars
<1>7. SearchInv'
  BY <1>1, <1>2, <1>5
  DEF WalkHere, SearchInv, IsJump, FallsOn, NextFollowing, placeVars, searchVars
<1>8. FieldInv'
  <2>1. Checked' = {}
    BY <1>1 DEF Checked
  <2> QED
    BY <2>1 DEF FieldInv
<1>9. WaysInv'
  <2>1. purpose = "following" => (failed_target = {} => TargetPasses(pc, row))
    BY <1>1, <1>2 DEF WalkHere, WaysInv
  <2>2. PICK p, r : p = pc /\ r = row
    OBVIOUS
  <2>3. TargetPasses(p, r)' <=> TargetPasses(p, r)
    BY <1>1, PassesStays
  <2>4. purpose = "following" => (failed_target = {} => TargetPasses(pc, row)')
    BY <1>1, <2>1, <2>2, <2>3 DEF TargetPasses, LookupPasses, placeVars
  <2> QED
    BY <1>1, <1>5, <2>4 DEF WaysInv
<1> QED
  BY <1>1, <1>2, <1>3, <1>4, <1>6, <1>7, <1>8, <1>9 DEF WalkInv, VerdictInv, verdictVars

\* A search halves its bounds.
LEMMA SearchHolds == ASSUME WalkInv, Search PROVE WalkInv'
<1> DEFINE mid == (lo + hi) \div 2
           tag == EntryAt(mid).pc
<1>1. /\ sm = "search" /\ lo < hi
      /\ UNCHANGED <<purpose, source, placeVars, key, rowVars, verdictVars, image, held,
                     instructions>>
      /\ \/ tag = key /\ sel' = mid /\ sm' = "entry" /\ UNCHANGED <<lo, hi>>
         \/ tag < key /\ lo' = mid + 1 /\ UNCHANGED <<hi, sel, sm>>
         \/ tag > key /\ hi' = mid /\ UNCHANGED <<lo, sel, sm>>
  BY DEF Search, ReadEntry, Above
<1>2. WalkTypes /\ WalkHere /\ VerdictInv
  BY <1>1 DEF WalkInv, WalkHere
<1>3. lo \in Nat /\ hi \in Nat /\ hi <= count /\ count \in Nat
  BY <1>1, <1>2, EntriesTypes DEF WalkHere, SearchInv, WalkTypes, Walking
<1>4. mid \in Nat /\ mid < count /\ mid <= count
  <2>1. lo + hi \in Nat /\ lo + hi < 2 * hi
    BY <1>1, <1>3, SMT
  <2> QED
    BY <1>3, <2>1, SMT
<1> HIDE DEF mid
<1>7. WalkTypes'
  <2>1. sel' \in Nat /\ lo' \in Nat /\ hi' \in Nat /\ sm' \in {"search", "entry"}
    BY <1>1, <1>2, <1>4 DEF WalkTypes
  <2> QED
    BY <1>1, <1>2, <2>1
    DEF WalkTypes, verdictVars, placeVars, rowVars, Walking, Entries
<1>8. TakenInv' /\ PastInv'
  BY <1>1, <1>2, PlaceStays DEF WalkHere, placeVars
<1>9. purpose \in {"target", "following"} /\ sm' \in {"search", "entry"}
  BY <1>1, <1>2 DEF WalkHere, SearchInv, WalkTypes
<1>10. AtWord' /\ RowInv' /\ ReloadInv'
  BY <1>1, <1>2, <1>9
  DEF WalkHere, AtWord, RowInv, ReloadInv, Reloading, EntryAt, NextPc, placeVars, rowVars
<1>11. SearchInv'
  <2>1. /\ purpose = "target" => IsJump /\ key = word.target
        /\ purpose = "following" => ~FallsOn /\ key = NextFollowing
    BY <1>1, <1>2 DEF WalkHere, SearchInv
  <2>2. /\ IsJump' <=> IsJump
        /\ FallsOn' <=> FallsOn
        /\ NextFollowing' = NextFollowing /\ key' = key /\ word' = word
        /\ purpose' = purpose /\ count' = count
    BY <1>1 DEF IsJump, FallsOn, NextFollowing, placeVars
  <2>3. sm' = "entry" => sel' < count' /\ EntryAt(sel)'.pc = key'
    BY <1>1, <1>4, <2>2 DEF EntryAt
  <2>4. sm' = "search" => hi' <= count'
    BY <1>1, <1>3, <1>4, <2>2
  <2> QED
    BY <1>9, <2>1, <2>2, <2>3, <2>4 DEF SearchInv
<1>12. FieldInv'
  BY <1>9 DEF FieldInv
<1>13. WaysInv'
  <2>1. purpose = "following" => (failed_target = {} => TargetPasses(pc, row))
    BY <1>1, <1>2 DEF WalkHere, WaysInv
  <2>2. PICK p, r : p = pc /\ r = row
    OBVIOUS
  <2>3. TargetPasses(p, r)' <=> TargetPasses(p, r)
    BY <1>1, PassesStays
  <2>4. purpose = "following" => (failed_target = {} => TargetPasses(pc, row)')
    BY <1>1, <2>1, <2>2, <2>3 DEF TargetPasses, LookupPasses, placeVars, rowVars
  <2> QED
    BY <1>1, <1>9, <2>4 DEF WaysInv, rowVars
<1> QED
  BY <1>1, <1>2, <1>7, <1>8, <1>9, <1>10, <1>11, <1>12, <1>13
  DEF WalkInv, VerdictInv, verdictVars

\* What the way out to the jump's target is judged by stays.
LEMMA TargetStays ==
  ASSUME UNCHANGED <<image, pc, row>>
  PROVE  TargetPasses(pc, row)' <=> TargetPasses(pc, row)
BY DEF TargetPasses, LookupPasses, Entries, EntryAt, DecodedAt

\* What is known of the pc at hand stays while its rows do.
LEMMA HereStays ==
  ASSUME UNCHANGED <<image, pc, held, ptr>>
  PROVE  Passes(pc, held[pc], DecodedAt(ptr))' <=> Passes(pc, held[pc], DecodedAt(ptr))
BY DEF Passes, TargetPasses, NextPasses, LookupPasses, Entries, EntryAt, DecodedAt

\* A row reloaded up to a field.
LEMMA PartlyIsHeld ==
  ASSUME image.cert \in Certificate, NEW e \in TableEntry, NEW n \in 0 .. 5
  PROVE  Partly(e, n) \in HeldRow
<1> DEFINE c == image.cert
           a == IF n > 0 THEN Interval(c, e, "phase") ELSE WholeTimer
           b == IF n > 1 THEN Interval(c, e, "arm") ELSE WholeArm
           p == IF n > 2 THEN Interval(c, e, "period") ELSE WholeData
           x == IF n > 3 THEN Interval(c, e, "x") ELSE WholeData
           y == IF n > 4 THEN Interval(c, e, "y") ELSE WholeData
<1>1. WholeTimer \in Phases /\ WholeData \in Narrow /\ WholeArm \in Wide
  BY Widths, SMT DEF WholeTimer, WholeData, WholeArm, Narrow, Phases, Wide, Timer
<1>2. /\ a \in Phases /\ b \in Wide
      /\ p \in Narrow /\ x \in Narrow /\ y \in Narrow
      /\ e.captured \in BOOLEAN /\ e.awaiting \in BOOLEAN
  BY <1>1, IntervalsAreHeld
<1>3. Partly(e, n) = [OpenRow EXCEPT !.phase = a, !.arm = b, !.period = p, !.x = x, !.y = y,
                                     !.captured = e.captured, !.awaiting = e.awaiting]
  BY DEF Partly, OpenRow
<1> HIDE DEF a, b, p, x, y
<1> QED
  BY <1>2, <1>3 DEF OpenRow, HeldRow

\* A field more of it; the last makes it the entry's row.
LEMMA PartlyGrows ==
  ASSUME NEW e, NEW n \in 0 .. 4
  PROVE  Partly(e, n + 1) =
           IF e[Fields[n + 1]] = 0 THEN Partly(e, n)
           ELSE [Partly(e, n) EXCEPT ![Fields[n + 1]] =
                                       Interval(image.cert, e, Fields[n + 1])]
<1> DEFINE c == image.cert
           RowOf(a, b, p, x, y) ==
             [phase |-> a, slope |-> 0, offset |-> WholeTimer, period |-> p, x |-> x, y |-> y,
              arm |-> b, captured |-> e.captured, awaiting |-> e.awaiting]
           a == Interval(c, e, "phase")
           b == Interval(c, e, "arm")
           p == Interval(c, e, "period")
           x == Interval(c, e, "x")
           y == Interval(c, e, "y")
<1>1. /\ e["phase"] = 0 => a = WholeTimer
      /\ e["arm"] = 0 => b = WholeArm
      /\ e["period"] = 0 => p = WholeData
      /\ e["x"] = 0 => x = WholeData
      /\ e["y"] = 0 => y = WholeData
  BY DEF Interval, OpenRow
<1>2. ASSUME NEW m \in 0 .. 5
      PROVE  Partly(e, m) = RowOf(IF m > 0 THEN a ELSE WholeTimer, IF m > 1 THEN b ELSE WholeArm,
                                IF m > 2 THEN p ELSE WholeData, IF m > 3 THEN x ELSE WholeData,
                                IF m > 4 THEN y ELSE WholeData)
  <2> DEFINE am == IF m > 0 THEN a ELSE WholeTimer
             bm == IF m > 1 THEN b ELSE WholeArm
             pm == IF m > 2 THEN p ELSE WholeData
             xm == IF m > 3 THEN x ELSE WholeData
             ym == IF m > 4 THEN y ELSE WholeData
  <2>1. Partly(e, m) = [OpenRow EXCEPT !.phase = am, !.arm = bm, !.period = pm, !.x = xm,
                          !.y = ym, !.captured = e.captured, !.awaiting = e.awaiting]
    BY DEF Partly, OpenRow
  <2> HIDE DEF am, bm, pm, xm, ym
  <2>2. Partly(e, m) = RowOf(am, bm, pm, xm, ym)
    BY <2>1 DEF OpenRow
  <2> QED
    BY <2>2 DEF am, bm, pm, xm, ym
<1> HIDE DEF a, b, p, x, y
<1>3. /\ Partly(e, 0) = RowOf(WholeTimer, WholeArm, WholeData, WholeData, WholeData)
      /\ Partly(e, 1) = RowOf(a, WholeArm, WholeData, WholeData, WholeData)
      /\ Partly(e, 2) = RowOf(a, b, WholeData, WholeData, WholeData)
      /\ Partly(e, 3) = RowOf(a, b, p, WholeData, WholeData)
      /\ Partly(e, 4) = RowOf(a, b, p, x, WholeData)
      /\ Partly(e, 5) = RowOf(a, b, p, x, y)
  <2> HIDE DEF RowOf
  <2> QED
    BY <1>2, SMT
<1>4. CASE n = 0
  <2>1. n + 1 = 1 /\ Fields[1] = "phase"
    BY <1>4 DEF Fields
  <2>2. [Partly(e, 0) EXCEPT !["phase"] = a] = Partly(e, 1)
    BY <1>3
  <2> QED
    BY <1>1, <1>3, <1>4, <2>1, <2>2 DEF a
<1>5. CASE n = 1
  <2>1. n + 1 = 2 /\ Fields[2] = "arm"
    BY <1>5 DEF Fields
  <2>2. [Partly(e, 1) EXCEPT !["arm"] = b] = Partly(e, 2)
    BY <1>3
  <2> QED
    BY <1>1, <1>3, <1>5, <2>1, <2>2 DEF b
<1>6. CASE n = 2
  <2>1. n + 1 = 3 /\ Fields[3] = "period"
    BY <1>6 DEF Fields
  <2>2. [Partly(e, 2) EXCEPT !["period"] = p] = Partly(e, 3)
    BY <1>3
  <2> QED
    BY <1>1, <1>3, <1>6, <2>1, <2>2 DEF p
<1>7. CASE n = 3
  <2>1. n + 1 = 4 /\ Fields[4] = "x"
    BY <1>7 DEF Fields
  <2>2. [Partly(e, 3) EXCEPT !["x"] = x] = Partly(e, 4)
    BY <1>3
  <2> QED
    BY <1>1, <1>3, <1>7, <2>1, <2>2 DEF x
<1>8. CASE n = 4
  <2>1. n + 1 = 5 /\ Fields[5] = "y"
    BY <1>8 DEF Fields
  <2>2. [Partly(e, 4) EXCEPT !["y"] = y] = Partly(e, 5)
    BY <1>3
  <2> QED
    BY <1>1, <1>3, <1>8, <2>1, <2>2 DEF y
<1> QED
  BY <1>4, <1>5, <1>6, <1>7, <1>8

\* A row all of whose fields are reloaded is the entry's.
LEMMA PartlyEnds == ASSUME NEW e PROVE Partly(e, 5) = Decode(image.cert, e)
BY DEF Partly, Decode

\* An entry is read, for its row to be checked or reloaded.
LEMMA ReadsEntryHolds == ASSUME WalkInv, ReadsEntry PROVE WalkInv'
<1>1. /\ sm = "entry" /\ sm' = "field" /\ source' = "dictionary" /\ field' = 0
      /\ entry' = EntryAt(sel)
      /\ UNCHANGED <<purpose, placeVars, searchVars, failed_next, failed_target, verdictVars,
                     image, held, instructions>>
      /\ purpose # "reload" => row' = row
      /\ purpose = "reload" => row' = [OpenRow EXCEPT !.captured = entry'.captured,
                                                      !.awaiting = entry'.awaiting]
  BY DEF ReadsEntry, CheckFields
<1>2. WalkTypes /\ WalkHere /\ VerdictInv
  BY <1>1 DEF WalkInv, WalkHere
<1>3. sel \in 0 .. Len(Entries) - 1 /\ sel < count
  BY <1>1, <1>2, EntriesTypes DEF WalkTypes, WalkHere, SearchInv, Walking
<1>4. entry' \in TableEntry /\ image.cert \in Certificate
  BY <1>1, <1>2, <1>3, EntriesTypes
<1>5. purpose = "reload" => row' = Partly(entry', 0)
  <2>1. PICK e : e = entry'
    OBVIOUS
  <2>2. Partly(e, 0) = [OpenRow EXCEPT !.captured = e.captured, !.awaiting = e.awaiting]
    <3> DEFINE S == [phase : {WholeTimer}, slope : {0}, offset : {WholeTimer},
                     period : {WholeData}, x : {WholeData}, y : {WholeData},
                     arm : {WholeArm}, captured : {e.captured}, awaiting : {e.awaiting}]
    <3>1. Partly(e, 0) \in S
      <4>1. Partly(e, 0) = [OpenRow EXCEPT !.phase = WholeTimer, !.arm = WholeArm,
                              !.period = WholeData, !.x = WholeData, !.y = WholeData,
                              !.captured = e.captured, !.awaiting = e.awaiting]
        BY DEF Partly, OpenRow
      <4> QED
        BY <4>1 DEF OpenRow
    <3>2. [OpenRow EXCEPT !.captured = e.captured, !.awaiting = e.awaiting] \in S
      BY DEF OpenRow
    <3>3. \A q \in S : q = [phase |-> WholeTimer, slope |-> 0, offset |-> WholeTimer,
                           period |-> WholeData, x |-> WholeData, y |-> WholeData,
                           arm |-> WholeArm, captured |-> e.captured, awaiting |-> e.awaiting]
      OBVIOUS
    <3> QED
      BY <3>1, <3>2, <3>3
  <2> QED
    BY <1>1, <2>1, <2>2
<1>6. row' \in HeldRow
  <2>1. PICK e : e = entry'
    OBVIOUS
  <2>2. Partly(e, 0) \in HeldRow
    BY <1>4, <2>1, PartlyIsHeld
  <2> QED
    BY <1>1, <1>2, <1>5, <2>1, <2>2 DEF WalkTypes
<1>7. WalkTypes'
  BY <1>1, <1>2, <1>6 DEF WalkTypes, verdictVars, placeVars, searchVars, Walking, Entries
<1>8. TakenInv' /\ PastInv'
  BY <1>1, <1>2, PlaceStays DEF WalkHere, placeVars
<1>9. AtWord' /\ RowInv' /\ ReloadInv'
  BY <1>1, <1>2, <1>5
  DEF WalkHere, AtWord, RowInv, ReloadInv, Reloading, EntryAt, NextPc, placeVars, Partly
<1>10. SearchInv'
  BY <1>1, <1>2, <1>3
  DEF WalkHere, SearchInv, IsJump, FallsOn, NextFollowing, EntryAt, placeVars, searchVars
<1>11. FieldInv'
  <2>1. Checked' = {}
    BY <1>1 DEF Checked
  <2> QED
    BY <2>1 DEF FieldInv
<1>12. WaysInv'
  <2>1. purpose # "reload" => (TargetPasses(pc, row)' <=> TargetPasses(pc, row))
    BY <1>1, TargetStays DEF placeVars
  <2>2. Passes(pc, held[pc], DecodedAt(ptr))' <=> Passes(pc, held[pc], DecodedAt(ptr))
    BY <1>1, HereStays DEF placeVars
  <2> QED
    BY <1>1, <1>2, <2>1, <2>2 DEF WalkHere, WaysInv
<1> QED
  BY <1>1, <1>2, <1>7, <1>8, <1>9, <1>10, <1>11, <1>12 DEF WalkInv, VerdictInv, verdictVars

\* A field more is checked; the fifth is the last.
LEMMA CheckedGrows ==
  ASSUME field \in 0 .. 4, field' = field + 1
  PROVE  Checked' = Checked \cup Recorded(Fields[field + 1])
<1> DEFINE R(k) == Recorded(Fields[k])
           A == 1 .. field
           B == 1 .. field'
<1>1. B = A \cup {field + 1}
  BY SMT
<1>2. Checked = UNION {R(k) : k \in A} /\ Checked' = UNION {R(k) : k \in B}
  BY DEF Checked
<1> HIDE DEF R, A, B
<1>3. ASSUME NEW x PROVE x \in Checked <=> \E k \in A : x \in R(k)
  BY <1>2
<1>4. ASSUME NEW x PROVE x \in Checked' <=> \E k \in B : x \in R(k)
  BY <1>2
<1>5. ASSUME NEW x
      PROVE  (\E k \in B : x \in R(k)) <=> (\E k \in A : x \in R(k)) \/ x \in R(field + 1)
  BY <1>1
<1>6. ASSUME NEW x PROVE x \in Checked' <=> x \in Checked \/ x \in R(field + 1)
  BY <1>3, <1>4, <1>5, Zenon
<1>7. Checked' = Checked \cup R(field + 1)
  BY <1>6
<1> QED
  BY <1>7 DEF R

\* After the last field, every conjunct of the kernel is checked.
LEMMA CheckedAll ==
  ASSUME field' = 5, NEW w, NEW r, NEW s, NEW taken
  PROVE  Failing(w, r, s, taken) \subseteq Checked'
<1>1. Len(Conjuncts) = 8 /\ 1 .. 8 = {1, 2, 3, 4, 5, 6, 7, 8}
  BY SMT DEF Conjuncts
<1>2. Failing(w, r, s, taken) \subseteq
        {"phase", "offset", "period", "x", "y", "arm", "captured", "awaiting"}
  BY <1>1 DEF Failing, Conjuncts
<1>3. /\ Recorded(Fields[1]) = {"phase"} /\ Recorded(Fields[2]) = {"arm"}
      /\ Recorded(Fields[3]) = {"period"} /\ Recorded(Fields[4]) = {"x"}
      /\ Recorded(Fields[5]) = {"y", "offset", "captured", "awaiting"}
  BY DEF Recorded, Fields
<1>4. /\ 1 \in 1 .. field' /\ 2 \in 1 .. field' /\ 3 \in 1 .. field' /\ 4 \in 1 .. field'
      /\ 5 \in 1 .. field'
  BY SMT
<1>5. \A k \in 1 .. field' : Recorded(Fields[k]) \subseteq Checked'
  BY DEF Checked
<1> QED
  BY <1>2, <1>3, <1>4, <1>5

\* What a search found is what the way out is judged by.
LEMMA FoundPasses ==
  ASSUME WalkTypes, Walking, SearchInv, sm = "field", purpose \in {"target", "following"},
         NEW w, NEW r, NEW taken, Failing(w, r, CheckedRow, taken) = {}
  PROVE  LookupPasses(key, w, r, taken)
<1>1. CASE source = "dictionary"
  <2>1. sel < count /\ EntryAt(sel).pc = key /\ entry = EntryAt(sel)
    BY <1>1 DEF SearchInv
  <2>2. sel \in 0 .. Len(Entries) - 1
    BY <2>1, EntriesTypes DEF WalkTypes
  <2>3. CheckedRow = DecodedAt(sel)
    BY <1>1, <2>1 DEF CheckedRow, DecodedAt
  <2> QED
    BY <2>1, <2>2, <2>3 DEF LookupPasses
<1>2. CASE source = "empty"
  <2>1. CheckedRow = EmptyRow
    BY <1>2 DEF CheckedRow
  <2> QED
    BY <2>1 DEF LookupPasses
<1>3. CASE source = "fallen"
  BY <1>3 DEF SearchInv
<1> QED
  BY <1>1, <1>2, <1>3 DEF WalkTypes

\* A field is checked; with the fifth, every conjunct of the way out was.
LEMMA CheckFieldHolds == ASSUME WalkInv, CheckField PROVE WalkInv'
<1>1. /\ sm = "field" /\ purpose # "reload" /\ field' = field + 1
      /\ purpose = "target" =>
           /\ failed_target' = (failed_target \ Recorded(Fields[field + 1])) \cup FailsNow
           /\ failed_next' = failed_next
      /\ purpose # "target" =>
           /\ failed_next' = (failed_next \ Recorded(Fields[field + 1])) \cup FailsNow
           /\ failed_target' = failed_target
      /\ UNCHANGED <<pc, ptr, held, purpose, source, count, word, stored, searchVars, entry,
                     row, verdictVars, image, instructions>>
      /\ field # 4 => sm' = sm
      /\ field = 4 /\ purpose = "target" => sm' = "following"
      /\ field = 4 /\ purpose # "target" => sm' = "check_next"
  BY DEF CheckField, AfterRow
<1>2. WalkTypes /\ WalkHere /\ VerdictInv
  BY <1>1 DEF WalkInv, WalkHere
<1>3. Walking /\ field \in 0 .. 4 /\ field' \in 0 .. 5
  BY <1>1, <1>2 DEF WalkTypes, WalkHere, SearchInv, Walking
<1>4. WalkTypes'
  BY <1>1, <1>2, <1>3 DEF WalkTypes, verdictVars, searchVars, Walking, Entries
<1>5. TakenInv' /\ PastInv'
  BY <1>1, <1>2, PlaceStays DEF WalkHere
<1>6. AtWord' /\ RowInv' /\ ReloadInv'
  BY <1>1, <1>2 DEF WalkHere, AtWord, RowInv, ReloadInv, Reloading, EntryAt, NextPc
<1>7. SearchInv'
  <2>1. CASE field = 4
    BY <1>1, <1>2, <2>1 DEF SearchInv, WalkTypes
  <2>2. CASE field # 4
    <3>1. sm' = "field" /\ field' < 5
      BY <1>1, <1>3, <2>2
    <3> QED
      BY <1>1, <1>2, <3>1
      DEF WalkHere, SearchInv, IsJump, FallsOn, NextFollowing, EntryAt, searchVars
  <2> QED
    BY <2>1, <2>2
<1>8. /\ CheckedRow' = CheckedRow /\ word' = word /\ row' = row
      /\ Checked' = Checked \cup Recorded(Fields[field + 1])
  BY <1>1, <1>3, CheckedGrows DEF CheckedRow, FellRow
<1> DEFINE fails(taken) == Failing(word.op, row, CheckedRow, taken)
<1>9. purpose = "target" => fails(TRUE) \cap Checked' \subseteq failed_target'
  BY <1>1, <1>2, <1>8 DEF WalkHere, FieldInv, FailsNow
<1>10. purpose # "target" => fails(FALSE) \cap Checked' \subseteq failed_next'
  <2>1. purpose # "target" => purpose \in {"stored", "fallen", "following"}
    BY <1>1, <1>2 DEF WalkTypes
  <2> QED
    BY <1>1, <1>2, <1>8, <2>1 DEF WalkHere, FieldInv, FailsNow
<1>11. FieldInv'
  BY <1>1, <1>8, <1>9, <1>10 DEF FieldInv
<1>12. word = image.words[pc]
  BY <1>1, <1>2 DEF WalkHere, AtWord
<1>13. WaysInv'
  <2>1. TargetPasses(pc, row)' <=> TargetPasses(pc, row)
    BY <1>1, TargetStays
  <2>2. CASE field # 4
    <3>1. sm' = "field"
      BY <1>1, <2>2
    <3> QED
      BY <1>1, <1>2, <2>1, <3>1 DEF WalkHere, WaysInv
  <2>3. CASE field = 4 /\ purpose = "target"
    <3>1. sm' = "following" /\ field' = 5
      BY <1>1, <2>3
    <3>2. ASSUME failed_target' = {} PROVE TargetPasses(pc, row)
      <4>1. fails(TRUE) = {}
        BY <1>9, <2>3, <3>1, <3>2, CheckedAll
      <4>2. LookupPasses(key, word.op, row, TRUE)
        BY <1>1, <1>2, <1>3, <2>3, <4>1, FoundPasses DEF WalkHere
      <4>3. key = word.target
        BY <1>1, <1>2, <2>3 DEF WalkHere, SearchInv
      <4> QED
        BY <1>12, <4>2, <4>3 DEF TargetPasses
    <3> QED
      BY <2>1, <3>1, <3>2 DEF WaysInv
  <2>4. CASE field = 4 /\ purpose # "target"
    <3>1. sm' = "check_next" /\ field' = 5
      BY <1>1, <2>4
    <3>2. failed_target' = {} => TargetPasses(pc, row)'
      BY <1>1, <1>2, <2>1, <2>4 DEF WalkHere, WaysInv, WalkTypes
    <3>3. ASSUME failed_next' = {} PROVE NextPasses(pc, row, NextRowHere)
      <4>1. fails(FALSE) = {}
        BY <1>10, <2>4, <3>1, <3>3, CheckedAll
      <4>2. CASE purpose = "following"
        <5>1. LookupPasses(key, word.op, row, FALSE)
          BY <1>1, <1>2, <1>3, <4>1, <4>2, FoundPasses DEF WalkHere
        <5>2. ~FallsOn /\ key = NextFollowing
          BY <1>1, <1>2, <4>2 DEF WalkHere, SearchInv
        <5> QED
          BY <1>12, <5>1, <5>2 DEF NextPasses, FallsOn, NextFollowing
      <4>3. CASE purpose # "following"
        <5>1. FallsOn /\ CheckedRow = NextRowHere
          <6>1. CASE purpose = "stored"
            <7>1. FallsOn /\ stored /\ sel = ptr /\ source = "dictionary"
              BY <1>1, <1>2, <6>1 DEF WalkHere, SearchInv, WalkTypes
            <7>2. entry = EntryAt(ptr)
              BY <1>1, <1>2, <7>1 DEF WalkHere, SearchInv
            <7> QED
              BY <7>1, <7>2 DEF CheckedRow, NextRowHere, DecodedAt
          <6>2. CASE purpose = "fallen"
            <7>1. source = "fallen" /\ FallsOn /\ ~stored
              BY <1>1, <1>2, <6>2 DEF WalkHere, SearchInv, WalkTypes
            <7> QED
              BY <7>1 DEF CheckedRow, NextRowHere
          <6> QED
            BY <1>1, <1>2, <2>4, <4>3, <6>1, <6>2 DEF WalkTypes
        <5> QED
          BY <1>12, <4>1, <5>1 DEF NextPasses, FallsOn
      <4> QED
        BY <4>2, <4>3
    <3>4. NextPasses(pc, row, NextRowHere)' <=> NextPasses(pc, row, NextRowHere)
      BY <1>1
      DEF NextPasses, LookupPasses, Entries, EntryAt, DecodedAt, NextRowHere, FallsOn, FellRow
    <3> QED
      BY <3>1, <3>2, <3>3, <3>4 DEF WaysInv
  <2> QED
    BY <2>2, <2>3, <2>4
<1> QED
  BY <1>1, <1>2, <1>4, <1>5, <1>6, <1>7, <1>11, <1>13 DEF WalkInv, VerdictInv, verdictVars

\* A field of the next pc's row is reloaded.
LEMMA ReloadFieldHolds == ASSUME WalkInv, ReloadField PROVE WalkInv'
<1>1. /\ sm = "field" /\ purpose = "reload" /\ field < 5 /\ field' = field + 1
      /\ row' = IF entry[Fields[field + 1]] = 0 THEN row
                ELSE [row EXCEPT ![Fields[field + 1]] =
                                   Interval(image.cert, entry, Fields[field + 1])]
      /\ UNCHANGED <<stateVars, placeVars, searchVars, entry, failed_next, failed_target,
                     verdictVars, image, held, instructions>>
  BY DEF ReloadField
<1>2. WalkTypes /\ WalkHere /\ VerdictInv
  BY <1>1 DEF WalkInv, WalkHere
<1>3. field \in 0 .. 4 /\ field' \in 0 .. 5
  BY <1>1, <1>2 DEF WalkTypes
<1>4. source = "dictionary" /\ entry = EntryAt(sel) /\ sel < count
  BY <1>1, <1>2 DEF WalkHere, SearchInv, WalkTypes
<1>5. entry \in TableEntry /\ image.cert \in Certificate
  <2>1. sel \in 0 .. Len(Entries) - 1
    BY <1>1, <1>2, <1>4, EntriesTypes DEF WalkTypes, Walking
  <2> QED
    BY <1>2, <1>4, <2>1, EntriesTypes
<1>6. row = Partly(entry, field)
  BY <1>1, <1>2 DEF WalkHere, ReloadInv, Reloading
<1>7. row' = Partly(entry, field + 1)
  BY <1>1, <1>3, <1>6, PartlyGrows
<1>8. row' \in HeldRow
  BY <1>1, <1>3, <1>5, <1>7, PartlyIsHeld
<1>9. WalkTypes'
  BY <1>1, <1>2, <1>3, <1>8
  DEF WalkTypes, stateVars, verdictVars, placeVars, searchVars, Walking, Entries
<1>10. TakenInv' /\ PastInv'
  BY <1>1, <1>2, PlaceStays DEF WalkHere, placeVars
<1>11. AtWord' /\ RowInv'
  BY <1>1, <1>2
  DEF WalkHere, AtWord, RowInv, Reloading, EntryAt, NextPc, placeVars, stateVars
<1>12. ReloadInv'
  BY <1>1, <1>7 DEF ReloadInv, Reloading, Partly
<1>13. SearchInv' /\ FieldInv'
  BY <1>1, <1>2
  DEF WalkHere, SearchInv, FieldInv, IsJump, FallsOn, NextFollowing, EntryAt, placeVars,
      searchVars, stateVars
<1>14. WaysInv'
  <2>1. Passes(pc, held[pc], DecodedAt(ptr))' <=> Passes(pc, held[pc], DecodedAt(ptr))
    BY <1>1, HereStays DEF placeVars
  <2> QED
    BY <1>1, <1>2, <2>1 DEF WalkHere, WaysInv, stateVars
<1> QED
  BY <1>1, <1>2, <1>9, <1>10, <1>11, <1>12, <1>13, <1>14 DEF WalkInv, VerdictInv, verdictVars

\* On to the next pc, or to the end, with the row s.
LEMMA GoesOn ==
  ASSUME WalkInv, Walking, NEW s \in HeldRow, NextPcOrFinish(s), row' = s,
         stored <=> ptr < count /\ EntryAt(ptr).pc = NextPc,
         stored => s = DecodedAt(ptr), Passes(pc, held[pc], s),
         UNCHANGED <<purpose, source, count, word, stored, searchVars, field, verdictVars,
                     image, instructions>>
  PROVE  WalkInv'
<1>1. WalkTypes /\ WalkHere /\ VerdictInv
  BY DEF WalkInv, WalkHere, Walking
<1>2. /\ TakenInv' /\ PastInv'
      /\ pc' \in Pcs /\ ptr' \in Nat /\ ptr' <= Len(Entries)
      /\ held' \in [Pcs -> HeldRow]
      /\ \/ sm' = "word" /\ held'[pc'] = s
         \/ sm' = "finish" /\ pc' = Size - 1 /\ Passes(pc, held[pc], held[0])'
  BY <1>1, NextPcHolds DEF WalkHere
<1>3. WalkTypes'
  BY <1>1, <1>2 DEF WalkTypes, verdictVars, searchVars, Walking, Entries
<1>4. AtWord' /\ RowInv' /\ ReloadInv' /\ SearchInv' /\ FieldInv' /\ WaysInv'
  BY <1>2 DEF AtWord, RowInv, ReloadInv, Reloading, SearchInv, FieldInv, WaysInv
<1>5. VerdictInv'
  BY <1>1 DEF VerdictInv, Walking, verdictVars
<1> QED
  BY <1>2, <1>3, <1>4, <1>5 DEF WalkInv

\* The next pc's row is all there.
LEMMA ReloadedHolds == ASSUME WalkInv, Reloaded PROVE WalkInv'
<1>1. /\ sm = "field" /\ purpose = "reload" /\ field = 5 /\ NextPcOrFinish(row)
      /\ UNCHANGED <<purpose, source, count, word, stored, searchVars, rowVars, verdictVars,
                     image, instructions>>
  BY DEF Reloaded, AfterRow
<1>2. WalkTypes /\ WalkHere /\ Walking
  BY <1>1 DEF WalkInv, WalkHere, Walking
<1>3. /\ stored /\ sel = ptr /\ source = "dictionary" /\ entry = EntryAt(sel)
      /\ (stored <=> ptr < count /\ EntryAt(ptr).pc = NextPc)
      /\ Passes(pc, held[pc], DecodedAt(ptr)) /\ row = Partly(entry, 5)
  BY <1>1, <1>2
  DEF WalkHere, SearchInv, WalkTypes, AtWord, WaysInv, ReloadInv, Reloading
<1>4. row = DecodedAt(ptr)
  BY <1>3, PartlyEnds DEF DecodedAt
<1>5. PICK s : s = row
  OBVIOUS
<1>6. s \in HeldRow /\ NextPcOrFinish(s) /\ row' = s
  BY <1>1, <1>2, <1>5 DEF WalkTypes, rowVars, NextPcOrFinish
<1>7. Passes(pc, held[pc], s) /\ s = DecodedAt(ptr)
  BY <1>3, <1>4, <1>5
<1> QED
  BY <1>1, <1>2, <1>3, <1>6, <1>7, GoesOn DEF rowVars

\* The row of the way on: stored, fallen, or looked up.
LEMMA FollowingRowHolds == ASSUME WalkInv, FollowingRow PROVE WalkInv'
<1>1. /\ sm = "following"
      /\ UNCHANGED <<placeVars, entry, row, failed_next, failed_target, verdictVars, image,
                     held, instructions>>
  BY DEF FollowingRow
<1>2. \/ /\ FallsOn /\ stored /\ purpose' = "stored" /\ sel' = ptr /\ sm' = "entry"
         /\ UNCHANGED <<source, key, lo, hi, field>>
      \/ /\ FallsOn /\ ~stored /\ purpose' = "fallen" /\ source' = "fallen" /\ field' = 0
         /\ sm' = "field" /\ UNCHANGED searchVars
      \/ /\ ~FallsOn /\ purpose' = "following" /\ key' = NextFollowing /\ NextFollowing = 0
         /\ sm' = "check_next" /\ UNCHANGED <<source, sel, field, lo, hi>>
      \/ /\ ~FallsOn /\ purpose' = "following" /\ key' = NextFollowing /\ NextFollowing # 0
         /\ sm' = "search" /\ lo' = 0 /\ hi' = count /\ UNCHANGED <<source, sel, field>>
  <2>1. CASE FallsOn
    BY <2>1 DEF FollowingRow, ReadEntry, CheckFields
  <2>2. CASE ~FallsOn
    BY <2>2 DEF FollowingRow, StartLookup
  <2> QED
    BY <2>1, <2>2
<1>3. WalkTypes /\ WalkHere /\ VerdictInv /\ Walking
  BY <1>1 DEF WalkInv, WalkHere, Walking
<1>4. /\ count \in Nat /\ NextFollowing \in Pcs /\ word = image.words[pc] /\ row = held[pc]
      /\ (stored <=> ptr < count /\ EntryAt(ptr).pc = NextPc)
  BY <1>1, <1>3, EntriesTypes, FollowingIn
  DEF WalkTypes, WalkHere, AtWord, RowInv, Reloading, NextFollowing
<1>5. WalkTypes'
  BY <1>1, <1>2, <1>3, <1>4
  DEF WalkTypes, verdictVars, placeVars, searchVars, Walking, Entries
<1>6. TakenInv' /\ PastInv'
  BY <1>1, <1>3, PlaceStays DEF WalkHere, placeVars
<1>7. AtWord' /\ RowInv' /\ ReloadInv'
  BY <1>1, <1>2, <1>3, <1>4
  DEF WalkHere, AtWord, RowInv, ReloadInv, Reloading, EntryAt, NextPc, placeVars
<1>8. /\ FallsOn' <=> FallsOn
      /\ NextFollowing' = NextFollowing /\ count' = count /\ stored' = stored /\ ptr' = ptr
  BY <1>1 DEF FallsOn, NextFollowing, placeVars
<1>9. SearchInv'
  <2>1. CASE sm' = "entry"
    BY <1>2, <1>4, <1>8, <2>1 DEF SearchInv
  <2>2. CASE sm' = "field"
    BY <1>2, <1>8, <2>2 DEF SearchInv
  <2>3. CASE sm' = "check_next"
    BY <2>3 DEF SearchInv
  <2>4. CASE sm' = "search"
    BY <1>2, <1>4, <1>8, <2>4 DEF SearchInv
  <2> QED
    BY <1>2, <2>1, <2>2, <2>3, <2>4
<1>10. FieldInv'
  <2>1. sm' = "field" => Checked' = {}
    BY <1>2 DEF Checked
  <2> QED
    BY <1>2, <2>1 DEF FieldInv
<1>11. WaysInv'
  <2>1. failed_target' = {} => TargetPasses(pc, row)'
    <3>1. TargetPasses(pc, row)' <=> TargetPasses(pc, row)
      BY <1>1, TargetStays DEF placeVars
    <3> QED
      BY <1>1, <1>3, <3>1 DEF WalkHere, WaysInv
  <2>2. sm' = "check_next" => NextPasses(pc, row, NextRowHere)'
    <3>1. sm' = "check_next" => NextPasses(pc, row, NextRowHere)
      BY <1>2 DEF NextPasses, FallsOn, NextFollowing, LookupPasses
    <3>2. NextPasses(pc, row, NextRowHere)' <=> NextPasses(pc, row, NextRowHere)
      BY <1>1
      DEF NextPasses, LookupPasses, Entries, EntryAt, DecodedAt, NextRowHere, FallsOn,
          FellRow, placeVars
    <3> QED
      BY <3>1, <3>2
  <2> QED
    BY <1>2, <2>1, <2>2 DEF WaysInv
<1> QED
  BY <1>1, <1>2, <1>3, <1>5, <1>6, <1>7, <1>9, <1>10, <1>11 DEF WalkInv, VerdictInv, verdictVars

\* The pc is accepted.
LEMMA CheckNextHolds == ASSUME WalkInv, CheckNext PROVE WalkInv'
<1>1. /\ sm = "check_next" /\ InTime(word.op, row) /\ failed_next = {} /\ failed_target = {}
      /\ UNCHANGED <<source, count, word, stored, key, lo, hi, entry, field, failed_next,
                     failed_target, verdictVars, image, instructions>>
  BY DEF CheckNext, Refuses
<1>2. WalkTypes /\ WalkHere /\ VerdictInv /\ Walking
  BY <1>1 DEF WalkInv, WalkHere, Walking
<1>3. /\ word = image.words[pc] /\ row = held[pc]
      /\ (stored <=> ptr < count /\ EntryAt(ptr).pc = NextPc)
  BY <1>1, <1>2 DEF WalkHere, AtWord, RowInv, Reloading
<1>4. Passes(pc, held[pc], NextRowHere)
  <2>1. TargetPasses(pc, row) /\ NextPasses(pc, row, NextRowHere)
    BY <1>1, <1>2 DEF WalkHere, WaysInv
  <2> QED
    BY <1>1, <1>3, <2>1 DEF Passes
<1>5. CASE stored
  <2>1. /\ purpose' = "reload" /\ sel' = ptr /\ sm' = "entry"
        /\ UNCHANGED <<pc, ptr, row, held>>
    BY <1>5 DEF CheckNext, ReadEntry
  <2>2. WalkTypes'
    BY <1>1, <1>2, <2>1 DEF WalkTypes, verdictVars, Walking, Entries
  <2>3. TakenInv' /\ PastInv'
    BY <1>1, <1>2, <2>1, PlaceStays DEF WalkHere
  <2>4. AtWord' /\ RowInv' /\ ReloadInv' /\ FieldInv'
    BY <1>1, <1>3, <2>1
    DEF AtWord, RowInv, ReloadInv, FieldInv, Reloading, EntryAt, NextPc
  <2>5. SearchInv'
    <3>1. stored' /\ sel' = ptr' /\ sel' < count'
      BY <1>1, <1>3, <1>5, <2>1
    <3> QED
      BY <2>1, <3>1 DEF SearchInv
  <2>6. WaysInv'
    <3>1. Passes(pc, held[pc], DecodedAt(ptr))
      BY <1>4, <1>5 DEF NextRowHere
    <3>2. Passes(pc, held[pc], DecodedAt(ptr))' <=> Passes(pc, held[pc], DecodedAt(ptr))
      BY <1>1, <2>1, HereStays
    <3> QED
      BY <2>1, <3>1, <3>2 DEF WaysInv
  <2> QED
    BY <1>1, <1>2, <2>1, <2>2, <2>3, <2>4, <2>5, <2>6 DEF WalkInv, VerdictInv, verdictVars
<1>6. CASE ~stored
  <2>1. PICK s : s = row'
    OBVIOUS
  <2>2. s = NextRowHere /\ NextPcOrFinish(s) /\ UNCHANGED <<purpose, sel>>
    BY <1>6, <2>1 DEF CheckNext, NextRowHere, NextPcOrFinish
  <2>3. s \in HeldRow
    <3>1. word \in Instruction /\ row \in HeldRow
      BY <1>2 DEF WalkTypes
    <3>2. word.op \in Word
      BY <3>1 DEF Instruction
    <3> QED
      BY <1>6, <2>2, <3>1, <3>2, FallenIsHeld, OpenIsHeld DEF NextRowHere, FellRow
  <2>4. Passes(pc, held[pc], s)
    BY <1>4, <2>2
  <2> QED
    BY <1>1, <1>2, <1>3, <1>6, <2>1, <2>2, <2>3, <2>4, GoesOn DEF searchVars
<1> QED
  BY <1>5, <1>6

\* The walk ends: it is accepted only if it took every entry.
LEMMA FinishHolds == ASSUME WalkInv, Finish PROVE WalkInv'
<1>1. /\ sm = "finish" /\ sm' = "idle"
      /\ UNCHANGED <<purpose, source, placeVars, searchVars, rowVars, image, held,
                     instructions>>
      /\ AllTaken => accepted' = TRUE
      /\ ~AllTaken => accepted' = FALSE
  BY DEF Finish, Reject
<1>2. WalkTypes /\ WalkHere /\ Walking
  BY <1>1 DEF WalkInv, WalkHere, Walking
<1>3. WalkTypes'
  <2>1. accepted' \in BOOLEAN /\ ~Walking'
    BY <1>1 DEF Walking, AllTaken
  <2> QED
    BY <1>1, <1>2, <2>1 DEF WalkTypes, searchVars, placeVars, rowVars, Entries
<1>4. ASSUME AllTaken PROVE Sound(image.words, image.config, held)
  <2>1. held[0] = OpenRow
    BY <1>2 DEF WalkHere, TakenInv
  <2>2. ASSUME NEW p \in Pcs
        PROVE  Accepts(image.words[p].op, held[p], held[Following(image.config, p)],
                       held[image.words[p].target])
    <3>1. pc = Size - 1 /\ Passes(pc, held[pc], held[0])
      BY <1>1, <1>2 DEF WalkHere, WaysInv
    <3>2. ptr = count
      BY <1>4 DEF AllTaken
    <3>3. CASE p = pc
      <4>1. ~FallsToNext(image.config, p)
        <5>1. p + 1 \notin Pcs
          BY <3>1, <3>3, LoadCheckAssumption, SMT DEF Pcs
        <5>2. image.config \in Config
          BY <1>2, EntriesTypes
        <5> QED
          BY <5>1, <5>2, FollowingIn
      <4> QED
        BY <1>2, <3>1, <3>2, <3>3, <4>1, PassesAccepted DEF WalkHere
    <3>4. CASE p # pc
      <4>1. p \in 0 .. pc - 1
        BY <3>1, <3>4, LoadCheckAssumption, SMT DEF Pcs
      <4>2. Passes(p, held[p], held[p + 1])
        BY <1>2, <4>1 DEF WalkHere, PastInv
      <4> QED
        BY <1>2, <3>2, <4>2, PassesAccepted DEF WalkHere
    <3> QED
      BY <3>3, <3>4
  <2> QED
    BY <2>1, <2>2 DEF Sound
<1> QED
  BY <1>1, <1>3, <1>4 DEF WalkInv, VerdictInv

-----------------------------------------------------------------------------
(***************************************************************************)
(* The theorems.                                                           *)
(***************************************************************************)

\* The invariant holds at reset,
LEMMA WalkInit == Init => WalkInv
<1> SUFFICES ASSUME Init PROVE WalkInv
  OBVIOUS
<1>1. /\ sm = "idle" /\ purpose = "target" /\ source = "dictionary"
      /\ pc = 0 /\ ptr = 0 /\ word = Halt /\ stored = FALSE
      /\ key = 0 /\ lo = 0 /\ hi = 0 /\ sel = 0 /\ field = 0 /\ row = OpenRow
      /\ accepted = FALSE /\ held = [p \in Pcs |-> OpenRow]
  BY DEF Init
<1>2. 0 \in Pcs
  BY LoadCheckAssumption, SMT DEF Pcs
<1>3. Halt \in Instruction
  <2>1. 1 \in 1 .. Half - 2 /\ 0 \in Data
    BY Widths, SMT DEF Data
  <2> QED
    BY <1>2, <2>1 DEF Halt, Instruction, Word, Kinds
<1>4. image \in Contents /\ instructions \in SUBSET Instruction
  <2>1. PICK c \in Checks :
          /\ image = [words |-> [p \in Pcs |-> Halt], config |-> c.config, cert |-> c.cert]
          /\ instructions = c.instructions
    BY DEF Init
  <2>2. /\ c.config \in Config /\ c.cert \in Certificate
        /\ c.instructions \in SUBSET Instruction
    BY <2>1, LoadCheckerAssumption
  <2> QED
    BY <1>3, <2>1, <2>2 DEF Contents
<1>5. Len(Entries) \in Nat /\ 0 <= Len(Entries)
  <2>1. Entries \in Seq(TableEntry)
    BY <1>4 DEF Contents, Certificate, Entries
  <2>2. Len(Entries) \in Nat
    BY <2>1
  <2> QED
    BY <2>2, SMT
<1>6. WalkTypes
  <2>1. /\ held \in [Pcs -> HeldRow] /\ row \in HeldRow /\ word \in Instruction
        /\ pc \in Pcs /\ key \in Pcs /\ ptr \in Nat /\ ptr <= Len(Entries)
        /\ lo \in Nat /\ hi \in Nat /\ sel \in Nat /\ field \in 0 .. 5
        /\ stored \in BOOLEAN /\ accepted \in BOOLEAN /\ ~Walking
    BY <1>1, <1>2, <1>3, <1>5, OpenIsHeld DEF Walking
  <2> QED
    BY <1>1, <1>4, <2>1 DEF WalkTypes
<1> QED
  BY <1>1, <1>6 DEF WalkInv, VerdictInv

\* and after every step of the walk and its aborts.
LEMMA WalkStep == WalkInv /\ [Next]_vars => WalkInv'
<1> SUFFICES ASSUME WalkInv, [Next]_vars PROVE WalkInv'
  OBVIOUS
<1>1. CASE Begin
  BY <1>1, BeginHolds
<1>2. CASE Header
  BY <1>2, HeaderHolds
<1>3. CASE ReadWord
  BY <1>3, ReadWordHolds
<1>4. CASE HeadInOrder
  BY <1>4, HeadHolds
<1>5. CASE HeadOutOfOrder \/ CheckNextRejects \/ Abort
  BY <1>5, RejectHolds
<1>6. CASE Target
  BY <1>6, TargetHolds
<1>7. CASE SearchMissed
  BY <1>7, SearchMissedHolds
<1>8. CASE Search
  BY <1>8, SearchHolds
<1>9. CASE ReadsEntry
  BY <1>9, ReadsEntryHolds
<1>10. CASE CheckField
  BY <1>10, CheckFieldHolds
<1>11. CASE ReloadField
  BY <1>11, ReloadFieldHolds
<1>12. CASE Reloaded
  BY <1>12, ReloadedHolds
<1>13. CASE FollowingRow
  BY <1>13, FollowingRowHolds
<1>14. CASE CheckNext
  BY <1>14, CheckNextHolds
<1>15. CASE Finish
  BY <1>15, FinishHolds
<1>16. CASE Rest
  BY <1>16, RestHolds
<1>17. CASE UNCHANGED vars
  <2>1. UNCHANGED <<sm, purpose, source, pc, ptr, count, word, stored, key, lo, hi, sel,
                    entry, field, row, failed_next, failed_target, accepted, image,
                    instructions, held>>
    BY <1>17 DEF vars, stateVars, placeVars, searchVars, rowVars, verdictVars
  <2>2. WalkTypes' /\ VerdictInv'
    BY <2>1 DEF WalkInv, WalkTypes, VerdictInv, Walking, Entries
  <2>3. ASSUME sm # "idle" PROVE WalkHere'
    <3>1. WalkTypes /\ WalkHere
      BY <2>3 DEF WalkInv, WalkHere
    <3>2. TakenInv' /\ PastInv'
      BY <2>1, <3>1, PlaceStays DEF WalkHere
    <3>3. AtWord' /\ RowInv' /\ ReloadInv'
      BY <2>1, <3>1 DEF WalkHere, AtWord, RowInv, ReloadInv, Reloading, EntryAt, NextPc, Partly
    <3>4. SearchInv'
      BY <2>1, <3>1 DEF WalkHere, SearchInv, IsJump, FallsOn, NextFollowing, EntryAt
    <3>5. FieldInv'
      <4>1. Checked' = Checked /\ CheckedRow' = CheckedRow
        BY <2>1 DEF Checked, CheckedRow, FellRow
      <4> QED
        BY <2>1, <3>1, <4>1 DEF WalkHere, FieldInv
    <3>6. WaysInv'
      <4>1. TargetPasses(pc, row)' <=> TargetPasses(pc, row)
        BY <2>1, TargetStays
      <4>2. Passes(pc, held[pc], DecodedAt(ptr))' <=> Passes(pc, held[pc], DecodedAt(ptr))
        BY <2>1, HereStays
      <4>3. NextPasses(pc, row, NextRowHere)' <=> NextPasses(pc, row, NextRowHere)
        BY <2>1
        DEF NextPasses, LookupPasses, Entries, EntryAt, DecodedAt, NextRowHere, FallsOn, FellRow
      <4>4. Passes(pc, held[pc], held[0])' <=> Passes(pc, held[pc], held[0])
        BY <2>1 DEF Passes, TargetPasses, NextPasses, LookupPasses, Entries, EntryAt, DecodedAt
      <4> QED
        BY <2>1, <3>1, <4>1, <4>2, <4>3, <4>4 DEF WalkHere, WaysInv
    <3> QED
      BY <3>2, <3>3, <3>4, <3>5, <3>6 DEF WalkHere
  <2> QED
    BY <2>1, <2>2, <2>3 DEF WalkInv, WalkHere
<1> QED
  BY <1>1, <1>2, <1>3, <1>4, <1>5, <1>6, <1>7, <1>8, <1>9, <1>10, <1>11, <1>12, <1>13,
     <1>14, <1>15, <1>16, <1>17 DEF Next, Walk

\* The walk's invariant, whatever memory holds, whatever words the program is made
\* of and whatever the walks before left (load_checker.ml).
THEOREM WalkInvariant == Spec => []WalkInv
BY WalkInit, WalkStep, PTL DEF Spec

\* An accepted walk held, at every pc, a row that the kernel accepts against the rows
\* held where the pc's ways out lead (formal/certify.sv; load_checker.ml: Head, Search,
\* Finish), for every program, configuration and certificate.
THEOREM AcceptedHolds == Spec => []AcceptedIsSound
<1>1. WalkInv => AcceptedIsSound
  BY DEF WalkInv, VerdictInv, AcceptedIsSound
<1> QED
  BY <1>1, WalkInvariant, PTL

\* A row a walk holds is one a certificate can say.
LEMMA HeldIsRow == ASSUME NEW r \in HeldRow PROVE r \in Row
<1>1. 0 \in Timer /\ WholeTimer \in [lo : Timer, hi : Timer]
  BY Widths, SMT DEF Timer, WholeTimer
<1> QED
  BY <1>1 DEF HeldRow, Row, Phases, Narrow, Wide

\* What an accepted walk read and the rows it held are what a core is safe on: Kernel's
\* words under rows of Kernel's, sound together (load_checker.ml: Finish).
THEOREM AcceptedIsCertified ==
  Spec => [](accepted => Certified(image.words, image.config, held))
<1>1. ASSUME WalkInv, accepted
      PROVE  Certified(image.words, image.config, held)
  <2>1. /\ image \in Contents /\ held \in [Pcs -> HeldRow]
        /\ Sound(image.words, image.config, held)
    BY <1>1 DEF WalkInv, WalkTypes, VerdictInv
  <2>2. image.words \in [Pcs -> Instruction] /\ image.config \in Config
    BY <2>1 DEF Contents
  <2>3. held \in [Pcs -> Row]
    BY <2>1, HeldIsRow
  <2> QED
    BY <2>1, <2>2, <2>3 DEF Certified
<1> QED
  BY <1>1, WalkInvariant, PTL

-----------------------------------------------------------------------------
(***************************************************************************)
(* The verdict is the model's.  The model decides by two recursions: its   *)
(* walk over the pcs and its search of the entries.  Each is unfolded once *)
(* it is known to have a solution, which needs an induction over the       *)
(* naturals: one for a set in place of a predicate.                        *)
(***************************************************************************)

\* A set of naturals that has a member has a least one.
LEMMA Smallest ==
  ASSUME NEW T \in SUBSET Nat, T # {}
  PROVE  \E m \in T : \A k \in T : m <= k
<1> DEFINE R == OpToRel(<, Nat)
<1>1. IsWellFoundedOn(R, Nat)
  BY NatLessThanWellFounded
<1>2. \A a, b \in Nat : <<a, b>> \in R <=> a < b
  BY DEF OpToRel
<1> HIDE DEF R
<1>3. PICK m \in T : \A k \in T : ~ (<<k, m>> \in R)
  BY <1>1, WFMin
<1>4. \A k \in T : k \in Nat
  OBVIOUS
<1>5. \A k \in T : ~(k < m)
  BY <1>2, <1>3, <1>4
<1> QED
  BY <1>4, <1>5, SMT

\* Induction, for a set in place of a predicate.
LEMMA Induction ==
  ASSUME NEW S, 0 \in S, \A n \in Nat : n \in S => n + 1 \in S
  PROVE  \A n \in Nat : n \in S
<1> SUFFICES ASSUME Nat \ S # {} PROVE FALSE
  OBVIOUS
<1>1. PICK m \in Nat \ S : \A k \in Nat \ S : m <= k
  BY Smallest
<1>2. m # 0 /\ m - 1 \in Nat
  BY <1>1, SMT
<1> QED
  BY <1>1, <1>2, SMT

\* What the walk holds at p, from what it held before.
WalkedAt(img, p, f) ==
  IF p = 0 THEN [row |-> OpenRow, ptr |-> 0] ELSE After(img, p - 1, f[p - 1])

\* The walk's recursion has a solution, and Walked is one.
LEMMA WalkedIs ==
  ASSUME NEW img
  PROVE  Walked(img) = [p \in 0 .. Size |-> WalkedAt(img, p, Walked(img))]
<1> DEFINE Solves(f, n) == f = [p \in 0 .. n |-> WalkedAt(img, p, f)]
           S == {n \in Nat : \E f : Solves(f, n)}
<1>1. 0 \in S
  <2>1. 0 .. 0 = {0} /\ 0 \in Nat
    BY SMT
  <2>2. [p \in 0 .. 0 |-> [row |-> OpenRow, ptr |-> 0]] = [p \in 0 .. 0 |-> WalkedAt(img, p, [q \in 0 .. 0 |-> [row |-> OpenRow, ptr |-> 0]])]
    BY <2>1 DEF WalkedAt
  <2> QED
    BY <2>1, <2>2
<1>2. ASSUME NEW n \in Nat, n \in S PROVE n + 1 \in S
  <2>1. PICK f : Solves(f, n)
    BY <1>2
  <2> DEFINE g == [p \in 0 .. n + 1 |-> WalkedAt(img, p, f)]
  <2>2. \A p \in 0 .. n : f[p] = WalkedAt(img, p, f)
    BY <2>1
  <2> HIDE DEF Solves
  <2>3. \A p \in 0 .. n : p \in 0 .. n + 1
    BY SMT
  <2>4. \A p \in 0 .. n : g[p] = f[p]
    BY <2>2, <2>3
  <2>5. \A p \in 0 .. n + 1 : p # 0 => p - 1 \in 0 .. n
    BY SMT
  <2>6. \A p \in 0 .. n + 1 : WalkedAt(img, p, f) = WalkedAt(img, p, g)
    BY <2>4, <2>5 DEF WalkedAt
  <2>7. g = [p \in 0 .. n + 1 |-> WalkedAt(img, p, g)]
    BY <2>6, Zenon
  <2> HIDE DEF g
  <2>8. Solves(g, n + 1)
    BY <2>7 DEF Solves
  <2> QED
    BY <2>8
<1>3. Size \in S
  BY <1>1, <1>2, Induction, LoadCheckAssumption
<1>4. PICK f : Solves(f, Size)
  BY <1>3
<1>5. Walked(img) = CHOOSE g : Solves(g, Size)
  BY DEF Walked, WalkedAt
<1>6. Solves(Walked(img), Size)
  BY <1>4, <1>5
<1> QED
  BY <1>6

\* What a search from span[1] to span[2] finds, from what the narrower ones find.
SearchAt(cert, t, span, f) ==
  IF span[1] >= span[2] THEN EmptyRow
  ELSE IF MiddleEntry(cert, span).pc = t THEN Decode(cert, MiddleEntry(cert, span))
  ELSE f[HalfWith(cert, t, span)]

Spans(cert) == (0 .. Len(cert.entries)) \X (0 .. Len(cert.entries))

\* The search of Lookup.
Searched(cert, t) == CHOOSE f : f = [span \in Spans(cert) |-> SearchAt(cert, t, span, f)]

\* What Lookup finds is what that search finds in the whole table.
LEMMA LookupIs ==
  ASSUME NEW cert, NEW t
  PROVE  Lookup(cert, t) =
           IF t = 0 THEN OpenRow ELSE Searched(cert, t)[<<0, Len(cert.entries)>>]
BY DEF Lookup, Searched, SearchAt, Spans

\* The search's recursion has a solution, and Searched is one.
LEMMA SearchedIs ==
  ASSUME NEW cert \in Certificate, NEW t
  PROVE  Searched(cert, t) = [span \in Spans(cert) |-> SearchAt(cert, t, span, Searched(cert, t))]
<1> DEFINE n == Len(cert.entries)
           D == Spans(cert)
           Width(span) == span[2] - span[1]
           At(span, f) == SearchAt(cert, t, span, f)
           Solves(f, d) ==
             f = [span \in D |-> IF Width(span) <= d THEN At(span, f) ELSE EmptyRow]
           S == {d \in Nat : \E f : Solves(f, d)}
<1>1. n \in Nat
  BY DEF Certificate
<1>2. ASSUME NEW span \in D
      PROVE  /\ span[1] \in 0 .. n /\ span[2] \in 0 .. n
             /\ Width(span) \in Int /\ Width(span) <= n
             /\ Width(span) <= 0 <=> span[1] >= span[2]
  BY <1>1, SMT DEF Spans
<1>3. ASSUME NEW a \in 0 .. n, NEW b \in 0 .. n, a < b, NEW mid, mid = (a + b) \div 2
      PROVE  /\ <<mid + 1, b>> \in D /\ Width(<<mid + 1, b>>) < b - a
             /\ <<a, mid>> \in D /\ Width(<<a, mid>>) < b - a
  <2>1. mid \in Int /\ a <= mid /\ mid < b
    BY <1>1, <1>3, SMT
  <2>2. mid + 1 \in 0 .. n /\ mid \in 0 .. n
    BY <1>1, <2>1, SMT
  <2>3. b - (mid + 1) < b - a /\ mid - a < b - a
    BY <1>1, <2>1, SMT
  <2> QED
    BY <2>2, <2>3 DEF Spans
\* What a span finds is what the narrower ones find.
<1>4. ASSUME NEW span \in D, NEW f, NEW g,
             \A u \in D : Width(u) < Width(span) => f[u] = g[u]
      PROVE  At(span, f) = At(span, g)
  <2>1. PICK a, b : a = span[1] /\ b = span[2]
    OBVIOUS
  <2>2. PICK mid : mid = (a + b) \div 2
    OBVIOUS
  <2>3. a \in 0 .. n /\ b \in 0 .. n /\ Width(span) = b - a
    BY <1>2, <2>1
  <2>4. a < b => f[<<mid + 1, b>>] = g[<<mid + 1, b>>] /\ f[<<a, mid>>] = g[<<a, mid>>]
    BY <1>3, <1>4, <2>2, <2>3
  <2>5. HalfWith(cert, t, span) \in {<<mid + 1, b>>, <<a, mid>>}
    BY <2>1, <2>2 DEF HalfWith, Middle
  <2>6. a < b => f[HalfWith(cert, t, span)] = g[HalfWith(cert, t, span)]
    BY <2>4, <2>5
  <2>7. ~(a >= b) => a < b
    BY <2>3, <1>1, SMT
  <2> QED
    BY <2>1, <2>6, <2>7 DEF SearchAt
<1>5. 0 \in S
  <2> DEFINE f == [span \in D |-> EmptyRow]
  <2>1. \A span \in D : Width(span) <= 0 => At(span, f) = EmptyRow
    BY <1>2 DEF SearchAt
  <2>2. f = [span \in D |-> IF Width(span) <= 0 THEN At(span, f) ELSE EmptyRow]
    BY <2>1
  <2> HIDE DEF f
  <2>3. Solves(f, 0)
    BY <2>2
  <2> QED
    BY <2>3
<1>6. ASSUME NEW d \in Nat, d \in S PROVE d + 1 \in S
  <2>1. PICK f : Solves(f, d)
    BY <1>6
  <2> DEFINE g == [span \in D |-> IF Width(span) <= d + 1 THEN At(span, f) ELSE EmptyRow]
  <2>2. \A span \in D : Width(span) <= d => f[span] = At(span, f)
    BY <2>1
  <2>3. \A span \in D : Width(span) <= d => Width(span) <= d + 1
    BY <1>2, SMT
  <2>4. \A span \in D : Width(span) <= d => g[span] = f[span]
    BY <2>2, <2>3
  <2> HIDE DEF Solves
  <2>5. ASSUME NEW span \in D, Width(span) <= d + 1
        PROVE  At(span, f) = At(span, g)
    <3> HIDE DEF g
    <3>1. \A u \in D : Width(u) < Width(span) => Width(u) <= d
      BY <1>2, <2>5, SMT
    <3>2. \A u \in D : Width(u) < Width(span) => f[u] = g[u]
      BY <2>4, <3>1
    <3> QED
      BY <1>4, <3>2
  <2>6. g = [span \in D |-> IF Width(span) <= d + 1 THEN At(span, g) ELSE EmptyRow]
    BY <2>5, Zenon
  <2> HIDE DEF g
  <2>7. Solves(g, d + 1)
    BY <2>6 DEF Solves
  <2> QED
    BY <2>7
<1>7. n \in S
  BY <1>1, <1>5, <1>6, Induction
<1>8. PICK f : Solves(f, n)
  BY <1>7
<1>9. f = [span \in D |-> At(span, f)]
  BY <1>2, <1>8
<1>10. Searched(cert, t) = CHOOSE h : h = [span \in D |-> At(span, h)]
  BY DEF Searched
<1> QED
  BY <1>9, <1>10

\* A search that has narrowed to a span finds what it goes on to find there.
LEMMA SearchedAt ==
  ASSUME NEW cert \in Certificate, NEW t, NEW span \in Spans(cert)
  PROVE  Searched(cert, t)[span] = SearchAt(cert, t, span, Searched(cert, t))
<1> DEFINE f == Searched(cert, t)
<1>1. f = [u \in Spans(cert) |-> SearchAt(cert, t, u, f)]
  BY SearchedIs
<1> HIDE DEF f
<1>2. f[span] = SearchAt(cert, t, span, f)
  BY <1>1
<1> QED
  BY <1>2 DEF f

-----------------------------------------------------------------------------
(***************************************************************************)
(* The invariant: the walk is where the model's is.                        *)
(***************************************************************************)

\* The places a walk can be at a pc: before the target's row is checked, while it is,
\* before the next pc's row is checked, while it is, and while that row is reloaded.
AtTarget == sm \in {"head", "target"} \/ (sm \in {"search", "entry"} /\ purpose = "target")
ChecksTarget == sm = "field" /\ purpose = "target"
AtNext == sm = "following" \/ (sm \in {"search", "entry"} /\ purpose \in {"following", "stored"})
ChecksNext == sm = "field" /\ purpose \in {"stored", "fallen", "following"}
Reloads == sm \in {"entry", "field"} /\ purpose = "reload"

\* What fails on a way out of pc to the row s, and on each of the two in the model.
Fails(s, taken) == Failing(word.op, row, s, taken)
TargetFails == Fails(TargetRow(image, pc), TRUE)
NextFails == Fails(NextRow(image, pc, Walked(image)), FALSE)

\* The model's walk, where this one is.
PlaceAgrees ==
  /\ sm # "finish" => Walked(image)[pc] = [row |-> held[pc], ptr |-> ptr]
  /\ sm = "finish" => Walked(image)[Size].ptr = ptr

\* The model rejects none of the pcs this walk is past.
PastAgrees ==
  /\ \A p \in 0 .. pc - 1 : Judged(image, p, Walked(image)) = NoReason
  /\ sm = "finish" \/ Reloads => Judged(image, pc, Walked(image)) = NoReason

HeadAgrees == sm \notin {"word", "head", "finish"} => InOrder

\* What a search is at is what the model's finds.
SearchAgrees ==
  /\ sm = "search" =>
       /\ key # 0 /\ lo <= count
       /\ Lookup(image.cert, key) = Searched(image.cert, key)[<<lo, hi>>]
  /\ sm = "entry" /\ purpose \in {"target", "following"} =>
       Lookup(image.cert, key) = DecodedAt(sel)
  /\ sm = "field" /\ purpose \in {"target", "following"} =>
       Lookup(image.cert, key) = CheckedRow

\* The conjuncts recorded so far are those that fail in the model.
FailsAgree ==
  /\ AtTarget \/ ChecksTarget \/ AtNext => failed_next = {}
  /\ AtTarget => failed_target = {}
  /\ ChecksTarget => failed_target = Fails(CheckedRow, TRUE) \cap Checked
  /\ AtNext \/ ChecksNext \/ sm = "check_next" => failed_target = TargetFails
  /\ ChecksNext => failed_next = Fails(CheckedRow, FALSE) \cap Checked
  /\ sm = "check_next" => failed_next = NextFails

ModelInv ==
  /\ sm = "header" => pc = 0 /\ ptr = 0
  /\ sm # "idle" => ~finished /\ reject_pc = 0 /\ reason = NoReason
  /\ Walking => PlaceAgrees /\ PastAgrees /\ HeadAgrees /\ SearchAgrees /\ FailsAgree
  /\ AgreesWithModel

-----------------------------------------------------------------------------
(***************************************************************************)
(* The model.                                                              *)
(***************************************************************************)

\* The model's walk, a pc at a time.
LEMMA WalkedNext ==
  ASSUME NEW img
  PROVE  /\ Walked(img)[0] = [row |-> OpenRow, ptr |-> 0]
         /\ \A p \in Pcs : Walked(img)[p + 1] = After(img, p, Walked(img)[p])
<1> DEFINE f == Walked(img)
<1>1. f = [p \in 0 .. Size |-> WalkedAt(img, p, f)]
  BY WalkedIs
<1> HIDE DEF f
<1>2. 0 \in 0 .. Size
  BY LoadCheckAssumption, SMT
<1>3. f[0] = [row |-> OpenRow, ptr |-> 0]
  BY <1>1, <1>2 DEF WalkedAt
<1>4. ASSUME NEW p \in Pcs PROVE f[p + 1] = After(img, p, f[p])
  <2>1. p + 1 \in 0 .. Size /\ p + 1 # 0 /\ (p + 1) - 1 = p
    BY LoadCheckAssumption, SMT DEF Pcs
  <2>2. f[p + 1] = WalkedAt(img, p + 1, f)
    BY <1>1, <2>1
  <2>3. WalkedAt(img, p + 1, f) = After(img, (p + 1) - 1, f[(p + 1) - 1])
    BY <2>1 DEF WalkedAt
  <2> QED
    BY <2>1, <2>2, <2>3
<1> QED
  BY <1>3, <1>4 DEF f

\* Up to a pc, it reads the words before it.
LEMMA WalkedAgrees ==
  ASSUME NEW a, NEW b, a.cert = b.cert, a.config = b.config,
         NEW n \in Pcs, \A p \in 0 .. n - 1 : a.words[p] = b.words[p]
  PROVE  \A p \in 0 .. n : Walked(a)[p] = Walked(b)[p]
<1> DEFINE S == {p \in Nat : p <= n => Walked(a)[p] = Walked(b)[p]}
<1>1. 0 \in S
  BY WalkedNext
<1>2. ASSUME NEW p \in Nat, p \in S PROVE p + 1 \in S
  <2> SUFFICES ASSUME p + 1 <= n PROVE Walked(a)[p + 1] = Walked(b)[p + 1]
    BY SMT
  <2>1. p \in 0 .. n - 1 /\ p \in Pcs /\ p <= n
    BY LoadCheckAssumption, SMT DEF Pcs
  <2>2. Walked(a)[p] = Walked(b)[p]
    BY <1>2, <2>1
  <2>3. a.words[p] = b.words[p]
    BY <2>1
  <2>4. After(a, p, Walked(a)[p]) = After(b, p, Walked(a)[p])
    BY <2>3 DEF After, Stored
  <2>5. /\ Walked(a)[p + 1] = After(a, p, Walked(a)[p])
        /\ Walked(b)[p + 1] = After(b, p, Walked(b)[p])
    BY <2>1, WalkedNext
  <2> QED
    BY <2>2, <2>4, <2>5
<1>3. \A p \in Nat : p \in S
  BY <1>1, <1>2, Induction
<1>4. \A p \in 0 .. n : p \in Nat /\ p <= n
  BY SMT DEF Pcs
<1> QED
  BY <1>3, <1>4

\* What it says of a pc rests on the word and the rows there.
LEMMA JudgedAgrees ==
  ASSUME NEW a, NEW b, a.cert = b.cert, a.config = b.config, NEW p, a.words[p] = b.words[p],
         Walked(a)[p] = Walked(b)[p], Walked(a)[p + 1] = Walked(b)[p + 1]
  PROVE  Judged(a, p, Walked(a)) = Judged(b, p, Walked(b))
<1>1. /\ NextRow(a, p, Walked(a)) = NextRow(b, p, Walked(b))
      /\ TargetRow(a, p) = TargetRow(b, p)
  BY DEF NextRow, TargetRow
<1> QED
  BY <1>1 DEF Judged

\* A way out that is not asked, or to a row that takes any core, fails in nothing.
LEMMA HoldsFailsNone ==
  ASSUME NEW w, NEW r, NEW s, NEW taken, Asked(w, r, taken) => Holds(w, r, s, taken)
  PROVE  Failing(w, r, s, taken) = {}
<1> SUFFICES ASSUME Asked(w, r, taken) PROVE Failing(w, r, s, taken) = {}
  BY DEF Failing
<1>1. {Conjuncts[i] : i \in 1 .. Len(Conjuncts)} =
        {"phase", "offset", "period", "x", "y", "arm", "captured", "awaiting"}
  <2>1. Len(Conjuncts) = 8
    BY DEF Conjuncts
  <2>2. 1 .. 8 = {1, 2, 3, 4, 5, 6, 7, 8}
    BY SMT
  <2> QED
    BY <2>1, <2>2 DEF Conjuncts
<1>2. /\ ConjunctHolds(w, r, s, taken, "phase") /\ ConjunctHolds(w, r, s, taken, "offset")
      /\ ConjunctHolds(w, r, s, taken, "period") /\ ConjunctHolds(w, r, s, taken, "x")
      /\ ConjunctHolds(w, r, s, taken, "y") /\ ConjunctHolds(w, r, s, taken, "arm")
      /\ ConjunctHolds(w, r, s, taken, "captured")
      /\ ConjunctHolds(w, r, s, taken, "awaiting")
  BY DEF ConjunctHolds, Holds
<1> QED
  BY <1>1, <1>2 DEF Failing

\* A pc's row in the model, and the place of the next one.
LEMMA NextRowAgrees ==
  ASSUME WalkTypes, Walking, AtWord, RowInv, PlaceAgrees,
         sm \notin {"word", "head", "finish"}, ~Reloading
  PROVE  /\ Walked(image)[pc] = [row |-> row, ptr |-> ptr]
         /\ Walked(image)[pc + 1] =
              [row |-> NextRowHere, ptr |-> ptr + (IF stored THEN 1 ELSE 0)]
         /\ NextRow(image, pc, Walked(image)) =
              IF FallsOn THEN NextRowHere ELSE Lookup(image.cert, NextFollowing)
         /\ TargetRow(image, pc) = Lookup(image.cert, word.target)
<1>1. word = image.words[pc] /\ row = held[pc] /\ pc \in Pcs /\ ptr \in Nat
      /\ (stored <=> ptr < count /\ EntryAt(ptr).pc = NextPc) /\ count = Len(Entries)
  BY DEF Walking, AtWord, RowInv, WalkTypes
<1>2. Walked(image)[pc] = [row |-> row, ptr |-> ptr]
  BY <1>1 DEF PlaceAgrees
<1>3. Walked(image)[pc + 1] = After(image, pc, [row |-> row, ptr |-> ptr])
  BY <1>1, <1>2, WalkedNext
<1>4. Stored(image, pc, ptr) <=> stored
  BY <1>1 DEF Stored, EntryAt, NextPc, Entries
<1>5. Fell(image.config, pc, word.op, row) = IF FallsOn THEN FellRow ELSE EmptyRow
  BY DEF Fell, FallsOn, FellRow
<1>6. stored => DecodedAt(ptr) = Decode(image.cert, image.cert.entries[ptr + 1])
  BY DEF DecodedAt, EntryAt
<1>7. ptr + 0 = ptr
  BY <1>1, SMT
<1>8. Walked(image)[pc + 1] = [row |-> NextRowHere, ptr |-> ptr + (IF stored THEN 1 ELSE 0)]
  BY <1>1, <1>3, <1>4, <1>5, <1>6, <1>7 DEF After, NextRowHere
<1>9. NextRow(image, pc, Walked(image)) =
        IF FallsOn THEN NextRowHere ELSE Lookup(image.cert, NextFollowing)
  BY <1>8 DEF NextRow, FallsOn, NextFollowing
<1> QED
  BY <1>1, <1>2, <1>8, <1>9 DEF TargetRow

\* What the model says of a pc, by what is known of it here.
LEMMA JudgedHere ==
  ASSUME WalkTypes, Walking, Walked(image)[pc] = [row |-> row, ptr |-> ptr],
         word = image.words[pc]
  PROVE  Judged(image, pc, Walked(image)) =
           IF ~InOrder THEN <<"walk", "out_of_order">>
           ELSE IF ~InTime(word.op, row) THEN <<"word", "in_time">>
           ELSE IF NextFails # {} THEN <<"next", First(NextFails)>>
           ELSE IF TargetFails # {} THEN <<"target", First(TargetFails)>>
           ELSE NoReason
<1>1. count = Len(Entries) /\ ptr \in Nat /\ pc \in Pcs
  BY DEF WalkTypes
<1>2. ASSUME ptr < Len(Entries)
      PROVE  EntryAt(ptr).pc \in Int /\ pc \in Int
  <2>1. ptr \in 0 .. Len(Entries) - 1
    BY <1>1, <1>2, EntriesTypes, SMT
  <2> QED
    BY <1>1, <2>1, EntriesTypes, LoadCheckAssumption DEF Pcs
<1>3. InOrder <=> ~(ptr < Len(Entries) /\ EntryAt(ptr).pc <= pc)
  BY <1>1, <1>2, SMT DEF InOrder
<1>4. /\ Walked(image)[pc].ptr = ptr /\ Walked(image)[pc].row = row
      /\ image.cert.entries[ptr + 1] = EntryAt(ptr) /\ image.cert.entries = Entries
  BY DEF EntryAt, Entries
<1> QED
  BY <1>3, <1>4 DEF Judged, NextFails, TargetFails, Fails

\* The model's verdict where it rejects a pc first.
LEMMA VerdictRejects ==
  ASSUME NEW img, NEW p \in Pcs, NEW why, why # NoReason,
         Judged(img, p, Walked(img)) = why,
         \A q \in 0 .. p - 1 : Judged(img, q, Walked(img)) = NoReason
  PROVE  Verdict(img) = [accepted |-> FALSE, reject_pc |-> p, reason |-> why]
<1> DEFINE J(q) == Judged(img, q, Walked(img))
           rejected == {q \in Pcs : J(q) # NoReason}
           first == CHOOSE q \in rejected : \A u \in rejected : q <= u
<1>1. p \in rejected /\ \A q \in Pcs : q < p => q \in 0 .. p - 1
  BY LoadCheckAssumption, SMT DEF Pcs
<1>2. \A q \in rejected : p <= q
  BY <1>1, LoadCheckAssumption, SMT DEF Pcs
<1>3. first \in rejected /\ \A u \in rejected : first <= u
  BY <1>1, <1>2
<1>4. first = p
  <2>1. first <= p /\ p <= first /\ first \in Pcs
    BY <1>1, <1>2, <1>3
  <2> HIDE DEF first
  <2> QED
    BY <2>1, LoadCheckAssumption, SMT DEF Pcs
<1>5. Verdict(img) = [accepted |-> FALSE, reject_pc |-> first, reason |-> J(first)]
  BY <1>1 DEF Verdict
<1> HIDE DEF first
<1> QED
  BY <1>4, <1>5

\* And where it rejects none.
LEMMA VerdictAccepts ==
  ASSUME NEW img, \A q \in Pcs : Judged(img, q, Walked(img)) = NoReason
  PROVE  Verdict(img) =
           IF Walked(img)[Size].ptr # Len(img.cert.entries)
           THEN [accepted |-> FALSE, reject_pc |-> Size, reason |-> <<"walk", "left_over">>]
           ELSE [accepted |-> TRUE, reject_pc |-> 0, reason |-> NoReason]
BY DEF Verdict
-----------------------------------------------------------------------------
(***************************************************************************)
(* The steps, against the model.                                           *)
(***************************************************************************)

\* A step of a walk that goes on.
LEMMA ModelSteps ==
  ASSUME ModelInv, sm # "idle", UNCHANGED verdictVars, Walking',
         PlaceAgrees', PastAgrees', HeadAgrees', SearchAgrees', FailsAgree'
  PROVE  ModelInv'
BY DEF ModelInv, Walking, AgreesWithModel, verdictVars

\* A step at a pc, which the model is at as well.
LEMMA ModelPlaceStays ==
  ASSUME PlaceAgrees, PastAgrees, UNCHANGED <<image, pc, ptr, held>>,
         sm # "finish", sm' # "finish", Reloads' => Reloads
  PROVE  PlaceAgrees' /\ PastAgrees'
<1>1. PlaceAgrees'
  BY DEF PlaceAgrees
<1>2. PICK b : b = pc
  OBVIOUS
<1>3. PastAgrees'
  BY <1>2 DEF PastAgrees
<1> QED
  BY <1>1, <1>3

\* What the walk knows at a pc's head stays while the pc and the entries do.
LEMMA HeadStays ==
  ASSUME HeadAgrees, UNCHANGED <<image, pc, ptr, count>>,
         sm \notin {"word", "head", "finish"}
  PROVE  HeadAgrees'
BY DEF HeadAgrees, InOrder, EntryAt

\* The rows the model asks about stay with the pc.
LEMMA RowsStay ==
  ASSUME UNCHANGED <<image, pc>>
  PROVE  /\ TargetRow(image, pc)' = TargetRow(image, pc)
         /\ NextRow(image, pc, Walked(image))' = NextRow(image, pc, Walked(image))
OBVIOUS

\* What fails at a pc stays with its word and its row.
LEMMA FailsStay ==
  ASSUME UNCHANGED <<image, pc, word, row>>
  PROVE  TargetFails' = TargetFails /\ NextFails' = NextFails
BY DEF TargetFails, NextFails, Fails

\* A start is no walk yet, and a read header puts the walk where the model starts.
LEMMA ModelBegin == ASSUME WalkInv, ModelInv, Begin PROVE ModelInv'
BY DEF Begin, ModelInv, Walking, AgreesWithModel

LEMMA ModelHeader == ASSUME WalkInv, ModelInv, Header PROVE ModelInv'
<1>1. /\ sm = "header" /\ sm' = "word"
      /\ UNCHANGED <<pc, ptr, verdictVars, image, held>>
  BY DEF Header
<1>2. held[0] = OpenRow /\ pc = 0 /\ ptr = 0
  BY <1>1 DEF WalkInv, TakenInv, ModelInv
<1>3. PlaceAgrees'
  BY <1>1, <1>2, WalkedNext DEF PlaceAgrees
<1>4. PastAgrees' /\ HeadAgrees' /\ SearchAgrees' /\ FailsAgree'
  BY <1>1, <1>2
  DEF PastAgrees, HeadAgrees, SearchAgrees, FailsAgree, Reloads, AtTarget, ChecksTarget,
      AtNext, ChecksNext
<1> QED
  BY <1>1, <1>3, <1>4, ModelSteps DEF Walking

\* A word is read: the model's walk up to here rests on the words before it.
LEMMA ModelReadWord == ASSUME WalkInv, ModelInv, ReadWord PROVE ModelInv'
<1>1. /\ sm = "word" /\ sm' = "head" /\ failed_next' = {} /\ failed_target' = {}
      /\ image' = [image EXCEPT !.words[pc] = word']
      /\ UNCHANGED <<pc, ptr, count, held, verdictVars>>
  BY DEF ReadWord
<1>2. pc \in Pcs /\ image \in Contents
  BY DEF WalkInv, WalkTypes
<1>3. /\ image'.cert = image.cert /\ image'.config = image.config
      /\ \A p \in Pcs : p # pc => image'.words[p] = image.words[p]
  BY <1>1, <1>2 DEF Contents
<1>4. \A p \in 0 .. pc - 1 : p \in Pcs /\ p # pc /\ p \in 0 .. pc /\ p + 1 \in 0 .. pc
  BY <1>2, LoadCheckAssumption, SMT DEF Pcs
<1>5. \A p \in 0 .. pc : Walked(image')[p] = Walked(image)[p]
  BY <1>2, <1>3, <1>4, WalkedAgrees
<1>6. PlaceAgrees /\ PastAgrees
  BY <1>1 DEF ModelInv, Walking
<1>7. PlaceAgrees'
  <2>1. pc \in 0 .. pc
    BY <1>2, LoadCheckAssumption, SMT DEF Pcs
  <2> QED
    BY <1>1, <1>5, <1>6, <2>1 DEF PlaceAgrees
<1>8. PastAgrees'
  <2>1. ASSUME NEW p \in 0 .. pc - 1
        PROVE  Judged(image', p, Walked(image')) = NoReason
    <3>1. Judged(image', p, Walked(image')) = Judged(image, p, Walked(image))
      BY <1>3, <1>4, <1>5, JudgedAgrees
    <3> QED
      BY <1>6, <3>1 DEF PastAgrees
  <2> QED
    BY <1>1, <2>1 DEF PastAgrees, Reloads
<1>9. HeadAgrees' /\ SearchAgrees' /\ FailsAgree'
  BY <1>1
  DEF HeadAgrees, SearchAgrees, FailsAgree, AtTarget, ChecksTarget, AtNext, ChecksNext
<1> QED
  BY <1>1, <1>7, <1>8, <1>9, ModelSteps DEF Walking

\* An entry for this pc or an earlier one is out of order for the model too.
LEMMA ModelHead == ASSUME WalkInv, ModelInv, HeadInOrder PROVE ModelInv'
<1>1. /\ sm = "head" /\ sm' = "target" /\ InOrder
      /\ UNCHANGED <<pc, ptr, count, word, row, failed_next, failed_target, verdictVars,
                     image, held>>
  BY DEF HeadInOrder, rowVars
<1>2. PlaceAgrees /\ PastAgrees /\ FailsAgree
  BY <1>1 DEF ModelInv, Walking
<1>3. PlaceAgrees' /\ PastAgrees'
  BY <1>1, <1>2, ModelPlaceStays DEF Reloads
<1>4. HeadAgrees' /\ SearchAgrees'
  BY <1>1 DEF HeadAgrees, SearchAgrees, InOrder, EntryAt
<1>5. FailsAgree'
  BY <1>1, <1>2 DEF FailsAgree, AtTarget, ChecksTarget, AtNext, ChecksNext
<1> QED
  BY <1>1, <1>3, <1>4, <1>5, ModelSteps DEF Walking

\* A rejection is the model's, which rejected no pc before.
LEMMA RejectAgrees ==
  ASSUME WalkInv, ModelInv, Walking, NEW why, why # NoReason,
         Judged(image, pc, Walked(image)) = why, Reject(pc, why), UNCHANGED <<image, pc>>
  PROVE  ModelInv'
<1>1. pc \in Pcs /\ \A p \in 0 .. pc - 1 : Judged(image, p, Walked(image)) = NoReason
  BY DEF WalkInv, WalkTypes, ModelInv, PastAgrees
<1>2. PICK p : p = pc
  OBVIOUS
<1>3. Verdict(image) = [accepted |-> FALSE, reject_pc |-> p, reason |-> why]
  BY <1>1, <1>2, VerdictRejects
<1>4. /\ sm' = "idle" /\ accepted' = FALSE /\ reject_pc' = p /\ reason' = why
  BY <1>2 DEF Reject
<1>5. AgreesWithModel'
  BY <1>3, <1>4 DEF AgreesWithModel
<1> QED
  BY <1>4, <1>5 DEF ModelInv, Walking

LEMMA ModelHeadRejects == ASSUME WalkInv, ModelInv, HeadOutOfOrder PROVE ModelInv'
<1>1. /\ sm = "head" /\ ~InOrder /\ Reject(pc, <<"walk", "out_of_order">>)
      /\ UNCHANGED <<image, pc>>
  BY DEF HeadOutOfOrder
<1>2. WalkTypes /\ Walking /\ PlaceAgrees /\ word = image.words[pc] /\ row = held[pc]
  BY <1>1 DEF WalkInv, ModelInv, Walking, AtWord, RowInv, Reloading
<1>3. Judged(image, pc, Walked(image)) = <<"walk", "out_of_order">>
  BY <1>1, <1>2, JudgedHere DEF PlaceAgrees
<1>4. <<"walk", "out_of_order">> # NoReason
  BY DEF NoReason
<1> QED
  BY <1>1, <1>2, <1>3, <1>4, RejectAgrees

\* What the steps of a walk that goes on keep of a pc.
LEMMA ModelHere ==
  ASSUME WalkInv, ModelInv, Walking
  PROVE  /\ WalkTypes /\ WalkHere
         /\ PlaceAgrees /\ PastAgrees /\ HeadAgrees /\ SearchAgrees /\ FailsAgree
         /\ count = Len(Entries) /\ count \in Nat
         /\ image.cert \in Certificate /\ pc \in Pcs
         /\ AtWord /\ RowInv /\ SearchInv
<1>1. sm # "idle" /\ WalkTypes
  BY DEF Walking, WalkInv
<1> QED
  BY <1>1, EntriesTypes DEF WalkInv, WalkHere, WalkTypes, ModelInv

\* The search for a jump's target, and the jumps that need none.
LEMMA ModelTarget == ASSUME WalkInv, ModelInv, Target PROVE ModelInv'
<1>1. /\ sm = "target"
      /\ UNCHANGED <<image, pc, ptr, count, held, word, stored, row, failed_next,
                     failed_target, verdictVars>>
  BY DEF Target, placeVars, rowVars
<1>2. \/ /\ ~IsJump /\ sm' = "following"
      \/ /\ IsJump /\ word.target = 0 /\ sm' = "following"
      \/ /\ IsJump /\ purpose' = "target" /\ key' = word.target /\ word.target # 0
         /\ sm' = "search" /\ lo' = 0 /\ hi' = count
  BY DEF Target, StartLookup
<1>3. Walking
  BY <1>1 DEF Walking
<1>4. /\ PlaceAgrees /\ PastAgrees /\ HeadAgrees /\ FailsAgree
      /\ WalkTypes /\ count \in Nat /\ count = Len(Entries)
      /\ word = image.words[pc]
  BY <1>1, <1>3, ModelHere DEF AtWord
<1>5. failed_next = {} /\ failed_target = {}
  BY <1>1, <1>4 DEF FailsAgree, AtTarget
<1>6. PlaceAgrees' /\ PastAgrees'
  BY <1>1, <1>2, <1>4, ModelPlaceStays DEF Reloads
<1>7. HeadAgrees'
  BY <1>1, <1>4, HeadStays
<1>8. SearchAgrees'
  <2>1. ASSUME sm' = "search"
        PROVE  Lookup(image'.cert, key') = Searched(image'.cert, key')[<<lo', hi'>>]
    <3>1. PICK cert, t : cert = image.cert /\ t = word.target
      OBVIOUS
    <3>2. t # 0 /\ Len(cert.entries) = count
      BY <1>2, <1>4, <2>1, <3>1 DEF Entries
    <3>3. Lookup(cert, t) = Searched(cert, t)[<<0, count>>]
      BY <3>2, LookupIs
    <3> QED
      BY <1>1, <1>2, <2>1, <3>1, <3>3
  <2>2. sm' = "search" => key' # 0 /\ lo' <= count'
    BY <1>1, <1>2, <1>4, SMT
  <2> QED
    BY <1>2, <2>1, <2>2 DEF SearchAgrees
<1>9. sm' = "following" => TargetFails = {}
  <2> SUFFICES ASSUME sm' = "following" PROVE TargetFails = {}
    OBVIOUS
  <2>1. PICK w, r, s : w = word.op /\ r = row /\ s = TargetRow(image, pc)
    OBVIOUS
  <2>2. Asked(w, r, TRUE) => Holds(w, r, s, TRUE)
    <3>1. CASE ~IsJump
      BY <2>1, <3>1 DEF Asked, Takes, IsJump
    <3>2. CASE word.target = 0
      <4>1. s = OpenRow
        BY <1>4, <2>1, <3>2 DEF TargetRow, Lookup
      <4>2. w \in Word /\ r \in HeldRow
        BY <1>4, <2>1 DEF WalkTypes, Instruction
      <4> QED
        BY <4>1, <4>2, OpenIsAccepted
    <3> QED
      BY <1>2, <3>1, <3>2
  <2>3. Failing(w, r, s, TRUE) = {}
    BY <2>2, HoldsFailsNone
  <2> QED
    BY <2>1, <2>3 DEF TargetFails, Fails
<1>10. FailsAgree'
  BY <1>1, <1>2, <1>5, <1>9, FailsStay
  DEF FailsAgree, AtTarget, ChecksTarget, AtNext, ChecksNext
<1> QED
  BY <1>1, <1>2, <1>3, <1>6, <1>7, <1>8, <1>10, ModelSteps DEF Walking

\* The span of a search is one of the certificate's.
LEMMA SearchSpan ==
  ASSUME WalkInv, ModelInv, sm = "search"
  PROVE  /\ <<lo, hi>> \in Spans(image.cert)
         /\ Lookup(image.cert, key) =
              SearchAt(image.cert, key, <<lo, hi>>, Searched(image.cert, key))
<1>1. Walking
  BY DEF Walking
<1>2. /\ lo \in Nat /\ hi \in Nat /\ lo <= count /\ hi <= count
      /\ count = Len(Entries) /\ count \in Nat
      /\ image.cert \in Certificate
      /\ Lookup(image.cert, key) = Searched(image.cert, key)[<<lo, hi>>]
  BY <1>1, ModelHere DEF SearchAgrees, SearchInv, WalkTypes
<1>3. <<lo, hi>> \in Spans(image.cert)
  <2>1. lo \in 0 .. Len(Entries) /\ hi \in 0 .. Len(Entries)
    BY <1>2, SMT
  <2> QED
    BY <2>1 DEF Spans, Entries
<1> QED
  BY <1>2, <1>3, SearchedAt

\* A search that ends without an entry has the model's empty row.
LEMMA ModelSearchMissed == ASSUME WalkInv, ModelInv, SearchMissed PROVE ModelInv'
<1>1. /\ sm = "search" /\ lo >= hi /\ sm' = "field" /\ source' = "empty" /\ field' = 0
      /\ UNCHANGED <<purpose, image, pc, ptr, count, held, word, stored, key, row,
                     failed_next, failed_target, verdictVars>>
  BY DEF SearchMissed, CheckFields, placeVars, searchVars
<1>2. Walking
  BY <1>1 DEF Walking
<1>3. /\ PlaceAgrees /\ PastAgrees /\ HeadAgrees /\ FailsAgree
      /\ purpose \in {"target", "following"}
  BY <1>1, <1>2, ModelHere DEF SearchInv, WalkTypes
<1>4. PlaceAgrees' /\ PastAgrees' /\ HeadAgrees'
  BY <1>1, <1>3, ModelPlaceStays, HeadStays DEF Reloads
<1>5. SearchAgrees'
  <2>1. PICK cert, t, span, f :
          cert = image.cert /\ t = key /\ span = <<lo, hi>> /\ f = Searched(image.cert, key)
    OBVIOUS
  <2>2. Lookup(cert, t) = SearchAt(cert, t, span, f)
    BY <1>1, <2>1, SearchSpan
  <2>3. SearchAt(cert, t, span, f) = EmptyRow
    BY <1>1, <2>1 DEF SearchAt
  <2>4. CheckedRow' = EmptyRow
    BY <1>1 DEF CheckedRow
  <2> QED
    BY <1>1, <2>1, <2>2, <2>3, <2>4 DEF SearchAgrees
<1>6. FailsAgree'
  <2>1. Checked' = {}
    BY <1>1 DEF Checked
  <2> QED
    BY <1>1, <1>3, <2>1, FailsStay DEF FailsAgree, AtTarget, ChecksTarget, AtNext, ChecksNext
<1> QED
  BY <1>1, <1>2, <1>4, <1>5, <1>6, ModelSteps DEF Walking

\* A search narrows to the half that the model's narrows to.
LEMMA ModelSearch == ASSUME WalkInv, ModelInv, Search PROVE ModelInv'
<1> DEFINE mid == (lo + hi) \div 2
           tag == EntryAt(mid).pc
<1>1. /\ sm = "search" /\ lo < hi
      /\ UNCHANGED <<purpose, image, pc, ptr, count, held, word, stored, key, row,
                     failed_next, failed_target, verdictVars>>
      /\ \/ tag = key /\ sel' = mid /\ sm' = "entry" /\ UNCHANGED <<lo, hi>>
         \/ tag < key /\ lo' = mid + 1 /\ UNCHANGED <<hi, sel, sm>>
         \/ tag > key /\ hi' = mid /\ UNCHANGED <<lo, sel, sm>>
  BY DEF Search, ReadEntry, Above, placeVars, rowVars
<1>2. Walking
  BY <1>1 DEF Walking
<1>3. /\ PlaceAgrees /\ PastAgrees /\ HeadAgrees /\ FailsAgree /\ WalkTypes
      /\ purpose \in {"target", "following"} /\ key # 0
      /\ lo \in Nat /\ hi \in Nat /\ lo <= count /\ hi <= count /\ count \in Nat
      /\ count = Len(Entries) /\ image.cert \in Certificate /\ key \in Pcs
  BY <1>1, <1>2, ModelHere DEF SearchInv, SearchAgrees, WalkTypes
<1>4. mid \in Nat /\ lo <= mid /\ mid < hi /\ mid < count /\ mid + 1 <= count
  BY <1>1, <1>3, SMT
<1>5. tag \in Int /\ key \in Int
  <2>1. mid \in 0 .. Len(Entries) - 1
    BY <1>3, <1>4, SMT
  <2> HIDE DEF mid
  <2>2. EntryAt(mid).pc \in Pcs
    BY <1>3, <2>1, EntriesTypes
  <2> QED
    BY <1>3, <2>2, LoadCheckAssumption DEF Pcs
<1>6. sm' \in {"search", "entry"}
  BY <1>1
<1>7. PlaceAgrees' /\ PastAgrees' /\ HeadAgrees'
  BY <1>1, <1>3, <1>6, ModelPlaceStays, HeadStays DEF Reloads
<1>8. SearchAgrees'
  <2>1. PICK cert, t, span, f :
          cert = image.cert /\ t = key /\ span = <<lo, hi>> /\ f = Searched(image.cert, key)
    OBVIOUS
  <2>2. Lookup(cert, t) = SearchAt(cert, t, span, f)
    BY <1>1, <2>1, SearchSpan
  <2>3. Middle(span) = mid /\ MiddleEntry(cert, span) = EntryAt(mid) /\ ~(span[1] >= span[2])
    <3>1. ~(lo >= hi)
      BY <1>1, <1>3, SMT
    <3> QED
      BY <2>1, <3>1 DEF Middle, MiddleEntry, EntryAt
  <2>4. Lookup(cert, t) = IF tag = t THEN DecodedAt(mid) ELSE f[HalfWith(cert, t, span)]
    BY <2>1, <2>2, <2>3 DEF SearchAt, DecodedAt
  <2>5. HalfWith(cert, t, span) = IF tag < t THEN <<mid + 1, hi>> ELSE <<lo, mid>>
    BY <2>1, <2>3 DEF HalfWith
  <2>6. CASE tag = key
    <3>1. sel' = mid /\ sm' = "entry"
      BY <1>1, <1>5, <2>6, SMT
    <3>2. Lookup(cert, t) = DecodedAt(mid)
      BY <2>1, <2>4, <2>6
    <3>3. DecodedAt(sel)' = DecodedAt(mid)
      BY <1>1, <3>1 DEF DecodedAt, EntryAt
    <3> QED
      BY <1>1, <2>1, <3>1, <3>2, <3>3 DEF SearchAgrees
  <2>7. CASE tag < key
    <3>1. lo' = mid + 1 /\ hi' = hi /\ sm' = "search"
      BY <1>1, <1>5, <2>7, SMT
    <3>2. tag # key
      BY <1>5, <2>7, SMT
    <3>3. Lookup(cert, t) = f[<<mid + 1, hi>>]
      BY <2>1, <2>4, <2>5, <2>7, <3>2
    <3> HIDE DEF mid
    <3> QED
      BY <1>1, <1>3, <1>4, <2>1, <3>1, <3>3 DEF SearchAgrees
  <2>8. CASE tag > key
    <3>1. hi' = mid /\ lo' = lo /\ sm' = "search"
      BY <1>1, <1>5, <2>8, SMT
    <3>2. tag # key /\ ~(tag < key)
      BY <1>5, <2>8, SMT
    <3>3. Lookup(cert, t) = f[<<lo, mid>>]
      BY <2>1, <2>4, <2>5, <3>2
    <3> HIDE DEF mid
    <3> QED
      BY <1>1, <1>3, <2>1, <3>1, <3>3 DEF SearchAgrees
  <2> QED
    BY <1>5, <2>6, <2>7, <2>8, SMT
<1>9. FailsAgree'
  BY <1>1, <1>3, <1>6, FailsStay DEF FailsAgree, AtTarget, ChecksTarget, AtNext, ChecksNext
<1> QED
  BY <1>1, <1>2, <1>6, <1>7, <1>8, <1>9, ModelSteps DEF Walking

\* An entry is read: the one the model's search found, or the next pc's.
LEMMA ModelReadsEntry == ASSUME WalkInv, ModelInv, ReadsEntry PROVE ModelInv'
<1>1. /\ sm = "entry" /\ sm' = "field" /\ source' = "dictionary" /\ field' = 0
      /\ entry' = EntryAt(sel)
      /\ UNCHANGED <<purpose, image, pc, ptr, count, held, word, stored, key, sel,
                     failed_next, failed_target, verdictVars>>
      /\ purpose # "reload" => row' = row
  BY DEF ReadsEntry, CheckFields, placeVars, searchVars
<1>2. Walking
  BY <1>1 DEF Walking
<1>3. /\ PlaceAgrees /\ PastAgrees /\ HeadAgrees /\ SearchAgrees /\ FailsAgree
      /\ purpose \in {"target", "stored", "following", "reload"}
  BY <1>1, <1>2, ModelHere DEF SearchInv, WalkTypes
<1>4. PlaceAgrees' /\ PastAgrees' /\ HeadAgrees'
  BY <1>1, <1>3, ModelPlaceStays, HeadStays DEF Reloads
<1>5. SearchAgrees'
  <2>1. CheckedRow' = DecodedAt(sel)
    BY <1>1 DEF CheckedRow, DecodedAt
  <2> QED
    BY <1>1, <1>3, <2>1 DEF SearchAgrees
<1>6. FailsAgree'
  <2>1. Checked' = {}
    BY <1>1 DEF Checked
  <2>2. CASE purpose = "target"
    BY <1>1, <1>3, <2>1, <2>2 DEF FailsAgree, AtTarget, ChecksTarget, AtNext, ChecksNext
  <2>3. CASE purpose \in {"stored", "following"}
    <3>1. TargetFails' = TargetFails
      BY <1>1, <2>3, FailsStay
    <3>2. failed_target = TargetFails /\ failed_next = {}
      BY <1>1, <1>3, <2>3 DEF FailsAgree, AtNext
    <3> QED
      BY <1>1, <2>1, <2>3, <3>1, <3>2 DEF FailsAgree, AtTarget, ChecksTarget, AtNext, ChecksNext
  <2>4. CASE purpose = "reload"
    BY <1>1, <2>4 DEF FailsAgree, AtTarget, ChecksTarget, AtNext, ChecksNext
  <2> QED
    BY <1>3, <2>2, <2>3, <2>4
<1> QED
  BY <1>1, <1>2, <1>4, <1>5, <1>6, ModelSteps DEF Walking

\* The row that is checked is the one the model asks about.
LEMMA CheckedIsAsked ==
  ASSUME WalkInv, ModelInv, sm = "field", purpose # "reload"
  PROVE  /\ purpose = "target" => CheckedRow = TargetRow(image, pc)
         /\ purpose # "target" => CheckedRow = NextRow(image, pc, Walked(image))
<1>1. Walking
  BY DEF Walking
<1>2. WalkTypes /\ PlaceAgrees /\ SearchAgrees /\ AtWord /\ RowInv /\ SearchInv
  BY <1>1, ModelHere
<1>3. /\ NextRow(image, pc, Walked(image)) =
           IF FallsOn THEN NextRowHere ELSE Lookup(image.cert, NextFollowing)
      /\ TargetRow(image, pc) = Lookup(image.cert, word.target)
  BY <1>1, <1>2, NextRowAgrees DEF Reloading
<1>4. CASE purpose = "target"
  <2>1. key = word.target
    BY <1>2, <1>4 DEF SearchInv, WalkTypes
  <2> QED
    BY <1>2, <1>3, <1>4, <2>1 DEF SearchAgrees
<1>5. CASE purpose = "following"
  <2>1. key = NextFollowing /\ ~FallsOn
    BY <1>2, <1>5 DEF SearchInv, WalkTypes
  <2> QED
    BY <1>2, <1>3, <1>5, <2>1 DEF SearchAgrees
<1>6. CASE purpose = "stored"
  <2>1. FallsOn /\ stored /\ sel = ptr /\ source = "dictionary"
    BY <1>2, <1>6 DEF SearchInv, WalkTypes
  <2>2. entry = EntryAt(ptr)
    BY <1>2, <2>1 DEF SearchInv
  <2> QED
    BY <1>3, <1>6, <2>1, <2>2 DEF CheckedRow, NextRowHere, DecodedAt
<1>7. CASE purpose = "fallen"
  <2>1. source = "fallen" /\ FallsOn /\ ~stored
    BY <1>2, <1>7 DEF SearchInv, WalkTypes
  <2> QED
    BY <1>3, <1>7, <2>1 DEF CheckedRow, NextRowHere
<1> QED
  BY <1>2, <1>4, <1>5, <1>6, <1>7 DEF WalkTypes

\* A field is checked; with the fifth, what failed is what fails in the model.
LEMMA ModelCheckField == ASSUME WalkInv, ModelInv, CheckField PROVE ModelInv'
<1>1. /\ sm = "field" /\ purpose # "reload" /\ field' = field + 1
      /\ purpose = "target" =>
           /\ failed_target' = (failed_target \ Recorded(Fields[field + 1])) \cup FailsNow
           /\ failed_next' = failed_next
      /\ purpose # "target" =>
           /\ failed_next' = (failed_next \ Recorded(Fields[field + 1])) \cup FailsNow
           /\ failed_target' = failed_target
      /\ UNCHANGED <<pc, ptr, held, purpose, source, count, word, stored, searchVars, entry,
                     row, verdictVars, image, instructions>>
      /\ field # 4 => sm' = sm
      /\ field = 4 /\ purpose = "target" => sm' = "following"
      /\ field = 4 /\ purpose # "target" => sm' = "check_next"
  BY DEF CheckField, AfterRow
<1>2. Walking
  BY <1>1 DEF Walking
<1>3. /\ WalkTypes /\ PlaceAgrees /\ PastAgrees /\ HeadAgrees /\ SearchAgrees /\ FailsAgree
      /\ field \in 0 .. 4 /\ purpose \in {"target", "stored", "fallen", "following"}
  BY <1>1, <1>2, ModelHere DEF SearchInv, WalkTypes
<1>4. sm' \in {"field", "following", "check_next"}
  BY <1>1
<1>5. PlaceAgrees' /\ PastAgrees' /\ HeadAgrees'
  BY <1>1, <1>3, <1>4, ModelPlaceStays, HeadStays DEF Reloads
<1>6. /\ CheckedRow' = CheckedRow /\ Checked' = Checked \cup Recorded(Fields[field + 1])
      /\ TargetFails' = TargetFails /\ NextFails' = NextFails
  BY <1>1, <1>3, CheckedGrows, FailsStay DEF CheckedRow, FellRow
<1>7. SearchAgrees'
  BY <1>1, <1>3, <1>4, <1>6 DEF SearchAgrees, searchVars
<1>8. FailsAgree'
  <2>1. CASE purpose = "target"
    <3>1. failed_next = {} /\ failed_target = Fails(CheckedRow, TRUE) \cap Checked
      BY <1>1, <1>3, <2>1 DEF FailsAgree, ChecksTarget
    <3>2. FailsNow = Fails(CheckedRow, TRUE) \cap Recorded(Fields[field + 1])
      BY <2>1 DEF FailsNow, Fails
    <3>3. failed_target' = Fails(CheckedRow, TRUE) \cap Checked' /\ failed_next' = {}
      BY <1>1, <1>6, <2>1, <3>1, <3>2
    <3>4. Fails(CheckedRow, TRUE)' = Fails(CheckedRow, TRUE)
      BY <1>1, <1>6 DEF Fails
    <3>5. CASE field # 4
      BY <1>1, <2>1, <3>3, <3>4, <3>5
      DEF FailsAgree, AtTarget, ChecksTarget, AtNext, ChecksNext
    <3>6. CASE field = 4
      <4>1. sm' = "following" /\ field' = 5
        BY <1>1, <2>1, <3>6
      <4>2. Fails(CheckedRow, TRUE) \subseteq Checked'
        BY <4>1, CheckedAll DEF Fails
      <4>3. TargetFails = Fails(CheckedRow, TRUE)
        BY <1>1, <2>1, CheckedIsAsked DEF TargetFails
      <4> QED
        BY <1>1, <1>6, <2>1, <3>3, <4>1, <4>2, <4>3
        DEF FailsAgree, AtTarget, ChecksTarget, AtNext, ChecksNext
    <3> QED
      BY <3>5, <3>6
  <2>2. CASE purpose # "target"
    <3>1. failed_target = TargetFails /\ failed_next = Fails(CheckedRow, FALSE) \cap Checked
      BY <1>1, <1>3, <2>2 DEF FailsAgree, ChecksNext
    <3>2. FailsNow = Fails(CheckedRow, FALSE) \cap Recorded(Fields[field + 1])
      BY <2>2 DEF FailsNow, Fails
    <3>3. /\ failed_next' = Fails(CheckedRow, FALSE) \cap Checked'
          /\ failed_target' = TargetFails'
      BY <1>1, <1>6, <2>2, <3>1, <3>2
    <3>4. Fails(CheckedRow, FALSE)' = Fails(CheckedRow, FALSE)
      BY <1>1, <1>6 DEF Fails
    <3>5. CASE field # 4
      BY <1>1, <2>2, <3>3, <3>4, <3>5
      DEF FailsAgree, AtTarget, ChecksTarget, AtNext, ChecksNext
    <3>6. CASE field = 4
      <4>1. sm' = "check_next" /\ field' = 5
        BY <1>1, <2>2, <3>6
      <4>2. Fails(CheckedRow, FALSE) \subseteq Checked'
        BY <4>1, CheckedAll DEF Fails
      <4>3. NextFails = Fails(CheckedRow, FALSE)
        BY <1>1, <2>2, CheckedIsAsked DEF NextFails
      <4> QED
        BY <1>1, <1>6, <2>2, <3>3, <4>1, <4>2, <4>3
        DEF FailsAgree, AtTarget, ChecksTarget, AtNext, ChecksNext
    <3> QED
      BY <3>5, <3>6
  <2> QED
    BY <2>1, <2>2
<1> QED
  BY <1>1, <1>2, <1>4, <1>5, <1>7, <1>8, ModelSteps DEF Walking

\* A field of the next pc's row is reloaded: the pc's own is the one held.
LEMMA ModelReloadField == ASSUME WalkInv, ModelInv, ReloadField PROVE ModelInv'
<1>1. /\ sm = "field" /\ purpose = "reload"
      /\ UNCHANGED <<sm, purpose, image, pc, ptr, count, held, verdictVars>>
  BY DEF ReloadField, stateVars, placeVars
<1>2. Walking
  BY <1>1 DEF Walking
<1>3. PlaceAgrees /\ PastAgrees /\ HeadAgrees
  BY <1>2, ModelHere
<1>4. PlaceAgrees' /\ PastAgrees' /\ HeadAgrees'
  BY <1>1, <1>3, ModelPlaceStays, HeadStays DEF Reloads
<1>5. SearchAgrees' /\ FailsAgree'
  BY <1>1 DEF SearchAgrees, FailsAgree, AtTarget, ChecksTarget, AtNext, ChecksNext
<1> QED
  BY <1>1, <1>2, <1>4, <1>5, ModelSteps DEF Walking

\* Where the way on is read from.
LEMMA ModelFollowingRow == ASSUME WalkInv, ModelInv, FollowingRow PROVE ModelInv'
<1>1. /\ sm = "following"
      /\ UNCHANGED <<image, pc, ptr, count, held, word, stored, row, failed_next,
                     failed_target, verdictVars>>
  BY DEF FollowingRow, placeVars
<1>2. \/ /\ FallsOn /\ stored /\ purpose' = "stored" /\ sm' = "entry"
      \/ /\ FallsOn /\ ~stored /\ purpose' = "fallen" /\ field' = 0 /\ sm' = "field"
      \/ /\ ~FallsOn /\ purpose' = "following" /\ NextFollowing = 0 /\ sm' = "check_next"
      \/ /\ ~FallsOn /\ purpose' = "following" /\ key' = NextFollowing /\ NextFollowing # 0
         /\ sm' = "search" /\ lo' = 0 /\ hi' = count
  <2>1. CASE FallsOn
    BY <2>1 DEF FollowingRow, ReadEntry, CheckFields
  <2>2. CASE ~FallsOn
    BY <2>2 DEF FollowingRow, StartLookup
  <2> QED
    BY <2>1, <2>2
<1>3. Walking
  BY <1>1 DEF Walking
<1>4. /\ PlaceAgrees /\ PastAgrees /\ HeadAgrees /\ FailsAgree
      /\ WalkTypes /\ count \in Nat /\ count = Len(Entries) /\ AtWord /\ RowInv
  BY <1>1, <1>3, ModelHere
<1>5. failed_next = {} /\ failed_target = TargetFails
  BY <1>1, <1>4 DEF FailsAgree, AtNext
<1>6. PlaceAgrees' /\ PastAgrees'
  BY <1>1, <1>2, <1>4, ModelPlaceStays DEF Reloads
<1>7. HeadAgrees'
  BY <1>1, <1>4, HeadStays
<1>8. SearchAgrees'
  <2>1. ASSUME sm' = "search"
        PROVE  Lookup(image'.cert, key') = Searched(image'.cert, key')[<<lo', hi'>>]
    <3>1. PICK cert, t : cert = image.cert /\ t = NextFollowing
      OBVIOUS
    <3>2. t # 0 /\ Len(cert.entries) = count
      BY <1>2, <1>4, <2>1, <3>1 DEF Entries
    <3>3. Lookup(cert, t) = Searched(cert, t)[<<0, count>>]
      BY <3>2, LookupIs
    <3> QED
      BY <1>1, <1>2, <2>1, <3>1, <3>3
  <2>2. sm' = "search" => key' # 0 /\ lo' <= count'
    BY <1>1, <1>2, <1>4, SMT
  <2>3. sm' # "search" => ~(purpose' \in {"target", "following"}) \/ sm' = "check_next"
    BY <1>2
  <2> QED
    BY <1>2, <2>1, <2>2, <2>3 DEF SearchAgrees
<1>9. sm' = "check_next" => NextFails = {}
  <2> SUFFICES ASSUME sm' = "check_next" PROVE NextFails = {}
    OBVIOUS
  <2>1. PICK w, r, s : w = word.op /\ r = row /\ s = NextRow(image, pc, Walked(image))
    OBVIOUS
  <2>2. NextRow(image, pc, Walked(image)) =
          IF FallsOn THEN NextRowHere ELSE Lookup(image.cert, NextFollowing)
    BY <1>1, <1>3, <1>4, NextRowAgrees DEF Reloading
  <2>3. s = OpenRow
    BY <1>2, <2>1, <2>2 DEF Lookup
  <2>4. w \in Word /\ r \in HeldRow
    BY <1>4, <2>1 DEF WalkTypes, Instruction
  <2>5. Failing(w, r, s, FALSE) = {}
    BY <2>3, <2>4, OpenIsAccepted, HoldsFailsNone
  <2> QED
    BY <2>1, <2>5 DEF NextFails, Fails
<1>10. FailsAgree'
  <2>1. TargetFails' = TargetFails /\ NextFails' = NextFails
    BY <1>1, FailsStay
  <2>2. sm' = "field" => Checked' = {}
    BY <1>2 DEF Checked
  <2> QED
    BY <1>1, <1>2, <1>5, <1>9, <2>1, <2>2
    DEF FailsAgree, AtTarget, ChecksTarget, AtNext, ChecksNext
<1> QED
  BY <1>1, <1>2, <1>3, <1>6, <1>7, <1>8, <1>10, ModelSteps DEF Walking

\* On to the next pc, or to the end, where the model goes.
LEMMA ModelGoesOn ==
  ASSUME WalkInv, ModelInv, Walking, NEW s, NextPcOrFinish(s), UNCHANGED <<image, verdictVars>>,
         Walked(image)[pc + 1] = [row |-> s, ptr |-> ptr + (IF stored THEN 1 ELSE 0)],
         Judged(image, pc, Walked(image)) = NoReason
  PROVE  ModelInv'
<1>1. /\ pc \in Pcs /\ PastAgrees /\ WalkTypes /\ Size \in Nat
  BY ModelHere, LoadCheckAssumption
<1>2. ptr' = ptr + (IF stored THEN 1 ELSE 0)
  BY DEF NextPcOrFinish
<1>3. PICK W : W = Walked(image)
  OBVIOUS
<1>4. \A p \in 0 .. pc : Judged(image, p, W) = NoReason
  <2>1. \A p \in 0 .. pc : p = pc \/ p \in 0 .. pc - 1
    BY <1>1, LoadCheckAssumption, SMT DEF Pcs
  <2> QED
    BY <1>1, <1>3, <2>1 DEF PastAgrees
<1>5. CASE AtEnd
  <2>1. sm' = "finish" /\ pc' = pc
    BY <1>5 DEF NextPcOrFinish
  <2>2. pc + 1 = Size /\ pc \in 0 .. pc /\ \A p \in 0 .. pc - 1 : p \in 0 .. pc
    BY <1>1, <1>5, SMT DEF AtEnd, Pcs
  <2>3. PlaceAgrees'
    BY <1>2, <2>1, <2>2 DEF PlaceAgrees
  <2>4. PastAgrees'
    BY <1>3, <1>4, <2>1, <2>2 DEF PastAgrees
  <2>5. HeadAgrees' /\ SearchAgrees' /\ FailsAgree'
    BY <2>1
    DEF HeadAgrees, SearchAgrees, FailsAgree, AtTarget, ChecksTarget, AtNext, ChecksNext
  <2> QED
    BY <2>1, <2>3, <2>4, <2>5, ModelSteps DEF Walking
<1>6. CASE ~AtEnd
  <2>1. sm' = "word" /\ pc' = pc + 1 /\ held' = [held EXCEPT ![pc + 1] = s]
    BY <1>6 DEF NextPcOrFinish, NextPc
  <2>2. pc + 1 \in Pcs /\ \A p \in 0 .. (pc + 1) - 1 : p \in 0 .. pc
    BY <1>1, <1>6, SMT DEF AtEnd, Pcs
  <2>3. held'[pc'] = s
    BY <1>1, <2>1, <2>2 DEF WalkTypes
  <2>4. PlaceAgrees'
    BY <1>2, <2>1, <2>3 DEF PlaceAgrees
  <2>5. PastAgrees'
    BY <1>3, <1>4, <2>1, <2>2 DEF PastAgrees, Reloads
  <2>6. HeadAgrees' /\ SearchAgrees' /\ FailsAgree'
    BY <2>1
    DEF HeadAgrees, SearchAgrees, FailsAgree, AtTarget, ChecksTarget, AtNext, ChecksNext
  <2> QED
    BY <2>1, <2>4, <2>5, <2>6, ModelSteps DEF Walking
<1> QED
  BY <1>5, <1>6

\* The next pc's row is all there: the model's is the same entry's.
LEMMA ModelReloaded == ASSUME WalkInv, ModelInv, Reloaded PROVE ModelInv'
<1>1. /\ sm = "field" /\ purpose = "reload" /\ field = 5 /\ NextPcOrFinish(row)
      /\ UNCHANGED <<verdictVars, image>>
  BY DEF Reloaded, AfterRow
<1>2. Walking
  BY <1>1 DEF Walking
<1>3. WalkTypes /\ WalkHere /\ PlaceAgrees /\ PastAgrees /\ count = Len(Entries)
  BY <1>2, ModelHere
<1>4. /\ stored /\ sel = ptr /\ source = "dictionary" /\ entry = EntryAt(sel)
      /\ ptr < count /\ EntryAt(ptr).pc = NextPc /\ row = Partly(entry, 5)
  BY <1>1, <1>3
  DEF WalkHere, SearchInv, WalkTypes, AtWord, ReloadInv, Reloading
<1>5. row = DecodedAt(ptr)
  BY <1>4, PartlyEnds DEF DecodedAt
<1>6. Walked(image)[pc] = [row |-> held[pc], ptr |-> ptr]
  BY <1>1, <1>3 DEF PlaceAgrees
<1>7. Walked(image)[pc + 1] = After(image, pc, [row |-> held[pc], ptr |-> ptr])
  BY <1>3, <1>6, WalkedNext DEF WalkTypes
<1>8. Stored(image, pc, ptr)
  BY <1>3, <1>4 DEF Stored, EntryAt, NextPc, Entries
<1>9. Walked(image)[pc + 1] = [row |-> row, ptr |-> ptr + (IF stored THEN 1 ELSE 0)]
  BY <1>4, <1>5, <1>7, <1>8 DEF After, DecodedAt, EntryAt
<1>10. Judged(image, pc, Walked(image)) = NoReason
  BY <1>1, <1>3 DEF PastAgrees, Reloads
<1> QED
  BY <1>1, <1>2, <1>9, <1>10, ModelGoesOn

\* What the model says of a pc once both ways out of it are checked.
LEMMA JudgedChecked ==
  ASSUME WalkInv, ModelInv, sm = "check_next"
  PROVE  Judged(image, pc, Walked(image)) =
           IF ~InTime(word.op, row) THEN <<"word", "in_time">>
           ELSE IF failed_next # {} THEN <<"next", First(failed_next)>>
           ELSE IF failed_target # {} THEN <<"target", First(failed_target)>>
           ELSE NoReason
<1>1. Walking
  BY DEF Walking
<1>2. /\ WalkTypes /\ PlaceAgrees /\ HeadAgrees /\ FailsAgree /\ AtWord /\ RowInv
  BY <1>1, ModelHere
<1>3. word = image.words[pc] /\ row = held[pc]
  BY <1>2 DEF AtWord, RowInv, Reloading
<1>4. Walked(image)[pc] = [row |-> row, ptr |-> ptr]
  BY <1>2, <1>3 DEF PlaceAgrees
<1>5. InOrder /\ failed_next = NextFails /\ failed_target = TargetFails
  BY <1>2 DEF HeadAgrees, FailsAgree
<1>6. Judged(image, pc, Walked(image)) =
           IF ~InOrder THEN <<"walk", "out_of_order">>
           ELSE IF ~InTime(word.op, row) THEN <<"word", "in_time">>
           ELSE IF NextFails # {} THEN <<"next", First(NextFails)>>
           ELSE IF TargetFails # {} THEN <<"target", First(TargetFails)>>
           ELSE NoReason
  BY <1>1, <1>2, <1>3, <1>4, JudgedHere
<1> QED
  BY <1>5, <1>6

\* What a pc is rejected for is the first of the model's reasons.
LEMMA ModelCheckNextRejects == ASSUME WalkInv, ModelInv, CheckNextRejects PROVE ModelInv'
<1> DEFINE why == CASE ~InTime(word.op, row) -> <<"word", "in_time">>
                    [] InTime(word.op, row) /\ failed_next # {} ->
                         <<"next", First(failed_next)>>
                    [] OTHER -> <<"target", First(failed_target)>>
<1>1. sm = "check_next" /\ Refuses /\ Reject(pc, why) /\ UNCHANGED <<image, pc>>
  BY DEF CheckNextRejects, placeVars
<1>2. Walking
  BY <1>1 DEF Walking
<1>3. Judged(image, pc, Walked(image)) = why
  BY <1>1, JudgedChecked DEF Refuses
<1>4. why # NoReason
  BY DEF NoReason
<1> HIDE DEF why
<1> QED
  BY <1>1, <1>2, <1>3, <1>4, RejectAgrees

\* The pc is accepted, here and in the model.
LEMMA ModelCheckNext == ASSUME WalkInv, ModelInv, CheckNext PROVE ModelInv'
<1>1. /\ sm = "check_next" /\ InTime(word.op, row) /\ failed_next = {} /\ failed_target = {}
      /\ UNCHANGED <<count, stored, verdictVars, image>>
  BY DEF CheckNext, Refuses
<1>2. Walking
  BY <1>1 DEF Walking
<1>3. /\ WalkTypes /\ PlaceAgrees /\ PastAgrees /\ HeadAgrees /\ AtWord /\ RowInv
  BY <1>2, ModelHere
<1>4. Judged(image, pc, Walked(image)) = NoReason
  BY <1>1, JudgedChecked
<1>5. CASE stored
  <2>1. /\ purpose' = "reload" /\ sm' = "entry" /\ UNCHANGED <<pc, ptr, held>>
    BY <1>5 DEF CheckNext, ReadEntry
  <2>2. PlaceAgrees' /\ HeadAgrees'
    BY <1>1, <1>3, <2>1, HeadStays DEF PlaceAgrees
  <2>3. PastAgrees'
    <3>1. PICK b : b = pc
      OBVIOUS
    <3> QED
      BY <1>1, <1>3, <1>4, <2>1, <3>1 DEF PastAgrees
  <2>4. SearchAgrees' /\ FailsAgree'
    BY <2>1 DEF SearchAgrees, FailsAgree, AtTarget, ChecksTarget, AtNext, ChecksNext
  <2> QED
    BY <1>1, <1>2, <2>1, <2>2, <2>3, <2>4, ModelSteps DEF Walking
<1>6. CASE ~stored
  <2>1. PICK s : s = row'
    OBVIOUS
  <2>2. s = NextRowHere /\ NextPcOrFinish(s)
    BY <1>6, <2>1 DEF CheckNext, NextRowHere, NextPcOrFinish
  <2>3. Walked(image)[pc + 1] = [row |-> s, ptr |-> ptr + (IF stored THEN 1 ELSE 0)]
    BY <1>1, <1>2, <1>3, <2>2, NextRowAgrees DEF Reloading
  <2> QED
    BY <1>1, <1>2, <1>4, <2>2, <2>3, ModelGoesOn
<1> QED
  BY <1>5, <1>6

\* The walk ends where the model's does.
LEMMA ModelFinish == ASSUME WalkInv, ModelInv, Finish PROVE ModelInv'
<1>1. /\ sm = "finish" /\ sm' = "idle" /\ finished' = TRUE /\ UNCHANGED image
      /\ AllTaken => accepted' = TRUE /\ UNCHANGED <<reject_pc, reason>>
      /\ ~AllTaken => /\ accepted' = FALSE /\ reject_pc' = Size
                      /\ reason' = <<"walk", "left_over">>
  BY DEF Finish, Reject
<1>2. Walking
  BY <1>1 DEF Walking
<1>3. /\ PlaceAgrees /\ PastAgrees /\ WalkHere /\ count = Len(Entries)
      /\ reject_pc = 0 /\ reason = NoReason
  BY <1>1, <1>2, ModelHere DEF ModelInv
<1>4. pc = Size - 1 /\ Walked(image)[Size].ptr = ptr
  BY <1>1, <1>3 DEF WalkHere, WaysInv, PlaceAgrees
<1>5. PICK img, W : img = image /\ W = Walked(image)
  OBVIOUS
<1>6. \A q \in Pcs : Judged(img, q, W) = NoReason
  <2>1. \A q \in Pcs : q = pc \/ q \in 0 .. pc - 1
    BY <1>4, LoadCheckAssumption, SMT DEF Pcs
  <2> QED
    BY <1>1, <1>3, <1>5, <2>1 DEF PastAgrees
<1>7. Verdict(img) =
        IF W[Size].ptr # Len(img.cert.entries)
        THEN [accepted |-> FALSE, reject_pc |-> Size, reason |-> <<"walk", "left_over">>]
        ELSE [accepted |-> TRUE, reject_pc |-> 0, reason |-> NoReason]
  BY <1>5, <1>6, VerdictAccepts
<1>8. AllTaken <=> W[Size].ptr = Len(img.cert.entries)
  BY <1>3, <1>4, <1>5 DEF AllTaken, Entries
<1>9. AgreesWithModel'
  BY <1>1, <1>3, <1>5, <1>7, <1>8 DEF AgreesWithModel
<1> QED
  BY <1>1, <1>9 DEF ModelInv, Walking

-----------------------------------------------------------------------------
(***************************************************************************)
(* The theorems about the model.                                           *)
(***************************************************************************)

\* Before any walk there is nothing to agree on, and a step keeps to the model.
LEMMA ModelInit == Init => ModelInv
BY DEF Init, ModelInv, Walking, AgreesWithModel

LEMMA ModelStep == WalkInv /\ ModelInv /\ [Next]_vars => ModelInv'
<1> SUFFICES ASSUME WalkInv, ModelInv, [Next]_vars PROVE ModelInv'
  OBVIOUS
<1>1. CASE Begin
  BY <1>1, ModelBegin
<1>2. CASE Header
  BY <1>2, ModelHeader
<1>3. CASE ReadWord
  BY <1>3, ModelReadWord
<1>4. CASE HeadInOrder
  BY <1>4, ModelHead
<1>5. CASE HeadOutOfOrder
  BY <1>5, ModelHeadRejects
<1>6. CASE Target
  BY <1>6, ModelTarget
<1>7. CASE SearchMissed
  BY <1>7, ModelSearchMissed
<1>8. CASE Search
  BY <1>8, ModelSearch
<1>9. CASE ReadsEntry
  BY <1>9, ModelReadsEntry
<1>10. CASE CheckField
  BY <1>10, ModelCheckField
<1>11. CASE ReloadField
  BY <1>11, ModelReloadField
<1>12. CASE Reloaded
  BY <1>12, ModelReloaded
<1>13. CASE FollowingRow
  BY <1>13, ModelFollowingRow
<1>14. CASE CheckNextRejects
  BY <1>14, ModelCheckNextRejects
<1>15. CASE CheckNext
  BY <1>15, ModelCheckNext
<1>16. CASE Finish
  BY <1>16, ModelFinish
<1>17. CASE Abort
  BY <1>17 DEF Abort, Reject, ModelInv, Walking, AgreesWithModel
<1>18. CASE Rest
  BY <1>18 DEF Rest, stateVars, ModelInv, Walking, AgreesWithModel
<1>19. CASE UNCHANGED vars
  <2>1. UNCHANGED <<sm, purpose, source, pc, ptr, count, word, stored, key, lo, hi, sel,
                    entry, field, row, failed_next, failed_target, verdictVars, image, held>>
    BY <1>19 DEF vars, stateVars, placeVars, searchVars, rowVars
  <2>2. CASE ~Walking
    BY <2>1, <2>2 DEF ModelInv, Walking, AgreesWithModel, verdictVars
  <2>3. CASE Walking
    <3>1. PlaceAgrees /\ PastAgrees /\ HeadAgrees /\ SearchAgrees /\ FailsAgree
      BY <2>3, ModelHere
    <3>2. PlaceAgrees' /\ HeadAgrees' /\ SearchAgrees'
      BY <2>1, <3>1
      DEF PlaceAgrees, HeadAgrees, SearchAgrees, InOrder, EntryAt, DecodedAt, CheckedRow,
          FellRow
    <3>3. PastAgrees'
      <4>1. PICK b : b = pc
        OBVIOUS
      <4> QED
        BY <2>1, <3>1, <4>1 DEF PastAgrees, Reloads
    <3>4. FailsAgree'
      <4>1. TargetFails' = TargetFails /\ NextFails' = NextFails
        BY <2>1, FailsStay
      <4>2. CheckedRow' = CheckedRow /\ Checked' = Checked
        BY <2>1 DEF CheckedRow, Checked, FellRow
      <4>3. /\ Fails(CheckedRow, TRUE)' = Fails(CheckedRow, TRUE)
            /\ Fails(CheckedRow, FALSE)' = Fails(CheckedRow, FALSE)
        BY <2>1, <4>2 DEF Fails
      <4> QED
        BY <2>1, <3>1, <4>1, <4>2, <4>3
        DEF FailsAgree, AtTarget, ChecksTarget, AtNext, ChecksNext
    <3> QED
      BY <2>1, <2>3, <3>1, <3>2, <3>3, <3>4, ModelSteps DEF Walking
  <2> QED
    BY <2>2, <2>3
<1> QED
  BY <1>1, <1>2, <1>3, <1>4, <1>5, <1>6, <1>7, <1>8, <1>9, <1>10, <1>11, <1>12, <1>13,
     <1>14, <1>15, <1>16, <1>17, <1>18, <1>19 DEF Next, Walk

\* The walk is where the model's recursion is, and has rejected what it rejects
\* (load_checker.ml against load_check.ml: walk).
THEOREM ModelInvariant == Spec => []ModelInv
<1>1. Init => WalkInv /\ ModelInv
  BY WalkInit, ModelInit
<1>2. WalkInv /\ ModelInv /\ [Next]_vars => (WalkInv /\ ModelInv)'
  BY WalkStep, ModelStep
<1> QED
  BY <1>1, <1>2, PTL DEF Spec

\* A walk's verdict, and the pc and the reason of a rejection, are those of the load
\* check's model (load_check.ml: walk), for every memory and certificate and whatever
\* the walks before left.
THEOREM VerdictIsTheModels == Spec => []AgreesWithModel
<1>1. ModelInv => AgreesWithModel
  BY DEF ModelInv
<1> QED
  BY <1>1, ModelInvariant, PTL
=============================================================================
