---------------------------- MODULE KernelProofs ----------------------------
(***************************************************************************)
(* The kernel is sound for every timer and data width, every set of words  *)
(* and every certificate: an accepted row holds the core at the next word, *)
(* so no deadline wait is entered late.                                    *)
(*                                                                         *)
(* The inductive invariant is TypeOK, Within and NeverMissed.  A step has  *)
(* one lemma for each part of a row: what the kernel asks of that part     *)
(* puts the core's part inside it.  Only the offset needs the timer's      *)
(* wrap-around; the image of every other part is asked to fit.             *)
(*                                                                         *)
(* A core on a program with a table found sound is such a core (Accepted): *)
(* with what an accepted walk held (LoadCheckerProofs!AcceptedIsCertified) *)
(* the chip's claim is whole.                                              *)
(***************************************************************************)
EXTENDS Accepted, TLAPS

\* The timer's wrap keeps a value in range and moves one by whole turns.
LEMMA WrapRange ==
  ASSUME NEW v \in Int
  PROVE  Wrap(v) \in Timer
BY WidthAssumption, SMT DEF Wrap, Timer

\* A slope's share of a counter that goes down by one.
LEMMA TimesOneLess ==
  ASSUME NEW a \in Int, NEW b \in Int
  PROVE  a * (b - 1) = a * b - a
BY SMT

\* The arm's count of a word's cycles does not wrap.
LEMMA ArmCounts ==
  ASSUME NEW n \in 1 .. Half - 1, NEW m, m = n % (2 * Half)
  PROVE  m = n
BY WidthAssumption, SMT

\* A word's cycles are a count that does not wrap.
LEMMA CyclesShort ==
  ASSUME NEW w \in Words
  PROVE  w \in Word /\ w.cycles \in 1 .. Half - 1
<1>1. w \in Word /\ w.cycles \in 1 .. Half - 2
  BY KernelAssumption DEF Word
<1> QED BY <1>1, WidthAssumption, SMT

\* Wrapping adds whole turns.
LEMMA WrapTurns ==
  ASSUME NEW v \in Int
  PROVE  \E k \in Int : Wrap(v) = v + (2 * Half) * k
<1> DEFINE q == (v + Half) \div (2 * Half)
<1>1. q \in Int /\ v + Half = (2 * Half) * q + ((v + Half) % (2 * Half))
  BY WidthAssumption, SMT
<1>2. \A t, n, m, h : t \in Int /\ n \in Int /\ m \in Int /\ h \in Int /\ v + h = t * n + m
                        => m - h = v + t * (-n)
  BY SMT
<1>3. 2 * Half \in Int /\ Half \in Int /\ (v + Half) % (2 * Half) \in Int
  BY WidthAssumption, SMT
<1> HIDE DEF q
<1>4. Wrap(v) = v + (2 * Half) * (-q)
  BY <1>1, <1>2, <1>3 DEF Wrap
<1>5. -q \in Int
  BY <1>1
<1> QED BY <1>4, <1>5

\* A wrapped time is the number it wraps, where that is in range.
LEMMA WrapIs ==
  ASSUME NEW v \in Int, NEW u \in Timer, NEW k \in Int, u = v + (2 * Half) * k
  PROVE  Wrap(v) = u
<1>1. PICK j \in Int : Wrap(v) = v + (2 * Half) * j
  BY WrapTurns
<1>2. Wrap(v) \in Timer
  BY WrapRange
<1>3. u \in Int /\ Wrap(v) \in Int
  BY <1>2, WidthAssumption DEF Timer
<1>4. u - Wrap(v) < 2 * Half /\ Wrap(v) - u < 2 * Half
  BY <1>2, WidthAssumption, SMT DEF Timer
<1>5. u - Wrap(v) = (2 * Half) * (k - j)
  BY <1>1, <1>3, WidthAssumption, SMT
<1> DEFINE d == k - j
       h == 2 * Half
<1>6. d \in Int /\ h \in Nat /\ h > 0
  BY WidthAssumption, SMT
<1>7. d = 0
  <2> HIDE DEF d, h
  <2>1. CASE d >= 1
    <3>1. h * d >= h
      BY <2>1, <1>6, SMT
    <3> QED BY <3>1, <1>3, <1>4, <1>5, <1>6, SMT DEF d, h
  <2>2. CASE d <= -1
    <3>1. h * d <= -h
      BY <2>2, <1>6, SMT
    <3> QED BY <3>1, <1>3, <1>4, <1>5, <1>6, SMT DEF d, h
  <2> QED BY <2>1, <2>2, <1>6, SMT
<1>8. u - Wrap(v) = 0
  BY <1>5, <1>7, WidthAssumption, SMT
<1> QED BY <1>3, <1>8, SMT

\* A wrapped time wraps to itself.
LEMMA WrapSame ==
  ASSUME NEW v \in Timer
  PROVE  Wrap(v) = v
<1>1. v \in Int /\ v = v + (2 * Half) * 0
  BY WidthAssumption, SMT DEF Timer
<1> QED BY <1>1, WrapIs

\* Adding to a wrapped value wraps as adding to the value does.
LEMMA WrapShift ==
  ASSUME NEW a \in Int, NEW b \in Int
  PROVE  Wrap(Wrap(a) + b) = Wrap(a + b)
<1>1. PICK j \in Int : Wrap(a) = a + (2 * Half) * j
  BY WrapTurns
<1>2. Wrap(a) + b \in Int /\ a + b \in Int
  BY WrapRange, WidthAssumption, SMT DEF Timer
<1>3. PICK k \in Int : Wrap(Wrap(a) + b) = Wrap(a) + b + (2 * Half) * k
  BY <1>2, WrapTurns
<1>4. Wrap(Wrap(a) + b) = a + b + (2 * Half) * (j + k)
  BY <1>1, <1>3, WidthAssumption, SMT
<1>5. Wrap(Wrap(a) + b) \in Timer /\ j + k \in Int
  BY <1>2, WrapRange, SMT
<1> QED BY <1>2, <1>4, <1>5, WrapIs

-----------------------------------------------------------------------------
\* Every row a core can be at, the open one too, is a row.
LEMMA RowTypes ==
  ASSUME TypeOK
  PROVE  row \in Row
<1>1. -Half \in Timer /\ Half - 1 \in Timer /\ 0 \in Timer
  BY WidthAssumption, SMT DEF Timer
<1>2. 0 \in Data /\ DataMax \in Data
  BY WidthAssumption, SMT DEF Data
<1>3. 0 \in 0 .. 2 * Half - 1 /\ 2 * Half - 1 \in 0 .. 2 * Half - 1
  BY WidthAssumption, SMT
<1>4. WholeTimer \in [lo : Timer, hi : Timer]
  BY <1>1 DEF WholeTimer
<1>5. WholeData \in [lo : Data, hi : Data]
  BY <1>2 DEF WholeData
<1>6. WholeArm \in [lo : 0 .. 2 * Half - 1, hi : 0 .. 2 * Half - 1]
  BY <1>3 DEF WholeArm
<1>7. OpenRow \in Row
  BY <1>1, <1>4, <1>5, <1>6 DEF OpenRow, Row
<1> QED BY <1>7, KernelAssumption DEF TypeOK

\* A row that holds the core is not empty, so its word is asked about.
LEMMA HeldAsks ==
  ASSUME TypeOK, Within, NEW w \in Words, w.kind # "halt"
  PROVE  Asks(w, row)
<1>1. row \in Row
  BY RowTypes
<1>2. CASE ArmKnown(row)
  BY <1>1, <1>2, WidthAssumption, SMT
     DEF Asks, IsEmpty, Within, In, TypeOK, Row, Timer, Data
<1>3. CASE ~ArmKnown(row)
  BY <1>1, <1>3, WidthAssumption, SMT
     DEF Asks, IsEmpty, Within, In, TypeOK, Row, Timer, Data, ArmKnown, WholeArm
<1> QED BY <1>2, <1>3

-----------------------------------------------------------------------------
(***************************************************************************)
(* One lemma for each part of a row.                                       *)
(***************************************************************************)

\* What a word adds to t is among what the kernel allows for.
LEMMA AddedInside ==
  ASSUME TypeOK, Within, NEW w \in Words, NEW carry \in Carries(w)
  PROVE  /\ Added(w) \in Int /\ carry \in Int
         /\ AddedIn(w, row).lo \in Int /\ AddedIn(w, row).hi \in Int
         /\ In(Added(w) + carry, AddedIn(w, row))
<1>1. row \in Row /\ w \in Word
  BY RowTypes, KernelAssumption
<1>2. carry = 0 \/ (carry = 1 /\ w.kind = "advance" /\ Fraction)
  BY DEF Carries
<1>3. w.imm \in Int
  BY <1>1, WidthAssumption, SMT DEF Word, Data
<1>4. In(period, row.period) /\ In(x, row.x) /\ In(y, row.y)
  BY DEF Within
<1>5. period \in Int /\ x \in Int /\ y \in Int
  BY WidthAssumption, SMT DEF TypeOK, Data
<1>6. /\ row.period \in [lo : Int, hi : Int] /\ row.x \in [lo : Int, hi : Int]
      /\ row.y \in [lo : Int, hi : Int]
  BY <1>1, WidthAssumption, SMT DEF Row, Data
<1>7. CASE w.kind = "advance"
  <2>1. AddedIn(w, row) =
          [row.period EXCEPT !.hi = @ + (IF Fraction THEN 1 ELSE 0)]
    BY <1>7 DEF AddedIn
  <2>2. AddedIn(w, row).lo = row.period.lo
    BY <2>1, <1>6
  <2>3. AddedIn(w, row).hi = row.period.hi + (IF Fraction THEN 1 ELSE 0)
    BY <2>1, <1>6
  <2>4. Added(w) = period
    BY <1>7 DEF Added
  <2> QED BY <1>2, <1>4, <1>5, <1>6, <2>2, <2>3, <2>4, WidthAssumption, SMT DEF In
<1>8. CASE w.kind # "advance"
  <2>1. carry = 0
    BY <1>2, <1>8
  <2>2. CASE w.kind = "add_p"
    BY <2>1, <2>2, <1>4, <1>5, <1>6, SMT DEF Added, AddedIn, In
  <2>3. CASE w.kind = "add_x"
    BY <2>1, <2>3, <1>4, <1>5, <1>6, SMT DEF Added, AddedIn, In
  <2>4. CASE w.kind = "add_y"
    BY <2>1, <2>4, <1>4, <1>5, <1>6, SMT DEF Added, AddedIn, In
  <2>5. CASE w.kind = "add_imm"
    BY <2>1, <2>5, <1>3, SMT DEF Added, AddedIn, In, Point
  <2>6. CASE w.kind = "sub_imm"
    BY <2>1, <2>6, <1>3, SMT DEF Added, AddedIn, In, Point
  <2>7. CASE w.kind \notin {"add_p", "add_x", "add_y", "add_imm", "sub_imm"}
    <3>1. Added(w) = 0 /\ AddedIn(w, row) = Point(0)
      BY <2>7, <1>8 DEF Added, AddedIn
    <3> QED BY <3>1, <2>1, SMT DEF In, Point
  <2> QED BY <2>2, <2>3, <2>4, <2>5, <2>6, <2>7
<1> QED BY <1>7, <1>8

\* Where x is 0 the offset is the phase, so the phase is where the kernel clamps it.
LEMMA EntryInside ==
  ASSUME TypeOK, Within, NEW w \in Words, NEW taken \in BOOLEAN,
         w.kind = "x_dec" /\ ~taken => x = 0
  PROVE  /\ Entry(w, row, taken) \in [lo : Int, hi : Int]
         /\ In(phase, Entry(w, row, taken))
<1>1. row \in Row /\ phase \in Timer /\ phase \in Int
  BY RowTypes, WidthAssumption, SMT DEF TypeOK, Timer
<1>2. row.phase \in [lo : Int, hi : Int] /\ row.offset \in [lo : Int, hi : Int]
  BY <1>1, WidthAssumption, SMT DEF Row, Timer
<1>3. In(phase, row.phase) /\ In(Offset(row), row.offset)
  BY DEF Within
<1>4. CASE w.kind = "x_dec" /\ ~taken
  <2>1. phase - row.slope * x = phase
    BY <1>1, <1>4, WidthAssumption, SMT DEF Row, Timer
  <2>2. Offset(row) = phase
    BY <2>1, <1>1, WrapSame DEF Offset
  <2> QED BY <1>1, <1>2, <1>3, <1>4, <2>2, SMT DEF Entry, In, Larger, Smaller
<1>5. CASE ~(w.kind = "x_dec" /\ ~taken)
  <2>1. Entry(w, row, taken) = row.phase
    BY <1>5 DEF Entry
  <2> QED BY <2>1, <1>2, <1>3
<1> QED BY <1>4, <1>5

\* What the core adds up to, before the timer wraps, is in the phase's image.
LEMMA ImageInside ==
  ASSUME TypeOK, Within, NEW w \in Words, NEW taken \in BOOLEAN,
         w.kind = "x_dec" /\ ~taken => x = 0,
         Bounded(w), NEW carry \in Carries(w)
  PROVE  /\ Image(w, row, taken) \in [lo : Int, hi : Int]
         /\ PhaseFrom(w) + w.cycles - Added(w) - carry \in Int
         /\ In(PhaseFrom(w) + w.cycles - Added(w) - carry, Image(w, row, taken))
<1> DEFINE e == Entry(w, row, taken)
       f == PhaseFromIn(w, row, e)
       v == AddedIn(w, row)
<1>1. e \in [lo : Int, hi : Int] /\ In(phase, e)
  BY EntryInside
<1>2. /\ Added(w) \in Int /\ carry \in Int /\ v.lo \in Int /\ v.hi \in Int
      /\ In(Added(w) + carry, v)
  BY AddedInside
<1>3. phase \in Int /\ w.cycles \in Int
  BY KernelAssumption, SMT DEF TypeOK, Timer, Word
<1>4. ~CaptureBounded(w, row)
  BY DEF Bounded, CaptureBounded
<1>5. f \in [lo : Int, hi : Int] /\ PhaseFrom(w) \in Int /\ In(PhaseFrom(w), f)
  <2> HIDE DEF e
  <2>1. CASE w.kind = "anchor"
    <3>1. f = Point(0) /\ PhaseFrom(w) = 0
      BY <2>1, <1>4 DEF PhaseFromIn, PhaseFrom, Deadlines
    <3> QED BY <3>1, SMT DEF In, Point
  <2>2. CASE w.kind \in Deadlines
    BY <2>2, <1>1, <1>3, <1>4, SMT
       DEF PhaseFromIn, PhaseFrom, In, Released, Larger, Deadlines
  <2>3. CASE w.kind # "anchor" /\ w.kind \notin Deadlines
    <3>1. f = e /\ PhaseFrom(w) = phase
      BY <2>3, <1>4 DEF PhaseFromIn, PhaseFrom
    <3> QED BY <3>1, <1>1, <1>3
  <2> QED BY <2>1, <2>2, <2>3
<1>6. Image(w, row, taken) =
        [lo |-> f.lo + (w.cycles - v.hi), hi |-> f.hi + (w.cycles - v.lo)]
  BY DEF Image, Plus, Delta
<1> HIDE DEF f, v
<1> QED BY <1>2, <1>3, <1>5, <1>6, SMT DEF In

\* The phase the core has next is in the row's bounds on it.
LEMMA PhaseStep ==
  ASSUME TypeOK, Within, NEW w \in Words, NEW s \in Row, NEW taken \in BOOLEAN,
         w.kind = "x_dec" /\ ~taken => x = 0,
         NEW p \in PhasesAfter(w), PhaseHolds(w, row, s, taken)
  PROVE  p \in Timer /\ In(p, s.phase)
<1>1. row \in Row /\ w \in Word /\ w.cycles \in Int /\ arm \in Int
  BY RowTypes, KernelAssumption, SMT DEF Word, TypeOK
<1>2. p \in Timer
  <2>1. CASE Bounded(w)
    <3>1. PICK carry \in Carries(w) :
            p = Wrap(PhaseFrom(w) + w.cycles - Added(w) - carry)
      BY <2>1 DEF PhasesAfter
    <3>2. carry \in Int /\ Added(w) \in Int
      BY AddedInside
    <3>3. PhaseFrom(w) \in Int
      BY WidthAssumption, SMT DEF PhaseFrom, Released, Larger, TypeOK, Timer
    <3>4. PhaseFrom(w) + w.cycles - Added(w) - carry \in Int
      BY <1>1, <3>2, <3>3, SMT
    <3> QED BY <3>1, <3>4, WrapRange
  <2>2. CASE ~Bounded(w) /\ FromCapture(w)
    <3>1. PICK v \in w.cycles + 1 .. arm + w.cycles - 1 : p = Wrap(v)
      BY <2>2 DEF PhasesAfter
    <3>2. v \in Int
      BY <1>1, SMT
    <3> QED BY <3>1, <3>2, WrapRange
  <2>3. CASE ~Bounded(w) /\ ~FromCapture(w)
    BY <2>3 DEF PhasesAfter
  <2> QED BY <2>1, <2>2, <2>3
<1>3. CASE s.phase = WholeTimer
  BY <1>2, <1>3, WidthAssumption, SMT DEF In, WholeTimer, Timer
<1>4. CASE s.phase # WholeTimer /\ Bounded(w)
  <2>1. PICK carry \in Carries(w) :
          p = Wrap(PhaseFrom(w) + w.cycles - Added(w) - carry)
    BY <1>4 DEF PhasesAfter
  <2> DEFINE v == PhaseFrom(w) + w.cycles - Added(w) - carry
         i == Image(w, row, taken)
  <2>2. i \in [lo : Int, hi : Int] /\ v \in Int /\ In(v, i)
    BY <1>4, ImageInside
  <2>3. Inside(i, WholeTimer) /\ Inside(i, s.phase)
    BY <1>4 DEF PhaseHolds
  <2>4. p = Wrap(v)
    BY <2>1
  <2>5. s.phase \in [lo : Int, hi : Int]
    BY WidthAssumption, SMT DEF Row, Timer
  <2> HIDE DEF v, i
  <2>6. v \in Timer
    BY <2>2, <2>3, WidthAssumption, SMT DEF In, Inside, WholeTimer, Timer
  <2>7. p = v
    BY <2>4, <2>6, WrapSame
  <2> QED BY <1>2, <2>2, <2>3, <2>5, <2>7, SMT DEF In, Inside
<1>5. CASE s.phase # WholeTimer /\ ~Bounded(w)
  <2>1. CaptureBounded(w, row)
    BY <1>5 DEF PhaseHolds, PhaseKnown
  <2>2. FromCapture(w) /\ arm <= row.arm.hi
    BY <2>1 DEF CaptureBounded, FromCapture, Within, In
  <2>3. PICK v \in w.cycles + 1 .. arm + w.cycles - 1 : p = Wrap(v)
    BY <1>5, <2>2 DEF PhasesAfter
  <2>4. Entry(w, row, taken) = row.phase /\ AddedIn(w, row) = Point(0)
    BY <2>1 DEF CaptureBounded, Entry, AddedIn
  <2>5. row.arm.hi \in Int /\ v \in Int
    BY <1>1, WidthAssumption, SMT DEF Row
  <2>6. PhaseFromIn(w, row, row.phase) = [lo |-> 1, hi |-> row.arm.hi - 1]
    BY <2>1 DEF PhaseFromIn, CaptureBounded, Deadlines
  <2>7. Image(w, row, taken) =
          [lo |-> 1 + (w.cycles - 0), hi |-> row.arm.hi - 1 + (w.cycles - 0)]
    BY <2>4, <2>6 DEF Image, Plus, Delta, Point
  <2>8. In(v, Image(w, row, taken))
    BY <1>1, <2>2, <2>3, <2>5, <2>7, SMT DEF In
  <2>9. Inside(Image(w, row, taken), WholeTimer) /\ Inside(Image(w, row, taken), s.phase)
    BY <1>5 DEF PhaseHolds
  <2>10. s.phase \in [lo : Int, hi : Int]
    BY WidthAssumption, SMT DEF Row, Timer
  <2>11. v \in Timer
    BY <1>1, <2>5, <2>7, <2>8, <2>9, WidthAssumption, SMT
       DEF In, Inside, WholeTimer, Timer
  <2>12. p = v
    BY <2>3, <2>11, WrapSame
  <2>13. /\ Image(w, row, taken).lo \in Int /\ Image(w, row, taken).hi \in Int
         /\ s.phase.lo \in Int /\ s.phase.hi \in Int
    BY <1>1, <2>5, <2>7, <2>10, SMT
  <2> QED BY <1>2, <2>5, <2>8, <2>9, <2>12, <2>13, SMT DEF In, Inside
<1> QED BY <1>3, <1>4, <1>5

\* The way out that the core's registers pick.
Goes(w, taken) ==
  /\ w.kind = "x_dec" => (taken <=> x # 0)
  /\ w.kind = "y_dec" => (taken <=> y # 0)
  /\ w.kind = "x_ne_y" => (taken <=> x # y)

\* The offset the core has next is in the row's bounds on it.
LEMMA OffsetStep ==
  ASSUME TypeOK, Within, NEW w \in Words, NEW s \in Row, NEW taken \in BOOLEAN,
         Goes(w, taken), NEW p \in PhasesAfter(w), p \in Timer,
         NEW x2 \in XsAfter(w), x2 \in Data, OffsetHolds(w, row, s, taken)
  PROVE  In(Wrap(p - s.slope * x2), s.offset)
<1>1. row \in Row /\ w \in Word
  BY RowTypes, KernelAssumption
<1>2. /\ w.cycles \in Int /\ w.imm \in Int /\ s.slope \in Int /\ row.slope \in Int
      /\ x \in Int /\ x2 \in Int /\ p \in Int /\ phase \in Int
      /\ s.offset \in [lo : Timer, hi : Timer]
      /\ row.offset \in [lo : Int, hi : Int]
  BY <1>1, WidthAssumption, SMT DEF TypeOK, Row, Word, Timer, Data
<1>3. s.slope * x2 \in Int /\ row.slope * x \in Int /\ s.slope * w.imm \in Int
  BY <1>2, SMT
<1>4. s.offset.lo \in Int /\ s.offset.hi \in Int
      /\ s.offset.lo \in Timer /\ s.offset.hi \in Timer
  BY <1>2, WidthAssumption, SMT DEF Timer
\* A value that lies in the image wraps to itself and lies in the row's bounds.
<1>5. ASSUME NEW i \in [lo : Int, hi : Int], NEW v \in Int, In(v, i),
             Inside(i, s.offset)
      PROVE  In(Wrap(v), s.offset)
  <2>1. In(v, s.offset)
    BY <1>4, <1>5, SMT DEF In, Inside
  <2>2. v \in Timer
    BY <1>4, <1>5, <2>1, WidthAssumption, SMT DEF In, Timer
  <2> QED BY <2>1, <2>2, WrapSame
<1>6. CASE s.offset = WholeTimer
  <2>1. p - s.slope * x2 \in Int
    BY <1>2, <1>3, SMT
  <2>2. Wrap(p - s.slope * x2) \in Timer
    BY <2>1, WrapRange
  <2> QED BY <2>2, <1>6, WidthAssumption, SMT DEF In, WholeTimer, Timer
<1>7. CASE s.offset # WholeTimer /\ w.kind = "set_x"
  <2>1. Bounded(w)
    BY <1>7 DEF Bounded, Waits
  <2>2. PICK carry \in Carries(w) :
          p = Wrap(PhaseFrom(w) + w.cycles - Added(w) - carry)
    BY <2>1 DEF PhasesAfter
  <2> DEFINE v == PhaseFrom(w) + w.cycles - Added(w) - carry
         i == Image(w, row, taken)
         m == s.slope * w.imm
  <2>3. i \in [lo : Int, hi : Int] /\ v \in Int /\ In(v, i)
    BY <1>7, <2>1, ImageInside
  <2>4. x2 = w.imm
    BY <1>7 DEF XsAfter
  <2>5. Inside(Later(i, -m), s.offset)
    BY <1>7 DEF OffsetHolds, OffsetImage
  <2>6. p = Wrap(v)
    BY <2>2
  <2>7. m \in Int /\ p - s.slope * x2 = p + (-m)
    BY <1>2, <1>3, <2>4, SMT
  <2> HIDE DEF v, i, m
  <2>8. Wrap(p + (-m)) = Wrap(v + (-m))
    BY <2>3, <2>6, <2>7, WrapShift, SMT
  <2>9. /\ Later(i, -m) \in [lo : Int, hi : Int] /\ v + (-m) \in Int
        /\ In(v + (-m), Later(i, -m))
    BY <2>3, <2>7, SMT DEF In, Later
  <2>10. In(Wrap(v + (-m)), s.offset)
    BY <2>5, <2>9, <1>5
  <2> QED BY <2>7, <2>8, <2>10
<1>8. CASE s.offset # WholeTimer /\ w.kind # "set_x"
  <2>1. /\ Adds(w) /\ w.kind # "writes_x" /\ (w.kind = "x_dec" => taken)
        /\ s.slope = row.slope
    BY <1>8 DEF OffsetHolds, OffsetKnown
  <2>2. Bounded(w) /\ w.kind # "anchor" /\ w.kind \notin Deadlines
    BY <2>1 DEF Adds
  <2>3. PICK carry \in Carries(w) :
          p = Wrap(PhaseFrom(w) + w.cycles - Added(w) - carry)
    BY <2>2 DEF PhasesAfter
  <2>4. carry = 0 /\ PhaseFrom(w) = phase
    BY <2>2 DEF Carries, PhaseFrom, Deadlines
  <2> DEFINE d == w.cycles - Added(w)
         c == IF w.kind = "x_dec" /\ taken THEN row.slope ELSE 0
         o == Offset(row)
         i == OffsetImage(w, row, s, taken)
  <2>5. /\ Added(w) \in Int /\ AddedIn(w, row).lo \in Int
        /\ AddedIn(w, row).hi \in Int /\ In(Added(w) + carry, AddedIn(w, row))
    BY AddedInside
  <2>6. d \in Int /\ c \in Int
    BY <1>2, <2>5, SMT
  <2>7. o \in Timer /\ o \in Int /\ In(o, row.offset)
    <3>1. phase - row.slope * x \in Int
      BY <1>2, <1>3, SMT
    <3>2. o \in Timer
      BY <3>1, WrapRange DEF Offset
    <3> QED BY <3>2, WidthAssumption, SMT DEF Within, Timer
  <2>8. s.slope * x2 = row.slope * x - c
    <3>1. CASE w.kind = "x_dec"
      <4>1. x2 = x - 1
        <5>1. x2 = Less1(x)
          BY <3>1 DEF XsAfter
        <5>2. x # 0
          BY <3>1, <2>1 DEF Goes
        <5> QED BY <5>1, <5>2 DEF Less1
      <4>2. row.slope * (x - 1) = row.slope * x - row.slope
        BY <1>2, TimesOneLess
      <4>3. c = row.slope
        BY <3>1, <2>1
      <4>4. s.slope * x2 = row.slope * x - row.slope
        BY <4>1, <4>2, <2>1
      <4> QED BY <4>3, <4>4
    <3>2. CASE w.kind # "x_dec"
      <4>1. x2 = x /\ c = 0
        BY <3>2, <2>1, <1>8 DEF XsAfter
      <4> QED BY <4>1, <2>1, <1>3, SMT
    <3> QED BY <3>1, <3>2
  <2>9. p = Wrap(phase + d)
    <3>1. PhaseFrom(w) + w.cycles - Added(w) - carry = phase + d
      BY <2>4, <2>5, <1>2, SMT
    <3> QED BY <2>3, <3>1
  <2>10. i = [lo |-> row.offset.lo + (w.cycles - AddedIn(w, row).hi) + c,
              hi |-> row.offset.hi + (w.cycles - AddedIn(w, row).lo) + c]
    BY <1>8 DEF OffsetImage, Later, Plus, Delta
  <2>11. Inside(i, s.offset)
    BY <1>8 DEF OffsetHolds
  <2>12. i \in [lo : Int, hi : Int] /\ o + (d + c) \in Int /\ In(o + (d + c), i)
    <3> HIDE DEF c, o, i
    <3> QED BY <1>2, <2>4, <2>5, <2>6, <2>7, <2>10, SMT DEF In
  <2>13. In(Wrap(o + (d + c)), s.offset)
    BY <1>5, <2>11, <2>12
  <2> DEFINE m == row.slope * x
  <2>14. m \in Int /\ s.slope * x2 = m - c
    BY <1>3, <2>8
  <2>15. o = Wrap(phase - m)
    BY DEF Offset
  <2> HIDE DEF d, c, o, i, m
  <2>16. Wrap(o + (d + c)) = Wrap(phase - m + (d + c))
    BY <1>2, <2>6, <2>14, <2>15, WrapShift, SMT
  <2>17. Wrap(p + (-(m - c))) = Wrap(phase + d + (-(m - c)))
    BY <1>2, <2>6, <2>9, <2>14, WrapShift, SMT
  <2>18. p - s.slope * x2 = p + (-(m - c))
    BY <1>2, <2>6, <2>14, SMT
  <2>19. phase - m + (d + c) = phase + d + (-(m - c))
    BY <1>2, <2>6, <2>14, SMT
  <2> QED BY <2>13, <2>16, <2>17, <2>18, <2>19
<1> QED BY <1>6, <1>7, <1>8

\* The period written or kept is in the row's bounds on it.
LEMMA PeriodStep ==
  ASSUME TypeOK, Within, NEW w \in Words, NEW s \in Row,
         NEW p2 \in PeriodsAfter(w), PeriodHolds(w, row, s)
  PROVE  p2 \in Data /\ In(p2, s.period)
<1>1. row \in Row /\ w \in Word /\ w.imm \in Data
  BY RowTypes, KernelAssumption, SMT DEF Word
<1>2. /\ row.period \in [lo : Int, hi : Int] /\ s.period \in [lo : Int, hi : Int]
      /\ period \in Data /\ In(period, row.period) /\ Loaded.value \in Int
  BY <1>1, WidthAssumption, SMT DEF Row, Data, TypeOK, Within
<1>3. CASE w.kind = "set_p"
  <2>1. p2 = w.imm /\ Inside(Point(w.imm), s.period)
    BY <1>3 DEF PeriodsAfter, PeriodHolds, PeriodImage
  <2> QED BY <2>1, <1>1, <1>2, WidthAssumption, SMT DEF In, Inside, Point, Data
<1>4. CASE w.kind = "writes_p"
  <2>1. p2 \in Data
    BY <1>4 DEF PeriodsAfter
  <2>2. CASE ~Loaded.valid
    <3>1. s.period = WholeData
      BY <1>4, <2>2 DEF PeriodHolds
    <3> QED BY <2>1, <3>1, WidthAssumption, SMT DEF In, WholeData, Data
  <2>3. CASE Loaded.valid
    <3>1. IF Loaded.floor THEN p2 >= Loaded.value ELSE p2 = Loaded.value
      BY <1>4, <2>3 DEF PeriodsAfter
    <3>2. Inside([lo |-> Loaded.value,
                  hi |-> IF Loaded.floor THEN DataMax ELSE Loaded.value], s.period)
      BY <1>4, <2>3 DEF PeriodHolds, PeriodImage
    <3>3. CASE Loaded.floor
      BY <2>1, <3>1, <3>2, <3>3, <1>2, WidthAssumption, SMT DEF In, Inside, Data
    <3>4. CASE ~Loaded.floor
      BY <2>1, <3>1, <3>2, <3>4, <1>2, WidthAssumption, SMT DEF In, Inside, Data
    <3> QED BY <3>3, <3>4
  <2> QED BY <2>2, <2>3
<1>5. CASE w.kind \notin {"set_p", "writes_p"}
  <2>1. p2 = period /\ Inside(row.period, s.period)
    BY <1>5 DEF PeriodsAfter, PeriodHolds, PeriodImage
  <2> QED BY <2>1, <1>2, WidthAssumption, SMT DEF In, Inside, Data
<1> QED BY <1>3, <1>4, <1>5

\* A register counted down on the way its value picks is in its counter's bounds.
LEMMA CountedInside ==
  ASSUME NEW i \in [lo : Data, hi : Data], NEW v \in Data, In(v, i),
         NEW taken \in BOOLEAN, taken <=> v # 0
  PROVE  /\ Less1(v) \in Data
         /\ taken => In(Less1(v), [lo |-> Released(i.lo - 1), hi |-> Less1(i.hi)])
         /\ ~taken => In(Less1(v), Point(DataMax))
<1>1. CASE v = 0
  BY <1>1, WidthAssumption, SMT DEF Data, Less1, In, Point
<1>2. CASE v # 0
  BY <1>2, WidthAssumption, SMT DEF Data, Less1, In, Released, Larger
<1> QED BY <1>1, <1>2

\* x is in the row's bounds on it, on the way it picks.
LEMMA XStep ==
  ASSUME TypeOK, Within, NEW w \in Words, NEW s \in Row, NEW taken \in BOOLEAN,
         Goes(w, taken), NEW x2 \in XsAfter(w), XHolds(w, row, s, taken)
  PROVE  x2 \in Data /\ In(x2, s.x)
<1>1. row \in Row /\ w \in Word /\ w.imm \in Data /\ x \in Data /\ y \in Data
  BY RowTypes, KernelAssumption, SMT DEF Word, TypeOK
<1>2. /\ row.x \in [lo : Data, hi : Data] /\ row.y \in [lo : Data, hi : Data]
      /\ s.x \in [lo : Data, hi : Data] /\ In(x, row.x) /\ In(y, row.y)
  BY <1>1 DEF Row, Within
<1>3. CASE w.kind = "set_x"
  <2>1. x2 = w.imm /\ Inside(Point(w.imm), s.x)
    BY <1>3 DEF XsAfter, XHolds, Counter
  <2> QED BY <2>1, <1>1, <1>2, WidthAssumption, SMT DEF In, Inside, Point, Data
<1>4. CASE w.kind = "writes_x"
  <2>1. x2 \in Data /\ s.x = WholeData
    BY <1>4 DEF XsAfter, XHolds
  <2> QED BY <2>1, WidthAssumption, SMT DEF In, WholeData, Data
<1>5. CASE w.kind = "x_dec"
  <2>1. x2 = Less1(x) /\ (taken <=> x # 0)
    BY <1>5 DEF XsAfter, Goes
  <2>2. /\ Less1(x) \in Data
        /\ taken => In(Less1(x), [lo |-> Released(row.x.lo - 1), hi |-> Less1(row.x.hi)])
        /\ ~taken => In(Less1(x), Point(DataMax))
    BY <2>1, <1>1, <1>2, CountedInside
  <2>3. CASE taken
    <3>1. Inside([lo |-> Released(row.x.lo - 1), hi |-> Less1(row.x.hi)], s.x)
      BY <1>5, <2>3 DEF XHolds, Counter
    <3> QED BY <2>1, <2>2, <2>3, <3>1, <1>2, WidthAssumption, SMT
            DEF In, Inside, Less1, Released, Larger, Data
  <2>4. CASE ~taken
    <3>1. Inside(Point(DataMax), s.x)
      BY <1>5, <2>4 DEF XHolds, Counter
    <3> QED BY <2>1, <2>2, <2>4, <3>1, <1>2, WidthAssumption, SMT
            DEF In, Inside, Point, Data
  <2> QED BY <2>3, <2>4
<1>6. CASE w.kind = "x_ne_y" /\ ~taken
  <2>1. x2 = x /\ x = y
    BY <1>6 DEF XsAfter, Goes
  <2>2. Inside(Common(row), s.x)
    BY <1>6 DEF XHolds, Counter
  <2> QED BY <2>1, <2>2, <1>1, <1>2, WidthAssumption, SMT
          DEF In, Inside, Common, Larger, Smaller, Data
<1>7. CASE w.kind \notin {"set_x", "writes_x", "x_dec"} /\ ~(w.kind = "x_ne_y" /\ ~taken)
  <2>1. x2 = x /\ Inside(row.x, s.x)
    BY <1>7 DEF XsAfter, XHolds, Counter
  <2> QED BY <2>1, <1>1, <1>2, WidthAssumption, SMT DEF In, Inside, Data
<1> QED BY <1>3, <1>4, <1>5, <1>6, <1>7

\* And y.
LEMMA YStep ==
  ASSUME TypeOK, Within, NEW w \in Words, NEW s \in Row, NEW taken \in BOOLEAN,
         Goes(w, taken), NEW y2 \in YsAfter(w), YHolds(w, row, s, taken)
  PROVE  y2 \in Data /\ In(y2, s.y)
<1>1. row \in Row /\ w \in Word /\ w.imm \in Data /\ x \in Data /\ y \in Data
  BY RowTypes, KernelAssumption, SMT DEF Word, TypeOK
<1>2. /\ row.x \in [lo : Data, hi : Data] /\ row.y \in [lo : Data, hi : Data]
      /\ s.y \in [lo : Data, hi : Data] /\ In(x, row.x) /\ In(y, row.y)
  BY <1>1 DEF Row, Within
<1>3. CASE w.kind = "set_y"
  <2>1. y2 = w.imm /\ Inside(Point(w.imm), s.y)
    BY <1>3 DEF YsAfter, YHolds, Counter
  <2> QED BY <2>1, <1>1, <1>2, WidthAssumption, SMT DEF In, Inside, Point, Data
<1>4. CASE w.kind = "writes_y"
  <2>1. y2 \in Data /\ s.y = WholeData
    BY <1>4 DEF YsAfter, YHolds
  <2> QED BY <2>1, WidthAssumption, SMT DEF In, WholeData, Data
<1>5. CASE w.kind = "y_dec"
  <2>1. y2 = Less1(y) /\ (taken <=> y # 0)
    BY <1>5 DEF YsAfter, Goes
  <2>2. /\ Less1(y) \in Data
        /\ taken => In(Less1(y), [lo |-> Released(row.y.lo - 1), hi |-> Less1(row.y.hi)])
        /\ ~taken => In(Less1(y), Point(DataMax))
    BY <2>1, <1>1, <1>2, CountedInside
  <2>3. CASE taken
    <3>1. Inside([lo |-> Released(row.y.lo - 1), hi |-> Less1(row.y.hi)], s.y)
      BY <1>5, <2>3 DEF YHolds, Counter
    <3> QED BY <2>1, <2>2, <2>3, <3>1, <1>2, WidthAssumption, SMT
            DEF In, Inside, Less1, Released, Larger, Data
  <2>4. CASE ~taken
    <3>1. Inside(Point(DataMax), s.y)
      BY <1>5, <2>4 DEF YHolds, Counter
    <3> QED BY <2>1, <2>2, <2>4, <3>1, <1>2, WidthAssumption, SMT
            DEF In, Inside, Point, Data
  <2> QED BY <2>3, <2>4
<1>6. CASE w.kind = "x_ne_y" /\ ~taken
  <2>1. y2 = y /\ x = y
    BY <1>6 DEF YsAfter, Goes
  <2>2. Inside(Common(row), s.y)
    BY <1>6 DEF YHolds, Counter
  <2> QED BY <2>1, <2>2, <1>1, <1>2, WidthAssumption, SMT
          DEF In, Inside, Common, Larger, Smaller, Data
<1>7. CASE w.kind \notin {"set_y", "writes_y", "y_dec"} /\ ~(w.kind = "x_ne_y" /\ ~taken)
  <2>1. y2 = y /\ Inside(row.y, s.y)
    BY <1>7 DEF YsAfter, YHolds, Counter
  <2> QED BY <2>1, <1>1, <1>2, WidthAssumption, SMT DEF In, Inside, Data
<1> QED BY <1>3, <1>4, <1>5, <1>6, <1>7

\* The cycles since the arm are in the row's bounds on them, and known.
LEMMA ArmStep ==
  ASSUME TypeOK, Within, NEW w \in Words, NEW s \in Row, Captured(w),
         ArmHolds(w, row, s)
  PROVE  /\ arm' \in 0 .. 2 * Half - 1 /\ arm_known' \in BOOLEAN
         /\ ArmKnown(s) => arm_known' /\ In(arm', s.arm)
<1>1. row \in Row /\ w \in Word /\ w.cycles \in 1 .. Half - 1
  BY RowTypes, CyclesShort
<1>2. arm \in Nat /\ phase \in Int /\ w.cycles \in Nat
  BY <1>1, WidthAssumption, SMT DEF TypeOK, Timer
<1>3. /\ row.arm.lo \in Nat /\ row.arm.hi \in Nat /\ s.arm.lo \in Nat /\ s.arm.hi \in Nat
      /\ row.phase.lo \in Int /\ row.phase.hi \in Int
  BY <1>1, WidthAssumption, SMT DEF Row, Timer
<1>4. ArmAfter(w) \in Nat
  <2>1. Released(phase) - phase \in Nat
    BY <1>2, SMT DEF Released, Larger
  <2> QED BY <1>2, <2>1, SMT DEF ArmAfter
<1>5. arm' = ArmAfter(w) % (2 * Half)
  BY DEF Captured
<1>6. arm' \in 0 .. 2 * Half - 1
  BY <1>4, <1>5, WidthAssumption, SMT
<1>7. arm_known' \in BOOLEAN
  BY DEF Captured
<1>8. ASSUME ArmKnown(s)
      PROVE  arm_known' /\ In(arm', s.arm)
  <2>1. ArmImageKnown(w, row) /\ Inside(ArmImage(w, row), s.arm)
    BY <1>8 DEF ArmHolds, ArmKnown
  <2>2. CASE w.kind = "capture_arm"
    <3>1. ArmAfter(w) = w.cycles /\ ArmImage(w, row) = Point(w.cycles)
      BY <2>2 DEF ArmAfter, ArmImage, Deadlines
    <3>2. arm' = w.cycles
      <4>1. arm' = w.cycles % (2 * Half)
        BY <3>1, <1>5
      <4> QED BY <4>1, <1>1, ArmCounts
    <3>3. arm_known'
      BY <2>2 DEF Captured
    <3> QED BY <2>1, <3>1, <3>2, <3>3, <1>2, <1>3, SMT DEF In, Inside, Point
  <2>3. CASE w.kind # "capture_arm"
    <3>1. /\ ArmKnown(row) /\ ~OtherWait(w, row.awaiting)
          /\ ArmImage(w, row).hi < ArmLimit
      BY <2>1, <2>3 DEF ArmImageKnown
    <3>2. arm_known /\ In(arm, row.arm) /\ In(phase, row.phase)
      BY <3>1 DEF Within
    <3>3. ~OtherWait(w, awaiting)
      BY <3>1 DEF OtherWait, Captures, Within
    <3>4. /\ In(ArmAfter(w), ArmImage(w, row))
          /\ ArmImage(w, row).lo \in Int /\ ArmImage(w, row).hi \in Int
      <4>1. CASE w.kind \in Deadlines
        <5>1. ArmAfter(w) = arm + Released(phase) - phase + w.cycles
          BY <4>1, <2>3 DEF ArmAfter
        <5>2. ArmImage(w, row) =
                [lo |-> row.arm.lo + Released(-row.phase.hi) + w.cycles,
                 hi |-> row.arm.hi + Released(-row.phase.lo) + w.cycles]
          BY <4>1, <2>3 DEF ArmImage, Later, Plus, Stall
        <5> QED BY <5>1, <5>2, <3>2, <1>2, <1>3, SMT DEF In, Released, Larger
      <4>2. CASE w.kind \notin Deadlines
        <5>1. ArmAfter(w) = arm + w.cycles
          BY <4>2, <2>3 DEF ArmAfter
        <5>2. ArmImage(w, row) =
                [lo |-> row.arm.lo + w.cycles, hi |-> row.arm.hi + w.cycles]
          BY <4>2, <2>3 DEF ArmImage, Later
        <5> QED BY <5>1, <5>2, <3>2, <1>2, <1>3, SMT DEF In
      <4> QED BY <4>1, <4>2
    <3>5. ArmAfter(w) < ArmLimit
      BY <3>1, <3>4, <1>4, WidthAssumption, SMT DEF In, ArmLimit
    <3>6. arm_known'
      BY <3>2, <3>3, <3>5 DEF Captured
    <3>7. arm' = ArmAfter(w)
      BY <3>5, <1>4, <1>5, WidthAssumption, SMT DEF ArmLimit
    <3> QED BY <2>1, <3>4, <3>6, <3>7, <1>3, <1>4, SMT DEF In, Inside
  <2> QED BY <2>2, <2>3
<1> QED BY <1>6, <1>7, <1>8

\* A row that claims the captured edge, or a wait for it, is right.
LEMMA EdgeStep ==
  ASSUME TypeOK, Within, NEW w \in Words, NEW s \in Row, Captured(w),
         CapturedHolds(w, row, s), AwaitingHolds(w, row, s)
  PROVE  /\ captured' \in BOOLEAN /\ awaiting' \in BOOLEAN
         /\ s.captured => captured'
         /\ s.awaiting => awaiting'
BY DEF Captured, CapturedHolds, CapturedImage, AwaitingHolds, AwaitingImage, Within,
       Captures

-----------------------------------------------------------------------------
(***************************************************************************)
(* Steps.                                                                  *)
(***************************************************************************)

Safe == TypeOK /\ Within /\ NeverMissed

\* A word whose way out the kernel accepted leaves the core in the row it goes to.
LEMMA ExecutesHeld ==
  ASSUME Safe, NEW w \in Words, NEW s \in Rows, NEW taken \in BOOLEAN,
         w.kind # "halt", Goes(w, taken), InTime(w, row), Holds(w, row, s, taken),
         Executes(w), row' = s
  PROVE  Safe'
<1>1. TypeOK /\ Within /\ NeverMissed /\ s \in Row
  BY KernelAssumption DEF Safe
<1>2. /\ phase' \in PhasesAfter(w) /\ period' \in PeriodsAfter(w)
      /\ x' \in XsAfter(w) /\ y' \in YsAfter(w) /\ Captured(w)
      /\ missed' = (missed \/ (w.kind \in Deadlines /\ phase > 0))
  BY DEF Executes
<1>3. /\ PhaseHolds(w, row, s, taken) /\ OffsetHolds(w, row, s, taken)
      /\ PeriodHolds(w, row, s) /\ XHolds(w, row, s, taken) /\ YHolds(w, row, s, taken)
      /\ ArmHolds(w, row, s) /\ CapturedHolds(w, row, s) /\ AwaitingHolds(w, row, s)
  BY DEF Holds
<1>4. w.kind = "x_dec" /\ ~taken => x = 0
  BY DEF Goes
<1>5. phase' \in Timer /\ In(phase', s.phase)
  BY <1>1, <1>2, <1>3, <1>4, PhaseStep
<1>6. period' \in Data /\ In(period', s.period)
  BY <1>1, <1>2, <1>3, PeriodStep
<1>7. x' \in Data /\ In(x', s.x)
  BY <1>1, <1>2, <1>3, XStep
<1>8. y' \in Data /\ In(y', s.y)
  BY <1>1, <1>2, <1>3, YStep
<1>9. In(Wrap(phase' - s.slope * x'), s.offset)
  BY <1>1, <1>2, <1>3, <1>5, <1>7, OffsetStep
<1>10. /\ arm' \in 0 .. 2 * Half - 1 /\ arm_known' \in BOOLEAN
       /\ ArmKnown(s) => arm_known' /\ In(arm', s.arm)
  BY <1>1, <1>2, <1>3, ArmStep
<1>11. /\ captured' \in BOOLEAN /\ awaiting' \in BOOLEAN
       /\ (s.captured => captured') /\ (s.awaiting => awaiting')
  BY <1>1, <1>2, <1>3, EdgeStep
<1>12. ~(w.kind \in Deadlines /\ phase > 0)
  <2>1. Asks(w, row)
    BY <1>1, HeldAsks
  <2>2. w.kind \in Deadlines => row.phase.hi <= 0
    BY <2>1 DEF InTime
  <2>3. phase <= row.phase.hi /\ phase \in Int /\ row.phase.hi \in Int
    BY <1>1, RowTypes, WidthAssumption, SMT DEF Within, In, TypeOK, Row, Timer
  <2> QED BY <2>2, <2>3, SMT
<1>13. missed' = FALSE
  BY <1>1, <1>2, <1>12 DEF NeverMissed, TypeOK
<1>14. TypeOK'
  BY <1>5, <1>6, <1>7, <1>8, <1>10, <1>11, <1>13 DEF TypeOK
<1>15. Within'
  BY <1>5, <1>6, <1>7, <1>8, <1>9, <1>10, <1>11 DEF Within, Offset
<1> QED BY <1>13, <1>14, <1>15 DEF Safe, NeverMissed

\* A core that starts, at pc 0 with any registers, is in the open row.
LEMMA OpenHolds ==
  ASSUME phase \in Timer, period \in Data, x \in Data, y \in Data, row = OpenRow
  PROVE  Within
<1>1. phase \in Int /\ 0 * x = 0 /\ phase - 0 * x = phase
  BY WidthAssumption, SMT DEF Timer, Data
<1>2. Offset(row) = phase
  BY <1>1, WrapSame DEF Offset, OpenRow
<1>3. In(phase, WholeTimer)
  BY WidthAssumption, SMT DEF In, WholeTimer, Timer
<1>4. In(period, WholeData) /\ In(x, WholeData) /\ In(y, WholeData)
  BY WidthAssumption, SMT DEF In, WholeData, Data
<1> QED BY <1>2, <1>3, <1>4 DEF Within, OpenRow, ArmKnown

\* A core is inside its row at reset,
LEMMA InitSafe == Init => Safe
<1> SUFFICES ASSUME Init PROVE Safe
  OBVIOUS
<1>1. /\ phase \in Timer /\ arm = 0 /\ arm_known = FALSE /\ captured = FALSE
      /\ awaiting = FALSE /\ row = OpenRow /\ missed = FALSE
  BY DEF Init, Started
<1>2. period \in Data /\ x \in Data /\ y \in Data
  BY KernelAssumption DEF Init
<1>3. 0 \in 0 .. 2 * Half - 1
  BY WidthAssumption, SMT
<1>4. TypeOK
  BY <1>1, <1>2, <1>3 DEF TypeOK
<1>5. Within
  BY <1>1, <1>2, OpenHolds
<1> QED BY <1>1, <1>4, <1>5 DEF Safe, NeverMissed

\* The rows a step may go to are rows the kernel accepted.
LEMMA RowsAccepted ==
  ASSUME NEW w \in Words, NEW r \in Rows \cup {OpenRow}
  PROVE  /\ RowsAfter[w][r] = {s \in Rows : Accepts(w, r, s, OpenRow)}
         /\ RowsTaken[w][r] = {s \in Rows : Accepts(w, r, OpenRow, s)}
BY DEF RowsAfter, RowsTaken

\* after a word that goes on,
LEMMA StraightSafe == Safe /\ Straight => Safe'
<1> SUFFICES ASSUME Safe, Straight PROVE Safe'
  OBVIOUS
<1>1. PICK w \in Words, s \in Rows :
        /\ w.kind \notin Jumps \cup {"halt"} /\ Accepts(w, row, s, OpenRow)
        /\ Executes(w) /\ row' = s
  <2>1. PICK w \in Words :
          w.kind \notin Jumps \cup {"halt"} /\ row' \in RowsAfter[w][row] /\ Executes(w)
    BY DEF Straight
  <2>2. row \in Rows \cup {OpenRow}
    BY DEF Safe, TypeOK
  <2>3. row' \in Rows /\ Accepts(w, row, row', OpenRow)
    BY <2>1, <2>2, RowsAccepted
  <2> QED BY <2>1, <2>3
<1>2. Asks(w, row)
  BY <1>1, HeldAsks DEF Safe
<1>3. Holds(w, row, s, FALSE) /\ InTime(w, row)
  BY <1>1, <1>2 DEF Accepts, Falls
<1>4. Goes(w, FALSE)
  BY <1>1 DEF Goes, Jumps
<1> QED BY <1>1, <1>3, <1>4, ExecutesHeld

\* after a jump that falls through,
LEMMA FallSafe == Safe /\ Fall => Safe'
<1> SUFFICES ASSUME Safe, Fall PROVE Safe'
  OBVIOUS
<1>1. PICK w \in Words, s \in Rows :
        /\ w.kind \in Jumps /\ CoreFalls(w) /\ Accepts(w, row, s, OpenRow)
        /\ Executes(w) /\ row' = s
  <2>1. PICK w \in Words :
          w.kind \in Jumps /\ CoreFalls(w) /\ row' \in RowsAfter[w][row] /\ Executes(w)
    BY DEF Fall
  <2>2. row \in Rows \cup {OpenRow}
    BY DEF Safe, TypeOK
  <2>3. row' \in Rows /\ Accepts(w, row, row', OpenRow)
    BY <2>1, <2>2, RowsAccepted
  <2> QED BY <2>1, <2>3
<1>2. w.kind # "halt" /\ w.kind \notin Deadlines /\ w.kind # "always"
  BY <1>1 DEF Jumps, Deadlines, CoreFalls
<1>3. Asks(w, row)
  BY <1>2, HeldAsks DEF Safe
<1>4. Goes(w, FALSE)
  BY <1>1 DEF Goes, CoreFalls, CoreTakes
<1>5. /\ In(x, row.x) /\ In(y, row.y) /\ x \in Int /\ y \in Int
      /\ row.x.lo \in Nat /\ row.x.hi \in Nat /\ row.y.lo \in Nat /\ row.y.hi \in Nat
  BY RowTypes, WidthAssumption, SMT DEF Safe, Within, TypeOK, Row, Data
<1>6. MayFall(w, row)
  <2>1. CASE w.kind = "x_dec"
    BY <2>1, <1>4, <1>5, SMT DEF MayFall, Goes, In
  <2>2. CASE w.kind = "y_dec"
    BY <2>2, <1>4, <1>5, SMT DEF MayFall, Goes, In
  <2>3. CASE w.kind = "x_ne_y"
    BY <2>3, <1>4, <1>5, SMT DEF MayFall, Goes, In
  <2>4. CASE w.kind \notin {"x_dec", "y_dec", "x_ne_y"}
    BY <2>4, <1>2 DEF MayFall
  <2> QED BY <2>1, <2>2, <2>3, <2>4
<1>7. Holds(w, row, s, FALSE) /\ InTime(w, row)
  BY <1>1, <1>3, <1>6 DEF Accepts, Falls
<1> QED BY <1>1, <1>2, <1>4, <1>7, ExecutesHeld

\* after one that is taken,
LEMMA TakeSafe == Safe /\ Take => Safe'
<1> SUFFICES ASSUME Safe, Take PROVE Safe'
  OBVIOUS
<1>1. PICK w \in Words, s \in Rows :
        /\ w.kind \in Jumps /\ CoreTakes(w) /\ Accepts(w, row, OpenRow, s)
        /\ Executes(w) /\ row' = s
  <2>1. PICK w \in Words :
          w.kind \in Jumps /\ CoreTakes(w) /\ row' \in RowsTaken[w][row] /\ Executes(w)
    BY DEF Take
  <2>2. row \in Rows \cup {OpenRow}
    BY DEF Safe, TypeOK
  <2>3. row' \in Rows /\ Accepts(w, row, OpenRow, row')
    BY <2>1, <2>2, RowsAccepted
  <2> QED BY <2>1, <2>3
<1>2. w.kind # "halt" /\ w.kind \notin Deadlines
  BY <1>1 DEF Jumps, Deadlines
<1>3. Asks(w, row)
  BY <1>2, HeldAsks DEF Safe
<1>4. Goes(w, TRUE)
  BY <1>1 DEF Goes, CoreTakes
<1>5. /\ In(x, row.x) /\ In(y, row.y) /\ x \in Int /\ y \in Int /\ x >= 0 /\ y >= 0
      /\ row.x.lo \in Nat /\ row.x.hi \in Nat /\ row.y.lo \in Nat /\ row.y.hi \in Nat
  BY RowTypes, WidthAssumption, SMT DEF Safe, Within, TypeOK, Row, Data
<1>6. MayTake(w, row)
  <2>1. CASE w.kind = "x_dec"
    BY <2>1, <1>4, <1>5, SMT DEF MayTake, Goes, In
  <2>2. CASE w.kind = "y_dec"
    BY <2>2, <1>4, <1>5, SMT DEF MayTake, Goes, In
  <2>3. CASE w.kind = "x_ne_y"
    BY <2>3, <1>4, <1>5, SMT DEF MayTake, Goes, In
  <2>4. CASE w.kind \notin {"x_dec", "y_dec", "x_ne_y"}
    BY <2>4 DEF MayTake
  <2> QED BY <2>1, <2>2, <2>3, <2>4
<1>7. Holds(w, row, s, TRUE) /\ InTime(w, row)
  BY <1>1, <1>3, <1>6 DEF Accepts, Takes
<1> QED BY <1>1, <1>2, <1>4, <1>7, ExecutesHeld

\* and after a restart.
LEMMA RestartSafe == Safe /\ Restart => Safe'
<1> SUFFICES ASSUME Safe, Restart PROVE Safe'
  OBVIOUS
<1>1. /\ phase' \in Timer /\ arm' = 0 /\ arm_known' = FALSE /\ captured' = FALSE
      /\ awaiting' = FALSE /\ row' = OpenRow
      /\ period' = period /\ x' = x /\ y' = y /\ missed' = missed
  BY DEF Restart
<1>2. period' \in Data /\ x' \in Data /\ y' \in Data
  BY <1>1 DEF Safe, TypeOK
<1>3. 0 \in 0 .. 2 * Half - 1
  BY WidthAssumption, SMT
<1>4. TypeOK'
  BY <1>1, <1>2, <1>3 DEF Safe, TypeOK
<1>5. (phase \in Timer /\ period \in Data /\ x \in Data /\ y \in Data /\ row = OpenRow
        => Within)'
  BY OpenHolds, PTL
<1>6. Within'
  BY <1>1, <1>2, <1>5
<1> QED BY <1>1, <1>4, <1>6 DEF Safe, NeverMissed

\* The inductive invariant: the core is in the row of the word it enters, and so
\* has missed no deadline.
THEOREM KernelInvariant == Spec => []Safe
<1>1. Safe /\ [Next]_vars => Safe'
  <2> SUFFICES ASSUME Safe, [Next]_vars PROVE Safe'
    OBVIOUS
  <2>1. CASE Next
    BY <2>1, StraightSafe, FallSafe, TakeSafe, RestartSafe DEF Next
  <2>2. CASE UNCHANGED vars
    BY <2>2 DEF Safe, TypeOK, Within, NeverMissed, Offset, vars, coreVars
  <2> QED BY <2>1, <2>2
<1> QED BY InitSafe, <1>1, PTL DEF Spec

\* Every register keeps to its width and every row is one of the certificate's
\* (kernel_step.ml: step).
THEOREM KernelTypes == Spec => []TypeOK
BY KernelInvariant, PTL DEF Safe

\* What accepts asks is enough: a core on accepted firmware is inside the row of
\* the word it enters (kernel_accepts.ml: accepts, within).
THEOREM KernelSound == Spec => []Within
BY KernelInvariant, PTL DEF Safe

\* No deadline wait of accepted firmware is entered late (engine.ml:
\* missed_deadline).
THEOREM KernelInTime == Spec => []NeverMissed
BY KernelInvariant, PTL DEF Safe

\* An executed word keeps a captured edge between its arm and now: a known count
\* is past the arm's own cycle, so an edge captured later is past it too.
EdgeInv == TypeOK /\ EdgeAfterArm /\ (arm_known => arm >= 1)

\* The captured edge stays after its arm through every word.
LEMMA ExecutesKeepsEdge ==
  ASSUME EdgeInv, NEW w \in Words, Executes(w)
  PROVE  EdgeAfterArm' /\ (arm_known' => arm' >= 1)
<1>1. w.cycles \in 1 .. Half - 1
  BY CyclesShort
<1>2. /\ arm \in Nat /\ phase \in Int /\ w.cycles \in Nat /\ w.cycles >= 1
      /\ Half \in Nat
  BY <1>1, WidthAssumption, SMT DEF EdgeInv, TypeOK, Timer
<1>3. Captured(w)
  BY DEF Executes
<1>4. awaiting' => ~captured'
  BY <1>3 DEF Captured, Captures, EdgeAfterArm, EdgeInv
<1>5. CASE w.kind = "capture_arm"
  <2>1. arm' = w.cycles % (2 * Half) /\ captured' = FALSE
    BY <1>3, <1>5 DEF Captured, ArmAfter, Deadlines
  <2>2. arm' = w.cycles
    BY <2>1, <1>1, ArmCounts
  <2> QED BY <2>1, <2>2, <1>2, <1>4 DEF EdgeAfterArm
<1>6. CASE w.kind # "capture_arm" /\ arm_known'
  <2>1. arm_known /\ ArmAfter(w) < ArmLimit /\ (captured' => captured \/ Captures(w, awaiting))
    BY <1>3, <1>6 DEF Captured
  <2>2. Released(phase) - phase \in Nat
    BY <1>2, SMT DEF Released, Larger
  <2>3. ArmAfter(w) \in Nat /\ ArmAfter(w) >= arm + 1
    <3>1. ArmAfter(w) = arm + w.cycles \/ ArmAfter(w) = arm + Released(phase) - phase + w.cycles
      BY <1>6 DEF ArmAfter
    <3>2. Released(phase) \in Int
      BY <1>2, SMT DEF Released, Larger
    <3> QED BY <3>1, <3>2, <1>2, <2>2, SMT
  <2>4. ArmAfter(w) \in 1 .. Half - 1
    BY <2>1, <2>3, <1>2, SMT DEF ArmLimit
  <2>5. arm' = ArmAfter(w)
    <3>1. arm' = ArmAfter(w) % (2 * Half)
      BY <1>3 DEF Captured
    <3> QED BY <3>1, <2>4, ArmCounts
  <2>6. arm >= 1
    BY <2>1 DEF EdgeInv
  <2>7. arm' > 1 /\ arm' >= 1
    BY <2>3, <2>5, <2>6, <1>2, SMT
  <2> QED BY <2>7, <1>4 DEF EdgeAfterArm
<1>7. CASE ~arm_known'
  BY <1>4, <1>7 DEF EdgeAfterArm
<1> QED BY <1>5, <1>6, <1>7

\* A captured edge lies after its arm, and no wait is owed for one
\* (kernel_step.ml: next_arm, next_captured, next_awaiting).
THEOREM KernelEdges == Spec => []EdgeAfterArm
<1>1. Init => EdgeInv
  BY InitSafe DEF Safe, Init, Started, EdgeInv, EdgeAfterArm
<1>2. Safe /\ Safe' /\ EdgeInv /\ [Next]_vars => EdgeInv'
  <2> SUFFICES ASSUME Safe, Safe', EdgeInv, [Next]_vars PROVE EdgeInv'
    OBVIOUS
  <2>1. TypeOK'
    BY DEF Safe
  <2>2. CASE Straight \/ Fall \/ Take
    <3>1. PICK w \in Words : Executes(w)
      BY <2>2 DEF Straight, Fall, Take
    <3> QED BY <3>1, <2>1, ExecutesKeepsEdge DEF EdgeInv
  <2>3. CASE Restart
    BY <2>1, <2>3 DEF Restart, EdgeInv, EdgeAfterArm
  <2>4. CASE UNCHANGED vars
    BY <2>1, <2>4 DEF EdgeInv, EdgeAfterArm, vars, coreVars
  <2> QED BY <2>2, <2>3, <2>4 DEF Next
<1>3. EdgeInv => EdgeAfterArm
  BY DEF EdgeInv
<1> QED BY <1>1, <1>2, <1>3, KernelInvariant, PTL DEF Spec

-----------------------------------------------------------------------------
(***************************************************************************)
(* A core on a certified program is one of the kernel's.                   *)
(***************************************************************************)

\* A counter of a word under a row stays a counter.
LEMMA CounterInside ==
  ASSUME NEW w \in Word, NEW r \in Row, NEW i \in [lo : Data, hi : Data],
         NEW sets \in BOOLEAN, NEW dec \in BOOLEAN, NEW taken \in BOOLEAN
  PROVE  Inside(Counter(w, r, i, sets, dec, taken), WholeData)
<1> DEFINE c == Counter(w, r, i, sets, dec, taken)
<1>1. /\ i.lo \in Data /\ i.hi \in Data /\ w.imm \in Data
      /\ r.x.lo \in Data /\ r.x.hi \in Data /\ r.y.lo \in Data /\ r.y.hi \in Data
  BY DEF Word, Row
<1>2. DataMax \in Data /\ Released(i.lo - 1) \in Data /\ Less1(i.hi) \in Data
  BY <1>1, WidthAssumption, SMT DEF Released, Larger, Less1, Data
<1>3. /\ Larger(r.x.lo, r.y.lo) \in Data /\ Smaller(r.x.hi, r.y.hi) \in Data
  BY <1>1 DEF Larger, Smaller
<1>4. c.lo \in Data /\ c.hi \in Data
  BY <1>1, <1>2, <1>3 DEF Counter, Point, Common
<1> HIDE DEF c
<1>5. 0 <= c.lo /\ c.hi <= DataMax
  BY <1>4, WidthAssumption, SMT DEF Data
<1> QED BY <1>5 DEF Inside, WholeData, c

\* The open row takes a core out of any row.
LEMMA OpenTakes ==
  ASSUME NEW w \in Word, NEW r \in Row, NEW taken \in BOOLEAN
  PROVE  Holds(w, r, OpenRow, taken)
<1>1. /\ OpenRow.phase = WholeTimer /\ OpenRow.offset = WholeTimer
      /\ OpenRow.period = WholeData /\ OpenRow.x = WholeData /\ OpenRow.y = WholeData
      /\ OpenRow.arm = WholeArm /\ ~OpenRow.captured /\ ~OpenRow.awaiting
  BY DEF OpenRow
<1>2. r.x \in [lo : Data, hi : Data] /\ r.y \in [lo : Data, hi : Data]
  BY DEF Row
<1>3. Inside(PeriodImage(w, r), WholeData)
  <2>1. /\ w.imm \in Data /\ Loaded.value \in Data /\ DataMax \in Data
        /\ r.period.lo \in Data /\ r.period.hi \in Data
    BY WidthAssumption, SMT DEF Word, Row, Data
  <2>2. PeriodImage(w, r).lo \in Data /\ PeriodImage(w, r).hi \in Data
    BY <2>1 DEF PeriodImage, Point
  <2>3. \A v \in Data : 0 <= v /\ v <= DataMax
    BY WidthAssumption, SMT DEF Data
  <2> QED BY <2>2, <2>3 DEF Inside, WholeData
<1>4. PeriodHolds(w, r, OpenRow)
  BY <1>1, <1>3 DEF PeriodHolds
<1>5. /\ Inside(Counter(w, r, r.x, w.kind = "set_x", w.kind = "x_dec", taken), WholeData)
      /\ Inside(Counter(w, r, r.y, w.kind = "set_y", w.kind = "y_dec", taken), WholeData)
  <2>1. /\ (w.kind = "set_x") \in BOOLEAN /\ (w.kind = "x_dec") \in BOOLEAN
        /\ (w.kind = "set_y") \in BOOLEAN /\ (w.kind = "y_dec") \in BOOLEAN
    OBVIOUS
  <2> QED BY <2>1, <1>2, CounterInside
<1>6. XHolds(w, r, OpenRow, taken)
  BY <1>1, <1>5 DEF XHolds
<1>7. YHolds(w, r, OpenRow, taken)
  BY <1>1, <1>5 DEF YHolds
<1> QED
  BY <1>1, <1>4, <1>6, <1>7
  DEF Holds, PhaseHolds, OffsetHolds, ArmHolds, CapturedHolds, AwaitingHolds

\* Kernel's words and rows have the program's and its table's among them.
Covered == \A p \in Pcs : words[p].op \in Words /\ table[p] \in Rows

\* What the load check asks at a pc lets Kernel go where the program goes.
LEMMA WaysAccepted ==
  ASSUME Certified(words, config, table), Covered, NEW p \in Pcs
  PROVE  /\ words[p].op \in Words /\ table[p] \in Rows \cup {OpenRow}
         /\ table[Following(config, p)] \in RowsAfter[words[p].op][table[p]]
         /\ table[words[p].target] \in RowsTaken[words[p].op][table[p]]
<1> DEFINE w == words[p].op
           r == table[p]
           s == table[Following(config, p)]
           t == table[words[p].target]
<1>1. /\ words[p] \in Instruction /\ words[p].target \in Pcs /\ w \in Word
      /\ Following(config, p) \in Pcs
  <2>1. words[p] \in Instruction /\ config \in Config
    BY DEF Certified
  <2>2. config.wrap_bottom \in Pcs /\ (p + 1) % Size \in Pcs
    BY <2>1, LoadCheckAssumption, SMT DEF Config, Pcs
  <2> QED BY <2>1, <2>2 DEF Instruction, Following
<1>2. w \in Words /\ r \in Rows /\ s \in Rows /\ t \in Rows /\ r \in Row
  BY <1>1 DEF Covered, Certified
<1>3. Accepts(w, r, s, t)
  BY DEF Certified, Sound
<1>4. Holds(w, r, OpenRow, FALSE) /\ Holds(w, r, OpenRow, TRUE)
  BY <1>1, <1>2, OpenTakes
<1>5. Accepts(w, r, s, OpenRow) /\ Accepts(w, r, OpenRow, t)
  BY <1>3, <1>4 DEF Accepts
<1> HIDE DEF w, r, s, t
<1>6. s \in RowsAfter[w][r] /\ t \in RowsTaken[w][r]
  BY <1>2, <1>5, RowsAccepted
<1> QED BY <1>2, <1>6 DEF w, r, s, t

\* The core is at a pc, under the table's row there.
ProgramInv == pc \in Pcs /\ row = table[pc]

\* It starts at pc 0, whose row says nothing.
LEMMA ProgramStarts ==
  ASSUME Certified(words, config, table), ProgramInit
  PROVE  Init /\ ProgramInv
<1>1. 0 \in Pcs
  BY LoadCheckAssumption, SMT DEF Pcs
<1> QED BY <1>1 DEF ProgramInit, Init, Started, ProgramInv, Certified, Sound

\* A step of the program is one of the kernel's, to where the table's row is.
LEMMA ProgramSteps ==
  ASSUME Certified(words, config, table), Covered, ProgramInv, [ProgramNext]_programVars
  PROVE  [Next]_vars /\ ProgramInv'
<1>1. /\ Op \in Words /\ words[pc].target \in Pcs /\ Following(config, pc) \in Pcs
      /\ table[Following(config, pc)] \in RowsAfter[Op][row]
      /\ table[words[pc].target] \in RowsTaken[Op][row]
  <2>1. words[pc] \in Instruction /\ config \in Config /\ pc \in Pcs
    BY DEF Certified, ProgramInv
  <2>2. config.wrap_bottom \in Pcs /\ (pc + 1) % Size \in Pcs
    BY <2>1, LoadCheckAssumption, SMT DEF Config, Pcs
  <2> QED BY <2>1, <2>2, WaysAccepted DEF Instruction, Following, Op, ProgramInv
<1>2. CASE GoesOn
  <2>1. Straight
    BY <1>1, <1>2 DEF GoesOn, Enters, Straight
  <2> QED BY <1>1, <1>2, <2>1 DEF GoesOn, Enters, Next, ProgramInv
<1>3. CASE FallsThrough
  <2>1. Fall
    BY <1>1, <1>3 DEF FallsThrough, Enters, Fall
  <2> QED BY <1>1, <1>3, <2>1 DEF FallsThrough, Enters, Next, ProgramInv
<1>4. CASE TakesJump
  <2>1. Take
    BY <1>1, <1>4 DEF TakesJump, Enters, Take
  <2> QED BY <1>1, <1>4, <2>1 DEF TakesJump, Enters, Next, ProgramInv
<1>5. CASE StartsAgain
  <2>1. 0 \in Pcs /\ table[0] = OpenRow
    BY LoadCheckAssumption, SMT DEF Pcs, Certified, Sound
  <2>2. Restart /\ row' = OpenRow /\ pc' = 0
    BY <1>5 DEF StartsAgain, Restart
  <2> QED BY <2>1, <2>2 DEF Next, ProgramInv
<1>6. CASE UNCHANGED programVars
  BY <1>6 DEF programVars, vars, ProgramInv
<1> QED BY <1>2, <1>3, <1>4, <1>5, <1>6 DEF ProgramNext

\* A core on a program whose table the load check found sound does what Kernel says
\* and, at every pc, is under the row the table holds there (load_check.ml: walk;
\* engine.ml: pc_value_next).
THEOREM CertifiedIsKernel ==
  ASSUME Certified(words, config, table), Covered
  PROVE  ProgramSpec => Spec /\ []ProgramInv
<1>1. ProgramInit => Init /\ ProgramInv
  BY ProgramStarts
<1>2. ProgramInv /\ [ProgramNext]_programVars => [Next]_vars /\ ProgramInv'
  BY ProgramSteps
<1> QED BY <1>1, <1>2, PTL DEF ProgramSpec, Spec

\* So it is inside the row the table holds at its pc, and enters no deadline wait
\* late, for every program, certified table and data (engine.ml: missed_deadline).
THEOREM CertifiedInTime ==
  ASSUME Certified(words, config, table), Covered
  PROVE  ProgramSpec => [](row = table[pc] /\ Within /\ NeverMissed)
<1>1. ProgramInv => row = table[pc]
  BY DEF ProgramInv
<1> QED BY <1>1, CertifiedIsKernel, KernelSound, KernelInTime, PTL
=============================================================================
