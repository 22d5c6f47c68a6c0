------------------------------ MODULE LoadCheck ------------------------------
(***************************************************************************)
(* What the load check decides, as the model of it says                    *)
(* (Load_check.walk, src/load_check.ml): from the program, the             *)
(* configuration and the certificate in data memory, the row held at every *)
(* pc and the verdict.                                                     *)
(*                                                                         *)
(* A certificate is its entries and its two dictionaries of intervals.     *)
(* Its words, their addresses and their wrap at the memory's size are left *)
(* out: an index past a dictionary's end reads some interval, as it does   *)
(* there.                                                                  *)
(***************************************************************************)
EXTENDS KernelAccepts, Sequences

CONSTANTS
  Size,     \* pcs of program memory: 2^pc_bits
  IndexMax  \* the largest index of a dictionary: 2^index_bits - 1

ASSUME LoadCheckAssumption ==
  /\ Size \in Nat \ {0}
  /\ IndexMax \in Nat \ {0}

Pcs == 0 .. Size - 1
Indices == 0 .. IndexMax

\* An instruction: what the kernel sees of it, and its jump target.
Instruction == [op : Word, target : Pcs]

Config == [wrap_top : Pcs, wrap_bottom : Pcs]

\* An entry stores the row of a pc by index; index 0 is the whole range.
TableEntry ==
  [pc : Pcs, captured : BOOLEAN, awaiting : BOOLEAN,
   phase : Indices, arm : Indices, period : Indices, x : Indices, y : Indices]

\* A wide interval is the bits of a phase's bounds or of an arm's.
Wide == [lo : 0 .. 2 * Half - 1, hi : 0 .. 2 * Half - 1]
Narrow == [lo : Data, hi : Data]

Certificate ==
  [entries : Seq(TableEntry), wide : [1 .. IndexMax -> Wide],
   narrow : [1 .. IndexMax -> Narrow]]

\* Everything a walk reads.
Contents == [words : [Pcs -> Instruction], config : Config, cert : Certificate]

\* Mutant: a pc without an entry promises nothing.
EmptyRowFull == OpenRow

\* Nothing is asked of a pc that is never reached.
EmptyRow ==
  [OpenRow EXCEPT !.phase = [lo |-> 1, hi |-> 0], !.period = Point(0),
                  !.x = Point(0), !.y = Point(0), !.arm = Point(0)]

Signed(v) == IF v < Half THEN v ELSE v - 2 * Half

\* The interval a field of an entry stands for.
Interval(cert, e, f) ==
  CASE e[f] = 0 -> OpenRow[f]
    [] e[f] # 0 /\ f = "phase" ->
         [lo |-> Signed(cert.wide[e[f]].lo), hi |-> Signed(cert.wide[e[f]].hi)]
    [] e[f] # 0 /\ f = "arm" -> cert.wide[e[f]]
    [] OTHER -> cert.narrow[e[f]]

Decode(cert, e) ==
  [OpenRow EXCEPT
     !.phase = Interval(cert, e, "phase"), !.arm = Interval(cert, e, "arm"),
     !.period = Interval(cert, e, "period"), !.x = Interval(cert, e, "x"),
     !.y = Interval(cert, e, "y"),
     !.captured = e.captured, !.awaiting = e.awaiting]

\* The entry half way through a span of them, and the half a search for pc goes on in.
Middle(span) == (span[1] + span[2]) \div 2
MiddleEntry(cert, span) == cert.entries[Middle(span) + 1]

HalfWith(cert, pc, span) ==
  IF MiddleEntry(cert, span).pc < pc THEN <<Middle(span) + 1, span[2]>>
  ELSE <<span[1], Middle(span)>>

\* A target's row by binary search, empty where there is none.
Lookup(cert, pc) ==
  LET n == Len(cert.entries)
      search[span \in (0 .. n) \X (0 .. n)] ==
        IF span[1] >= span[2] THEN EmptyRow
        ELSE IF MiddleEntry(cert, span).pc = pc THEN Decode(cert, MiddleEntry(cert, span))
        ELSE search[HalfWith(cert, pc, span)]
  IN  IF pc = 0 THEN OpenRow ELSE search[<<0, n>>]

\* Where a pc goes on to.  The last pc never falls through to the next one.
Following(config, pc) ==
  IF pc = config.wrap_top THEN config.wrap_bottom ELSE (pc + 1) % Size

FallsToNext(config, pc) == Following(config, pc) = pc + 1

\* The next pc's row where none is stored.
Fell(config, pc, w, r) ==
  IF FallsToNext(config, pc) /\ Falls(w, r) THEN Fallen(w, r) ELSE EmptyRow

\* The walk before it judges pc: the row it holds and the entries it has taken.
Stored(image, pc, ptr) ==
  /\ ptr < Len(image.cert.entries)
  /\ image.cert.entries[ptr + 1].pc = pc + 1

After(image, pc, at) ==
  IF Stored(image, pc, at.ptr)
  THEN [row |-> Decode(image.cert, image.cert.entries[at.ptr + 1]), ptr |-> at.ptr + 1]
  ELSE [row |-> Fell(image.config, pc, image.words[pc].op, at.row), ptr |-> at.ptr]

\* walked[Size] is where the walk ends.
Walked(image) ==
  LET walked[pc \in 0 .. Size] ==
        IF pc = 0 THEN [row |-> OpenRow, ptr |-> 0]
        ELSE After(image, pc - 1, walked[pc - 1])
  IN  walked

\* The kernel's conjuncts on a way out, in their order.
Conjuncts == <<"phase", "offset", "period", "x", "y", "arm", "captured", "awaiting">>

ConjunctHolds(w, r, s, taken, f) ==
  CASE f = "phase" -> PhaseHolds(w, r, s, taken)
    [] f = "offset" -> OffsetHolds(w, r, s, taken)
    [] f = "period" -> PeriodHolds(w, r, s)
    [] f = "x" -> XHolds(w, r, s, taken)
    [] f = "y" -> YHolds(w, r, s, taken)
    [] f = "arm" -> ArmHolds(w, r, s)
    [] f = "captured" -> CapturedHolds(w, r, s)
    [] f = "awaiting" -> AwaitingHolds(w, r, s)

Asked(w, r, taken) == IF taken THEN Takes(w, r) ELSE Falls(w, r)

\* The conjuncts that fail on a way out.
Failing(w, r, s, taken) ==
  {f \in {Conjuncts[i] : i \in 1 .. Len(Conjuncts)} :
     Asked(w, r, taken) /\ ~ConjunctHolds(w, r, s, taken, f)}

First(failing) ==
  LET i == CHOOSE i \in 1 .. Len(Conjuncts) :
             /\ Conjuncts[i] \in failing
             /\ \A j \in 1 .. i - 1 : Conjuncts[j] \notin failing
  IN  Conjuncts[i]

\* The row the kernel is asked about on falling through pc, and on jumping.
NextRow(image, pc, walked) ==
  IF FallsToNext(image.config, pc) THEN walked[pc + 1].row
  ELSE Lookup(image.cert, Following(image.config, pc))

TargetRow(image, pc) == Lookup(image.cert, image.words[pc].target)

\* Why a pc is rejected; no reason where it is not.
NoReason == <<"none", "none">>

Judged(image, pc, walked) ==
  LET w == image.words[pc].op
      r == walked[pc].row
      next == Failing(w, r, NextRow(image, pc, walked), FALSE)
      target == Failing(w, r, TargetRow(image, pc), TRUE)
      entries == image.cert.entries
  IN  CASE walked[pc].ptr < Len(entries) /\ entries[walked[pc].ptr + 1].pc <= pc ->
             <<"walk", "out_of_order">>
        [] OTHER ->
             IF ~InTime(w, r) THEN <<"word", "in_time">>
             ELSE IF next # {} THEN <<"next", First(next)>>
             ELSE IF target # {} THEN <<"target", First(target)>>
             ELSE NoReason

\* The verdict: the first pc rejected, if any; at the end, every entry is taken.
Verdict(image) ==
  LET walked == Walked(image)
      rejected == {pc \in Pcs : Judged(image, pc, walked) # NoReason}
      first == CHOOSE pc \in rejected : \A q \in rejected : pc <= q
  IN  IF rejected # {}
      THEN [accepted |-> FALSE, reject_pc |-> first,
            reason |-> Judged(image, first, walked)]
      ELSE IF walked[Size].ptr # Len(image.cert.entries)
      THEN [accepted |-> FALSE, reject_pc |-> Size, reason |-> <<"walk", "left_over">>]
      ELSE [accepted |-> TRUE, reject_pc |-> 0, reason |-> NoReason]

\* A table of rows for every pc is one the kernel accepts.
Sound(words, config, table) ==
  /\ table[0] = OpenRow
  /\ \A pc \in Pcs :
       Accepts(words[pc].op, table[pc], table[Following(config, pc)],
               table[words[pc].target])

\* A program and a table of rows for it, found sound together.
Certified(words, config, table) ==
  /\ words \in [Pcs -> Instruction] /\ config \in Config /\ table \in [Pcs -> Row]
  /\ Sound(words, config, table)
=============================================================================
