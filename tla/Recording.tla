----------------------------- MODULE Recording ------------------------------
(***************************************************************************)
(* How a recording's stamps become whole cycles (python/learn_record.py,   *)
(* record).  An engine stamps an edge with the low 16 bits of its clock.   *)
(* After every drain of its stamps the Pico reads those bits again and its *)
(* own microseconds, and counts with these how often the 16 bits wrapped.  *)
(***************************************************************************)
EXTENDS Integers

Wrap == 65536
CyclesPerUs == 48
LateUs == 1000

Low(cycle) == cycle % Wrap

\* Cycles since the last read, as far as 16 bits tell.
SinceLast(now, last) == (now - last) % Wrap

\* Whole wraps between two reads gap microseconds apart, to the nearest.
Wraps(gap, low) == (gap * CyclesPerUs - low + (Wrap \div 2)) \div Wrap

\* The clock of this read, from the last one's clock and what both read.
Extended(clock, last, now, gap) ==
  LET low == SinceLast(now, last)
      wraps == Wraps(gap, low)
  IN  clock + low + (IF wraps > 0 THEN wraps * Wrap ELSE 0)

\* When an edge was, that this drain found stamped with word.
TimeOf(clock, now, word) == clock - ((now - word) % Wrap)

\* A drain that finds stamps this long after the last one marks the recording.
Late(gap) == gap > LateUs
=============================================================================
