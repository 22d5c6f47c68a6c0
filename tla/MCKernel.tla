------------------------------ MODULE MCKernel ------------------------------
(***************************************************************************)
(* The kernel for TLC: the words and rows of firmware that counts in its   *)
(* registers, and of firmware that keeps time by a period or a captured    *)
(* edge, from every phase of a small timer.                                *)
(***************************************************************************)
EXTENDS Kernel

Of(kind, cycles, imm) == [kind |-> kind, cycles |-> cycles, imm |-> imm]
To(lo, hi) == [lo |-> lo, hi |-> hi]

\* What any firmware here holds, and what ends it.
CommonWords == {Of("anchor", 1, 0), Of("deadline", 1, 0), Of("plain", 1, 0), Of("halt", 1, 0)}

\* A loop counted by x, whose phase goes up by its jump's two cycles as x goes
\* down by one, and jumps on the registers.
CountWords ==
  {Of("add_imm", 1, 7), Of("set_x", 1, 2), Of("x_dec", 2, 0), Of("add_x", 1, 0),
   Of("set_y", 1, 3), Of("x_ne_y", 2, 0), Of("add_y", 1, 0), Of("jump", 2, 0)}

At(p, i, v, o) ==
  [OpenRow EXCEPT !.phase = p, !.x = i, !.slope = v, !.offset = o]

CountRows ==
  {At(p, i, 0, WholeTimer) :
     p \in {WholeTimer, To(1, 1), To(-5, -5), To(-2, 2)}, i \in {WholeData, To(2, 2)}}
  \cup {At(p, i, -2, o) :
     p \in {To(-4, 0), To(-2, 2)}, i \in {To(0, 2), To(1, 2)}, o \in {To(0, 0), To(2, 2)}}
  \cup {[OpenRow EXCEPT !.phase = To(-2, 2), !.x = To(2, 2), !.y = j] :
     j \in {To(3, 3), To(2, 2)}}

\* Bits a period apart, with a fraction of a cycle, and a period the host loads.
PeriodWords ==
  {Of("set_p", 1, 3), Of("writes_p", 1, 0), Of("add_p", 1, 0), Of("advance", 1, 0)}

PeriodRows ==
  {[OpenRow EXCEPT !.phase = p, !.period = i] :
     p \in {To(1, 1), To(-3, 0), To(-4, -3)},
     i \in {To(3, 3), To(4, 7)}}

\* Times taken from a captured edge.
CaptureWords ==
  {Of("capture_arm", 1, 0), Of("capturing", 1, 0), Of("wait", 1, 0), Of("from_capture", 1, 0),
   Of("add_imm", 1, 5)}

CaptureRows ==
  {[OpenRow EXCEPT !.phase = p, !.arm = a, !.captured = c, !.awaiting = u] :
     p \in {To(2, 4), To(-3, 0)},
     a \in {To(1, 1), To(2, 3), To(3, 6)},
     c \in BOOLEAN, u \in {FALSE}}
  \cup {[OpenRow EXCEPT !.arm = a, !.awaiting = TRUE] : a \in {WholeArm, To(1, 1), To(3, 6)}}

AllWords == CommonWords \cup CountWords \cup PeriodWords \cup CaptureWords
AllRows == CountRows \cup PeriodRows \cup CaptureRows
FewBegins == [period : {4}, x : {0, 2}, y : {3}]

AtLeastFour == [valid |-> TRUE, value |-> 4, floor |-> TRUE]
=============================================================================
