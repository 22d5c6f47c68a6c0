------------------------------- MODULE Kernel -------------------------------
(***************************************************************************)
(* The timing kernel: Kernel_step.step (src/kernel_step.ml), what a word   *)
(* does to a core's timing state, beside what the load checker asks of the *)
(* rows a certificate holds (KernelAccepts).  A core runs any firmware     *)
(* whose rows the kernel accepts: the next word and the next row are       *)
(* picked as the core gets there, from Words and Rows, under the kernel's  *)
(* acceptance.                                                             *)
(***************************************************************************)
EXTENDS KernelAccepts

CONSTANTS
  Words,     \* the words firmware may hold
  Rows,      \* the rows a certificate may hold
  Begins     \* the period, x and y a core may start with

ASSUME KernelAssumption ==
  /\ Words \subseteq Word
  /\ Rows \subseteq Row
  /\ Begins \subseteq [period : Data, x : Data, y : Data]

VARIABLES
  phase, period, x, y,  \* the core's timer, p, x and y at a word's entry
  arm, arm_known,       \* cycles since the capture was armed, while bounded
  captured, awaiting,   \* the captured edge came, or is still to be waited for
  missed,               \* the missed_deadline fault, sticky
  row                   \* the certificate's row of the word the core enters

coreVars == <<phase, period, x, y, arm, arm_known, captured, awaiting, missed>>
vars == <<coreVars, row>>

-----------------------------------------------------------------------------
(***************************************************************************)
(* The core: Kernel_step.step on the state at the word's entry.            *)
(***************************************************************************)

\* The timer is a register of its width.
Wrap(v) == ((v + Half) % (2 * Half)) - Half

Carries(w) == IF w.kind = "advance" /\ Fraction THEN {0, 1} ELSE {0}

\* Where the phase starts from, and what the word adds to t.
PhaseFrom(w) ==
  CASE w.kind = "anchor" -> 0
    [] w.kind \in Deadlines -> Released(phase)
    [] OTHER -> phase

Added(w) ==
  CASE w.kind \in {"advance", "add_p"} -> period
    [] w.kind = "add_x" -> x
    [] w.kind = "add_y" -> y
    [] w.kind = "add_imm" -> w.imm
    [] w.kind = "sub_imm" -> -w.imm
    [] OTHER -> 0

\* The captured time is from a cycle after the arm to a cycle before now.
FromCapture(w) == w.kind = "from_capture" /\ captured /\ arm_known

PhasesAfter(w) ==
  IF Bounded(w)
  THEN {Wrap(PhaseFrom(w) + w.cycles - Added(w) - carry) : carry \in Carries(w)}
  ELSE IF FromCapture(w)
  THEN {Wrap(v) : v \in w.cycles + 1 .. arm + w.cycles - 1}
  ELSE Timer

\* A period written at run time is the loaded one, or at least it: the core
\* watches for any other (engine.ml: period_off).
PeriodsAfter(w) ==
  CASE w.kind = "set_p" -> {w.imm}
    [] w.kind = "writes_p" -> {v \in Data : Loaded.valid =>
         IF Loaded.floor THEN v >= Loaded.value ELSE v = Loaded.value}
    [] OTHER -> {period}

XsAfter(w) ==
  CASE w.kind = "set_x" -> {w.imm}
    [] w.kind = "writes_x" -> Data
    [] w.kind = "x_dec" -> {Less1(x)}
    [] OTHER -> {x}

YsAfter(w) ==
  CASE w.kind = "set_y" -> {w.imm}
    [] w.kind = "writes_y" -> Data
    [] w.kind = "y_dec" -> {Less1(y)}
    [] OTHER -> {y}

\* Whether the core may take its jump, or not take it.
CoreTakes(w) ==
  CASE w.kind = "x_dec" -> x # 0
    [] w.kind = "y_dec" -> y # 0
    [] w.kind = "x_ne_y" -> x # y
    [] OTHER -> TRUE

CoreFalls(w) ==
  CASE w.kind = "always" -> FALSE
    [] w.kind = "jump" -> TRUE
    [] OTHER -> ~CoreTakes(w)

\* A deadline wait stalls until its release; a capturing wait's stall is before
\* the edge it waits for.
ArmAfter(w) ==
  CASE w.kind = "capture_arm" -> w.cycles
    [] w.kind \in Deadlines -> arm + Released(phase) - phase + w.cycles
    [] OTHER -> arm + w.cycles

\* Mutant: a wait for the edge goes on waiting for one.
CapturedAgain(w) ==
  /\ arm' = ArmAfter(w) % (2 * Half)
  /\ arm_known' = \/ w.kind = "capture_arm"
                  \/ arm_known /\ ~OtherWait(w, awaiting) /\ ArmAfter(w) < ArmLimit
  /\ captured' = (/\ w.kind # "capture_arm"
                  /\ captured \/ (Captures(w, awaiting) /\ arm_known))
  /\ awaiting' = (w.kind = "capture_arm" \/ awaiting)

Captured(w) ==
  /\ arm' = ArmAfter(w) % (2 * Half)
  /\ arm_known' = \/ w.kind = "capture_arm"
                  \/ arm_known /\ ~OtherWait(w, awaiting) /\ ArmAfter(w) < ArmLimit
  /\ captured' = (/\ w.kind # "capture_arm"
                  /\ captured \/ (Captures(w, awaiting) /\ arm_known))
  /\ awaiting' = (w.kind = "capture_arm" \/ (awaiting /\ w.kind # "capturing"))

\* A deadline wait entered after its deadline faults (engine.ml: missed_deadline).
Executes(w) ==
  /\ phase' \in PhasesAfter(w)
  /\ period' \in PeriodsAfter(w)
  /\ x' \in XsAfter(w)
  /\ y' \in YsAfter(w)
  /\ Captured(w)
  /\ missed' = (missed \/ (w.kind \in Deadlines /\ phase > 0))

-----------------------------------------------------------------------------
Started ==
  /\ phase \in Timer
  /\ arm = 0 /\ arm_known = FALSE /\ captured = FALSE /\ awaiting = FALSE
  /\ row = OpenRow

Init ==
  /\ Started
  /\ \E b \in Begins : period = b.period /\ x = b.x /\ y = b.y
  /\ missed = FALSE

\* The rows the kernel accepts on falling through a word, and on its jump.  The way
\* the core does not go leads to OpenRow, which is always accepted.
RowsAfter ==
  [w \in Words |-> [r \in Rows \cup {OpenRow} |->
     {s \in Rows : Accepts(w, r, s, OpenRow)}]]

RowsTaken ==
  [w \in Words |-> [r \in Rows \cup {OpenRow} |->
     {s \in Rows : Accepts(w, r, OpenRow, s)}]]

\* A word that does not jump goes on to the next one.
Straight ==
  \E w \in Words :
    /\ w.kind \notin Jumps \cup {"halt"}
    /\ row' \in RowsAfter[w][row]
    /\ Executes(w)

\* A jump falls through to the next word, or is taken.
Fall ==
  \E w \in Words :
    /\ w.kind \in Jumps /\ CoreFalls(w)
    /\ row' \in RowsAfter[w][row]
    /\ Executes(w)

Take ==
  \E w \in Words :
    /\ w.kind \in Jumps /\ CoreTakes(w)
    /\ row' \in RowsTaken[w][row]
    /\ Executes(w)

\* The core halts, by a word or as the host stops it at any, and the host starts it
\* again at pc 0 with the registers it has.
Restart ==
  /\ phase' \in Timer
  /\ arm' = 0 /\ arm_known' = FALSE /\ captured' = FALSE /\ awaiting' = FALSE
  /\ row' = OpenRow
  /\ UNCHANGED <<period, x, y, missed>>

Next == Straight \/ Fall \/ Take \/ Restart

Spec == Init /\ [][Next]_vars

-----------------------------------------------------------------------------
TypeOK ==
  /\ phase \in Timer
  /\ period \in Data /\ x \in Data /\ y \in Data
  /\ arm \in 0 .. 2 * Half - 1
  /\ arm_known \in BOOLEAN /\ captured \in BOOLEAN /\ awaiting \in BOOLEAN
  /\ missed \in BOOLEAN
  /\ row \in Rows \cup {OpenRow}

\* The core's phase less the slope times x, as a timer holds it.
Offset(r) == Wrap(phase - r.slope * x)

\* The core is inside the row of the word it enters, whatever firmware ran there:
\* the phase, the offset, the registers, the cycles since the arm and the captured
\* edge (kernel_accepts.ml: within).  This is what an accepted certificate claims.
Within ==
  /\ In(phase, row.phase)
  /\ In(Offset(row), row.offset)
  /\ In(period, row.period) /\ In(x, row.x) /\ In(y, row.y)
  /\ ArmKnown(row) => arm_known /\ In(arm, row.arm)
  /\ row.captured => captured
  /\ row.awaiting => awaiting

\* Accepted firmware never enters a deadline wait past its deadline, whatever its
\* data, waits and captured edges did before (engine.ml: missed_deadline).
NeverMissed == ~missed

\* A captured edge lies between its arm and now, so the time it gives is never
\* empty, and a core that still waits for one holds none (kernel_step.ml:
\* next_captured, next_awaiting, next_arm).
EdgeAfterArm ==
  /\ awaiting => ~captured
  /\ captured /\ arm_known => arm > 1
=============================================================================
