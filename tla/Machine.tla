------------------------------- MODULE Machine -------------------------------
(***************************************************************************)
(* The machine model (src/machine.ml): what the core does in a cycle, told *)
(* an instruction at a time.  It has no fetch: an issue reads the word at  *)
(* the pc.  Each operator takes the machine m, a record of its registers,  *)
(* and gives the machine after; in is what the cycle brings from outside.  *)
(*                                                                         *)
(* Values are left out but for what decides the next step: of a shift      *)
(* register its count, of a queue its length, of p whether it carries the  *)
(* period the check loaded.  in.chance decides what other values would: a  *)
(* jump on data, a pin that is not the capture pin, the timer's deadline.  *)
(***************************************************************************)
EXTENDS Integers

CONSTANTS
  Size,      \* words of program memory (2^9 on the chip)
  DataBits,  \* bits of a data register (16)
  Depth      \* words of a queue (15)

ASSUME MachineAssumption ==
  /\ Size \in Nat \ {0}
  /\ DataBits \in Nat \ {0}
  /\ Depth \in Nat \ {0}

Pcs == 0 .. Size - 1
Counts == 1 .. DataBits
JmpCycles == 2
DataSettle == 2

FaultKinds == {"underflow", "overflow", "missed_deadline", "decode", "assumption"}

Conditions == {"always", "data", "osr_not_empty", "tx_not_empty", "tx_empty",
               "rx_not_full", "rx_full"}

Waits == {"captured_level", "captured_edge", "pin", "deadline", "advance",
          "tx_not_empty", "rx_not_full"}

Writes == {"pins", "isr", "osr", "p", "other"}

SysOps == {"nop", "halt", "irq", "push", "pull", "crc_init", "crc_send",
           "capture_arm", "seek"}

\* A decoded word.  arg is a jump's condition, a wait's source, the register an
\* out, mov, set or alu writes, or a sys operation; bad is a word no instruction
\* encodes; alu's add_p is add t, p.
Word ==
  {w \in [op : {"jmp", "wait", "in", "out", "mov", "set", "alu", "sys", "bad"},
          arg : Conditions \cup Waits \cup Writes \cup SysOps \cup {"add_p", ""},
          count : Counts, delay : Nat, target : Pcs] :
     w.op = "jmp" => w.arg \in Conditions}

Config ==
  [wrap_top : Pcs, wrap_bottom : Pcs,
   autopush : BOOLEAN, push_threshold : Counts,
   autopull : BOOLEAN, autopull_data : BOOLEAN, pull_threshold : Counts,
   manchester : BOOLEAN, route : BOOLEAN]

Premises == [period : BOOLEAN, single_edge : BOOLEAN]

Saturate(n) == IF n > DataBits THEN DataBits ELSE n

Faulting(m, kind) == [m EXCEPT !.fault = @ \cup {kind}]

-----------------------------------------------------------------------------
(***************************************************************************)
(* Queues and shift registers.                                             *)
(***************************************************************************)

\* A routed engine's rx queue is the next engine's tx queue.
IsRxFull(m, in) == IF m.config.route THEN in.route_full ELSE m.rx >= Depth

Pushed(m, in) ==
  LET after == IF IsRxFull(m, in) THEN Faulting(m, "overflow")
               ELSE IF m.config.route THEN [m EXCEPT !.routed = TRUE]
               ELSE [m EXCEPT !.rx = @ + 1]
  IN  [after EXCEPT !.isr_count = 0]

Pulled(m) ==
  IF m.tx = 0 THEN Faulting([m EXCEPT !.osr_count = 0], "underflow")
  ELSE [m EXCEPT !.osr_count = 0, !.tx = @ - 1]

AutopullBeforeOut(m) ==
  IF ~(m.config.autopull /\ m.osr_count >= m.config.pull_threshold) THEN m
  ELSE IF ~m.config.autopull_data THEN Pulled(m)
  ELSE IF m.data_age < DataSettle
       THEN Faulting([m EXCEPT !.osr_count = 0], "underflow")
  ELSE [m EXCEPT !.osr_count = 0, !.data_age = 0]

AutopushAfterIn(m, in) ==
  IF m.config.autopush /\ m.isr_count >= m.config.push_threshold
  THEN Pushed(m, in) ELSE m

WritesP(m, in) == [m EXCEPT !.p = (in.chance = "yes")]

OutDest(m, w, in) ==
  CASE w.arg = "pins" /\ m.config.manchester /\ w.count = 1 -> [m EXCEPT !.flip = TRUE]
    [] w.arg = "isr" -> [m EXCEPT !.isr_count = w.count]
    [] w.arg = "p" -> WritesP(m, in)
    [] OTHER -> m

MovDest(m, w, in) ==
  CASE w.arg = "isr" -> [m EXCEPT !.isr_count = 0]
    [] w.arg = "osr" -> [m EXCEPT !.osr_count = 0]
    [] w.arg = "p" -> WritesP(m, in)
    [] OTHER -> m

Sys(m, w, in) ==
  CASE w.arg = "halt" -> [m EXCEPT !.halted = TRUE]
    [] w.arg = "irq" -> [m EXCEPT !.irq = TRUE]
    [] w.arg = "push" -> Pushed(m, in)
    [] w.arg = "pull" -> Pulled(m)
    [] w.arg = "crc_init" -> [m EXCEPT !.crc_sending = FALSE]
    [] w.arg = "crc_send" -> [m EXCEPT !.crc_sending = TRUE]
    [] w.arg = "capture_arm" -> [m EXCEPT !.capture_armed = TRUE]
    [] w.arg = "seek" -> [m EXCEPT !.data_age = 0]
    [] OTHER -> m

Execute(m, w, in) ==
  CASE w.op = "in" ->
         AutopushAfterIn([m EXCEPT !.isr_count = Saturate(@ + w.count)], in)
    [] w.op = "out" ->
         LET pulled == AutopullBeforeOut(m)
         IN  OutDest([pulled EXCEPT !.osr_count = Saturate(@ + w.count)], w, in)
    [] w.op = "mov" -> MovDest(m, w, in)
    [] w.op \in {"set", "alu"} -> IF w.arg = "p" THEN WritesP(m, in) ELSE m
    [] w.op = "sys" -> Sys(m, w, in)

-----------------------------------------------------------------------------
(***************************************************************************)
(* A cycle.                                                                *)
(***************************************************************************)

PcAfter(m) ==
  IF m.pc = m.config.wrap_top THEN m.config.wrap_bottom ELSE (m.pc + 1) % Size

IsTaken(m, w, in) ==
  CASE w.arg = "always" -> TRUE
    [] w.arg = "data" -> in.chance = "yes"
    [] w.arg = "osr_not_empty" -> m.osr_count < m.config.pull_threshold
    [] w.arg = "tx_not_empty" -> m.tx # 0
    [] w.arg = "tx_empty" -> m.tx = 0
    [] w.arg = "rx_not_full" -> ~IsRxFull(m, in)
    [] w.arg = "rx_full" -> IsRxFull(m, in)

IsReady(m, w, in) ==
  CASE w.arg = "captured_level" -> in.level
    [] w.arg = "captured_edge" -> in.level /\ ~m.level
    [] w.arg = "tx_not_empty" -> m.tx # 0
    [] w.arg = "rx_not_full" -> ~IsRxFull(m, in)
    [] OTHER -> in.chance # "no"

\* A deadline released after its cycle is a fault.
Released(m, w, in) ==
  IF w.arg \in {"deadline", "advance"} /\ in.chance = "late"
  THEN Faulting(m, "missed_deadline") ELSE m

TookEffect(m, w, in) ==
  w.op \notin {"jmp", "bad"} /\ (w.op = "wait" => IsReady(m, w, in))

\* The second half of a Manchester bit begins with the next instruction.
Issued(m, in) ==
  LET w == m.program[m.pc]
      n == [m EXCEPT !.flip = FALSE]
  IN  CASE w.op = "bad" -> Faulting([n EXCEPT !.halted = TRUE], "decode")
        [] w.op = "jmp" ->
             [n EXCEPT !.pc = IF IsTaken(m, w, in) THEN w.target ELSE PcAfter(m),
                       !.stall = JmpCycles - 1]
        [] w.op = "wait" ->
             IF IsReady(m, w, in)
             THEN [Released(n, w, in) EXCEPT !.pc = PcAfter(m), !.stall = w.delay]
             ELSE n
        [] OTHER -> [Execute(n, w, in) EXCEPT !.pc = PcAfter(m), !.stall = w.delay]

\* The premises a certificate rests on, watched by the machine before the cycle
\* and the word w that took effect in it, if one did.
Watched(m, before, w, effect, in) ==
  LET arms == effect /\ w.op = "sys" /\ w.arg = "capture_arm"
      releases == /\ before.premises.single_edge
                  /\ effect /\ w.op = "wait"
                  /\ w.arg \in {"captured_level", "captured_edge"}
      loads == effect /\ w.op \in {"mov", "out", "alu"} /\ w.arg = "p"
      sets == effect /\ w.op = "set" /\ w.arg = "p"
      uses == effect /\ <<w.op, w.arg>> \in {<<"wait", "advance">>, <<"alu", "add_p">>}
      period_off == uses /\ before.p_loaded /\ before.premises.period /\ ~before.p
      edge_off == /\ before.premises.single_edge
                  /\ \/ arms /\ in.level
                     \/ before.holding /\ before.seen /\ ~in.level
      after == [m EXCEPT
        !.p_loaded = ~sets /\ (loads \/ @),
        !.holding = arms \/ (~releases /\ @),
        !.seen = ~arms /\ (@ \/ (~releases /\ before.holding /\ in.level))]
  IN  IF period_off \/ edge_off THEN Faulting(after, "assumption") ELSE after

Step(m, in) ==
  LET w == m.program[m.pc]
      issues == m.stall = 0 /\ ~m.halted
      aged == [m EXCEPT !.data_age = IF @ < DataSettle THEN @ + 1 ELSE @,
                        !.routed = FALSE]
      stepped == IF m.stall > 0 THEN [aged EXCEPT !.stall = @ - 1]
                 ELSE IF m.halted THEN aged
                 ELSE Issued(aged, in)
      captured == m.capture_armed /\ in.level /\ ~m.level
      watched == Watched(stepped, m, w, issues /\ TookEffect(aged, w, in), in)
  IN  [watched EXCEPT !.capture_armed = @ /\ ~captured, !.level = in.level]

-----------------------------------------------------------------------------
(***************************************************************************)
(* What the host and the chip do to a machine beside its steps, in the     *)
(* order the lockstep test has them.                                       *)
(***************************************************************************)

\* Before the step: a flush only while halted.
HostBefore(m, in) ==
  [m EXCEPT !.irq = @ /\ in.op # "clear_irq",
            !.tx = IF in.op = "flush" /\ m.halted THEN 0 ELSE @,
            !.rx = IF in.op = "flush" /\ m.halted THEN 0
                   ELSE IF in.op = "pop" /\ @ > 0 THEN @ - 1
                   ELSE @]

\* After it: a fault stops the machine as the host does, and a word sent beside a
\* flush goes with the rest.
HostAfter(m, before, in) ==
  [m EXCEPT !.halted = @ \/ in.op = "stop" \/ before.fault # {},
            !.tx = IF in.tx /\ @ < Depth /\ ~(in.op = "flush" /\ before.halted)
                   THEN @ + 1 ELSE @]

Cycled(m, in) == HostAfter(Step(HostBefore(m, in), in), m, in)

\* A halted machine as the chip leaves it a cycle after a start pulse.
Started(m) ==
  IF ~m.halted THEN m
  ELSE [m EXCEPT !.halted = FALSE, !.pc = 0, !.stall = 0,
                 !.data_age = DataSettle, !.flip = FALSE]
=============================================================================
