------------------------------ MODULE MCEngine ------------------------------
(***************************************************************************)
(* The engine core for TLC: a few words at a time, in every order.         *)
(***************************************************************************)
EXTENDS Engine

W(op, arg, delay) == [op |-> op, arg |-> arg, count |-> 1, delay |-> delay, target |-> 0]
Jump(cond, target) == [W("jmp", cond, 0) EXCEPT !.target = target]
Shift(op, arg, count) == [W(op, arg, 0) EXCEPT !.count = count]

Wrap(top, bottom) ==
  [wrap_top |-> top, wrap_bottom |-> bottom, autopush |-> FALSE, push_threshold |-> 1,
   autopull |-> FALSE, autopull_data |-> FALSE, pull_threshold |-> 1,
   manchester |-> FALSE, route |-> FALSE]

Plain == [period |-> FALSE, single_edge |-> FALSE]

Loads(words, configs, watched, happens) ==
  [program : [Pcs -> words], config : configs, premises : watched, around : {happens}]

\* Where the pc goes: jumps, waits, delays, halts and words no instruction encodes,
\* with the host rewriting the program and the checker reading it.
FetchWords == {W("sys", "nop", 1), Jump("data", 1), W("wait", "pin", 0), W("sys", "halt", 0)}

FetchLoads ==
  Loads(FetchWords \cup {W("bad", "", 0)}, {Wrap(2, 0), Wrap(1, 2)}, {Plain},
        {"start", "stop", "program", "walk"})

\* What shifts, and what fills and empties the queues.
Autos ==
  {[Wrap(1, 0) EXCEPT !.autopush = TRUE, !.autopull = TRUE, !.autopull_data = data,
                      !.push_threshold = 2, !.pull_threshold = 2, !.route = route] :
     data \in BOOLEAN, route \in BOOLEAN}

ShiftLoads ==
  Loads({Shift("in", "other", 1), Shift("out", "pins", 1), Shift("out", "isr", 2),
         W("mov", "osr", 0), W("mov", "isr", 0), W("sys", "seek", 0)},
        Autos, {Plain}, {"start", "route_full", "tx", "pop"})

\* The queues' own words, with flushes.
QueueLoads ==
  Loads({W("sys", "push", 0), W("sys", "pull", 0), W("wait", "rx_not_full", 0),
         W("wait", "tx_not_empty", 0), Jump("tx_empty", 2), Jump("rx_full", 0),
         W("sys", "halt", 0)},
        {Wrap(2, 0)}, {Plain}, {"start", "stop", "flush", "tx", "pop"})

\* The premises: the capture pin's edges, and the period in p.
EdgeLoads ==
  Loads({W("sys", "capture_arm", 0), W("wait", "captured_level", 0),
         W("wait", "captured_edge", 1), W("wait", "pin", 0)},
        {Wrap(2, 0)}, [period : {FALSE}, single_edge : {TRUE}], {"start", "stop", "level"})

PeriodLoads ==
  Loads({W("mov", "p", 0), W("set", "p", 0), W("alu", "add_p", 0), W("wait", "advance", 0),
         W("wait", "deadline", 0)},
        {Wrap(2, 0)}, [period : {TRUE}, single_edge : {FALSE}], {"start", "stop"})

\* What is left: flags the host and a start clear.
FlagLoads ==
  Loads({W("sys", "irq", 0), W("sys", "crc_send", 0), W("sys", "crc_init", 0),
         Shift("out", "pins", 1), W("sys", "halt", 0)},
        {[Wrap(2, 0) EXCEPT !.manchester = TRUE]}, {Plain}, {"start", "stop", "clear_irq"})

AllLoads ==
  FetchLoads \cup ShiftLoads \cup QueueLoads \cup EdgeLoads \cup PeriodLoads \cup FlagLoads
=============================================================================
