------------------------------- MODULE Queues -------------------------------
(***************************************************************************)
(* The engines' queues (src/host_fifo.ml) and the route from one engine's  *)
(* pushes to the next one's tx (src/engines.ml, src/system.ml).  Words are *)
(* numbers; the firmware here copies what it pulls to what it pushes, or,  *)
(* on a routed engine, makes words up.                                     *)
(*                                                                         *)
(* A cycle's operators take what the host asks of the queues in it: a word *)
(* written to tx, a pop of rx, a flush, a stop and a start.                *)
(***************************************************************************)
EXTENDS Integers, Sequences, SequencesExt

CONSTANTS
  Depth,  \* a queue's places
  Words   \* bound: words a job sends

ASSUME QueuesAssumption == Depth \in Nat \ {0} /\ Words \in Nat \ {0}

Engines == {0, 1}
Nothing == 0
Stale == Words + 1  \* a word of an earlier use of the engine, or a stray one

VARIABLES
  tx, rx,    \* each engine's queues
  hold,      \* the word an engine has pulled, or made up, and not pushed yet
  room,      \* whether its `wait rx` has seen room since its last push
  halted,    \* each engine's
  route,     \* whether engine 0's pushes go to engine 1
  made,      \* words a routed engine has made up
  overflow   \* each engine's sticky fault

queueVars == <<tx, rx, hold, room, halted, route, made, overflow>>

-----------------------------------------------------------------------------
\* A queue in a cycle: the word popped leaves, and one pushed beside it lands
\* even in a full queue; a flush wins over both.
Holds(queue, pushed, pop, flush) ==
  LET full == Len(queue) = Depth /\ ~pop
      left == IF pop /\ queue # <<>> THEN Tail(queue) ELSE queue
  IN IF flush THEN <<>>
     ELSE IF full \/ pushed = Nothing THEN left ELSE Append(left, pushed)

\* Mutant: a route is judged full by the next engine's other queue.
RxFullByRx(n, rx_pop) ==
  IF route /\ n = 0 THEN Len(rx[1]) = Depth ELSE Len(rx[n]) = Depth /\ ~rx_pop

\* When routed, an engine's rx is the next engine's tx, whose level is as
\* registered: it holds through a pop in the same cycle.
RxFull(n, rx_pop) ==
  IF route /\ n = 0 THEN Len(tx[1]) = Depth ELSE Len(rx[n]) = Depth /\ ~rx_pop

\* What an engine may do in a cycle.
Pulls(n) == ~halted[n] /\ hold[n] = Nothing /\ tx[n] # <<>> /\ ~(route /\ n = 0)

Makes(n) == ~halted[n] /\ hold[n] = Nothing /\ route /\ n = 0 /\ made < Words

\* Routed firmware waits for room before it pushes; a host's exchange lets no
\* more words in than the queues hold, and its firmware only pushes.
Pushes(n) == ~halted[n] /\ hold[n] # Nothing /\ (route => room[n])

Waits(n, rx_pop) == ~halted[n] /\ route /\ ~room[n] /\ ~RxFull(n, rx_pop)

Acts(n, rx_pop) ==
  {"none"} \cup {a \in {"pull", "make", "push", "wait"} :
    \/ a = "pull" /\ Pulls(n)
    \/ a = "make" /\ Makes(n)
    \/ a = "push" /\ Pushes(n)
    \/ a = "wait" /\ Waits(n, rx_pop)}

\* What the host asks in a cycle, of engine `of`: nothing, or one of these.
HostAsks == {"none", "tx", "rx_pop", "flush", "stop", "start"}

QueuesInit ==
  /\ route \in BOOLEAN
  /\ room = [n \in Engines |-> FALSE]
  /\ halted = [n \in Engines |-> FALSE]
  /\ made = 0
  /\ overflow = [n \in Engines |-> FALSE]
  /\ IF route
     THEN /\ tx = [n \in Engines |-> <<>>] /\ rx = [n \in Engines |-> <<>>]
          /\ hold = [n \in Engines |-> Nothing]
     ELSE \* what an earlier run left
          /\ tx \in [Engines -> {<<>>, <<Stale>>}]
          /\ rx \in [Engines -> {<<>>, <<Stale>>}]
          /\ hold \in [Engines -> {Nothing, Stale}]

\* A cycle in which engine n does act[n] and the host asks `ask` of engine
\* `of`, with `value` the word it writes.
QueuesCycle(act, ask, of, value) ==
  LET Asked(n, a) == ask = a /\ of = n
      flush(n) == Asked(n, "flush") /\ halted[n]
      pushed(n) ==
        IF act[n] = "push" /\ ~RxFull(n, Asked(n, "rx_pop")) THEN hold[n] ELSE Nothing
      fed(n) == route /\ n = 1
      written(n) ==
        IF fed(n) THEN pushed(0) ELSE IF Asked(n, "tx") THEN value ELSE Nothing
  IN /\ tx' = [n \in Engines |->
                Holds(tx[n], written(n), act[n] = "pull", flush(n))]
     /\ rx' = [n \in Engines |->
                Holds(rx[n], IF route /\ n = 0 THEN Nothing ELSE pushed(n),
                      Asked(n, "rx_pop"), flush(n))]
     /\ hold' = [n \in Engines |->
                  IF act[n] = "pull" THEN Head(tx[n])
                  ELSE IF act[n] = "make" THEN made + 1
                  ELSE IF act[n] = "push" \/ (Asked(n, "start") /\ halted[n]) THEN Nothing
                  ELSE hold[n]]
     /\ made' = IF act[0] = "make" THEN made + 1 ELSE made
     /\ room' = [n \in Engines |-> act[n] = "wait" \/ (room[n] /\ act[n] # "push")]
     /\ halted' = [n \in Engines |->
                    Asked(n, "stop") \/ (halted[n] /\ ~Asked(n, "start"))]
     /\ overflow' = [n \in Engines |->
                      \/ overflow[n]
                      \/ act[n] = "push" /\ RxFull(n, Asked(n, "rx_pop"))]
     /\ UNCHANGED route
=============================================================================
