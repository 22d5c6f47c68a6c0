------------------------------ MODULE Keyboard ------------------------------
(***************************************************************************)
(* The keyboard of demo 3: a laptop, the chip's core that answers what     *)
(* must be answered within a USB turnaround (the device of test/usb.ml),   *)
(* and the Pico that does the rest (demo_usb.serve, python/demo_usb.py,    *)
(* over usb_board.service and usb_board.Board, python/usb_board.py).       *)
(*                                                                         *)
(* A laptop's transaction is one step: its packets follow each other       *)
(* within the turnaround.  The Pico's reads and writes of the chip are     *)
(* steps of their own, between any two transactions.  tx and rx are the    *)
(* core's queues, a reply or a message an element.  The bus has no errors, *)
(* and rx is drained before it overflows.                                  *)
(***************************************************************************)
EXTENDS UsbBoard

CONSTANTS
  Reports,        \* how many reports the Pico types
  SpareRequests,  \* what the laptop may ask while it polls, over and over
  SpareMax,       \* how many of those it asks
  ResetMax,       \* how many resets of the bus it begins of itself
  PowerMax,       \* how many times the chip loses its power or is reset
  MemoryKept      \* whether its data memory outlives that

ASSUME KeyboardAssumption ==
  /\ Reports \in Nat /\ SpareMax \in Nat /\ ResetMax \in Nat /\ PowerMax \in Nat
  /\ SpareRequests \subseteq {"idle", "device", "configure"}
  /\ MemoryKept \in BOOLEAN

VARIABLES
  core,    \* running, its program's address, and whether it has its configuration and certificate
  tx, rx,  \* the core's queues
  board,   \* the Board
  pico,    \* where serve is, and its locals
  queue,   \* the reports still to type
  logged,  \* the reports logged as taken
  laptop,  \* what it is doing, and how often it did what is bounded
  taken    \* the reports it took

vars == <<core, tx, rx, board, pico, queue, logged, laptop, taken>>

Depth == 8
Address == 1

\* What Linux asks of a device it finds, from its first reset of the bus on.
Enumeration == <<"device", "reset", "address", "configure", "report">>

\* A message's words: a tag, and after a SETUP six, after an OUT two.
MessageWords(message) ==
  CASE message.tag = "setup" -> 7
    [] message.tag = "out" -> 3
    [] OTHER -> 1

Total(counts) ==
  LET sum[n \in 0 .. Len(counts)] == IF n = 0 THEN 0 ELSE sum[n - 1] + counts[n]
  IN  sum[Len(counts)]

\* The queues' levels, in words.
TxLevel == Total([i \in DOMAIN tx |-> Words(tx[i])])
RxLevel == Total([i \in DOMAIN rx |-> MessageWords(rx[i])])

Message(tag) == [tag |-> tag, request |-> "none", value |-> None]

\* The core pushes what it heard.
Pushed(message) ==
  /\ RxLevel + MessageWords(message) <= Depth
  /\ rx' = Append(rx, message)

-----------------------------------------------------------------------------
(***************************************************************************)
(* The laptop.                                                             *)
(***************************************************************************)

Answers == laptop.bus = "idle" /\ core.running /\ core.address = laptop.address
Polls == laptop.script = <<>> /\ ~(laptop.stage # "none" /\ laptop.request = "configure")

\* A transfer begins with its SETUP.
Begin(request) ==
  /\ Answers /\ laptop.stage = "none"
  /\ Pushed([tag |-> "setup", request |-> request, value |-> Address])
  /\ laptop' = [laptop EXCEPT !.stage = "in", !.request = request, !.got = 0, !.pid = "DATA1"]
  /\ UNCHANGED <<core, tx, board, pico, queue, logged, taken>>

SetupNext ==
  /\ laptop.script # <<>> /\ Head(laptop.script) # "reset"
  /\ Begin(Head(laptop.script))

SetupSpare ==
  /\ laptop.script = <<>> /\ laptop.spare < SpareMax
  /\ \E request \in SpareRequests : Begin(request)

\* The transfer is over, and its request in effect.
Ended(l) ==
  [l EXCEPT
     !.stage = "none",
     !.spare = IF l.script = <<>> THEN @ + 1 ELSE @,
     !.script = IF @ = <<>> THEN @ ELSE Tail(@),
     !.address = IF l.request = "address" THEN Address ELSE @,
     !.toggle = IF l.request = "configure" THEN "DATA0" ELSE @]

\* An IN on endpoint 0 takes its next chunk, or fails on another.
InTakes ==
  /\ Answers /\ laptop.stage = "in"
  /\ tx # <<>> /\ Head(tx).endpoint = 0
  /\ tx' = Tail(tx)
  /\ Pushed(Message("ack"))
  /\ LET chunks == Answer(laptop.request)
         due == Head(tx).body = chunks[laptop.got + 1] /\ Head(tx).pid = laptop.pid
         last == laptop.got + 1 = Len(chunks)
         got == [laptop EXCEPT !.got = @ + 1, !.pid = Other(@)]
     IN  laptop' = CASE ~due -> [laptop EXCEPT !.failed = TRUE]
                     [] due /\ ~last -> got
                     [] due /\ last /\ chunks[1] = Empty -> Ended(got)
                     [] due /\ last /\ chunks[1] # Empty -> [got EXCEPT !.stage = "out"]
  /\ UNCHANGED <<core, board, pico, queue, logged, taken>>

\* A read's status stage.
Out ==
  /\ Answers /\ laptop.stage = "out"
  /\ Pushed(Message("out"))
  /\ laptop' = Ended(laptop)
  /\ UNCHANGED <<core, tx, board, pico, queue, logged, taken>>

\* A poll of endpoint 1 takes a report, which is an old one again if its toggle is.
PollTakes ==
  /\ Answers /\ Polls
  /\ tx # <<>> /\ Head(tx).endpoint = 1
  /\ tx' = Tail(tx)
  /\ Pushed(Message("ack"))
  /\ LET fresh == Head(tx).pid = laptop.toggle
     IN  /\ taken' = IF fresh THEN Append(taken, Head(tx).body) ELSE taken
         /\ laptop' = IF fresh THEN [laptop EXCEPT !.toggle = Other(@)] ELSE laptop
  /\ UNCHANGED <<core, board, pico, queue, logged>>

\* An IN finds a reply of the other endpoint first: the core drops it, and NAKs.
Drops(endpoint) ==
  /\ Answers
  /\ tx # <<>> /\ Head(tx).endpoint = endpoint
  /\ tx' = Tail(tx)
  /\ Pushed(Message("dropped"))
  /\ UNCHANGED <<core, board, pico, queue, logged, laptop, taken>>

InDrops == laptop.stage = "in" /\ Drops(1)
PollDrops == Polls /\ Drops(0)

Silent == ~core.running /\ pico.at \notin {"stop", "start"}

\* A reset of the bus, whatever it cuts off: as the laptop enumerates, where nothing
\* answers it any more, or of itself.  The Pico has seen the last one end.
BeginReset ==
  LET scripted == laptop.stage = "none" /\ laptop.script # <<>> /\ Head(laptop.script) = "reset"
      itself == ~scripted /\ ~Silent
  IN  /\ laptop.bus = "idle" /\ pico.since = "none"
      /\ itself => laptop.resets < ResetMax
      /\ laptop' = [laptop EXCEPT
           !.bus = "reset", !.stage = "none", !.address = 0, !.toggle = "DATA0",
           !.resets = IF itself THEN @ + 1 ELSE @,
           !.script = IF scripted THEN Tail(@) ELSE Enumeration]
      /\ UNCHANGED <<core, tx, rx, board, pico, queue, logged, taken>>

\* It lasts, with its recovery, until the Pico has seen it and loaded the core.
EndReset ==
  /\ laptop.bus = "reset"
  /\ pico.since = "fired" /\ pico.at \in {"top", "drain", "push"} /\ board.reload = NoReload
  /\ laptop' = [laptop EXCEPT !.bus = "idle"]
  /\ UNCHANGED <<core, tx, rx, board, pico, queue, logged, taken>>

\* The chip loses its power or is reset, outside of a load: it is halted and empty.
Power ==
  /\ laptop.powers < PowerMax
  /\ pico.at \in {"top", "drain", "push"} /\ board.reload = NoReload
  /\ core' = [core EXCEPT !.running = FALSE, !.configured = FALSE,
                        !.certificate = @ /\ MemoryKept]
  /\ tx' = <<>> /\ rx' = <<>>
  /\ laptop' = [laptop EXCEPT !.powers = @ + 1]
  /\ UNCHANGED <<board, pico, queue, logged, taken>>

-----------------------------------------------------------------------------
(***************************************************************************)
(* The Pico.                                                               *)
(***************************************************************************)

\* se0_reset: SE0 has lasted since an earlier look, and for long enough.
Saw(since, long) == since = "seen" /\ long

\* Mutant: a lost report goes behind the rest.
PutBackLast(lost) == IF lost = None THEN queue ELSE Append(queue, lost)

\* A reset of the bus puts back the report it loses, before the rest.
PutBack(lost) == IF lost = None THEN queue ELSE <<lost>> \o queue

\* The top of serve's loop, which looks for a reset of the bus.
Top ==
  /\ pico.at = "top"
  /\ \E long \in BOOLEAN :
       LET low == laptop.bus = "reset"
           fires == low /\ Saw(pico.since, long)
           b == IF fires THEN Reset ELSE board
       IN  /\ board' = b
           /\ queue' = IF fires THEN PutBack(board.pending) ELSE queue
           /\ pico' = [pico EXCEPT
                !.at = "drain", !.words = <<>>, !.sent = b.pending,
                !.since = CASE ~low -> "none"
                            [] fires -> "fired"
                            [] low /\ ~fires /\ pico.since = "none" -> "seen"
                            [] OTHER -> @]
  /\ UNCHANGED <<core, tx, rx, logged, laptop, taken>>

\* drain: the core's words are popped until none are left.
Drain ==
  /\ pico.at = "drain" /\ rx # <<>>
  /\ pico' = [pico EXCEPT !.words = @ \o rx]
  /\ rx' = <<>>
  /\ UNCHANGED <<core, tx, board, queue, logged, laptop, taken>>

\* A round ends: a report taken is logged, and the next one queued once it may be.
Round(b) ==
  /\ logged' = IF pico.sent # None /\ b.pending = None THEN Append(logged, pico.sent) ELSE logged
  /\ LET types == /\ queue # <<>> /\ b.pending = None /\ b.chunks = <<>>
                  /\ b.configured /\ b.described
     IN  /\ board' = IF types THEN Report(b, Head(queue)) ELSE b
         /\ queue' = IF types THEN Tail(queue) ELSE queue

\* A core found halted may have lost its configuration; any other is patched.
LoadsFull(halted, loaded) == halted \/ loaded = NoReload

\* The status read that finds rx empty: the board is fed, and asks for one thing.
Feed ==
  /\ pico.at = "drain" /\ rx = <<>>
  /\ LET b == FedAll(board, pico.words)
         loads == b.reload # NoReload
         pushes == /\ ~loads /\ b.replies # <<>>
                   /\ TxLevel + Words(Head(b.replies)) <= Depth
     IN  \/ /\ loads
            /\ board' = [b EXCEPT !.reload = NoReload]
            /\ pico' = [pico EXCEPT
                 !.at = "stop", !.loading = b.reload, !.words = <<>>,
                 !.full = LoadsFull(~core.running, pico.loaded)]
            /\ UNCHANGED <<queue, logged>>
         \/ /\ pushes
            /\ board' = b
            /\ pico' = [pico EXCEPT !.at = "push", !.words = <<>>]
            /\ UNCHANGED <<queue, logged>>
         \/ /\ ~loads /\ ~pushes
            /\ pico' = [pico EXCEPT !.at = "top", !.words = <<>>]
            /\ Round(b)
  /\ UNCHANGED <<core, tx, rx, laptop, taken>>

\* A reply goes to the core whole.
Push ==
  /\ pico.at = "push"
  /\ tx' = Append(tx, Head(board.replies))
  /\ Round([board EXCEPT !.replies = Tail(@)])
  /\ pico' = [pico EXCEPT !.at = "top"]
  /\ UNCHANGED <<core, rx, laptop, taken>>

\* load: the core is halted and its queues emptied, its program written.
LoadStop ==
  /\ pico.at = "stop"
  /\ core' = [core EXCEPT !.running = FALSE]
  /\ tx' = <<>> /\ rx' = <<>>
  /\ pico' = [pico EXCEPT !.at = "start"]
  /\ UNCHANGED <<board, queue, logged, laptop, taken>>

\* What the chip checks the program against: the certificate its memory holds.
Accepted == core.certificate /\ (pico.full \/ core.configured)

\* The check accepts and the core starts, or it raises Refused, which nothing catches.
LoadStart ==
  /\ pico.at = "start"
  /\ pico' = IF Accepted THEN [pico EXCEPT !.at = "top", !.loaded = pico.loading]
             ELSE [pico EXCEPT !.at = "refused"]
  /\ core' = IF Accepted
             THEN [core EXCEPT !.running = TRUE, !.configured = TRUE, !.address = pico.loading]
             ELSE core
  /\ IF Accepted THEN Round(Flushed(board)) ELSE UNCHANGED <<board, queue, logged>>
  /\ UNCHANGED <<tx, rx, laptop, taken>>

-----------------------------------------------------------------------------
\* start_log has written the certificate; the laptop sees a device and resets the bus.
Init ==
  /\ core = [running |-> FALSE, configured |-> FALSE, address |-> 0, certificate |-> TRUE]
  /\ tx = <<>> /\ rx = <<>>
  /\ board = Reset
  /\ pico = [at |-> "top", words |-> <<>>, since |-> "none", sent |-> None,
             loading |-> 0, full |-> FALSE, loaded |-> NoReload]
  /\ queue = [n \in 1 .. Reports |-> n]
  /\ logged = <<>>
  /\ laptop = [bus |-> "idle", script |-> <<"reset">> \o Enumeration, stage |-> "none",
               request |-> "none", got |-> 0, pid |-> "DATA1", address |-> 0,
               toggle |-> "DATA0", failed |-> FALSE, spare |-> 0, resets |-> 0, powers |-> 0]
  /\ taken = <<>>

Pico == Top \/ Drain \/ Feed \/ Push \/ LoadStop \/ LoadStart

Laptop ==
  \/ SetupNext \/ SetupSpare \/ InTakes \/ InDrops \/ Out \/ PollTakes \/ PollDrops
  \/ BeginReset \/ EndReset

Next == Pico \/ Laptop \/ Power

\* The Pico never stops and an SE0 it keeps seeing is long enough.  The laptop repeats
\* what is not answered: a control transfer's INs far more often than its polls.
Fairness ==
  /\ WF_vars(Drain \/ Feed \/ Push \/ LoadStop \/ LoadStart)
  /\ WF_vars(Top) /\ SF_vars(Top /\ pico'.since = "fired" /\ pico.since = "seen")
  /\ WF_vars(SetupNext) /\ WF_vars(InDrops) /\ SF_vars(InTakes)
  /\ WF_vars(Out) /\ WF_vars(PollDrops) /\ SF_vars(PollTakes)
  /\ WF_vars(BeginReset /\ laptop'.resets = laptop.resets) /\ WF_vars(EndReset)

Spec == Init /\ [][Next]_vars /\ Fairness

-----------------------------------------------------------------------------
Last(s) == s[Len(s)]

\* The laptop takes every report in order, and each once: a drop, a reset of the bus or
\* a new configuration puts back the reports it did not take (Board.report: "kept until
\* the host has taken it") and none that it took.  Only an ACK that dies with the chip's
\* power has its report taken again.
TypedOnce ==
  /\ taken # <<>> => Head(taken) = 1
  /\ \A i \in 1 .. Len(taken) - 1 : taken[i + 1] - taken[i] \in {0, 1}
  /\ taken # <<>> => Len(taken) - Last(taken) <= laptop.powers

\* The logger sends a key once, in order, and after the laptop took it.
LoggedIsTaken ==
  /\ \A i \in 1 .. Len(logged) : logged[i] = i
  /\ logged # <<>> => taken # <<>> /\ Last(logged) <= Last(taken)

\* Every chunk the laptop reads on endpoint 0 is the next of what it asked for, with the
\* toggle it expects, whatever an earlier transfer, report or reset left queued.
AnswersMatch == ~laptop.failed

\* Whatever is dropped, reset or lost, the laptop ends up with every report.
AllTyped == <>(taken # <<>> /\ Last(taken) = Reports /\ Len(logged) = Reports)

\* "the chip was reset, a full load follows the next bus reset" (python/demo_usb.py): it
\* is a load the chip accepts.
FullLoadFollows == pico.at # "refused"
=============================================================================
