------------------------------ MODULE UsbBoard ------------------------------
(***************************************************************************)
(* The board's half of the low speed USB device: usb_board.Board           *)
(* (python/usb_board.py), as operators on its attributes.  It is fed what  *)
(* the core pushed, a message at a time: a SETUP with its request, an      *)
(* OUT's data, an ACK of what the core sent, or a reply that is gone       *)
(* because an IN for the other endpoint found it first.  The six or two    *)
(* words that follow a tag are taken with it.                              *)
(***************************************************************************)
EXTENDS Integers, Sequences

None == 0

\* The pids of data packets, and the one after each.
Other(pid) == IF pid = "DATA0" THEN "DATA1" ELSE "DATA0"

Empty == <<"empty", 1>>

\* The chunks of what each request is answered with: descriptors, or the empty
\* packet of a status stage.
Answer(request) ==
  CASE request = "device" -> <<<<"device", 1>>, <<"device", 2>>>>
    [] request = "report" -> <<<<"report", 1>>>>
    [] OTHER -> <<Empty>>

\* What the core sends for the next IN of its endpoint: a chunk on 0, a report on 1.
Reply(endpoint, pid, body) == [endpoint |-> endpoint, pid |-> pid, body |-> body]

\* A reply's words: endpoint and pid, lengths, and two bytes of payload in each.
Words(reply) == IF reply.endpoint = 0 /\ reply.body = Empty THEN 2 ELSE 6

-----------------------------------------------------------------------------
\* A bus reset: address 0, unconfigured, nothing pending, and the core to be loaded.
Reset ==
  [address |-> 0, configured |-> FALSE, described |-> FALSE, chunks |-> <<>>,
   toggle |-> "DATA1", report_toggle |-> "DATA0", replies |-> <<>>, queued |-> <<>>,
   new_address |-> None, reload |-> 0, pending |-> None, dropped |-> FALSE]

\* No load is asked for.
NoReload == -1

Queue(b, reply) ==
  [b EXCEPT !.replies = Append(@, reply), !.queued = Append(@, reply)]

\* A report for the interrupt endpoint; kept until the laptop has taken it.
Report(b, report) ==
  Queue([b EXCEPT !.pending = report], Reply(1, b.report_toggle, report))

\* A report put back goes again once nothing of a control transfer is waiting.
Requeue(b) ==
  IF b.dropped /\ b.pending # None /\ b.chunks = <<>> /\ b.replies = <<>>
  THEN Queue([b EXCEPT !.dropped = FALSE], Reply(1, b.report_toggle, b.pending))
  ELSE b

NextChunk(b) ==
  IF b.chunks = <<>> THEN b
  ELSE [Queue([b EXCEPT !.chunks = Tail(@)], Reply(0, b.toggle, Head(b.chunks)))
          EXCEPT !.toggle = Other(@)]

\* Mutant: a transfer's first packet carries on the last one's toggle.
SetupKeepsToggle(b, request, value) ==
  NextChunk(
    [b EXCEPT
       !.chunks = Answer(request),
       !.described = @ \/ request = "report",
       !.new_address = IF request = "address" THEN value ELSE @,
       !.configured = @ \/ request = "configure",
       !.report_toggle = IF request = "configure" THEN "DATA0" ELSE @])

\* SET_ADDRESS takes effect after its status stage, SET_CONFIGURATION at once.
Setup(b, request, value) ==
  NextChunk(
    [b EXCEPT
       !.toggle = "DATA1",
       !.chunks = Answer(request),
       !.described = @ \/ request = "report",
       !.new_address = IF request = "address" THEN value ELSE @,
       !.configured = @ \/ request = "configure",
       !.report_toggle = IF request = "configure" THEN "DATA0" ELSE @])

\* Mutant: an ACK is taken for the report's whenever one is pending.
AckedAny(b, endpoint) ==
  CASE endpoint = 1 \/ b.pending # None ->
         [b EXCEPT !.pending = None, !.report_toggle = Other(@)]
    [] endpoint = 0 /\ b.pending = None /\ b.chunks # <<>> -> NextChunk(b)
    [] endpoint = 0 /\ b.pending = None /\ b.chunks = <<>> /\ b.new_address # None ->
         [b EXCEPT !.address = b.new_address, !.reload = b.new_address, !.new_address = None]
    [] OTHER -> b

\* What an ACK says was taken: a report, a chunk, or SET_ADDRESS's status.
Acked(b, endpoint) ==
  CASE endpoint = 1 ->
         [b EXCEPT !.pending = None, !.report_toggle = Other(@)]
    [] endpoint = 0 /\ b.chunks # <<>> -> NextChunk(b)
    [] endpoint = 0 /\ b.chunks = <<>> /\ b.new_address # None ->
         [b EXCEPT !.address = b.new_address, !.reload = b.new_address, !.new_address = None]
    [] OTHER -> b

\* Mutant: a report the core dropped is forgotten.
DroppedForgets(b) ==
  LET reply == Head(b.queued)
      rest == Tail(b.queued)
      held == Len(rest) - Len(b.replies)
  IN  IF reply.endpoint = 1 THEN [b EXCEPT !.queued = rest]
      ELSE [b EXCEPT
              !.replies = <<reply>> \o @,
              !.queued = SubSeq(rest, 1, held) \o <<reply>> \o SubSeq(rest, held + 1, Len(rest))]

\* A dropped report waits to be put back; a chunk goes again, behind what the fifo holds.
Dropped(b) ==
  LET reply == Head(b.queued)
      rest == Tail(b.queued)
      held == Len(rest) - Len(b.replies)
  IN  IF reply.endpoint = 1 THEN [b EXCEPT !.dropped = TRUE, !.queued = rest]
      ELSE [b EXCEPT
              !.replies = <<reply>> \o @,
              !.queued = SubSeq(rest, 1, held) \o <<reply>> \o SubSeq(rest, held + 1, Len(rest))]

\* A message of the core's.  Each ACK or drop is of the oldest reply queued.
Fed(b, message) ==
  Requeue(
    CASE message.tag = "setup" -> Setup(b, message.request, message.value)
      [] message.tag = "ack" /\ b.queued # <<>> ->
           Acked([b EXCEPT !.queued = Tail(@)], Head(b.queued).endpoint)
      [] message.tag = "dropped" /\ b.queued # <<>> -> Dropped(b)
      [] OTHER -> b)

FedAll(b, messages) ==
  LET fed[n \in 0 .. Len(messages)] == IF n = 0 THEN b ELSE Fed(fed[n - 1], messages[n])
  IN  fed[Len(messages)]

\* The core was loaded again: what it held is lost unanswered, a report put back.
Flushed(b) ==
  LET lost == Len(b.queued) - Len(b.replies)
  IN  Requeue(
        [b EXCEPT
           !.dropped = @ \/ \E i \in 1 .. lost : b.queued[i].endpoint = 1,
           !.queued = SubSeq(@, lost + 1, Len(@))])
=============================================================================
