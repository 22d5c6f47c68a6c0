------------------------------ MODULE HostPort ------------------------------
(***************************************************************************)
(* The host port (src/host_port.ml) between a host program                 *)
(* (python/protocol_emulator.py, python/bench.py) and what it reads and    *)
(* writes while engines run: the queues, the engines' time and the edge    *)
(* stamps.                                                                 *)
(*                                                                         *)
(* A step is one clock cycle of the chip.  A frame on the serial link is   *)
(* a command byte and two bytes a word, with any number of cycles between. *)
(* A read's word is latched at the command byte and sent in two bytes; a   *)
(* word of rx is not latched, so its two bytes could differ.  A read's pop *)
(* and a write's effect come a cycle after the word's last byte.           *)
(*                                                                         *)
(* The host program is one job, chosen at the start: a job's registers are *)
(* apart from another's, and only the port is common.                      *)
(***************************************************************************)
EXTENDS Queues, EdgeStamps

CONSTANTS
  ExchangeDepth,  \* DEPTH in bench.py
  LoRange, HiRange,  \* values of each half of an engine's time
  PopAsks,        \* words a call of pop asks for
  Watches,        \* what a host watches: the pins' halves, an engine's time
  WatchesMax      \* bound: how often it sets a watch up

ASSUME HostPortAssumption ==
  /\ ExchangeDepth \in 1 .. Depth
  /\ LoRange \in Nat \ {0} /\ HiRange \in Nat \ {0} /\ WatchesMax \in Nat
  /\ PopAsks \in Nat \ {0}
  /\ Watches \subseteq [mask : Masks, engine : Engines]

TimeRange == LoRange * HiRange
VARIABLES
  now,      \* an engine's time
  select,   \* the engine each call is routed to
  state,    \* of a frame: Idle, Command, High, Low, or Last: its word is out
  word,     \* the latched word
  strobe,   \* write or read_done, with the word written
  frame,    \* the register, the words to write, and how many to read
  high,     \* the byte the host has of the word being read
  reply,    \* the words it has read, as pairs of bytes
  job, at,  \* the host's program: which job, and its place in it
  local,    \* its variables
  span,     \* cycles since a high half of the time was latched
  then      \* history: the time when its low half was latched

portVars == <<now, select, state, word, strobe>>
hostVars == <<frame, high, reply, job, at, local>>
vars == <<queueVars, stampVars, portVars, hostVars, span, then>>

-----------------------------------------------------------------------------
\* The chip's side.

\* What goes over the link is a record of what it says.
Is(number) == [n |-> number]

HeadOr(queue, none) == IF queue = <<>> THEN none ELSE Head(queue)

NoStamp == [n |-> 0, half |-> "lo", engine |-> 0]

ReadValue(reg) ==
  CASE reg = "rx" -> Is(HeadOr(rx[select], Nothing))
    [] reg = "status" -> Is(Len(rx[select]))
    [] reg = "now_hi" -> Is(now \div LoRange)
    [] reg = "now_lo" -> Is(now % LoRange)
    [] reg = "time_hi" -> [level |-> Len(stamps), lost |-> lost,
                           edge |-> HeadOr(stamps, NoStamp)]
    [] reg \in {"time_lo", "pins_lo", "pins_hi"} -> HeadOr(stamps, NoStamp)

\* The word whose bytes go out: rx is sent as it is.
TxWord == IF frame.reg = "rx" THEN ReadValue("rx") ELSE word

Writes(reg) == strobe.ask = "write" /\ frame.reg = reg

\* What a strobe asks of the queues.
QueueAsk ==
  CASE Writes("tx") -> "tx"
    [] Writes("control") -> strobe.value.bit
    [] strobe.ask = "read" /\ frame.reg = "rx" -> "rx_pop"
    [] OTHER -> "none"

\* Mutant: only a new mask empties the queue.
StampFlushOnMask == Writes("stamp_mask")

StampFlush == Writes("stamp_mask") \/ Writes("stamp_control")

\* How long a call of now() may take between the high halves it compares: any
\* longer and the high half could come back to what it was.
NowSpan == TimeRange - LoRange

Latches(reg) == state = "Command" /\ state' = "High" /\ frame.reg = reg

EdgesHere == IF job = "edges" /\ edges < EdgesMax THEN {{}, {"lo"}, {"hi"}} ELSE {{}}

\* The chip in a cycle, in which each engine n does acts[n].
Chip(acts) ==
  /\ QueuesCycle(acts, QueueAsk, select, IF Writes("tx") THEN strobe.value.n ELSE Nothing)
  /\ \E halves \in EdgesHere :
       StampsCycle(halves, strobe.ask = "read" /\ frame.reg = "pins_hi", StampFlush)
  /\ mask' = CASE Writes("stamp_mask") -> (mask \ {"lo"}) \cup (strobe.value.mask \cap {"lo"})
               [] Writes("stamp_control") ->
                    (mask \ {"hi"}) \cup (strobe.value.mask \cap {"hi"})
               [] OTHER -> mask
  /\ timer' = IF Writes("stamp_control") THEN strobe.value.engine ELSE timer
  /\ select' = IF Writes("select") THEN strobe.value.n ELSE select
  /\ now' = IF job = "now" /\ span < NowSpan THEN (now + 1) % TimeRange ELSE now
  /\ span' = IF Latches("now_hi") THEN 1
             ELSE IF job = "now" /\ span < NowSpan THEN span + 1 ELSE span
  /\ then' = IF Latches("now_lo") THEN now ELSE then
  /\ UNCHANGED job

-----------------------------------------------------------------------------
\* The link's side: bytes, in cycles with no strobe.

NoStrobe == [ask |-> "none", value |-> Is(Nothing)]

\* No byte ends in this cycle.  After a read the word is latched again.
Quiet ==
  /\ strobe' = NoStrobe
  /\ word' = IF strobe.ask = "read" THEN ReadValue(frame.reg) ELSE word
  /\ UNCHANGED <<state, frame, high, reply, at, local>>

CommandByte ==
  /\ strobe = NoStrobe /\ state = "Command"
  /\ word' = IF frame.reads > 0 THEN ReadValue(frame.reg) ELSE word
  /\ state' = "High"
  /\ UNCHANGED <<strobe, frame, high, reply, at, local>>

\* A word to write arrives.
WriteWord ==
  /\ strobe = NoStrobe /\ state = "High" /\ frame.writes # <<>>
  /\ strobe' = [ask |-> "write", value |-> Head(frame.writes)]
  /\ frame' = [frame EXCEPT !.writes = Tail(@)]
  /\ UNCHANGED <<state, word, high, reply, at, local>>

\* A word to read goes out in two bytes.
HighByte ==
  /\ strobe = NoStrobe /\ state = "High" /\ frame.reads > 0
  /\ high' = TxWord
  /\ state' = "Low"
  /\ UNCHANGED <<strobe, word, frame, reply, at, local>>

LowByte ==
  /\ strobe = NoStrobe /\ state = "Low"
  /\ reply' = Append(reply, <<high, TxWord>>)
  /\ high' = Is(Nothing)
  /\ state' = "Last"
  /\ UNCHANGED <<strobe, word, frame, at, local>>

ReadDone ==
  /\ strobe = NoStrobe /\ state = "Last"
  /\ strobe' = [ask |-> "read", value |-> Is(Nothing)]
  /\ frame' = [frame EXCEPT !.reads = @ - 1]
  /\ state' = "High"
  /\ UNCHANGED <<word, high, reply, at, local>>

Byte == CommandByte \/ WriteWord \/ HighByte \/ LowByte \/ ReadDone

-----------------------------------------------------------------------------
\* The host's program: between frames it looks at the reply to the last one
\* and begins the next.

Between == strobe = NoStrobe /\ frame.writes = <<>> /\ frame.reads = 0

Write(reg, values) ==
  /\ UNCHANGED <<strobe, word, high>>
  /\ frame' = [reg |-> reg, writes |-> values, reads |-> 0]
  /\ state' = "Command" /\ reply' = <<>>

Read(reg, count) ==
  /\ UNCHANGED <<strobe, word, high>>
  /\ frame' = [reg |-> reg, writes |-> <<>>, reads |-> count]
  /\ state' = "Command" /\ reply' = <<>>

Stays == UNCHANGED <<strobe, word, high, frame, state, reply>>

Goes(place, changed) == at' = place /\ local' = changed

\* bench.load, but for the program itself: both engines stopped and emptied.
Bit(name) == [bit |-> name]

LoadWrites ==
  << <<"select", Is(1)>>, <<"control", Bit("stop")>>, <<"control", Bit("flush")>>,
     <<"select", Is(0)>>, <<"control", Bit("stop")>>, <<"control", Bit("flush")>>,
     <<"select", Is(0)>>, <<"control", Bit("start")>> >>

Load ==
  /\ job = "exchange" /\ at = "load"
  /\ IF local.k <= Len(LoadWrites)
     THEN /\ Write(LoadWrites[local.k][1], <<LoadWrites[local.k][2]>>)
          /\ Goes("load", [local EXCEPT !.k = @ + 1])
     ELSE Stays /\ Goes("room", local)

\* bench.exchange: how many more words may be on their way.
Room == ExchangeDepth - (local.sent - Len(local.got))

Push ==
  /\ job = "exchange" /\ at = "room"
  /\ LET last == IF local.sent + Room > Words THEN Words ELSE local.sent + Room
     IN IF last > local.sent
        THEN /\ Write("tx", [k \in 1 .. last - local.sent |-> Is(local.sent + k)])
             /\ Goes("level", [local EXCEPT !.sent = last])
        ELSE Stays /\ Goes("level", local)

\* The routed engine runs on its own; the host pops the one it feeds.
Select ==
  /\ at = "select"
  /\ Write("select", <<Is(1)>>)
  /\ Goes("level", local)

\* A stray push to an engine another one feeds: once.
Stray ==
  /\ job = "pop" /\ at = "level" /\ ~local.strayed
  /\ Write("tx", <<Is(Stale)>>)
  /\ Goes("level", [local EXCEPT !.strayed = TRUE])

\* rx_level: is there anything to pop?
Level ==
  /\ job \in {"exchange", "pop"} /\ at = "level"
  /\ Read("status", 1)
  /\ Goes(IF job = "exchange" THEN "any" ELSE "status", local)

AnyLevel ==
  /\ at = "any"
  /\ LET level == reply[1][1].n
     IN IF level > 0
        THEN /\ Read("status", 1)
             /\ Goes("status", [local EXCEPT !.level = level])
        ELSE /\ Stays
             /\ Goes(IF Len(local.got) = Words THEN "done" ELSE "room", local)

\* Host.pop: no more than the level, so an empty queue is never read.
PopCount(level) == IF level < local.level THEN level ELSE local.level

Pop ==
  /\ at = "status"
  /\ LET count == PopCount(reply[1][1].n)
     IN IF count > 0
        THEN Read("rx", count) /\ Goes("popped", local)
        ELSE Stays /\ Goes("level", local)

Popped ==
  /\ at = "popped"
  /\ Stays
  /\ LET got == local.got \o reply
     IN Goes(IF Len(got) = Words THEN "done" ELSE IF job = "pop" THEN "level" ELSE "room",
             [local EXCEPT !.got = got])

\* Host.now: the high half before and after the low half, until it stood still.
NowHi ==
  /\ at = "now"
  /\ Read("now_hi", 1)
  /\ Goes("lo", local)

NowLo ==
  /\ at = "lo"
  /\ Read("now_lo", 1)
  /\ Goes("again", [local EXCEPT !.hi = reply[1][1].n])

NowAgain ==
  /\ at = "again"
  /\ Read("now_hi", 1)
  /\ Goes("same", [local EXCEPT !.lo = reply[1][1].n])

\* Mutant: the high half is not read again.
NowAtOnce ==
  /\ at = "same"
  /\ Stays /\ Goes("done", local)

NowSame ==
  /\ at = "same"
  /\ IF reply[1][1].n = local.hi
     THEN Stays /\ Goes("done", local)
     ELSE Read("now_lo", 1) /\ Goes("again", [local EXCEPT !.hi = reply[1][1].n])

\* Host.watch_edges.
WatchMask ==
  /\ at = "watch" /\ local.watches < WatchesMax
  /\ \E watch \in Watches :
       /\ Write("stamp_mask", <<watch>>)
       /\ Goes("control", [local EXCEPT !.watches = @ + 1, !.asked = watch])

WatchControl ==
  /\ at = "control"
  /\ Write("stamp_control", <<local.asked>>)
  /\ Goes("time_hi", [local EXCEPT !.got = <<>>])

\* Host.edge_stamps: each stamp in four reads, the last of which pops it.
TimeHi ==
  /\ at = "time_hi"
  /\ Read("time_hi", 1)
  /\ Goes("time_lo", local)

TimeLo ==
  /\ at = "time_lo"
  /\ LET hi == reply[1][1]
     IN IF hi.level > 0
        THEN /\ Read("time_lo", 1)
             /\ Goes("pins_lo", [local EXCEPT !.stamp = <<hi.edge>>])
        ELSE /\ Stays
             /\ Goes("stamped", [local EXCEPT !.lost = hi.lost])

PinsLo ==
  /\ at = "pins_lo"
  /\ Read("pins_lo", 1)
  /\ Goes("pins_hi", [local EXCEPT !.stamp = Append(@, reply[1][1])])

PinsHi ==
  /\ at = "pins_hi"
  /\ Read("pins_hi", 1)
  /\ Goes("stamp", [local EXCEPT !.stamp = Append(@, reply[1][1])])

Stamp ==
  /\ at = "stamp"
  /\ Read("time_hi", 1)
  /\ Goes("time_lo", [local EXCEPT !.got = Append(@, Append(local.stamp, reply[1][1])),
                                  !.stamp = <<>>])

\* The host calls it again, or watches other pins.
Stamped ==
  /\ at = "stamped"
  /\ Stays
  /\ \E next \in {"time_hi", "watch"} : Goes(next, local)

Program ==
  /\ Between
  /\ \/ Load \/ Select \/ Push \/ Stray \/ Level \/ AnyLevel \/ Pop \/ Popped
     \/ NowHi \/ NowLo \/ NowAgain \/ NowSame
     \/ WatchMask \/ WatchControl \/ TimeHi \/ TimeLo \/ PinsLo \/ PinsHi
     \/ Stamp \/ Stamped

-----------------------------------------------------------------------------
Idle == ~route /\ rx = [n \in Engines |-> <<>>] /\ tx = rx /\ hold = [n \in Engines |-> Nothing]

Init ==
  /\ QueuesInit /\ StampsInit
  /\ now = 0 /\ select = 0 /\ span = 0 /\ then = 0
  /\ state = "Idle" /\ word = Is(Nothing) /\ strobe = NoStrobe
  /\ frame = [reg |-> "status", writes |-> <<>>, reads |-> 0]
  /\ high = Is(Nothing) /\ reply = <<>>
  /\ \/ /\ job = "exchange" /\ ~route /\ at = "load"
        /\ local = [k |-> 1, sent |-> 0, level |-> 0, got |-> <<>>]
     \/ /\ job = "pop" /\ route /\ at = "select"
        /\ local = [level |-> PopAsks, got |-> <<>>, strayed |-> FALSE]
     \/ /\ job = "now" /\ Idle /\ at = "now"
        /\ local = [hi |-> 0, lo |-> 0]
     \/ /\ job = "edges" /\ Idle /\ at = "watch"
        /\ local = [watches |-> 0, asked |-> [mask |-> {}, engine |-> 0],
                    stamp |-> <<>>, got |-> <<>>, lost |-> FALSE]

Host == Quiet \/ Byte \/ Program

CanAct(n) == Acts(n, QueueAsk = "rx_pop" /\ select = n)

Chips ==
  \E a \in CanAct(0), b \in CanAct(1) : Chip([n \in Engines |-> IF n = 0 THEN a ELSE b])

Next == Host /\ Chips

\* The chip's clock never stops, the host goes on with its program, and an
\* engine's firmware goes on when its queues let it.
HostStep == (Byte \/ Program) /\ Chips

Strobes == strobe # NoStrobe /\ Next

EngineStep(n) == Next /\ <<hold[n], room[n]>>' # <<hold[n], room[n]>>

Spec ==
  /\ Init /\ [][Next]_vars
  /\ WF_vars(HostStep) /\ WF_vars(Strobes)
  /\ \A n \in Engines : WF_vars(EngineStep(n))

-----------------------------------------------------------------------------
(***************************************************************************)
(* Properties.                                                             *)
(***************************************************************************)

\* The words the host has read from rx.
GotWords ==
  LET parts == CASE job = "exchange" /\ at = "popped" -> local.got \o reply
                 [] job = "pop" /\ at = "popped" -> local.got \o reply
                 [] job \in {"exchange", "pop"} /\ at # "popped" -> local.got
                 [] OTHER -> <<>>
  IN [i \in 1 .. Len(parts) |-> IF parts[i][1] = parts[i][2] THEN parts[i][1].n ELSE Nothing]

SentWords ==
  CASE job = "exchange" ->
         local.sent - (IF frame.reg = "tx" THEN Len(frame.writes) ELSE 0)
    [] job = "pop" -> made
    [] OTHER -> 0

C == INSTANCE Channel WITH
       total <- IF job \in {"exchange", "pop"} THEN Words ELSE 0,
       sent <- SentWords, got <- GotWords

\* bench.exchange, and a host popping an engine another one feeds, see a
\* channel: every word comes out once, whole and in order, whatever earlier
\* firmware left in the queues and whenever the engines move them, and all
\* come (bench.py: exchange, load; engines.ml: route).
IsAChannel == C!Spec

\* Host.now returns a time of the call: that at which it read the low half.
NowIsNow == job = "now" /\ at = "done" => local.hi * LoRange + local.lo = then

\* A stamp's four reads are of one edge.
Whole(parts) == \A i \in 1 .. 4 : parts[i] = parts[1]

\* Of the pins and the engine the host asked for last.
Asked(edge) == edge.half \in local.asked.mask /\ edge.engine = local.asked.engine

\* The stamps edge_stamps returned since watch_edges are whole, of what it asked
\* for, in order, and unless it says one was lost they are all there were; if
\* it says so, one was (protocol_emulator.py: edge_stamps, watch_edges).
StampsAreTrue ==
  job = "edges" /\ at = "stamped" =>
    LET got == local.got IN
    /\ \A i \in DOMAIN got : Whole(got[i]) /\ Asked(got[i][1])
    /\ \A i \in 2 .. Len(got) : got[i - 1][1].n < got[i][1].n
    /\ ~local.lost => \A i \in DOMAIN got : got[i][1].n = i
    /\ local.lost => Len(got) + Len(stamps) < edges
=============================================================================
