-------------------------- MODULE KeyboardProofs ---------------------------
(***************************************************************************)
(* The keyboard types every report once and in order, logs what the laptop *)
(* took and answers what it asked, for every number of reports, requests,  *)
(* resets of the bus and losses of power.                                  *)
(*                                                                         *)
(* The board lags behind the core: it has yet to be fed what the Pico has  *)
(* drained and what the core still holds.  The invariant is of the board   *)
(* as it will be once it is fed all of that, so each of the laptop's       *)
(* transactions moves it by one message, and of the reply the Pico is      *)
(* about to push as if it were pushed.                                     *)
(***************************************************************************)
EXTENDS Keyboard, WellFoundedInduction, SequenceTheorems, TLAPS

Pids == {"DATA0", "DATA1"}
Requests == {"none", "idle", "device", "address", "configure", "report"}
Chunks == {Empty, <<"device", 1>>, <<"device", 2>>, <<"report", 1>>}

Replies ==
  [endpoint : {0}, pid : Pids, body : Chunks] \cup [endpoint : {1}, pid : Pids, body : Nat]

Messages ==
  [tag : {"setup", "ack", "out", "dropped"}, request : Requests, value : Nat]

Boards ==
  [address : Nat, configured : BOOLEAN, described : BOOLEAN, chunks : Seq(Chunks),
   toggle : Pids, report_toggle : Pids, replies : Seq(Replies), queued : Seq(Replies),
   new_address : Nat, reload : Int, pending : Nat, dropped : BOOLEAN]

-----------------------------------------------------------------------------
(***************************************************************************)
(* Sequences of two at most, and the folding of messages into a board.     *)
(***************************************************************************)

\* An empty queue, cut in two.
LEMMA CutOfNone ==
  ASSUME NEW S, NEW s \in Seq(S), NEW r \in Seq(S), s \o r = <<>>
  PROVE  s = <<>> /\ r = <<>>
<1>1. Len(s) \in Nat /\ Len(r) \in Nat /\ Len(s) + Len(r) = 0
  OBVIOUS
<1> QED
  BY <1>1

\* A queue of one reply, cut in two.
LEMMA CutOfOne ==
  ASSUME NEW S, NEW s \in Seq(S), NEW r \in Seq(S), NEW a, s \o r = <<a>>
  PROVE  (s = <<a>> /\ r = <<>>) \/ (s = <<>> /\ r = <<a>>)
<1> DEFINE q == s \o r
<1>1. /\ Len(s) \in Nat /\ Len(r) \in Nat /\ Len(q) = Len(s) + Len(r)
      /\ \A i \in 1 .. Len(s) : q[i] = s[i]
      /\ \A i \in 1 .. Len(r) : q[Len(s) + i] = r[i]
  <2>1. \A t, u \in Seq(S) :
          /\ Len(t) \in Nat /\ Len(t \o u) = Len(t) + Len(u)
          /\ \A i \in 1 .. Len(t) : (t \o u)[i] = t[i]
          /\ \A i \in 1 .. Len(u) : (t \o u)[Len(t) + i] = u[i]
    OBVIOUS
  <2> QED
    BY <2>1
<1>2. Len(q) = 1 /\ q[1] = a
  OBVIOUS
<1> HIDE DEF q
<1>3. \A t \in Seq(S) : Len(t) = 0 => t = <<>>
  OBVIOUS
<1>4. \A t \in Seq(S) : Len(t) = 1 => t = <<t[1]>>
  OBVIOUS
<1>5. (Len(s) = 0 /\ Len(r) = 1) \/ (Len(s) = 1 /\ Len(r) = 0)
  BY <1>1, <1>2, SMT
<1>6. CASE Len(s) = 0 /\ Len(r) = 1
  <2>1. r[1] = a
    BY <1>1, <1>2, <1>6, SMT
  <2> QED
    BY <1>3, <1>4, <1>6, <2>1
<1>7. CASE Len(s) = 1 /\ Len(r) = 0
  <2>1. s[1] = a
    BY <1>1, <1>2, <1>7, SMT
  <2> QED
    BY <1>3, <1>4, <1>7, <2>1
<1> QED
  BY <1>5, <1>6, <1>7

\* What becomes of such queues.
LEMMA Short ==
  ASSUME NEW a, NEW b
  PROVE  /\ <<>> \o <<a>> = <<a>> /\ <<a>> \o <<>> = <<a>> /\ <<>> \o <<>> = <<>>
         /\ <<a>> \o <<b>> = <<a, b>> /\ <<>> \o <<a, b>> = <<a, b>>
         /\ <<a, b>> \o <<>> = <<a, b>>
         /\ Head(<<a>>) = a /\ Head(<<a, b>>) = a
         /\ Tail(<<a>>) = <<>> /\ Tail(<<a, b>>) = <<b>>
         /\ Append(<<>>, a) = <<a>> /\ Append(<<a>>, b) = <<a, b>>
         /\ <<>> # <<a>> /\ <<>> # <<a, b>> /\ <<a>> # <<a, b>>
         /\ Len(<<>>) = 0 /\ Len(<<a>>) = 1 /\ Len(<<a, b>>) = 2
<1>1. <<>> \o <<a>> = <<a>> /\ <<a>> \o <<>> = <<a>> /\ <<>> \o <<>> = <<>>
  OBVIOUS
<1>2. <<a>> \o <<b>> = <<a, b>>
  <2> DEFINE q == <<a>> \o <<b>>
  <2>1. <<a>> \in Seq({a, b}) /\ <<b>> \in Seq({a, b})
    OBVIOUS
  <2>2. q \in Seq({a, b}) /\ Len(q) = 2 /\ q[1] = a
    BY <2>1
  <2>3. q[1 + 1] = b
    BY <2>1
  <2>4. \A t \in Seq({a, b}) : Len(t) = 2 => t = <<t[1], t[2]>>
    OBVIOUS
  <2> HIDE DEF q
  <2>5. q = <<a, b>>
    BY <2>2, <2>3, <2>4
  <2> QED
    BY <2>5 DEF q
<1>3. <<>> \o <<a, b>> = <<a, b>> /\ <<a, b>> \o <<>> = <<a, b>>
  OBVIOUS
<1>4. /\ Head(<<a>>) = a /\ Head(<<a, b>>) = a
      /\ Tail(<<a>>) = <<>> /\ Tail(<<a, b>>) = <<b>>
  OBVIOUS
<1>5. Append(<<>>, a) = <<a>> /\ Append(<<a>>, b) = <<a, b>>
  <2>1. Append(<<>>, a) = <<a>>
    OBVIOUS
  <2> DEFINE q == Append(<<a>>, b)
  <2>2. <<a>> \in Seq({a, b}) /\ b \in {a, b}
    OBVIOUS
  <2>3. q \in Seq({a, b}) /\ Len(q) = 2 /\ q[1] = a /\ q[2] = b
    BY <2>2
  <2>4. \A t \in Seq({a, b}) : Len(t) = 2 => t = <<t[1], t[2]>>
    OBVIOUS
  <2> HIDE DEF q
  <2>5. q = <<a, b>>
    BY <2>3, <2>4
  <2> QED
    BY <2>1, <2>5 DEF q
<1>6. /\ Len(<<>>) = 0 /\ Len(<<a>>) = 1 /\ Len(<<a, b>>) = 2
      /\ <<>> # <<a>> /\ <<>> # <<a, b>> /\ <<a>> # <<a, b>>
  OBVIOUS
<1> QED
  BY <1>1, <1>2, <1>3, <1>4, <1>5, <1>6

\* A set of naturals that has a member has a least one.
LEMMA Smallest ==
  ASSUME NEW T \in SUBSET Nat, T # {}
  PROVE  \E m \in T : \A k \in T : m <= k
<1> DEFINE R == OpToRel(<, Nat)
<1>1. IsWellFoundedOn(R, Nat)
  BY NatLessThanWellFounded
<1>2. \A a, b \in Nat : <<a, b>> \in R <=> a < b
  BY DEF OpToRel
<1> HIDE DEF R
<1>3. PICK m \in T : \A k \in T : ~ (<<k, m>> \in R)
  BY <1>1, WFMin
<1>4. \A k \in T : k \in Nat
  OBVIOUS
<1>5. \A k \in T : ~(k < m)
  BY <1>2, <1>3, <1>4
<1> QED
  BY <1>4, <1>5, SMT

\* Induction, for a set in place of a predicate.
LEMMA Induction ==
  ASSUME NEW S, 0 \in S, \A n \in Nat : n \in S => n + 1 \in S
  PROVE  \A n \in Nat : n \in S
<1> SUFFICES ASSUME Nat \ S # {} PROVE FALSE
  OBVIOUS
<1>1. PICK m \in Nat \ S : \A k \in Nat \ S : m <= k
  BY Smallest
<1>2. m # 0 /\ m - 1 \in Nat
  BY <1>1, SMT
<1> QED
  BY <1>1, <1>2, SMT

\* What a board fed n of the messages is, from what it is fed one less.
FedAt(b, messages, n, f) == IF n = 0 THEN b ELSE Fed(f[n - 1], messages[n])

\* The recursion of FedAll.
FedBy(b, messages) == CHOOSE f : f = [n \in 0 .. Len(messages) |-> FedAt(b, messages, n, f)]

\* FedAll is the last value of that recursion.
LEMMA FedAllIs ==
  ASSUME NEW b, NEW messages
  PROVE  FedAll(b, messages) = FedBy(b, messages)[Len(messages)]
  BY DEF FedAll, FedBy, FedAt

\* It has a solution, and FedBy is one.
LEMMA FedByIs ==
  ASSUME NEW b, NEW S, NEW messages \in Seq(S)
  PROVE  FedBy(b, messages) =
           [n \in 0 .. Len(messages) |-> FedAt(b, messages, n, FedBy(b, messages))]
<1> DEFINE Solves(f, n) == f = [k \in 0 .. n |-> FedAt(b, messages, k, f)]
           T == {n \in Nat : \E f : Solves(f, n)}
<1>1. 0 \in T
  <2>1. 0 .. 0 = {0} /\ 0 \in Nat
    BY SMT
  <2>2. [k \in 0 .. 0 |-> b] = [k \in 0 .. 0 |-> FedAt(b, messages, k, [j \in 0 .. 0 |-> b])]
    BY <2>1 DEF FedAt
  <2> QED
    BY <2>1, <2>2
<1>2. ASSUME NEW n \in Nat, n \in T PROVE n + 1 \in T
  <2>1. PICK f : Solves(f, n)
    BY <1>2
  <2> DEFINE g == [k \in 0 .. n + 1 |-> FedAt(b, messages, k, f)]
  <2>2. \A k \in 0 .. n : f[k] = FedAt(b, messages, k, f)
    BY <2>1
  <2> HIDE DEF Solves
  <2>3. \A k \in 0 .. n : k \in 0 .. n + 1
    BY SMT
  <2>4. \A k \in 0 .. n : g[k] = f[k]
    BY <2>2, <2>3
  <2>5. \A k \in 0 .. n + 1 : k # 0 => k - 1 \in 0 .. n
    BY SMT
  <2>6. \A k \in 0 .. n + 1 : FedAt(b, messages, k, f) = FedAt(b, messages, k, g)
    BY <2>4, <2>5 DEF FedAt
  <2>7. g = [k \in 0 .. n + 1 |-> FedAt(b, messages, k, g)]
    BY <2>6, Zenon
  <2> HIDE DEF g
  <2>8. Solves(g, n + 1)
    BY <2>7 DEF Solves
  <2> QED
    BY <2>8
<1>3. Len(messages) \in T
  <2>1. Len(messages) \in Nat
    OBVIOUS
  <2> HIDE DEF T
  <2> QED
    BY <1>1, <1>2, <2>1, Induction
<1>4. PICK f : Solves(f, Len(messages))
  BY <1>3
<1>5. FedBy(b, messages) = CHOOSE g : Solves(g, Len(messages))
  BY DEF FedBy
<1>6. Solves(FedBy(b, messages), Len(messages))
  BY <1>4, <1>5
<1> QED
  BY <1>6

\* The recursion, at one place.
LEMMA FedByAt ==
  ASSUME NEW b, NEW S, NEW messages \in Seq(S), NEW n \in 0 .. Len(messages)
  PROVE  FedBy(b, messages)[n] = FedAt(b, messages, n, FedBy(b, messages))
<1> DEFINE f == FedBy(b, messages)
<1>1. f = [k \in 0 .. Len(messages) |-> FedAt(b, messages, k, f)]
  BY FedByIs
<1> HIDE DEF f
<1>2. f[n] = FedAt(b, messages, n, f)
  BY <1>1
<1> QED
  BY <1>2 DEF f

\* A board that is fed nothing stays as it is.
LEMMA FedNothing ==
  ASSUME NEW b
  PROVE  FedAll(b, <<>>) = b
<1>1. <<>> \in Seq({}) /\ Len(<<>>) = 0 /\ 0 \in 0 .. Len(<<>>)
  BY SMT
<1>2. FedBy(b, <<>>)[0] = FedAt(b, <<>>, 0, FedBy(b, <<>>))
  BY <1>1, FedByAt
<1> QED
  BY <1>1, <1>2, FedAllIs DEF FedAt

\* One message more is fed last.
LEMMA FedOneMore ==
  ASSUME NEW b, NEW S, NEW messages \in Seq(S), NEW message \in S
  PROVE  FedAll(b, Append(messages, message)) = Fed(FedAll(b, messages), message)
<1> DEFINE more == Append(messages, message)
           n == Len(messages)
           f == FedBy(b, messages)
           g == FedBy(b, more)
           T == {k \in Nat : k <= n => g[k] = f[k]}
<1>1. /\ more \in Seq(S) /\ n \in Nat /\ Len(more) = n + 1
      /\ more[n + 1] = message
      /\ \A k \in 1 .. n : more[k] = messages[k]
  OBVIOUS
<1> HIDE DEF more, n
<1>2. \A k \in 0 .. n : f[k] = FedAt(b, messages, k, f)
  BY FedByAt DEF n
<1>3. \A k \in 0 .. n + 1 : g[k] = FedAt(b, more, k, g)
  BY <1>1, FedByAt
<1> HIDE DEF f, g
<1>4. 0 \in T
  BY <1>1, <1>2, <1>3 DEF FedAt
<1>5. ASSUME NEW k \in Nat, k \in T PROVE k + 1 \in T
  <2> SUFFICES ASSUME k + 1 <= n PROVE g[k + 1] = f[k + 1]
    OBVIOUS
  <2>1. k + 1 \in 0 .. n /\ k + 1 \in 0 .. n + 1 /\ k + 1 \in 1 .. n /\ k <= n /\ k + 1 # 0
        /\ (k + 1) - 1 = k
    BY <1>1, SMT
  <2>2. g[k] = f[k] /\ more[k + 1] = messages[k + 1]
    BY <1>1, <1>5, <2>1
  <2> QED
    BY <1>2, <1>3, <2>1, <2>2 DEF FedAt
<1>6. n \in T
  <2> HIDE DEF T
  <2> QED
    BY <1>1, <1>4, <1>5, Induction
<1>7. g[n] = f[n]
  BY <1>1, <1>6
<1>8. n + 1 \in 0 .. n + 1 /\ n + 1 # 0 /\ (n + 1) - 1 = n
  BY <1>1, SMT
<1>9. g[n + 1] = Fed(g[n], message)
  BY <1>1, <1>3, <1>8 DEF FedAt
<1> QED
  BY <1>1, <1>7, <1>9, FedAllIs DEF f, g, n, more

-----------------------------------------------------------------------------
(***************************************************************************)
(* While the core answers the laptop: what the board has queued, and what  *)
(* it still has to say, is what the laptop is waiting for.                 *)
(***************************************************************************)

Scripts ==
  {<<"reset", "device", "reset", "address", "configure", "report">>,
   <<"device", "reset", "address", "configure", "report">>,
   <<"reset", "address", "configure", "report">>,
   <<"address", "configure", "report">>,
   <<"configure", "report">>, <<"report">>, <<>>}

Laptops ==
  [bus : {"idle", "reset"}, script : Scripts, stage : {"none", "in", "out"},
   request : Requests, got : Nat, pid : Pids, address : {0, Address}, toggle : Pids,
   failed : BOOLEAN, spare : Nat, resets : Nat, powers : Nat]

\* The laptop has not yet configured the device since it last reset the bus.
Unconfigured(l) == Len(l.script) >= 2

Configures(l) == l.stage = "in" /\ l.request = "configure"

\* The chunks of a transfer: the one an IN waits for, and those after it.
Awaited(l) == Reply(0, l.pid, Answer(l.request)[l.got + 1])
Later(l) == IF l.request = "device" /\ l.got = 0 THEN <<<<"device", 2>>>> ELSE <<>>

\* What may be queued: the chunk an IN waits for, and the report pending unless it was
\* dropped, in either order.  Only a report that the request to configure will have
\* dropped may have been queued with another toggle.
Queues(b, l) ==
  LET report(pid) == Reply(1, pid, b.pending)
      pids == IF Configures(l) THEN Pids ELSE {b.report_toggle}
      held == b.pending # None /\ ~b.dropped
  IN  CASE ~held /\ l.stage # "in" -> {<<>>}
        [] ~held /\ l.stage = "in" -> {<<Awaited(l)>>}
        [] held /\ l.stage # "in" -> {<<report(b.report_toggle)>>}
        [] held /\ l.stage = "in" ->
             {<<Awaited(l), report(b.report_toggle)>>} \cup {<<report(pid), Awaited(l)>> : pid \in pids}

\* A board that has sent these replies and the laptop agree.
Agree(b, sent, l) ==
  /\ b.queued \in Queues(b, l)
  /\ b.queued = sent \o b.replies
  /\ b.pending = None => ~b.dropped
  /\ b.report_toggle = IF Configures(l) THEN "DATA0" ELSE l.toggle
  /\ Unconfigured(l) /\ ~Configures(l) => ~b.configured /\ b.pending = None /\ l.toggle = "DATA0"
  /\ l.stage # "in" => b.chunks = <<>> /\ b.new_address = None
  /\ l.stage = "in" =>
       /\ l.got = 0 \/ (l.request = "device" /\ l.got = 1)
       /\ b.chunks = Later(l)
       /\ b.toggle = Other(l.pid)
       /\ b.new_address = IF l.request = "address" THEN Address ELSE None

\* What a report put back changes.
LEMMA RequeueIs ==
  ASSUME NEW b \in Boards, NEW c, c = Requeue(b)
  PROVE  /\ c \in Boards
         /\ c.configured = b.configured /\ c.described = b.described /\ c.chunks = b.chunks
         /\ c.toggle = b.toggle /\ c.report_toggle = b.report_toggle
         /\ c.new_address = b.new_address /\ c.reload = b.reload /\ c.pending = b.pending
         /\ b.dropped /\ b.pending # None /\ b.chunks = <<>> /\ b.replies = <<>> =>
              /\ c.replies = <<Reply(1, b.report_toggle, b.pending)>>
              /\ c.queued = Append(b.queued, Reply(1, b.report_toggle, b.pending))
              /\ ~c.dropped
         /\ ~(b.dropped /\ b.pending # None /\ b.chunks = <<>> /\ b.replies = <<>>) =>
              c = b
<1> DEFINE r == Reply(1, b.report_toggle, b.pending)
<1>1. r \in Replies
  BY DEF Boards, Replies, Reply
<1>2. CASE b.dropped /\ b.pending # None /\ b.chunks = <<>> /\ b.replies = <<>>
  <2>1. c = [b EXCEPT !.dropped = FALSE, !.replies = Append(@, r), !.queued = Append(@, r)]
    BY <1>2 DEF Requeue, Queue, Boards
  <2> HIDE DEF r
  <2>2. Append(b.replies, r) \in Seq(Replies) /\ Append(b.queued, r) \in Seq(Replies)
    BY <1>1 DEF Boards
  <2>3. Append(b.replies, r) = <<r>>
    BY <1>2, Short
  <2> QED
    BY <1>2, <2>1, <2>2, <2>3 DEF Boards, r
<1>3. CASE ~(b.dropped /\ b.pending # None /\ b.chunks = <<>> /\ b.replies = <<>>)
  BY <1>3 DEF Requeue
<1> QED
  BY <1>2, <1>3

\* The chunks that answer a request, one by one.
LEMMA AnswerIs ==
  ASSUME NEW request \in Requests
  PROVE  /\ Answer(request) \in Seq(Chunks) /\ Answer(request) # <<>>
         /\ Answer(request)[1] \in Chunks
         /\ Head(Answer(request)) = Answer(request)[1]
         /\ request = "device" =>
              /\ Tail(Answer(request)) = <<<<"device", 2>>>> /\ Len(Answer(request)) = 2
              /\ Answer(request)[2] = <<"device", 2>> /\ Answer(request)[1] # Empty
         /\ request # "device" => Tail(Answer(request)) = <<>> /\ Len(Answer(request)) = 1
         /\ Answer(request)[1] = Empty <=> request \notin {"device", "report"}
<1>1. CASE request = "device"
  <2>1. Answer(request) = <<<<"device", 1>>, <<"device", 2>>>>
    BY <1>1 DEF Answer
  <2>2. <<"device", 1>> # Empty
    BY DEF Empty
  <2> PICK first \in Chunks, second \in Chunks : first = <<"device", 1>> /\ second = <<"device", 2>>
    BY DEF Chunks
  <2>3. /\ Answer(request) \in Seq(Chunks) /\ Answer(request)[1] = first
        /\ Answer(request)[2] = second
    BY <2>1
  <2>4. /\ Head(Answer(request)) = first /\ Tail(Answer(request)) = <<second>>
        /\ Len(Answer(request)) = 2 /\ Answer(request) # <<>>
    BY <2>1, Short
  <2>5. request \in {"device", "report"}
    BY <1>1
  <2> QED
    BY <1>1, <2>2, <2>3, <2>4, <2>5
<1>2. CASE request = "report"
  <2>1. Answer(request) = <<<<"report", 1>>>>
    BY <1>2 DEF Answer
  <2>2. <<"report", 1>> # Empty
    BY DEF Empty
  <2> PICK first \in Chunks : first = <<"report", 1>>
    BY DEF Chunks
  <2>3. Answer(request) \in Seq(Chunks) /\ Answer(request)[1] = first
    BY <2>1
  <2> QED
    BY <1>2, <2>1, <2>2, <2>3, Short
<1>3. CASE request \notin {"device", "report"}
  <2>1. Answer(request) = <<Empty>>
    BY <1>3 DEF Answer
  <2>2. Empty \in Chunks
    BY DEF Chunks
  <2> QED
    BY <1>3, <2>1, <2>2, Short
<1> QED
  BY <1>1, <1>2, <1>3

\* What may be queued, case by case.
LEMMA QueuesIs ==
  ASSUME NEW b, NEW l
  PROVE  /\ b.pending = None \/ b.dropped =>
              /\ l.stage # "in" => <<>> \in Queues(b, l)
              /\ l.stage = "in" => <<Awaited(l)>> \in Queues(b, l)
         /\ ~(b.pending = None \/ b.dropped) /\ l.stage # "in" =>
              <<Reply(1, b.report_toggle, b.pending)>> \in Queues(b, l)
         /\ ~(b.pending = None \/ b.dropped) /\ l.stage = "in" =>
              /\ <<Awaited(l), Reply(1, b.report_toggle, b.pending)>> \in Queues(b, l)
              /\ \A pid \in IF Configures(l) THEN Pids ELSE {b.report_toggle} :
                   <<Reply(1, pid, b.pending), Awaited(l)>> \in Queues(b, l)
  BY DEF Queues

\* What is queued, case by case.
LEMMA QueuesAre ==
  ASSUME NEW b \in Boards, NEW s \in Seq(Replies), NEW l \in Laptops, Agree(b, s, l)
  PROVE  \E pid \in Pids :
           LET report == Reply(1, pid, b.pending)
               held == b.pending # None /\ ~b.dropped
           IN  /\ report \in Replies
               /\ l.stage = "in" => Awaited(l) \in Replies
               /\ ~(Configures(l) /\ b.queued = <<report, Awaited(l)>>) => pid = b.report_toggle
               /\ \/ ~held /\ l.stage # "in" /\ b.queued = <<>> /\ s = <<>> /\ b.replies = <<>>
                  \/ ~held /\ l.stage = "in" /\ b.queued = <<Awaited(l)>>
                  \/ held /\ l.stage # "in" /\ b.queued = <<report>>
                  \/ held /\ l.stage = "in" /\ b.queued = <<Awaited(l), report>>
                  \/ held /\ l.stage = "in" /\ b.queued = <<report, Awaited(l)>>
<1> DEFINE held == b.pending # None /\ ~b.dropped
           report(pid) == Reply(1, pid, b.pending)
<1>1. \A pid \in Pids : report(pid) \in Replies
  BY DEF Replies, Reply, Boards
<1>2. b.report_toggle \in Pids /\ b.replies \in Seq(Replies)
  BY DEF Boards
<1>3. ASSUME l.stage = "in" PROVE Awaited(l) \in Replies
  <2>1. Answer(l.request)[l.got + 1] \in Chunks
    BY <1>3, AnswerIs DEF Agree, Laptops, Chunks
  <2> QED
    BY <2>1 DEF Awaited, Replies, Reply, Laptops
<1>4. /\ b.queued \in Queues(b, l)
      /\ b.queued = s \o b.replies
  BY DEF Agree
<1>5. b.queued = <<>> => s = <<>> /\ b.replies = <<>>
  <2>1. s \o b.replies = <<>> => s = <<>> /\ b.replies = <<>>
    BY <1>2, CutOfNone
  <2> QED
    BY <1>4, <2>1
<1>6. CASE ~held /\ l.stage # "in"
  BY <1>1, <1>2, <1>4, <1>5, <1>6 DEF Queues
<1>7. CASE ~held /\ l.stage = "in"
  BY <1>1, <1>2, <1>3, <1>4, <1>7 DEF Queues
<1>8. CASE held /\ l.stage # "in"
  BY <1>1, <1>2, <1>4, <1>8 DEF Queues
<1>9. CASE held /\ l.stage = "in"
  <2>1. \/ b.queued = <<Awaited(l), report(b.report_toggle)>>
        \/ \E pid \in IF Configures(l) THEN Pids ELSE {b.report_toggle} :
             b.queued = <<report(pid), Awaited(l)>>
    BY <1>4, <1>9 DEF Queues
  <2>2. CASE b.queued = <<Awaited(l), report(b.report_toggle)>>
    BY <1>1, <1>2, <1>3, <1>9, <2>2
  <2>3. CASE \E pid \in IF Configures(l) THEN Pids ELSE {b.report_toggle} :
               b.queued = <<report(pid), Awaited(l)>>
    <3>1. PICK pid \in Pids : /\ b.queued = <<report(pid), Awaited(l)>>
                              /\ ~Configures(l) => pid = b.report_toggle
      BY <1>2, <2>3
    <3> QED
      BY <1>1, <1>3, <1>9, <3>1
  <2> QED
    BY <2>1, <2>2, <2>3
<1> QED
  BY <1>6, <1>7, <1>8, <1>9

\* A board fed a SETUP has the first chunk of its answer queued, the others to come.
LEMMA SetupIs ==
  ASSUME NEW b \in Boards, NEW request \in Requests, NEW value \in Nat,
         NEW message, message = [tag |-> "setup", request |-> request, value |-> value],
         NEW c, c = Fed(b, message),
         NEW reply, reply = Reply(0, "DATA1", Answer(request)[1])
  PROVE  /\ c \in Boards /\ reply \in Replies
         /\ c.chunks = Tail(Answer(request)) /\ c.toggle = "DATA0"
         /\ c.queued = Append(b.queued, reply) /\ c.replies = Append(b.replies, reply)
         /\ c.pending = b.pending /\ c.dropped = b.dropped /\ c.reload = b.reload
         /\ c.configured = (b.configured \/ request = "configure")
         /\ c.report_toggle = (IF request = "configure" THEN "DATA0" ELSE b.report_toggle)
         /\ c.new_address = (IF request = "address" THEN value ELSE b.new_address)
<1> DEFINE chunks == Answer(request)
           d == [b EXCEPT
                   !.toggle = "DATA1", !.chunks = chunks,
                   !.described = @ \/ request = "report",
                   !.new_address = IF request = "address" THEN value ELSE @,
                   !.configured = @ \/ request = "configure",
                   !.report_toggle = IF request = "configure" THEN "DATA0" ELSE @]
           n == NextChunk(d)
<1>1. chunks \in Seq(Chunks) /\ chunks # <<>> /\ chunks[1] \in Chunks /\ Head(chunks) = chunks[1]
      /\ Tail(chunks) \in Seq(Chunks)
  BY AnswerIs
<1>2. reply \in Replies
  BY <1>1 DEF Reply, Replies, Pids
<1>3. c = Requeue(n)
  BY DEF Fed, Setup
<1> HIDE DEF chunks
<1>4. /\ d \in Boards /\ d.toggle = "DATA1" /\ d.chunks = chunks
      /\ d.replies = b.replies /\ d.queued = b.queued /\ d.pending = b.pending
      /\ d.dropped = b.dropped /\ d.reload = b.reload
      /\ d.configured = (b.configured \/ request = "configure")
      /\ d.report_toggle = (IF request = "configure" THEN "DATA0" ELSE b.report_toggle)
      /\ d.new_address = (IF request = "address" THEN value ELSE b.new_address)
  BY ZenonT(60), <1>1 DEF Boards, Pids
<1> HIDE DEF d
<1>5. n = [d EXCEPT !.chunks = Tail(chunks), !.replies = Append(b.replies, reply),
                    !.queued = Append(b.queued, reply), !.toggle = "DATA0"]
  BY <1>1, <1>4 DEF NextChunk, Queue, Other, Boards, chunks
<1>6. /\ Append(b.replies, reply) \in Seq(Replies) /\ Append(b.queued, reply) \in Seq(Replies)
      /\ Append(b.replies, reply) # <<>>
  <2>1. b.replies \in Seq(Replies) /\ b.queued \in Seq(Replies)
    BY DEF Boards
  <2>2. \A t \in Seq(Replies) : Append(t, reply) \in Seq(Replies) /\ Append(t, reply) # <<>>
    BY <1>2
  <2> QED
    BY <2>1, <2>2
<1> HIDE DEF n
<1>7. /\ n \in Boards /\ n.chunks = Tail(chunks) /\ n.toggle = "DATA0"
      /\ n.replies = Append(b.replies, reply) /\ n.queued = Append(b.queued, reply)
      /\ n.pending = d.pending /\ n.dropped = d.dropped /\ n.reload = d.reload
      /\ n.configured = d.configured /\ n.report_toggle = d.report_toggle
      /\ n.new_address = d.new_address
  BY <1>1, <1>4, <1>5, <1>6 DEF Boards, Pids
<1>8. c = n
  BY <1>3, <1>6, <1>7, RequeueIs
<1> QED
  BY <1>2, <1>4, <1>7, <1>8 DEF chunks

\* One more reply is queued.
LEMMA QueuedBehind ==
  ASSUME NEW s \in Seq(Replies), NEW r \in Seq(Replies), NEW reply \in Replies
  PROVE  s \o Append(r, reply) = Append(s \o r, reply)
  OBVIOUS

\* A transfer's SETUP, and the laptop after it.
SetupOf(request) == [tag |-> "setup", request |-> request, value |-> Address]

Asking(l, request) ==
  [l EXCEPT !.stage = "in", !.request = request, !.got = 0, !.pid = "DATA1"]

\* A transfer begins: the laptop and the board agree on its first chunk.
LEMMA BeginsAgree ==
  ASSUME NEW b \in Boards, NEW s \in Seq(Replies), NEW l \in Laptops, Agree(b, s, l),
         l.stage = "none", NEW request \in Requests \ {"none"},
         NEW c, c = Fed(b, SetupOf(request)), NEW m, m = Asking(l, request)
  PROVE  /\ c \in Boards /\ m \in Laptops /\ Agree(c, s, m)
         /\ c.pending = b.pending /\ c.reload = b.reload
<1> DEFINE reply == Reply(0, "DATA1", Answer(request)[1])
           report(pid) == Reply(1, pid, b.pending)
           held == b.pending # None /\ ~b.dropped
<1>1. Address \in Nat /\ Address # None
  BY DEF Address, None
<1>2. /\ c \in Boards /\ reply \in Replies
      /\ c.chunks = Tail(Answer(request)) /\ c.toggle = "DATA0"
      /\ c.queued = Append(b.queued, reply) /\ c.replies = Append(b.replies, reply)
      /\ c.pending = b.pending /\ c.dropped = b.dropped /\ c.reload = b.reload
      /\ c.configured = (b.configured \/ request = "configure")
      /\ c.report_toggle = (IF request = "configure" THEN "DATA0" ELSE b.report_toggle)
      /\ c.new_address = (IF request = "address" THEN Address ELSE b.new_address)
  BY SMTT(40), <1>1, SetupIs DEF SetupOf
<1>3. /\ m \in Laptops /\ m.stage = "in" /\ m.request = request /\ m.got = 0 /\ m.pid = "DATA1"
      /\ m.script = l.script /\ m.toggle = l.toggle
  BY DEF Laptops, Pids, Asking
<1>4. Awaited(m) = reply
  BY <1>3 DEF Awaited
<1>5. Later(m) = Tail(Answer(request))
  BY <1>3, AnswerIs DEF Later
<1>6. \/ ~held /\ b.queued = <<>>
      \/ held /\ b.queued = <<report(b.report_toggle)>>
  BY DEF Agree, Queues
<1>7. c.queued \in Queues(c, m)
  <2>1. CASE ~held /\ b.queued = <<>>
    <3>1. c.queued = <<reply>>
      BY <1>2, <2>1, Short
    <3> QED
      BY <1>2, <1>3, <1>4, <2>1, <3>1 DEF Queues
  <2>2. CASE held /\ b.queued = <<report(b.report_toggle)>>
    <3>1. c.queued = <<report(b.report_toggle), reply>>
      BY ZenonT(60), <1>2, <2>2, Short
    <3>2. b.report_toggle \in IF Configures(m) THEN Pids ELSE {c.report_toggle}
      BY <1>2, <1>3 DEF Boards, Configures
    <3>3. c.pending # None /\ ~c.dropped /\ report(b.report_toggle) = Reply(1, b.report_toggle, c.pending)
      BY <1>2, <2>2
    <3>4. <<Reply(1, b.report_toggle, c.pending), Awaited(m)>> \in Queues(c, m)
      BY <1>3, <3>2, <3>3, QueuesIs
    <3> QED
      BY <1>4, <3>1, <3>3, <3>4
  <2> QED
    BY <1>6, <2>1, <2>2
<1>8. c.queued = s \o c.replies
  <2>1. b.queued = s \o b.replies /\ b.replies \in Seq(Replies)
    BY DEF Agree, Boards
  <2> QED
    BY <1>2, <2>1, QueuedBehind
<1>9. Unconfigured(m) = Unconfigured(l) /\ ~Configures(l)
  BY <1>3 DEF Unconfigured, Configures
<1> QED
  BY ZenonT(60), <1>2, <1>3, <1>5, <1>7, <1>8, <1>9 DEF Agree, Configures, Other

\* A report put back leaves what is agreed.
LEMMA RequeueAgrees ==
  ASSUME NEW b \in Boards, NEW s \in Seq(Replies), NEW l \in Laptops, Agree(b, s, l),
         NEW c, c = Requeue(b)
  PROVE  Agree(c, s, l)
<1> DEFINE report == Reply(1, b.report_toggle, b.pending)
<1> SUFFICES ASSUME b.dropped, b.pending # None, b.chunks = <<>>, b.replies = <<>>
             PROVE  Agree(c, s, l)
  BY RequeueIs
<1>1. /\ c \in Boards
      /\ c.configured = b.configured /\ c.described = b.described /\ c.chunks = b.chunks
      /\ c.toggle = b.toggle /\ c.report_toggle = b.report_toggle
      /\ c.new_address = b.new_address /\ c.pending = b.pending
      /\ c.replies = <<report>> /\ c.queued = Append(b.queued, report) /\ ~c.dropped
  BY RequeueIs
<1>2. report \in Replies
  BY DEF Reply, Replies, Boards
<1>3. b.queued = s
  BY DEF Agree
<1>4. c.queued = s \o c.replies
  <2>1. s \o Append(<<>>, report) = Append(s \o <<>>, report)
    BY <1>2, QueuedBehind
  <2>2. s \o <<>> = s
    OBVIOUS
  <2> QED
    BY <1>1, <1>3, <2>1, <2>2, Short
<1>5. c.queued \in Queues(c, l)
  <2>1. CASE l.stage # "in"
    <3>1. b.queued = <<>>
      BY <2>1 DEF Agree, Queues
    <3>2. c.queued = <<report>>
      BY <1>1, <3>1, Short
    <3> QED
      BY <1>1, <2>1, <3>2, QueuesIs
  <2>2. CASE l.stage = "in"
    <3>1. b.queued = <<Awaited(l)>>
      BY <2>2 DEF Agree, Queues
    <3>2. c.queued = <<Awaited(l), report>>
      BY <1>1, <3>1, Short
    <3> QED
      BY <1>1, <2>2, <3>2, QueuesIs
  <2> QED
    BY <2>1, <2>2
<1> QED
  BY <1>1, <1>4, <1>5 DEF Agree

\* What the laptop is doing is what it has to do.
Asks(l) ==
  /\ l.stage # "none" /\ l.script # <<>> => l.request = Head(l.script)
  /\ l.stage # "none" /\ l.script = <<>> => l.request \in SpareRequests
  /\ l.stage = "out" => l.request \in {"device", "report"}
  /\ l.address = IF Len(l.script) <= 2 THEN Address ELSE 0

\* The laptop's scripts are told apart by their lengths.
LEMMA ScriptLengths ==
  /\ Len(<<"device", "reset", "address", "configure", "report">>) = 5
  /\ Len(<<"reset", "address", "configure", "report">>) = 4
  /\ Len(<<"address", "configure", "report">>) = 3
  /\ Len(<<"configure", "report">>) = 2
<1>1. Len(<<"device", "reset", "address", "configure", "report">>) = 5
  OBVIOUS
<1>2. Len(<<"reset", "address", "configure", "report">>) = 4
  OBVIOUS
<1> QED
  BY <1>1, <1>2

\* What is left of a script says what it asks next.
LEMMA ScriptIs ==
  ASSUME NEW script \in Scripts, NEW n, n = Len(script)
  PROVE  /\ n \in 0 .. 6
         /\ n = 0 <=> script = <<>>
         /\ n = 2 => script = <<"configure", "report">>
         /\ n # 0 =>
              /\ Tail(script) \in Scripts /\ Len(Tail(script)) = n - 1
              /\ Head(script) \in (Requests \ {"none"}) \cup {"reset"}
              /\ n \in {4, 6} => Head(script) = "reset"
              /\ n = 5 => Head(script) = "device"
              /\ n = 3 => Head(script) = "address"
              /\ n = 2 => Head(script) = "configure"
              /\ n = 1 => Head(script) = "report"
<1>1. CASE script = <<"reset", "device", "reset", "address", "configure", "report">>
  <2>1. n = 6 /\ Head(script) = "reset" /\ script # <<>>
    BY <1>1
  <2>2. Tail(script) = <<"device", "reset", "address", "configure", "report">>
    BY <1>1
  <2>3. Tail(script) \in Scripts
    BY <2>2, Zenon DEF Scripts
  <2>4. Len(Tail(script)) = 5
    BY <2>2, ScriptLengths, Zenon
  <2> QED
    BY <2>1, <2>3, <2>4 DEF Requests
<1>2. CASE script = <<"device", "reset", "address", "configure", "report">>
  <2>1. n = 5 /\ Head(script) = "device" /\ script # <<>>
    BY <1>2
  <2>2. Tail(script) = <<"reset", "address", "configure", "report">>
    BY <1>2
  <2>3. Tail(script) \in Scripts
    BY <2>2, Zenon DEF Scripts
  <2>4. Len(Tail(script)) = 4
    BY <2>2, ScriptLengths, Zenon
  <2> QED
    BY <2>1, <2>3, <2>4 DEF Requests
<1>3. CASE script = <<"reset", "address", "configure", "report">>
  <2>1. n = 4 /\ Head(script) = "reset" /\ script # <<>>
    BY <1>3
  <2>2. Tail(script) = <<"address", "configure", "report">>
    BY <1>3
  <2>3. Tail(script) \in Scripts
    BY <2>2, Zenon DEF Scripts
  <2>4. Len(Tail(script)) = 3
    BY <2>2, ScriptLengths, Zenon
  <2> QED
    BY <2>1, <2>3, <2>4 DEF Requests
<1>4. CASE script = <<"address", "configure", "report">>
  <2>1. n = 3 /\ Head(script) = "address" /\ script # <<>>
    BY <1>4
  <2>2. Tail(script) = <<"configure", "report">>
    BY <1>4
  <2>3. Tail(script) \in Scripts
    BY <2>2, Zenon DEF Scripts
  <2>4. Len(Tail(script)) = 2
    BY <2>2, ScriptLengths, Zenon
  <2> QED
    BY <2>1, <2>3, <2>4 DEF Requests
<1>5. CASE script = <<"configure", "report">>
  <2>1. n = 2 /\ Head(script) = "configure" /\ script # <<>> /\ Tail(script) = <<"report">>
    BY <1>5, Short
  <2>2. Tail(script) \in Scripts /\ Len(Tail(script)) = n - 1
    BY <2>1, Short DEF Scripts
  <2> QED
    BY <1>5, <2>1, <2>2 DEF Requests
<1>6. CASE script = <<"report">>
  <2>1. n = 1 /\ Head(script) = "report" /\ script # <<>> /\ Tail(script) = <<>>
    BY <1>6, Short
  <2>2. Tail(script) \in Scripts /\ Len(Tail(script)) = n - 1
    BY <2>1, Short DEF Scripts
  <2> QED
    BY <2>1, <2>2 DEF Requests
<1>7. CASE script = <<>>
  <2>1. n = 0
    BY <1>7
  <2> QED
    BY <1>7, <2>1
<1> QED
  BY <1>1, <1>2, <1>3, <1>4, <1>5, <1>6, <1>7 DEF Scripts

\* A transfer is over: the script has moved on, and the address with it.
LEMMA EndedIs ==
  ASSUME NEW l \in Laptops, Asks(l), l.stage # "none", l.request # "none", NEW m, m = Ended(l)
  PROVE  /\ m \in Laptops /\ Asks(m) /\ m.stage = "none" /\ m.request = l.request
         /\ m.bus = l.bus /\ m.failed = l.failed /\ m.powers = l.powers
         /\ m.toggle = (IF l.request = "configure" THEN "DATA0" ELSE l.toggle)
         /\ Unconfigured(m) => Unconfigured(l) /\ l.request # "configure"
         /\ l.request # "address" => m.address = l.address
         /\ l.request = "address" =>
              /\ Unconfigured(l) /\ l.address = 0 /\ m.address = Address
              /\ m.script = <<"configure", "report">>
<1> DEFINE script == IF l.script = <<>> THEN l.script ELSE Tail(l.script)
<1>1. l.script \in Scripts /\ l.request \in Requests
  BY DEF Laptops
<1>0. PICK n \in 0 .. 6 : n = Len(l.script)
  BY <1>1, ScriptIs
<1>2. /\ n = 0 <=> l.script = <<>>
      /\ n # 0 =>
           /\ Tail(l.script) \in Scripts /\ Len(Tail(l.script)) = n - 1
           /\ n \in {4, 6} => Head(l.script) = "reset"
           /\ n = 5 => Head(l.script) = "device"
           /\ n = 3 => Head(l.script) = "address"
           /\ n = 2 => Head(l.script) = "configure"
           /\ n = 1 => Head(l.script) = "report"
  <2>1. n = 0 <=> l.script = <<>>
    BY <1>0, <1>1, ScriptIs
  <2>2. n # 0 => Tail(l.script) \in Scripts /\ Len(Tail(l.script)) = n - 1
    BY <1>0, <1>1, ScriptIs
  <2>3. n # 0 =>
          /\ n \in {4, 6} => Head(l.script) = "reset"
          /\ n = 5 => Head(l.script) = "device"
          /\ n = 3 => Head(l.script) = "address"
          /\ n = 2 => Head(l.script) = "configure"
          /\ n = 1 => Head(l.script) = "report"
    BY <1>0, <1>1, ScriptIs, Zenon
  <2> QED
    BY <2>1, <2>2, <2>3
<1>3. /\ script \in Scripts /\ Len(script) = IF n = 0 THEN 0 ELSE n - 1
  BY <1>1, <1>2
<1>4. Len(script) = 2 => script = <<"configure", "report">>
  BY <1>3, ScriptIs
<1> HIDE DEF script
<1>5. m = [l EXCEPT !.stage = "none",
                    !.spare = IF l.script = <<>> THEN @ + 1 ELSE @,
                    !.script = script,
                    !.address = IF l.request = "address" THEN Address ELSE @,
                    !.toggle = IF l.request = "configure" THEN "DATA0" ELSE @]
  BY DEF Ended, script, Laptops
<1>6. /\ m \in Laptops /\ m.stage = "none" /\ m.request = l.request /\ m.script = script
      /\ m.bus = l.bus /\ m.failed = l.failed /\ m.powers = l.powers
      /\ m.toggle = (IF l.request = "configure" THEN "DATA0" ELSE l.toggle)
      /\ m.address = IF l.request = "address" THEN Address ELSE l.address
  <2>1. l.spare + 1 \in Nat
    BY DEF Laptops
  <2>2. (IF l.script = <<>> THEN l.spare + 1 ELSE l.spare) \in Nat
    BY <2>1 DEF Laptops
  <2>3. (IF l.request = "address" THEN Address ELSE l.address) \in {0, Address}
    BY DEF Laptops
  <2>4. (IF l.request = "configure" THEN "DATA0" ELSE l.toggle) \in Pids
    BY DEF Laptops, Pids
  <2> QED
    BY ZenonT(60), <1>3, <1>5, <2>2, <2>3, <2>4 DEF Laptops
<1>7. l.request = "address" => n = 3
  BY <1>1, <1>2, KeyboardAssumption DEF Asks
<1>8. n # 0 /\ n # 3 => l.request # "address"
  BY <1>2, <1>7
<1>9. l.request = "configure" => n \in {0, 2}
  BY <1>1, <1>2, KeyboardAssumption DEF Asks
<1>10. n # 0 => n \notin {4, 6} /\ (n = 3 => l.request = "address") /\ (n = 2 => l.request = "configure")
  <2>1. n # 0 => l.request = Head(l.script)
    BY <1>2 DEF Asks
  <2>2. "reset" \notin Requests
    BY DEF Requests
  <2> QED
    BY <1>1, <1>2, <2>1, <2>2
<1>11. /\ Len(script) <= 2 <=> n <= 3
       /\ n = 3 => Len(script) = 2
       /\ Len(script) >= 2 => n >= 3
  BY <1>3, SMT
<1>12. m.address = IF Len(m.script) <= 2 THEN Address ELSE 0
  <2>1. CASE n = 3
    BY <1>6, <1>10, <1>11, <2>1
  <2>2. CASE n # 3
    <3>1. l.address = IF n <= 2 THEN Address ELSE 0
      BY <1>0 DEF Asks
    <3>2. n <= 2 <=> n <= 3
      BY <2>2, SMT
    <3> QED
      BY <1>6, <1>7, <1>11, <2>2, <3>1, <3>2
  <2> QED
    BY <2>1, <2>2
<1>13. Asks(m)
  BY <1>6, <1>12 DEF Asks
<1>14. Unconfigured(m) => Unconfigured(l) /\ l.request # "configure"
  <2> SUFFICES ASSUME Len(script) >= 2 PROVE n >= 2 /\ l.request # "configure"
    BY <1>0, <1>6 DEF Unconfigured
  <2>1. n >= 3
    BY <1>11
  <2>2. n >= 2 /\ n \notin {0, 2}
    BY <2>1, SMT
  <2> QED
    BY <1>9, <2>2
<1>15. ASSUME l.request = "address"
       PROVE  /\ Unconfigured(l) /\ l.address = 0 /\ m.address = Address
              /\ m.script = <<"configure", "report">>
  <2>1. n = 3 /\ Len(script) = 2
    BY <1>7, <1>11, <1>15
  <2>2. ~(3 <= 2) /\ 3 >= 2
    BY SMT
  <2> QED
    BY <1>0, <1>4, <1>6, <1>15, <2>1, <2>2 DEF Unconfigured, Asks
<1> QED
  BY <1>6, <1>13, <1>14, <1>15

\* The oldest reply is taken from those that were sent.
LEMMA FirstTaken ==
  ASSUME NEW s \in Seq(Replies), NEW r \in Seq(Replies), s # <<>>
  PROVE  /\ s \o r # <<>> /\ Head(s \o r) = Head(s) /\ Tail(s \o r) = Tail(s) \o r
         /\ Tail(s) \in Seq(Replies) /\ s \o r \in Seq(Replies) /\ Head(s) \in Replies
<1>1. /\ Len(s) \in Nat /\ Len(r) \in Nat /\ Len(s) # 0
      /\ Tail(s) \in Seq(Replies) /\ s \o r \in Seq(Replies) /\ Head(s) \in Replies
      /\ Len(s \o r) = Len(s) + Len(r)
      /\ Head(s) = s[1] /\ (s \o r)[1] = s[1]
  OBVIOUS
<1>2. s \o r # <<>>
  BY <1>1
<1>3. Head(s \o r) = Head(s)
  BY <1>1, <1>2
<1>4. Tail(s \o r) = Tail(s) \o r
  BY <1>1, <1>2
<1> QED
  BY <1>1, <1>2, <1>3, <1>4

\* Of a report and a chunk the endpoint tells which is first.
LEMMA FirstIs ==
  ASSUME NEW b \in Boards, NEW s \in Seq(Replies), NEW l \in Laptops, Agree(b, s, l), s # <<>>
  PROVE  LET report(pid) == Reply(1, pid, b.pending)
             held == b.pending # None /\ ~b.dropped
             rest == Tail(s) \o b.replies
         IN  /\ b.queued # <<>> /\ Head(b.queued) = Head(s) /\ Tail(b.queued) = rest
             /\ Tail(s) \in Seq(Replies) /\ rest \in Seq(Replies)
             /\ Head(s).endpoint \in {0, 1}
             /\ Head(s).endpoint = 0 =>
                  /\ l.stage = "in" /\ Head(s) = Awaited(l)
                  /\ ~held => rest = <<>>
                  /\ held => rest = <<report(b.report_toggle)>>
             /\ Head(s).endpoint = 1 =>
                  /\ held /\ Head(s).body = b.pending
                  /\ ~Configures(l) => Head(s).pid = b.report_toggle
                  /\ l.stage # "in" => rest = <<>>
                  /\ l.stage = "in" => rest = <<Awaited(l)>>
<1> DEFINE held == b.pending # None /\ ~b.dropped
           rest == Tail(s) \o b.replies
<1>1. b.queued = s \o b.replies /\ b.replies \in Seq(Replies)
  BY DEF Agree, Boards
<1>2. /\ b.queued # <<>> /\ Head(b.queued) = Head(s) /\ Tail(b.queued) = rest
      /\ Tail(s) \in Seq(Replies) /\ rest \in Seq(Replies)
  <2>1. rest \in Seq(Replies)
    BY <1>1, FirstTaken
  <2> QED
    BY SMTT(40), <1>1, <2>1, FirstTaken
<1> HIDE DEF rest
<1>3. PICK pid \in Pids :
        LET report == Reply(1, pid, b.pending)
        IN  /\ report \in Replies
            /\ l.stage = "in" => Awaited(l) \in Replies
            /\ ~(Configures(l) /\ b.queued = <<report, Awaited(l)>>) => pid = b.report_toggle
            /\ \/ ~held /\ l.stage # "in" /\ b.queued = <<>> /\ s = <<>> /\ b.replies = <<>>
               \/ ~held /\ l.stage = "in" /\ b.queued = <<Awaited(l)>>
               \/ held /\ l.stage # "in" /\ b.queued = <<report>>
               \/ held /\ l.stage = "in" /\ b.queued = <<Awaited(l), report>>
               \/ held /\ l.stage = "in" /\ b.queued = <<report, Awaited(l)>>
  BY QueuesAre
<1> DEFINE report == Reply(1, pid, b.pending)
<1>4. report.endpoint = 1 /\ report.body = b.pending /\ report.pid = pid /\ Awaited(l).endpoint = 0
  BY DEF Reply, Awaited
<1> HIDE DEF report
<1>5. CASE ~held /\ l.stage = "in" /\ b.queued = <<Awaited(l)>>
  <2>1. Head(s) = Awaited(l) /\ rest = <<>>
    BY <1>2, <1>5, Short
  <2> QED
    BY <1>2, <1>4, <1>5, <2>1 DEF rest
<1>6. CASE held /\ l.stage # "in" /\ b.queued = <<report>>
  <2>1. Head(s) = report /\ rest = <<>>
    BY <1>2, <1>6, Short
  <2>2. ~Configures(l)
    BY <1>6 DEF Configures
  <2>3. pid = b.report_toggle
    BY <1>3, <2>2
  <2> QED
    BY <1>2, <1>4, <1>6, <2>1, <2>3 DEF rest
<1>7. CASE held /\ l.stage = "in" /\ b.queued = <<Awaited(l), report>>
  <2>1. Head(s) = Awaited(l) /\ rest = <<report>>
    BY <1>2, <1>7, Short
  <2>2. b.queued # <<report, Awaited(l)>>
    BY <1>4, <1>7
  <2>3. pid = b.report_toggle
    BY <1>3, <2>2 DEF report
  <2> QED
    BY <1>2, <1>4, <1>7, <2>1, <2>3 DEF rest, report
<1>8. CASE held /\ l.stage = "in" /\ b.queued = <<report, Awaited(l)>>
  <2>1. Head(s) = report /\ rest = <<Awaited(l)>>
    BY <1>2, <1>8, Short
  <2>2. ~Configures(l) => pid = b.report_toggle
    BY <1>3
  <2> QED
    BY <1>2, <1>4, <1>8, <2>1, <2>2 DEF rest
<1> QED
  BY <1>2, <1>3, <1>5, <1>6, <1>7, <1>8 DEF report

\* A request that is asked is one of those there are.
LEMMA AskedIs ==
  ASSUME NEW l \in Laptops, Asks(l), l.stage # "none"
  PROVE  l.request # "none"
<1>1. l.script \in Scripts
  BY DEF Laptops
<1>2. l.script # <<>> => Head(l.script) # "none"
  <2>1. l.script # <<>> => Head(l.script) \in (Requests \ {"none"}) \cup {"reset"}
    BY <1>1, ScriptIs
  <2> QED
    BY <2>1
<1> QED
  BY <1>2, KeyboardAssumption DEF Asks

\* What an ACK of a chunk leaves, before a report is put back.
LEMMA AckedChunkIs ==
  ASSUME NEW b \in Boards, NEW rest \in Seq(Replies), NEW d, d = [b EXCEPT !.queued = rest],
         NEW a, a = Acked(d, 0), NEW body \in Chunks, b.chunks \in {<<>>, <<body>>},
         NEW reply, reply = Reply(0, b.toggle, body)
  PROVE  /\ a \in Boards /\ a.pending = b.pending /\ a.dropped = b.dropped
         /\ a.configured = b.configured /\ a.report_toggle = b.report_toggle
         /\ a.chunks = <<>>
         /\ b.chunks = <<>> =>
              /\ a.queued = rest /\ a.replies = b.replies /\ a.new_address = None
              /\ a.reload = IF b.new_address = None THEN b.reload ELSE b.new_address
         /\ b.chunks # <<>> =>
              /\ a.queued = Append(rest, reply)
              /\ a.replies = Append(b.replies, reply)
              /\ a.toggle = Other(b.toggle)
              /\ a.new_address = b.new_address /\ a.reload = b.reload
<1>1. /\ d \in Boards /\ d.queued = rest /\ d.replies = b.replies /\ d.chunks = b.chunks
      /\ d.pending = b.pending /\ d.dropped = b.dropped /\ d.configured = b.configured
      /\ d.report_toggle = b.report_toggle /\ d.new_address = b.new_address
      /\ d.toggle = b.toggle /\ d.reload = b.reload
  BY DEF Boards
<1>2. CASE b.chunks = <<>> /\ b.new_address = None
  <2>1. a = d
    BY <1>1, <1>2 DEF Acked
  <2> QED
    BY <1>1, <1>2, <2>1
<1>3. CASE b.chunks = <<>> /\ b.new_address # None
  <2>1. a = [d EXCEPT !.address = d.new_address, !.reload = d.new_address, !.new_address = None]
    BY <1>1, <1>3 DEF Acked
  <2>2. d.new_address \in Nat /\ d.new_address \in Int /\ None \in Nat
    BY <1>1 DEF Boards, None
  <2> QED
    BY <1>1, <1>3, <2>1, <2>2 DEF Boards
<1>4. CASE b.chunks = <<body>>
  <2>1. b.chunks # <<>> /\ Head(b.chunks) = body /\ Tail(b.chunks) = <<>>
    BY <1>4, Short
  <2>2. reply \in Replies
    BY DEF Reply, Replies, Boards
  <2>3. a = NextChunk(d)
    BY <1>1, <2>1 DEF Acked
  <2>4. a = [d EXCEPT !.chunks = <<>>, !.replies = Append(b.replies, reply),
                      !.queued = Append(rest, reply), !.toggle = Other(b.toggle)]
    BY ZenonT(60), <1>1, <2>1, <2>3 DEF NextChunk, Queue, Boards
  <2>5. /\ Append(b.replies, reply) \in Seq(Replies) /\ Append(rest, reply) \in Seq(Replies)
        /\ Other(b.toggle) \in Pids /\ <<>> \in Seq(Chunks)
    BY <2>2 DEF Boards, Other, Pids
  <2> QED
    BY ZenonT(60), <1>1, <2>1, <2>4, <2>5 DEF Boards
<1> QED
  BY <1>2, <1>3, <1>4

\* The laptop once an IN has had the chunk it waits for.
AfterChunk(l) ==
  LET got == [l EXCEPT !.got = @ + 1, !.pid = Other(@)]
  IN  CASE l.got + 1 # Len(Answer(l.request)) -> got
        [] l.got + 1 = Len(Answer(l.request)) /\ Answer(l.request)[1] = Empty -> Ended(got)
        [] OTHER -> [got EXCEPT !.stage = "out"]

\* A chunk taken is followed by the next one, by an OUT, or by the end of the transfer.
LEMMA AfterChunkIs ==
  ASSUME NEW l \in Laptops, Asks(l), l.stage = "in", NEW m, m = AfterChunk(l),
         l.got = 0 \/ (l.request = "device" /\ l.got = 1)
  PROVE  /\ m \in Laptops /\ Asks(m) /\ m.request = l.request
         /\ m.bus = l.bus /\ m.failed = l.failed /\ m.powers = l.powers
         /\ Later(l) # <<>> =>
              /\ m.stage = "in" /\ m.got = 1 /\ l.request = "device" /\ m.pid = Other(l.pid)
              /\ m.script = l.script /\ m.toggle = l.toggle /\ m.address = l.address
         /\ Later(l) = <<>> =>
              /\ m.stage # "in"
              /\ m.stage = "out" => l.request \notin {"address", "configure"}
              /\ m.toggle = (IF l.request = "configure" THEN "DATA0" ELSE l.toggle)
              /\ Unconfigured(m) => Unconfigured(l) /\ l.request # "configure"
              /\ l.request # "address" => m.address = l.address
              /\ l.request = "address" =>
                   /\ Unconfigured(l) /\ l.address = 0 /\ m.address = Address
                   /\ m.stage = "none" /\ m.script = <<"configure", "report">>
<1> DEFINE got == [l EXCEPT !.got = @ + 1, !.pid = Other(@)]
           chunks == Answer(l.request)
<1>1. /\ got \in Laptops /\ got.stage = "in" /\ got.request = l.request /\ got.got = l.got + 1
      /\ got.pid = Other(l.pid) /\ got.script = l.script /\ got.toggle = l.toggle
      /\ got.address = l.address /\ got.bus = l.bus /\ got.failed = l.failed
      /\ got.powers = l.powers
  <2>1. l.got + 1 \in Nat /\ Other(l.pid) \in Pids
    BY DEF Laptops, Other, Pids
  <2> QED
    BY <2>1 DEF Laptops
<1>2. /\ l.request = "device" => Len(chunks) = 2 /\ chunks[1] # Empty
      /\ l.request # "device" => Len(chunks) = 1
      /\ chunks[1] = Empty <=> l.request \notin {"device", "report"}
  BY AnswerIs DEF Laptops
<1>3. /\ m = CASE l.got + 1 # Len(chunks) -> got
               [] l.got + 1 = Len(chunks) /\ chunks[1] = Empty -> Ended(got)
               [] OTHER -> [got EXCEPT !.stage = "out"]
  BY DEF AfterChunk
<1> HIDE DEF got, chunks
<1>4. Asks(got)
  BY <1>1 DEF Asks
<1>5. <<<<"device", 2>>>> # <<>>
  BY Short
<1>6. Later(l) # <<>> <=> l.request = "device" /\ l.got = 0
  BY <1>5 DEF Later
<1>7. CASE l.request = "device" /\ l.got = 0
  <2>1. m = got
    BY <1>2, <1>3, <1>7
  <2> QED
    BY <1>1, <1>4, <1>6, <1>7, <2>1
<1>8. CASE l.request = "device" /\ l.got = 1
  <2>1. m = [got EXCEPT !.stage = "out"]
    BY <1>2, <1>3, <1>8
  <2>2. /\ m \in Laptops /\ m.stage = "out" /\ m.request = l.request
        /\ m.script = l.script /\ m.toggle = l.toggle /\ m.address = l.address
        /\ m.bus = l.bus /\ m.failed = l.failed /\ m.powers = l.powers
    BY <1>1, <2>1 DEF Laptops
  <2>3. Asks(m)
    BY <1>4, <1>1, <1>8, <2>2 DEF Asks
  <2> QED
    BY <1>6, <1>8, <2>2, <2>3 DEF Unconfigured
<1>9. CASE l.request = "report"
  <2>1. m = [got EXCEPT !.stage = "out"]
    BY <1>2, <1>3, <1>9
  <2>2. /\ m \in Laptops /\ m.stage = "out" /\ m.request = l.request
        /\ m.script = l.script /\ m.toggle = l.toggle /\ m.address = l.address
        /\ m.bus = l.bus /\ m.failed = l.failed /\ m.powers = l.powers
    BY <1>1, <2>1 DEF Laptops
  <2>3. Asks(m)
    BY <1>4, <1>1, <1>9, <2>2 DEF Asks
  <2> QED
    BY <1>6, <1>9, <2>2, <2>3 DEF Unconfigured
<1>10. CASE l.request \notin {"device", "report"}
  <2>a. l.got = 0 /\ Len(chunks) = 1 /\ chunks[1] = Empty
    BY <1>2, <1>10
  <2>0. l.got + 1 = Len(chunks) /\ chunks[1] = Empty
    BY <2>a
  <2>1. m = Ended(got)
    BY <1>3, <2>0
  <2>2. got.request # "none"
    BY <1>1, AskedIs
  <2>3. /\ m \in Laptops /\ Asks(m) /\ m.stage = "none" /\ m.request = got.request
        /\ m.bus = got.bus /\ m.failed = got.failed /\ m.powers = got.powers
        /\ m.toggle = (IF got.request = "configure" THEN "DATA0" ELSE got.toggle)
        /\ Unconfigured(m) => Unconfigured(got) /\ got.request # "configure"
        /\ got.request # "address" => m.address = got.address
        /\ got.request = "address" =>
             /\ Unconfigured(got) /\ got.address = 0 /\ m.address = Address
             /\ m.script = <<"configure", "report">>
    BY <1>1, <1>4, <2>1, <2>2, EndedIs
  <2>4. Unconfigured(got) = Unconfigured(l)
    BY <1>1 DEF Unconfigured
  <2> QED
    BY <1>1, <1>6, <1>10, <2>3, <2>4
<1> QED
  BY <1>7, <1>8, <1>9, <1>10

\* An IN takes the chunk it waits for, and the board goes on to the next.
LEMMA ChunkTaken ==
  ASSUME NEW b \in Boards, NEW s \in Seq(Replies), NEW l \in Laptops, Agree(b, s, l), Asks(l),
         s # <<>>, l.stage = "in", Head(s).endpoint = 0,
         NEW message, message.tag = "ack", NEW c, c = Fed(b, message), NEW m, m = AfterChunk(l)
  PROVE  /\ Head(s) = Awaited(l)
         /\ c \in Boards /\ c.pending = b.pending /\ c.configured = b.configured
         /\ Agree(c, Tail(s), m)
         /\ l.request # "address" => c.reload = b.reload
         /\ l.request = "address" => c.reload = Address
<1> DEFINE rest == Tail(s) \o b.replies
           held == b.pending # None /\ ~b.dropped
           report == Reply(1, b.report_toggle, b.pending)
<1>1. /\ b.queued # <<>> /\ Head(b.queued) = Head(s) /\ Tail(b.queued) = rest
      /\ Tail(s) \in Seq(Replies) /\ rest \in Seq(Replies)
      /\ Head(s) = Awaited(l)
      /\ ~held => rest = <<>>
      /\ held => rest = <<report>>
  BY FirstIs
<1>d. PICK d : d = [b EXCEPT !.queued = rest]
  OBVIOUS
<1>a. PICK a : a = Acked(d, 0)
  OBVIOUS
<1>2. c = Requeue(a)
  BY <1>1, <1>a, <1>d DEF Fed
<1>3. /\ b.chunks = Later(l) /\ b.toggle = Other(l.pid)
      /\ b.new_address = (IF l.request = "address" THEN Address ELSE None)
      /\ l.got = 0 \/ (l.request = "device" /\ l.got = 1)
  BY DEF Agree
<1> DEFINE body == <<"device", 2>>
<1>4. body \in Chunks /\ Later(l) \in {<<>>, <<body>>} /\ <<body>> # <<>>
  BY Short DEF Later, Chunks
<1> HIDE DEF body, rest
<1>r. PICK reply : reply = Reply(0, b.toggle, body)
  OBVIOUS
<1>5. /\ a \in Boards /\ a.pending = b.pending /\ a.dropped = b.dropped
      /\ a.configured = b.configured /\ a.report_toggle = b.report_toggle
      /\ a.chunks = <<>>
      /\ b.chunks = <<>> =>
           /\ a.queued = rest /\ a.replies = b.replies /\ a.new_address = None
           /\ a.reload = IF b.new_address = None THEN b.reload ELSE b.new_address
      /\ b.chunks # <<>> =>
           /\ a.queued = Append(rest, reply)
           /\ a.replies = Append(b.replies, reply)
           /\ a.toggle = Other(b.toggle)
           /\ a.new_address = b.new_address /\ a.reload = b.reload
  <2>1. b.chunks \in {<<>>, <<body>>}
    BY <1>3, <1>4
  <2>3. body \in Chunks /\ rest \in Seq(Replies)
    BY <1>1, <1>4
  <2> HIDE DEF report, held
  <2>4. /\ a \in Boards /\ a.pending = b.pending /\ a.dropped = b.dropped
        /\ a.configured = b.configured /\ a.report_toggle = b.report_toggle
        /\ a.chunks = <<>>
    BY <1>a, <1>d, <1>r, <2>1, <2>3, AckedChunkIs
  <2>5. b.chunks = <<>> =>
          /\ a.queued = rest /\ a.replies = b.replies /\ a.new_address = None
          /\ a.reload = IF b.new_address = None THEN b.reload ELSE b.new_address
    BY <1>a, <1>d, <1>r, <2>1, <2>3, AckedChunkIs
  <2>6. b.chunks # <<>> => a.queued = Append(rest, reply)
    BY SMTT(40), <1>a, <1>d, <1>r, <2>1, <2>3, AckedChunkIs
  <2>7. b.chunks # <<>> => a.replies = Append(b.replies, reply)
    BY SMTT(40), <1>a, <1>d, <1>r, <2>1, <2>3, AckedChunkIs
  <2>8. b.chunks # <<>> =>
           /\ a.toggle = Other(b.toggle)
           /\ a.new_address = b.new_address /\ a.reload = b.reload
    BY <1>a, <1>d, <1>r, <2>1, <2>3, AckedChunkIs
  <2> QED
    BY <2>4, <2>5, <2>6, <2>7, <2>8
<1>6. /\ m \in Laptops /\ Asks(m) /\ m.request = l.request
      /\ m.bus = l.bus /\ m.failed = l.failed /\ m.powers = l.powers
      /\ Later(l) # <<>> =>
           /\ m.stage = "in" /\ m.got = 1 /\ l.request = "device" /\ m.pid = Other(l.pid)
           /\ m.script = l.script /\ m.toggle = l.toggle /\ m.address = l.address
      /\ Later(l) = <<>> =>
           /\ m.stage # "in"
           /\ m.stage = "out" => l.request \notin {"address", "configure"}
           /\ m.toggle = (IF l.request = "configure" THEN "DATA0" ELSE l.toggle)
           /\ Unconfigured(m) => Unconfigured(l) /\ l.request # "configure"
  BY <1>3, AfterChunkIs
<1>7. /\ b.queued = s \o b.replies /\ b.replies \in Seq(Replies)
      /\ b.pending = None => ~b.dropped
      /\ b.report_toggle = IF Configures(l) THEN "DATA0" ELSE l.toggle
      /\ Unconfigured(l) /\ ~Configures(l) => ~b.configured /\ b.pending = None /\ l.toggle = "DATA0"
  BY DEF Agree, Boards
<1>8. ASSUME Later(l) = <<>> PROVE Agree(a, Tail(s), m)
  <2>1. /\ a.queued = rest /\ a.replies = b.replies /\ a.new_address = None
        /\ m.stage # "in" /\ ~Configures(m)
    BY <1>3, <1>5, <1>6, <1>8 DEF Configures
  <2>2. a.queued \in Queues(a, m)
    <3>1. CASE held
      <4>1. ~(a.pending = None \/ a.dropped) /\ report = Reply(1, a.report_toggle, a.pending)
        BY <1>5, <3>1
      <4> HIDE DEF report
      <4>2. <<report>> \in Queues(a, m)
        BY <2>1, <4>1, QueuesIs
      <4> QED
        BY <1>1, <2>1, <3>1, <4>2
    <3>2. CASE ~held
      <4>1. a.pending = None \/ a.dropped
        BY <1>5, <3>2
      <4>2. <<>> \in Queues(a, m)
        BY <2>1, <4>1, QueuesIs
      <4> QED
        BY <1>1, <2>1, <3>2, <4>2
    <3> QED
      BY <3>1, <3>2
  <2>3. a.report_toggle = m.toggle
    BY <1>5, <1>6, <1>7, <1>8 DEF Configures
  <2>4. Unconfigured(m) => ~a.configured /\ a.pending = None /\ m.toggle = "DATA0"
    BY <1>5, <1>6, <1>7, <1>8 DEF Configures
  <2>5. a.queued = Tail(s) \o a.replies
    BY <2>1 DEF rest
  <2> HIDE DEF held, report
  <2> QED
    BY <1>5, <1>7, <2>1, <2>2, <2>3, <2>4, <2>5 DEF Agree
<1>9. ASSUME Later(l) # <<>> PROVE Agree(a, Tail(s), m)
  <2>1. /\ a.queued = Append(rest, reply) /\ a.replies = Append(b.replies, reply)
        /\ a.toggle = Other(b.toggle) /\ a.new_address = b.new_address
        /\ m.stage = "in" /\ m.got = 1 /\ m.request = "device" /\ m.pid = Other(l.pid)
        /\ m.script = l.script /\ m.toggle = l.toggle
        /\ l.request = "device" /\ ~Configures(m) /\ ~Configures(l)
    BY <1>3, <1>5, <1>6, <1>9 DEF Configures
  <2>2. Awaited(m) = reply
    <3>1. Answer("device")[1 + 1] = body
      BY AnswerIs DEF body, Requests
    <3> QED
      BY <1>3, <1>r, <2>1, <3>1 DEF Awaited
  <2>3. reply \in Replies
    BY <1>4, <1>r DEF Reply, Replies, Boards
  <2>4. a.queued \in Queues(a, m)
    <3>1. CASE held
      <4>1. ~(a.pending = None \/ a.dropped) /\ report = Reply(1, a.report_toggle, a.pending)
            /\ a.report_toggle \in IF Configures(m) THEN Pids ELSE {a.report_toggle}
        BY <1>5, <2>1, <3>1
      <4> HIDE DEF report
      <4>2. <<report, Awaited(m)>> \in Queues(a, m)
        BY <2>1, <4>1, QueuesIs
      <4>3. a.queued = <<report, reply>>
        BY ZenonT(60), <1>1, <2>1, <3>1, Short
      <4> QED
        BY <2>2, <4>2, <4>3
    <3>2. CASE ~held
      <4>1. a.pending = None \/ a.dropped
        BY <1>5, <3>2
      <4>2. <<Awaited(m)>> \in Queues(a, m)
        BY <2>1, <4>1, QueuesIs
      <4>3. a.queued = <<reply>>
        BY <1>1, <2>1, <3>2, Short
      <4> QED
        BY <2>2, <4>2, <4>3
    <3> QED
      BY <3>1, <3>2
  <2>5. a.queued = Tail(s) \o a.replies
    BY <1>1, <1>7, <2>1, <2>3, QueuedBehind DEF rest
  <2>6. Later(m) = <<>> /\ a.toggle = Other(m.pid) /\ a.new_address = None
    BY <1>3, <2>1 DEF Later
  <2>7. a.report_toggle = m.toggle /\ Unconfigured(m) = Unconfigured(l)
    BY <1>5, <1>7, <2>1 DEF Unconfigured
  <2> HIDE DEF held, report
  <2> QED
    BY <1>5, <1>7, <2>1, <2>4, <2>5, <2>6, <2>7 DEF Agree
<1>10. Agree(a, Tail(s), m)
  BY <1>8, <1>9
<1>11. Agree(c, Tail(s), m)
  BY <1>1, <1>2, <1>5, <1>6, <1>10, RequeueAgrees
<1>12. /\ l.request # "address" => a.reload = b.reload
       /\ l.request = "address" => a.reload = Address
  <2>1. Address # None
    BY DEF Address, None
  <2>2. l.request = "address" => b.chunks = <<>>
    BY <1>3, <1>6
  <2> QED
    BY <1>3, <1>5, <2>1, <2>2
<1>13. /\ c \in Boards /\ c.pending = a.pending /\ c.configured = a.configured
       /\ c.reload = a.reload
  BY <1>2, <1>5, RequeueIs
<1> QED
  BY <1>1, <1>5, <1>11, <1>12, <1>13

\* A status stage is read, and the transfer over.
LEMMA StatusRead ==
  ASSUME NEW b \in Boards, NEW s \in Seq(Replies), NEW l \in Laptops, Agree(b, s, l), Asks(l),
         l.stage = "out",
         NEW message, message.tag = "out", NEW c, c = Fed(b, message), NEW m, m = Ended(l)
  PROVE  /\ c \in Boards /\ c.pending = b.pending /\ c.reload = b.reload
         /\ Agree(c, s, m)
         /\ m \in Laptops /\ Asks(m) /\ m.address = l.address
         /\ m.bus = l.bus /\ m.failed = l.failed /\ m.powers = l.powers
<1>1. c = Requeue(b)
  BY DEF Fed
<1>2. l.request \in {"device", "report"}
  BY DEF Asks
<1>3. /\ m \in Laptops /\ Asks(m) /\ m.stage = "none" /\ m.toggle = l.toggle
      /\ m.address = l.address
      /\ m.bus = l.bus /\ m.failed = l.failed /\ m.powers = l.powers
      /\ Unconfigured(m) => Unconfigured(l)
  BY <1>2, EndedIs
<1>4. b.queued \in Queues(b, m)
  BY <1>3 DEF Agree, Queues
<1>5. Agree(b, s, m)
  BY <1>3, <1>4 DEF Agree, Configures
<1> QED
  BY <1>1, <1>3, <1>5, RequeueIs, RequeueAgrees

\* A poll takes the report pending, which is not an old one again.
LEMMA ReportTaken ==
  ASSUME NEW b \in Boards, NEW s \in Seq(Replies), NEW l \in Laptops, Agree(b, s, l), Asks(l),
         s # <<>>, Head(s).endpoint = 1, ~Configures(l), l.script = <<>>,
         NEW message, message.tag = "ack", NEW c, c = Fed(b, message),
         NEW m, m = [l EXCEPT !.toggle = Other(@)]
  PROVE  /\ b.pending # None /\ Head(s).body = b.pending /\ Head(s).pid = l.toggle
         /\ c \in Boards /\ c.pending = None /\ c.reload = b.reload
         /\ m \in Laptops /\ Asks(m) /\ Agree(c, Tail(s), m)
<1> DEFINE rest == Tail(s) \o b.replies
<1>1. /\ b.queued # <<>> /\ Head(b.queued) = Head(s) /\ Tail(b.queued) = rest
      /\ Tail(s) \in Seq(Replies) /\ rest \in Seq(Replies)
      /\ b.pending # None /\ ~b.dropped /\ Head(s).body = b.pending
      /\ Head(s).pid = b.report_toggle
      /\ l.stage # "in" => rest = <<>>
      /\ l.stage = "in" => rest = <<Awaited(l)>>
  BY FirstIs
<1>2. PICK a : a = [b EXCEPT !.queued = rest, !.pending = None, !.report_toggle = Other(@)]
  OBVIOUS
<1>3. c = Requeue(a)
  <2>1. PICK d : d = [b EXCEPT !.queued = rest]
    OBVIOUS
  <2>2. c = Requeue(Acked(d, 1))
    BY <1>1, <2>1 DEF Fed
  <2>3. Acked(d, 1) = [d EXCEPT !.pending = None, !.report_toggle = Other(@)]
    BY DEF Acked
  <2> HIDE DEF rest
  <2>4. [d EXCEPT !.pending = None, !.report_toggle = Other(@)] = a
    BY <1>2, <2>1 DEF Boards
  <2> QED
    BY <2>2, <2>3, <2>4
<1> HIDE DEF rest
<1>4. /\ a \in Boards /\ a.queued = rest /\ a.pending = None /\ ~a.dropped
      /\ a.report_toggle = Other(b.report_toggle)
      /\ a.replies = b.replies /\ a.chunks = b.chunks /\ a.toggle = b.toggle
      /\ a.new_address = b.new_address /\ a.reload = b.reload /\ a.configured = b.configured
  BY <1>1, <1>2 DEF Boards, Other, Pids, None
<1>5. c = a
  BY <1>3, <1>4, RequeueIs
<1>6. /\ m \in Laptops /\ m.toggle = Other(l.toggle) /\ m.stage = l.stage /\ m.script = l.script
      /\ m.request = l.request /\ m.got = l.got /\ m.pid = l.pid /\ m.address = l.address
  BY DEF Laptops, Other, Pids
<1>7. a.queued \in Queues(a, m)
  <2>1. Awaited(m) = Awaited(l)
    BY <1>6 DEF Awaited
  <2> QED
    BY ZenonT(60), <1>1, <1>4, <1>6, <2>1, QueuesIs
<1>8. ~Unconfigured(m)
  BY <1>6 DEF Unconfigured
<1>9. b.report_toggle = l.toggle
  BY DEF Agree
<1>10. a.queued = Tail(s) \o a.replies
  BY <1>4 DEF rest
<1>11. ~Configures(m) /\ Later(m) = Later(l)
  BY <1>6 DEF Configures, Later
<1>12. Agree(a, Tail(s), m)
  BY <1>4, <1>6, <1>7, <1>8, <1>9, <1>10, <1>11 DEF Agree
<1>13. Asks(m)
  BY <1>6 DEF Asks
<1> QED
  BY <1>1, <1>4, <1>5, <1>6, <1>9, <1>12, <1>13

\* A report that an IN of the other endpoint finds is dropped, and put back in time.
LEMMA ReportDropped ==
  ASSUME NEW b \in Boards, NEW s \in Seq(Replies), NEW l \in Laptops, Agree(b, s, l),
         s # <<>>, Head(s).endpoint = 1, l.stage = "in",
         NEW message, message.tag = "dropped", NEW c, c = Fed(b, message)
  PROVE  /\ c \in Boards /\ c.pending = b.pending /\ c.reload = b.reload
         /\ Agree(c, Tail(s), l)
<1> DEFINE rest == Tail(s) \o b.replies
<1>1. /\ b.queued # <<>> /\ Head(b.queued) = Head(s) /\ Tail(b.queued) = rest
      /\ Tail(s) \in Seq(Replies) /\ rest \in Seq(Replies)
      /\ b.pending # None /\ rest = <<Awaited(l)>>
  BY FirstIs
<1>2. PICK a : a = [b EXCEPT !.dropped = TRUE, !.queued = rest]
  OBVIOUS
<1>3. c = Requeue(a)
  BY <1>1, <1>2 DEF Fed, Dropped
<1> HIDE DEF rest
<1>4. /\ a \in Boards /\ a.queued = rest /\ a.pending = b.pending /\ a.dropped
      /\ a.report_toggle = b.report_toggle
      /\ a.replies = b.replies /\ a.chunks = b.chunks /\ a.toggle = b.toggle
      /\ a.new_address = b.new_address /\ a.reload = b.reload /\ a.configured = b.configured
  BY <1>1, <1>2 DEF Boards
<1>5. a.queued \in Queues(a, l)
  BY <1>1, <1>4, QueuesIs
<1>6. a.queued = Tail(s) \o a.replies
  BY <1>4 DEF rest
<1>7. Agree(a, Tail(s), l)
  BY <1>1, <1>4, <1>5, <1>6 DEF Agree
<1> QED
  BY ZenonT(60), <1>1, <1>3, <1>4, <1>7, RequeueIs, RequeueAgrees

\* A part of a queue, by its elements.
LEMMA PartIs ==
  ASSUME NEW S, NEW q \in Seq(S), NEW a \in Nat, NEW k \in Nat, NEW z \in Seq(S), Len(z) = k,
         \A i \in 1 .. k : a + i \in 1 .. Len(q) /\ q[a + i] = z[i]
  PROVE  SubSeq(q, a + 1, a + k) = z
<1>1. PICK first \in Int : first = a + 1
  OBVIOUS
<1>2. PICK last \in Int : last = a + k
  OBVIOUS
<1>3. ASSUME NEW i \in first .. last PROVE q[i] \in S
  <2>1. i - a \in 1 .. k /\ a + (i - a) = i
    BY <1>1, <1>2
  <2>2. PICK j \in 1 .. k : a + j = i
    BY <2>1
  <2>3. i \in 1 .. Len(q)
    BY <2>2
  <2> QED
    BY <2>3
<1>4. PICK u : u = SubSeq(q, first, last)
  OBVIOUS
<1>5. u \in Seq(S)
  BY <1>3, <1>4, SubSeqProperties
<1>6. Len(u) = IF first <= last THEN last - first + 1 ELSE 0
  BY <1>3, <1>4, SubSeqProperties
<1>7. \A i \in 1 .. last - first + 1 : u[i] = q[first + i - 1]
  BY <1>3, <1>4, SubSeqProperties
<1>8. Len(u) = k
  BY <1>1, <1>2, <1>6
<1>9. ASSUME NEW i \in 1 .. k PROVE u[i] = z[i]
  <2>1. last - first + 1 = k /\ first + i - 1 = a + i
    BY <1>1, <1>2
  <2> QED
    BY <1>7, <2>1
<1>10. u = z
  BY <1>5, <1>8, <1>9, SeqEqual
<1> QED
  BY <1>1, <1>2, <1>4, <1>10

\* Two parts of a queue, told apart by the length of one.
LEMMA PartsAre ==
  ASSUME NEW t \in Seq(Replies), NEW r \in Seq(Replies), NEW q, q = t \o r,
         NEW held, held = Len(q) - Len(r)
  PROVE  SubSeq(q, 1, held) = t /\ SubSeq(q, held + 1, Len(q)) = r
<1>1. PICK m \in Nat, n \in Nat : m = Len(t) /\ n = Len(r)
  OBVIOUS
<1>2. /\ Len(q) = m + n /\ q \in Seq(Replies)
      /\ \A i \in 1 .. m : q[i] = t[i]
      /\ \A i \in 1 .. n : q[m + i] = r[i]
  BY <1>1
<1>3. held = m
  BY <1>1, <1>2
<1>4. SubSeq(q, 1, m) = t
  <2>1. \A i \in 1 .. m : 0 + i \in 1 .. m + n /\ 0 + i = i
    BY SMT
  <2>2. SubSeq(q, 0 + 1, 0 + m) = t
    BY <1>1, <1>2, <2>1, PartIs
  <2>3. 0 + 1 = 1 /\ 0 + m = m
    BY SMT
  <2> QED
    BY <2>2, <2>3
<1>5. SubSeq(q, m + 1, m + n) = r
  <2>1. \A i \in 1 .. n : m + i \in 1 .. m + n
    BY SMT
  <2>2. \A i \in 1 .. n : m + i \in 1 .. Len(q) /\ q[m + i] = r[i]
    BY <1>2, <2>1
  <2>3. PICK p \in Seq(Replies) : p = q
    BY <1>2
  <2>4. \A i \in 1 .. n : m + i \in 1 .. Len(p) /\ p[m + i] = r[i]
    BY <2>2, <2>3
  <2>5. SubSeq(p, m + 1, m + n) = r
    BY <1>1, <2>4, PartIs
  <2> QED
    BY <2>3, <2>5
<1> QED
  BY <1>2, <1>3, <1>4, <1>5

\* A chunk that a poll finds is dropped, and goes again behind what was sent.
LEMMA ChunkDropped ==
  ASSUME NEW b \in Boards, NEW s \in Seq(Replies), NEW l \in Laptops, Agree(b, s, l),
         s # <<>>, Head(s).endpoint = 0, ~Configures(l),
         NEW message, message.tag = "dropped", NEW c, c = Fed(b, message)
  PROVE  /\ c \in Boards /\ c.pending = b.pending /\ c.reload = b.reload
         /\ Agree(c, Tail(s), l)
<1> DEFINE rest == Tail(s) \o b.replies
           held == b.pending # None /\ ~b.dropped
           report == Reply(1, b.report_toggle, b.pending)
           chunk == Awaited(l)
           split == Len(rest) - Len(b.replies)
           queued == SubSeq(rest, 1, split) \o <<chunk>> \o SubSeq(rest, split + 1, Len(rest))
           replies == <<chunk>> \o b.replies
<1>1. /\ b.queued # <<>> /\ Head(b.queued) = Head(s) /\ Tail(b.queued) = rest
      /\ Tail(s) \in Seq(Replies) /\ rest \in Seq(Replies)
      /\ l.stage = "in" /\ Head(s) = chunk
      /\ ~held => rest = <<>>
      /\ held => rest = <<report>>
  BY FirstIs
<1>2. chunk \in Replies
  BY <1>1, FirstTaken DEF Agree, Boards
<1>3. b.replies \in Seq(Replies) /\ Tail(s) \in Seq(Replies)
  BY <1>1 DEF Boards
<1>4. SubSeq(rest, 1, split) = Tail(s) /\ SubSeq(rest, split + 1, Len(rest)) = b.replies
  BY <1>3, PartsAre
<1>5. PICK a : a = [b EXCEPT !.replies = replies, !.queued = queued]
  OBVIOUS
<1>6. c = Requeue(a)
  <2>1. c = Requeue(Dropped(b))
    BY <1>1 DEF Fed
  <2>2. Head(b.queued) = chunk /\ chunk.endpoint # 1 /\ Tail(b.queued) = rest
    BY SMTT(40), <1>1
  <2> HIDE DEF chunk, rest
  <2>3. Dropped(b) = [b EXCEPT !.replies = replies, !.queued = queued]
    BY <2>2 DEF Dropped
  <2> QED
    BY <1>5, <2>1, <2>3
<1>7. queued = Tail(s) \o replies
  <2> HIDE DEF rest, split, chunk
  <2>1. queued = (Tail(s) \o <<chunk>>) \o b.replies
    BY <1>4
  <2>2. \A t \in Seq(Replies), r \in Seq(Replies) : (t \o <<chunk>>) \o r = t \o (<<chunk>> \o r)
    BY <1>2
  <2> QED
    BY <1>3, <2>1, <2>2
<1>8. replies \in Seq(Replies) /\ queued \in Seq(Replies) /\ replies # <<>>
  <2> HIDE DEF chunk
  <2>1. <<chunk>> \in Seq(Replies)
    BY <1>2
  <2>2. \A r \in Seq(Replies) : <<chunk>> \o r \in Seq(Replies) /\ <<chunk>> \o r # <<>>
    BY <1>2
  <2>3. replies \in Seq(Replies) /\ replies # <<>>
    BY <1>3, <2>2
  <2>4. \A t, r \in Seq(Replies) : t \o r \in Seq(Replies)
    OBVIOUS
  <2> HIDE DEF replies
  <2>5. Tail(s) \o replies \in Seq(Replies)
    BY <1>3, <2>3, <2>4
  <2> QED
    BY <1>7, <2>3, <2>5
<1> HIDE DEF queued, replies
<1>9. /\ a \in Boards /\ a.queued = queued /\ a.replies = replies /\ a.pending = b.pending
      /\ a.dropped = b.dropped /\ a.report_toggle = b.report_toggle
      /\ a.chunks = b.chunks /\ a.toggle = b.toggle
      /\ a.new_address = b.new_address /\ a.reload = b.reload /\ a.configured = b.configured
  BY <1>5, <1>8 DEF Boards
<1>10. a.queued \in Queues(a, l)
  <2>1. CASE ~held
    <3>1. Tail(s) = <<>> /\ b.replies = <<>>
      BY <1>1, <1>3, <2>1, CutOfNone
    <3> HIDE DEF chunk
    <3>2. queued = <<chunk>>
      BY ZenonT(60), <1>7, <3>1, Short DEF replies
    <3>3. a.pending = None \/ a.dropped
      BY <1>9, <2>1
    <3> QED
      BY <1>1, <1>9, <3>2, <3>3, QueuesIs DEF chunk
  <2>2. CASE held
    <3>1. ~(a.pending = None \/ a.dropped) /\ report = Reply(1, a.report_toggle, a.pending)
          /\ a.report_toggle \in IF Configures(l) THEN Pids ELSE {a.report_toggle}
      BY <1>9, <2>2
    <3>2. <<chunk, report>> \in Queues(a, l) /\ <<report, chunk>> \in Queues(a, l)
      <4> HIDE DEF report
      <4> QED
        BY <1>1, <3>1, QueuesIs
    <3> HIDE DEF chunk, report
    <3>3. \/ Tail(s) = <<report>> /\ b.replies = <<>>
          \/ Tail(s) = <<>> /\ b.replies = <<report>>
      <4>1. Tail(s) \o b.replies = <<report>>
        BY <1>1, <2>2 DEF rest
      <4>2. PICK t, r : t = Tail(s) /\ r = b.replies
        OBVIOUS
      <4>3. t \in Seq(Replies) /\ r \in Seq(Replies) /\ t \o r = <<report>>
        BY <1>3, <4>1, <4>2
      <4>4. (t = <<report>> /\ r = <<>>) \/ (t = <<>> /\ r = <<report>>)
        BY SMTT(40), <4>3, CutOfOne
      <4> QED
        BY <4>2, <4>4
    <3>4. <<chunk>> \o <<>> = <<chunk>> /\ <<chunk>> \o <<report>> = <<chunk, report>>
          /\ <<report>> \o <<chunk>> = <<report, chunk>>
          /\ <<>> \o <<chunk, report>> = <<chunk, report>>
      BY Short
    <3>5. queued \in {<<chunk, report>>, <<report, chunk>>}
      BY <1>7, <3>3, <3>4 DEF replies
    <3> QED
      BY <1>9, <3>2, <3>5
  <2> QED
    BY <2>1, <2>2
<1>11. a.queued = Tail(s) \o a.replies
  BY <1>7, <1>9
<1>12. Agree(a, Tail(s), l)
  <2> HIDE DEF rest, held, report, chunk, split
  <2> QED
    BY <1>9, <1>10, <1>11 DEF Agree
<1>13. c = a
  BY <1>6, <1>8, <1>9, RequeueIs
<1> QED
  BY <1>9, <1>12, <1>13

\* A report is queued once none is pending and the laptop has what it asked for.
Types(b) ==
  /\ queue # <<>> /\ b.pending = None /\ b.chunks = <<>> /\ b.configured /\ b.described

\* The board and the reports still to type, once a round has ended.
Typed(b) == IF Types(b) THEN Report(b, Head(queue)) ELSE b
Rest(b) == IF Types(b) THEN Tail(queue) ELSE queue

\* What a report queued changes.
LEMMA TypedIs ==
  ASSUME NEW b \in Boards, queue \in Seq(Nat), Types(b), Head(queue) # None,
         NEW c, c = Typed(b), NEW reply, reply = Reply(1, b.report_toggle, Head(queue))
  PROVE  /\ c \in Boards /\ reply \in Replies
         /\ c.pending = Head(queue) /\ c.dropped = b.dropped /\ c.configured = b.configured
         /\ c.report_toggle = b.report_toggle /\ c.chunks = b.chunks /\ c.toggle = b.toggle
         /\ c.new_address = b.new_address /\ c.reload = b.reload
         /\ c.queued = Append(b.queued, reply) /\ c.replies = Append(b.replies, reply)
<1>1. Head(queue) \in Nat
  BY DEF Types
<1>2. reply \in Replies
  BY <1>1 DEF Reply, Replies, Boards
<1>3. c = [b EXCEPT !.pending = Head(queue), !.replies = Append(@, reply), !.queued = Append(@, reply)]
  BY DEF Typed, Report, Queue, Boards
<1>4. Append(b.replies, reply) \in Seq(Replies) /\ Append(b.queued, reply) \in Seq(Replies)
  BY <1>2 DEF Boards
<1> QED
  BY <1>1, <1>2, <1>3, <1>4 DEF Boards

\* A report begun leaves what is agreed: it is queued behind what is there.
LEMMA TypedAgrees ==
  ASSUME NEW b \in Boards, NEW s \in Seq(Replies), NEW l \in Laptops, Agree(b, s, l),
         queue \in Seq(Nat), queue # <<>> => Head(queue) # None, NEW c, c = Typed(b)
  PROVE  Agree(c, s, l)
<1> DEFINE report == Reply(1, b.report_toggle, Head(queue))
<1> SUFFICES ASSUME Types(b) PROVE Agree(c, s, l)
  BY DEF Typed
<1>1. /\ c \in Boards /\ report \in Replies
      /\ c.pending = Head(queue) /\ c.dropped = b.dropped /\ c.configured = b.configured
      /\ c.report_toggle = b.report_toggle /\ c.chunks = b.chunks /\ c.toggle = b.toggle
      /\ c.new_address = b.new_address /\ c.reload = b.reload
      /\ c.queued = Append(b.queued, report) /\ c.replies = Append(b.replies, report)
  BY ZenonT(60), TypedIs DEF Types
<1>2. Head(queue) # None /\ b.pending = None /\ b.configured /\ ~b.dropped
  BY DEF Types, Agree
<1>3. report = Reply(1, c.report_toggle, c.pending) /\ ~(c.pending = None \/ c.dropped)
  BY <1>1, <1>2
<1> HIDE DEF report
<1>4. c.queued \in Queues(c, l)
  <2>1. CASE l.stage = "in"
    <3>1. b.queued = <<Awaited(l)>>
      BY <1>2, <2>1 DEF Agree, Queues
    <3>2. c.queued = <<Awaited(l), report>>
      BY ZenonT(60), <1>1, <3>1, Short
    <3> QED
      BY <1>3, <2>1, <3>2, QueuesIs
  <2>2. CASE l.stage # "in"
    <3>1. b.queued = <<>>
      BY <1>2, <2>2 DEF Agree, Queues
    <3>2. c.queued = <<report>>
      BY <1>1, <3>1, Short
    <3> QED
      BY <1>3, <2>2, <3>2, QueuesIs
  <2> QED
    BY <2>1, <2>2
<1>5. c.queued = s \o c.replies
  <2>1. b.queued = s \o b.replies /\ b.replies \in Seq(Replies)
    BY DEF Agree, Boards
  <2> QED
    BY <1>1, <2>1, QueuedBehind
<1> QED
  BY <1>1, <1>2, <1>3, <1>4, <1>5 DEF Agree

\* The oldest reply of the board's is sent.
LEMMA SentAgrees ==
  ASSUME NEW b \in Boards, NEW s \in Seq(Replies), NEW l \in Laptops, Agree(b, s, l),
         b.replies # <<>>, NEW c, c = [b EXCEPT !.replies = Tail(@)]
  PROVE  /\ c \in Boards /\ c.pending = b.pending /\ c.reload = b.reload
         /\ c.configured = b.configured
         /\ Append(s, Head(b.replies)) \in Seq(Replies)
         /\ Agree(c, Append(s, Head(b.replies)), l)
<1>1. \A r \in Seq(Replies) : r # <<>> =>
        /\ Tail(r) \in Seq(Replies) /\ Head(r) \in Replies
        /\ Append(s, Head(r)) \in Seq(Replies)
        /\ Append(s, Head(r)) \o Tail(r) = s \o r
  OBVIOUS
<1>2. b.replies \in Seq(Replies)
  BY DEF Boards
<1>3. /\ c \in Boards /\ c.replies = Tail(b.replies) /\ c.queued = b.queued
      /\ c.pending = b.pending /\ c.dropped = b.dropped /\ c.configured = b.configured
      /\ c.report_toggle = b.report_toggle /\ c.chunks = b.chunks /\ c.toggle = b.toggle
      /\ c.new_address = b.new_address /\ c.reload = b.reload
  BY <1>1, <1>2 DEF Boards
<1>4. c.queued = Append(s, Head(b.replies)) \o c.replies
  BY <1>1, <1>2, <1>3 DEF Agree
<1>5. Queues(c, l) = Queues(b, l)
  BY <1>3 DEF Queues
<1> QED
  BY <1>1, <1>2, <1>3, <1>4, <1>5 DEF Agree

-----------------------------------------------------------------------------
(***************************************************************************)
(* The state: the board, the laptop and what is between them.              *)
(***************************************************************************)

\* Between the rounds of serve, a reply is about to be pushed: the board and the reports
\* still to type are what they will be then.
Pushing == pico.at = "push"
Given == [board EXCEPT !.replies = Tail(@)]
Base == IF Pushing THEN Typed(Given) ELSE board
Untyped == IF Pushing THEN Rest(Given) ELSE queue
Sent == IF Pushing THEN Append(tx, Head(board.replies)) ELSE tx

\* The board once it is fed what the Pico has drained, and what the core still holds.
Drained == FedAll(Base, pico.words)
Caught == FedAll(Base, pico.words \o rx)

Loading == pico.at \in {"stop", "start"}
Halted == pico.at \in {"start", "refused"}
Linked == laptop.bus = "idle" /\ core.running /\ pico.at # "stop"

\* A board that has nothing to say.
Nothing(b) ==
  /\ b.queued = <<>> /\ b.replies = <<>> /\ b.chunks = <<>> /\ b.new_address = None
  /\ ~b.configured /\ b.pending = None /\ ~b.dropped /\ b.report_toggle = "DATA0"

Cores == [running : BOOLEAN, configured : BOOLEAN, address : Int, certificate : BOOLEAN]

Picos ==
  [at : {"top", "drain", "push", "stop", "start", "refused"}, words : Seq(Messages),
   since : {"none", "seen", "fired"}, sent : Nat, loading : Int, full : BOOLEAN, loaded : Int]

TypeInv ==
  /\ core \in Cores /\ tx \in Seq(Replies) /\ rx \in Seq(Messages)
  /\ board \in Boards /\ Drained \in Boards /\ Caught \in Boards /\ pico \in Picos
  /\ queue \in Seq(Nat) /\ logged \in Seq(Nat) /\ taken \in Seq(Nat)
  /\ laptop \in Laptops /\ ~laptop.failed

\* Where serve is says what is empty.
PicoInv ==
  /\ pico.at # "drain" => pico.words = <<>>
  /\ pico.at \in {"stop", "start", "refused"} => rx = <<>> /\ board.reload = NoReload
  /\ Halted => ~core.running /\ tx = <<>>
  /\ Pushing => board.replies # <<>>
  /\ board.reload # NoReload =>
       pico.at \in {"top", "drain"} /\ board = Reset /\ rx = <<>> /\ pico.words = <<>>
  /\ pico.since = "seen" => laptop.bus = "reset" /\ (pico.at = "drain" \/ rx = <<>>)

\* A reset of the bus that the Pico has seen leaves nothing of what was before it.
ResetInv ==
  /\ laptop.bus = "reset" => laptop.stage = "none" /\ laptop.toggle = "DATA0"
  /\ laptop.bus = "reset" /\ pico.since = "fired" =>
       /\ Nothing(board) /\ rx = <<>> /\ pico.words = <<>> /\ ~Pushing
       /\ core.running /\ pico.at # "stop" /\ board.reload = NoReload => tx = <<>>

\* The core answers at another address than the laptop's until it is loaded.
LoadInv ==
  /\ Drained.reload # NoReload => rx = <<>>
  /\ Caught.reload # NoReload \/ Loading =>
       /\ Nothing(Caught)
       /\ laptop.bus = "idle" =>
            /\ laptop.stage = "none" /\ laptop.toggle = "DATA0"
            /\ core.running => core.address # laptop.address

LinkedInv == Asks(laptop) /\ (Linked => Agree(Caught, Sent, laptop))

\* The last of the reports.
IsRest(s) == Len(s) <= Reports /\ \A i \in 1 .. Len(s) : s[i] = Reports - Len(s) + i

\* The reports still to type are the last ones, and the one pending is before them.
Left(b, s) == IsRest(s) /\ (b.pending # None => b.pending = Reports - Len(s))

\* The report the laptop is to take next.
Due(b, s) == IF b.pending = None THEN Reports - Len(s) + 1 ELSE Reports - Len(s)

Latest(t) == IF t = <<>> THEN 0 ELSE Last(t)

\* It has taken every report before the one due, or that one too, in which case a loss of
\* power is still to account for its being taken again.
Counted(n, t, powers) ==
  \/ Latest(t) = n - 1 /\ Len(t) - Latest(t) <= powers
  \/ Latest(t) = n /\ Len(t) - Latest(t) + 1 <= powers

InOrder(t) ==
  /\ t # <<>> => Head(t) = 1
  /\ \A i \in 1 .. Len(t) - 1 : t[i + 1] - t[i] \in {0, 1}

CountInv ==
  /\ Left(Caught, Untyped) /\ Left(board, queue)
  /\ Drained.pending \in {None, Base.pending}
  /\ Caught.pending \in {None, Drained.pending}
  /\ Counted(Due(Caught, Untyped), taken, laptop.powers)
  /\ Caught.pending # Drained.pending => Latest(taken) # Due(Caught, Untyped)
  /\ InOrder(taken)

\* The round has not yet logged a report that it found taken.
Unlogged ==
  pico.at \in {"push", "stop", "start", "refused"} /\ pico.sent # None /\ board.pending = None

LogInv ==
  /\ Len(logged) = Due(board, queue) - (IF Unlogged THEN 2 ELSE 1)
  /\ Unlogged => pico.sent = Due(board, queue) - 1
  /\ pico.at = "drain" => pico.sent = board.pending
  /\ \A i \in 1 .. Len(logged) : logged[i] = i

Inv ==
  TypeInv /\ PicoInv /\ ResetInv /\ LoadInv /\ LinkedInv /\ CountInv /\ LogInv

-----------------------------------------------------------------------------
\* A board that has nothing to say agrees with a laptop that has asked for nothing.
LEMMA FreshAgrees ==
  ASSUME NEW b \in Boards, NEW l \in Laptops, Nothing(b), l.stage # "in", l.toggle = "DATA0"
  PROVE  Agree(b, <<>>, l)
<1>1. <<>> \in Queues(b, l)
  BY QueuesIs DEF Nothing
<1>2. <<>> \o <<>> = <<>>
  BY Short
<1> QED
  BY <1>1, <1>2 DEF Agree, Nothing, Configures

\* Such a board loses nothing when the core is loaded.
LEMMA FlushedNothing ==
  ASSUME NEW b \in Boards, Nothing(b)
  PROVE  Flushed(b) = b
<1>1. b.queued = <<>> /\ b.replies = <<>> /\ ~b.dropped /\ b.dropped \in BOOLEAN
  BY DEF Nothing, Boards
<1>2. Len(b.queued) = 0 /\ Len(b.replies) = 0 /\ SubSeq(b.queued, 0 + 1, 0) = <<>>
  BY <1>1
<1>3. 0 - 0 = 0 /\ 1 .. 0 = {}
  BY SMT
<1> DEFINE c == [b EXCEPT !.dropped = @ \/ \E i \in 1 .. 0 : b.queued[i].endpoint = 1,
                          !.queued = SubSeq(@, 0 + 1, 0)]
<1>4. Flushed(b) = Requeue(c)
  BY <1>2, <1>3 DEF Flushed
<1>5. (b.dropped \/ \E i \in 1 .. 0 : b.queued[i].endpoint = 1) = b.dropped
  BY <1>1, <1>3
<1>6. c = [b EXCEPT !.dropped = b.dropped, !.queued = b.queued]
  BY <1>1, <1>2, <1>5
<1>7. c = b
  BY <1>6 DEF Boards
<1> QED
  BY <1>1, <1>4, <1>7 DEF Requeue

\* The oldest reply of the board's, taken from it.
LEMMA ReplyWaits ==
  ASSUME NEW b \in Boards, b.replies # <<>>, NEW s \in Seq(Replies)
  PROVE  /\ Head(b.replies) \in Replies /\ Append(s, Head(b.replies)) \in Seq(Replies)
         /\ [b EXCEPT !.replies = Tail(@)] \in Boards
<1>1. \A r \in Seq(Replies) : r # <<>> =>
        Head(r) \in Replies /\ Append(s, Head(r)) \in Seq(Replies) /\ Tail(r) \in Seq(Replies)
  OBVIOUS
<1> QED
  BY <1>1 DEF Boards

\* What a round is about to do is typed as what it has done.
LEMMA SentIs ==
  ASSUME TypeInv, PicoInv
  PROVE  /\ Sent \in Seq(Replies)
         /\ Pushing => Given \in Boards /\ Given.pending = board.pending /\ Given.reload = board.reload
  BY ReplyWaits DEF TypeInv, PicoInv, Sent, Given, Boards

-----------------------------------------------------------------------------
(***************************************************************************)
(* The laptop's transactions.                                              *)
(***************************************************************************)

\* What the core hears, the board is yet to be fed.
LEMMA Hears ==
  ASSUME TypeInv, NEW m \in Messages, rx' = Append(rx, m), UNCHANGED <<board, pico, queue>>
  PROVE  /\ Base' = Base /\ Untyped' = Untyped /\ Drained' = Drained /\ Caught' = Fed(Caught, m)
<1>1. Base' = Base /\ Untyped' = Untyped
  BY DEF Base, Untyped, Pushing, Given, Typed, Rest, Types
<1>2. pico.words \in Seq(Messages) /\ rx \in Seq(Messages)
  BY DEF TypeInv, Picos
<1>3. \A s, t \in Seq(Messages) :
        s \o t \in Seq(Messages) /\ s \o Append(t, m) = Append(s \o t, m)
  OBVIOUS
<1> DEFINE all == pico.words \o rx
<1>4. all \in Seq(Messages) /\ pico.words \o Append(rx, m) = Append(all, m)
  BY <1>2, <1>3
<1>5. Caught = FedAll(Base, all)
  BY DEF Caught
<1>6. Caught' = FedAll(Base, Append(all, m))
  BY <1>1, <1>4 DEF Caught
<1> HIDE DEF all
<1>7. FedAll(Base, Append(all, m)) = Fed(FedAll(Base, all), m)
  BY <1>4, FedOneMore
<1> QED
  BY <1>1, <1>5, <1>6, <1>7 DEF Drained

\* While the core answers, the Pico is not loading it and no load is asked for.
LEMMA AnswersIs ==
  ASSUME Inv, Answers
  PROVE  /\ Linked /\ Agree(Caught, Sent, laptop) /\ Asks(laptop)
         /\ Caught.reload = NoReload /\ Drained.reload = NoReload /\ board.reload = NoReload
         /\ ~Loading /\ ~Halted /\ pico.since # "seen"
<1>1. laptop.bus = "idle" /\ core.running /\ core.address = laptop.address
  BY DEF Answers
<1>2. Caught.reload = NoReload /\ ~Loading
  BY <1>1 DEF Inv, LoadInv
<1>3. ~Halted /\ pico.since # "seen"
  BY <1>1 DEF Inv, PicoInv
<1>4. rx = <<>> => Caught = Drained
  <2>1. pico.words \in Seq(Messages)
    BY DEF Inv, TypeInv, Picos
  <2>2. \A s \in Seq(Messages) : s \o <<>> = s
    OBVIOUS
  <2> QED
    BY <2>1, <2>2 DEF Caught, Drained
<1>5. Drained.reload = NoReload
  BY <1>2, <1>4 DEF Inv, LoadInv
<1>6. board.reload = NoReload
  <2> SUFFICES ASSUME board.reload # NoReload PROVE FALSE
    OBVIOUS
  <2>1. pico.at \in {"top", "drain"} /\ pico.words = <<>>
    BY DEF Inv, PicoInv
  <2>2. Base = board
    BY <2>1 DEF Base, Pushing
  <2> QED
    BY <1>5, <2>1, <2>2, FedNothing DEF Drained
<1>7. Linked
  BY <1>1, <1>2 DEF Linked, Loading
<1> QED
  BY <1>2, <1>3, <1>5, <1>6, <1>7 DEF Inv, LinkedInv

\* What a transaction has to show: what it leaves Caught, the laptop and the replies sent.
LEMMA Transacts ==
  ASSUME Inv, Answers, NEW m \in Messages, rx' = Append(rx, m),
         UNCHANGED <<core, board, pico, queue, logged>>,
         tx' \in Seq(Replies), taken' \in Seq(Nat), laptop' \in Laptops, ~laptop'.failed,
         laptop'.bus = laptop.bus, Asks(laptop'),
         NEW c \in Boards, c = Fed(Caught, m), Agree(c, Sent', laptop'),
         c.reload = NoReload \/
           (Nothing(c) /\ laptop'.stage = "none" /\ laptop'.toggle = "DATA0"
              /\ core.address # laptop'.address),
         Left(c, Untyped), c.pending \in {None, Drained.pending},
         Counted(Due(c, Untyped), taken', laptop'.powers), InOrder(taken'),
         c.pending # Drained.pending => Latest(taken') # Due(c, Untyped)
  PROVE  Inv'
<1>1. Base' = Base /\ Untyped' = Untyped /\ Drained' = Drained /\ Caught' = c
  BY Hears DEF Inv
<1>2. /\ Linked /\ Drained.reload = NoReload /\ board.reload = NoReload
      /\ ~Loading /\ ~Halted /\ pico.since # "seen"
  BY AnswersIs
<1>3. laptop'.bus = "idle"
  BY <1>2 DEF Linked
<1>4. TypeInv'
  <2>1. rx' \in Seq(Messages)
    BY DEF Inv, TypeInv
  <2> QED
    BY <1>1, <2>1 DEF Inv, TypeInv
<1>5. PicoInv'
  BY <1>2, <1>3 DEF Inv, PicoInv, Loading, Halted, Pushing
<1>6. ResetInv'
  BY <1>3 DEF ResetInv
<1>7. LoadInv'
  BY <1>1, <1>2, <1>3 DEF LoadInv, Loading
<1>8. LinkedInv'
  BY <1>1 DEF LinkedInv
<1>9. CountInv'
  BY <1>1 DEF Inv, CountInv, Left, Due, IsRest, Counted, InOrder, Latest, Last
<1>10. LogInv'
  BY DEF Inv, LogInv, Unlogged, Due
<1> QED
  BY <1>4, <1>5, <1>6, <1>7, <1>8, <1>9, <1>10 DEF Inv

\* The same, of a transaction that takes no report.
LEMMA TransactsOn ==
  ASSUME Inv, Answers, NEW m \in Messages, rx' = Append(rx, m),
         UNCHANGED <<core, board, pico, queue, logged, taken>>,
         tx' \in Seq(Replies), laptop' \in Laptops, ~laptop'.failed,
         laptop'.bus = laptop.bus, laptop'.powers = laptop.powers, Asks(laptop'),
         NEW c \in Boards, c = Fed(Caught, m), Agree(c, Sent', laptop'),
         c.reload = NoReload \/
           (Nothing(c) /\ laptop'.stage = "none" /\ laptop'.toggle = "DATA0"
              /\ core.address # laptop'.address),
         c.pending = Caught.pending
  PROVE  Inv'
<1>1. /\ Left(c, Untyped) /\ c.pending \in {None, Drained.pending}
      /\ Counted(Due(c, Untyped), taken', laptop'.powers) /\ InOrder(taken')
      /\ c.pending # Drained.pending => Latest(taken') # Due(c, Untyped)
  BY DEF Inv, CountInv, Left, Due, Counted
<1>2. taken' \in Seq(Nat)
  BY DEF Inv, TypeInv
<1> QED
  BY <1>1, <1>2, Transacts

\* A transaction that leaves the replies sent as they are, or takes the first.
LEMMA SentStays ==
  ASSUME UNCHANGED <<tx, board, pico>>
  PROVE  Sent' = Sent
  BY DEF Sent, Pushing

\* The core takes the oldest of what is sent.
LEMMA SentTaken ==
  ASSUME TypeInv, PicoInv, tx # <<>>, tx' = Tail(tx), UNCHANGED <<board, pico>>
  PROVE  Sent # <<>> /\ Head(Sent) = Head(tx) /\ Sent' = Tail(Sent) /\ tx' \in Seq(Replies)
<1>1. \A s \in Seq(Replies) : s # <<>> => Tail(s) \in Seq(Replies)
  OBVIOUS
<1>2. \A s \in Seq(Replies), r \in Replies : s # <<>> =>
        Append(s, r) # <<>> /\ Head(Append(s, r)) = Head(s) /\ Tail(Append(s, r)) = Append(Tail(s), r)
  OBVIOUS
<1>3. Pushing => Head(board.replies) \in Replies
  BY ReplyWaits DEF TypeInv, PicoInv
<1>4. tx \in Seq(Replies)
  BY DEF TypeInv
<1> QED
  BY <1>1, <1>2, <1>3, <1>4 DEF Sent, Pushing

\* A message with nothing in it is one.
LEMMA MessageIs ==
  ASSUME NEW tag \in {"ack", "out", "dropped"}
  PROVE  Message(tag) \in Messages /\ Message(tag).tag = tag
  BY DEF Message, Messages, Requests, None

\* A transfer begins.
LEMMA BeginInv ==
  ASSUME Inv, NEW request \in Requests \ {"none"}, Begin(request),
         laptop.script # <<>> => request = Head(laptop.script),
         laptop.script = <<>> => request \in SpareRequests
  PROVE  Inv'
<1>1. /\ Answers /\ laptop.stage = "none" /\ rx' = Append(rx, SetupOf(request))
      /\ laptop' = Asking(laptop, request)
      /\ UNCHANGED <<core, tx, board, pico, queue, logged, taken>>
  BY DEF Begin, Pushed, SetupOf, Asking
<1>2. SetupOf(request) \in Messages
  BY DEF Messages, Address, SetupOf
<1>3. Agree(Caught, Sent, laptop) /\ Asks(laptop) /\ Caught.reload = NoReload
  BY <1>1, AnswersIs
<1>4. Caught \in Boards /\ Sent \in Seq(Replies) /\ laptop \in Laptops
  BY SentIs DEF Inv, TypeInv
<1>5. PICK c : c = Fed(Caught, SetupOf(request))
  OBVIOUS
<1>6. /\ c \in Boards /\ laptop' \in Laptops /\ Agree(c, Sent, laptop')
      /\ c.pending = Caught.pending /\ c.reload = Caught.reload
  BY <1>1, <1>3, <1>4, <1>5, BeginsAgree
<1>7. /\ ~laptop'.failed /\ laptop'.bus = laptop.bus /\ laptop'.powers = laptop.powers
      /\ laptop'.request = request /\ laptop'.stage = "in"
      /\ laptop'.script = laptop.script /\ laptop'.address = laptop.address
  BY <1>1 DEF Inv, TypeInv, Laptops, Asking
<1>8. Asks(laptop')
  BY <1>3, <1>7 DEF Asks
<1>9. Sent' = Sent /\ tx' \in Seq(Replies)
  BY <1>1, SentStays DEF Inv, TypeInv
<1> QED
  BY <1>1, <1>2, <1>3, <1>5, <1>6, <1>7, <1>8, <1>9, TransactsOn

\* The next transfer of the laptop's script begins.
LEMMA SetupNextInv ==
  ASSUME Inv, SetupNext
  PROVE  Inv'
<1>1. laptop.script # <<>> /\ Head(laptop.script) # "reset" /\ Begin(Head(laptop.script))
  BY DEF SetupNext
<1>2. laptop.script \in Scripts
  BY DEF Inv, TypeInv, Laptops
<1>3. Head(laptop.script) \in Requests \ {"none"}
  BY <1>1, <1>2, ScriptIs
<1> QED
  BY <1>1, <1>3, BeginInv

\* The laptop asks again.
LEMMA SetupSpareInv ==
  ASSUME Inv, SetupSpare
  PROVE  Inv'
<1>1. PICK request \in SpareRequests : laptop.script = <<>> /\ Begin(request)
  BY DEF SetupSpare
<1>2. request \in Requests \ {"none"}
  BY KeyboardAssumption DEF Requests
<1> QED
  BY <1>1, <1>2, BeginInv

\* A laptop that has neither configured the device nor asked for anything leaves a board it
\* agrees with nothing to say.
LEMMA NothingLeft ==
  ASSUME NEW b \in Boards, NEW s \in Seq(Replies), NEW l \in Laptops, Agree(b, s, l),
         l.stage = "none", Unconfigured(l)
  PROVE  Nothing(b) /\ l.toggle = "DATA0"
<1>1. ~Configures(l)
  BY DEF Configures
<1>2. /\ ~b.configured /\ b.pending = None /\ l.toggle = "DATA0" /\ ~b.dropped
      /\ b.chunks = <<>> /\ b.new_address = None /\ b.report_toggle = "DATA0"
  BY <1>1 DEF Agree
<1>3. b.queued = <<>> /\ b.replies = <<>>
  BY <1>2, QueuesAre
<1> QED
  BY <1>2, <1>3 DEF Nothing

\* Where a chunk taken ends the request to set the address, the core is to be loaded.
LEMMA InTakesInv ==
  ASSUME Inv, InTakes
  PROVE  Inv'
<1>1. /\ Answers /\ laptop.stage = "in" /\ tx # <<>> /\ Head(tx).endpoint = 0
      /\ tx' = Tail(tx) /\ rx' = Append(rx, Message("ack"))
      /\ UNCHANGED <<core, board, pico, queue, logged, taken>>
  BY DEF InTakes, Pushed
<1>2. Agree(Caught, Sent, laptop) /\ Asks(laptop) /\ Caught.reload = NoReload
  BY <1>1, AnswersIs
<1>3. Caught \in Boards /\ Sent \in Seq(Replies) /\ laptop \in Laptops /\ ~laptop.failed
  BY SentIs DEF Inv, TypeInv
<1>4. Sent # <<>> /\ Head(Sent) = Head(tx) /\ Sent' = Tail(Sent) /\ tx' \in Seq(Replies)
  BY <1>1, SentTaken DEF Inv
<1>5. PICK c : c = Fed(Caught, Message("ack"))
  OBVIOUS
<1>6. PICK m : m = AfterChunk(laptop)
  OBVIOUS
<1>7. /\ Head(Sent) = Awaited(laptop) /\ c \in Boards /\ c.pending = Caught.pending
      /\ Agree(c, Tail(Sent), m)
      /\ laptop.request # "address" => c.reload = Caught.reload
      /\ laptop.request = "address" => c.reload = Address
  <2>1. Message("ack").tag = "ack" /\ Head(Sent).endpoint = 0
    BY <1>1, <1>4, MessageIs
  <2> QED
    BY <1>1, <1>2, <1>3, <1>4, <1>5, <1>6, <2>1, ChunkTaken
<1>8. laptop.got = 0 \/ (laptop.request = "device" /\ laptop.got = 1)
  BY <1>1, <1>2 DEF Agree
<1>9. /\ m \in Laptops /\ Asks(m)
      /\ m.bus = laptop.bus /\ m.failed = laptop.failed /\ m.powers = laptop.powers
  BY <1>1, <1>2, <1>3, <1>6, <1>8, AfterChunkIs
<1>10. laptop' = m
  <2>1. Head(tx).body = Answer(laptop.request)[laptop.got + 1] /\ Head(tx).pid = laptop.pid
    BY <1>4, <1>7 DEF Awaited, Reply
  <2> QED
    BY <1>6, <2>1 DEF InTakes, AfterChunk
<1>11. c.reload = NoReload \/
         (Nothing(c) /\ m.stage = "none" /\ m.toggle = "DATA0" /\ core.address # m.address)
  <2>1. CASE laptop.request # "address"
    BY <1>2, <1>7, <2>1
  <2>2. CASE laptop.request = "address"
    <3>1. Later(laptop) = <<>>
      BY <2>2 DEF Later
    <3>2. /\ laptop.address = 0 /\ m.address = Address /\ m.stage = "none"
          /\ m.script = <<"configure", "report">>
      BY <1>1, <1>2, <1>3, <1>6, <1>8, <2>2, <3>1, AfterChunkIs
    <3>3. Unconfigured(m)
      BY <3>2, ScriptLengths DEF Unconfigured
    <3>4. Tail(Sent) \in Seq(Replies)
      BY <1>3, <1>4
    <3>5. Nothing(c) /\ m.toggle = "DATA0"
      BY <1>7, <1>9, <3>2, <3>3, <3>4, NothingLeft
    <3>6. core.address # m.address
      BY <1>1, <3>2 DEF Answers, Address
    <3> QED
      BY <3>2, <3>5, <3>6
  <2> QED
    BY <2>1, <2>2
<1>12. Message("ack") \in Messages
  BY MessageIs
<1>13. Agree(c, Sent', laptop') /\ laptop' \in Laptops /\ ~laptop'.failed
       /\ laptop'.bus = laptop.bus /\ laptop'.powers = laptop.powers /\ Asks(laptop')
  BY <1>3, <1>4, <1>7, <1>9, <1>10
<1> QED
  BY <1>1, <1>4, <1>5, <1>7, <1>10, <1>11, <1>12, <1>13, TransactsOn

\* The OUT that ends a transfer of the device's is acknowledged.
LEMMA OutInv ==
  ASSUME Inv, Out
  PROVE  Inv'
<1>1. /\ Answers /\ laptop.stage = "out" /\ rx' = Append(rx, Message("out"))
      /\ laptop' = Ended(laptop)
      /\ UNCHANGED <<core, tx, board, pico, queue, logged, taken>>
  BY DEF Out, Pushed
<1>2. Agree(Caught, Sent, laptop) /\ Asks(laptop) /\ Caught.reload = NoReload
  BY <1>1, AnswersIs
<1>3. Caught \in Boards /\ Sent \in Seq(Replies) /\ laptop \in Laptops /\ ~laptop.failed
  BY SentIs DEF Inv, TypeInv
<1>4. Message("out") \in Messages /\ Message("out").tag = "out"
  BY MessageIs
<1>5. PICK c : c = Fed(Caught, Message("out"))
  OBVIOUS
<1>6. /\ c \in Boards /\ c.pending = Caught.pending /\ c.reload = Caught.reload
      /\ Agree(c, Sent, laptop')
      /\ laptop' \in Laptops /\ Asks(laptop')
      /\ laptop'.bus = laptop.bus /\ laptop'.failed = laptop.failed
      /\ laptop'.powers = laptop.powers
  BY <1>1, <1>2, <1>3, <1>4, <1>5, StatusRead
<1>7. Sent' = Sent /\ tx' \in Seq(Replies)
  BY <1>1, SentStays DEF Inv, TypeInv
<1>8. Agree(c, Sent', laptop') /\ ~laptop'.failed /\ c.reload = NoReload
  BY <1>2, <1>3, <1>6, <1>7
<1> QED
  BY <1>1, <1>4, <1>5, <1>6, <1>7, <1>8, TransactsOn

\* A reply is dropped, and the board is told.
LEMMA DropsInv ==
  ASSUME Inv, NEW endpoint \in {0, 1}, Drops(endpoint),
         endpoint = 0 => ~Configures(laptop), endpoint = 1 => laptop.stage = "in"
  PROVE  Inv'
<1>1. /\ Answers /\ tx # <<>> /\ Head(tx).endpoint = endpoint
      /\ tx' = Tail(tx) /\ rx' = Append(rx, Message("dropped"))
      /\ UNCHANGED <<core, board, pico, queue, logged, laptop, taken>>
  BY DEF Drops, Pushed
<1>2. Agree(Caught, Sent, laptop) /\ Asks(laptop) /\ Caught.reload = NoReload
  BY <1>1, AnswersIs
<1>3. Caught \in Boards /\ Sent \in Seq(Replies) /\ laptop \in Laptops /\ ~laptop.failed
  BY SentIs DEF Inv, TypeInv
<1>4. Sent # <<>> /\ Head(Sent) = Head(tx) /\ Sent' = Tail(Sent) /\ tx' \in Seq(Replies)
  BY <1>1, SentTaken DEF Inv
<1>5. Message("dropped") \in Messages /\ Message("dropped").tag = "dropped"
  BY MessageIs
<1>6. PICK c : c = Fed(Caught, Message("dropped"))
  OBVIOUS
<1>7. /\ c \in Boards /\ c.pending = Caught.pending /\ c.reload = Caught.reload
      /\ Agree(c, Tail(Sent), laptop)
  <2>1. CASE endpoint = 0
    <3>1. Head(Sent).endpoint = 0 /\ ~Configures(laptop)
      BY <1>1, <1>4, <2>1
    <3> QED
      BY <1>2, <1>3, <1>4, <1>5, <1>6, <3>1, ChunkDropped
  <2>2. CASE endpoint = 1
    <3>1. Head(Sent).endpoint = 1 /\ laptop.stage = "in"
      BY <1>1, <1>4, <2>2
    <3> QED
      BY <1>2, <1>3, <1>4, <1>5, <1>6, <3>1, ReportDropped
  <2> QED
    BY <2>1, <2>2
<1>8. /\ laptop' \in Laptops /\ ~laptop'.failed /\ Asks(laptop') /\ Agree(c, Sent', laptop')
      /\ laptop'.bus = laptop.bus /\ laptop'.powers = laptop.powers /\ c.reload = NoReload
  BY <1>1, <1>2, <1>3, <1>4, <1>7
<1> QED
  BY <1>1, <1>4, <1>5, <1>6, <1>7, <1>8, TransactsOn

\* An IN drops a report in its way.
LEMMA InDropsInv ==
  ASSUME Inv, InDrops
  PROVE  Inv'
  BY DropsInv DEF InDrops

\* A poll drops a chunk in its way.
LEMMA PollDropsInv ==
  ASSUME Inv, PollDrops
  PROVE  Inv'
  BY DropsInv DEF PollDrops, Polls, Configures

\* A report taken is the one due.
LEMMA PollTakesInv ==
  ASSUME Inv, PollTakes
  PROVE  Inv'
<1>1. /\ Answers /\ laptop.script = <<>> /\ ~Configures(laptop)
      /\ tx # <<>> /\ Head(tx).endpoint = 1
      /\ tx' = Tail(tx) /\ rx' = Append(rx, Message("ack"))
      /\ UNCHANGED <<core, board, pico, queue, logged>>
  BY DEF PollTakes, Polls, Pushed, Configures
<1>2. Agree(Caught, Sent, laptop) /\ Asks(laptop) /\ Caught.reload = NoReload
  BY <1>1, AnswersIs
<1>3. Caught \in Boards /\ Sent \in Seq(Replies) /\ laptop \in Laptops /\ ~laptop.failed
  BY SentIs DEF Inv, TypeInv
<1>4. Sent # <<>> /\ Head(Sent) = Head(tx) /\ Sent' = Tail(Sent) /\ tx' \in Seq(Replies)
  BY <1>1, SentTaken DEF Inv
<1>5. Message("ack") \in Messages /\ Message("ack").tag = "ack"
  BY MessageIs
<1>6. PICK c : c = Fed(Caught, Message("ack"))
  OBVIOUS
<1>7. PICK m : m = [laptop EXCEPT !.toggle = Other(@)]
  OBVIOUS
<1>8. /\ Caught.pending # None /\ Head(Sent).body = Caught.pending
      /\ Head(Sent).pid = laptop.toggle
      /\ c \in Boards /\ c.pending = None /\ c.reload = Caught.reload
      /\ m \in Laptops /\ Asks(m) /\ Agree(c, Tail(Sent), m)
  <2>1. Head(Sent).endpoint = 1
    BY <1>1, <1>4
  <2> QED
    BY <1>1, <1>2, <1>3, <1>4, <1>5, <1>6, <1>7, <2>1, ReportTaken
<1>9. laptop' = m /\ taken' = Append(taken, Caught.pending)
  BY <1>4, <1>7, <1>8 DEF PollTakes
<1>10. m.failed = laptop.failed /\ m.bus = laptop.bus /\ m.powers = laptop.powers
  BY <1>3, <1>7 DEF Laptops
<1> DEFINE p == Caught.pending
           n == Len(Untyped)
<1>11. /\ p \in Nat /\ p # None /\ n \in Nat /\ Reports \in Nat /\ laptop.powers \in Nat
       /\ taken \in Seq(Nat) /\ Len(taken) \in Nat
  <2>1. Untyped \in Seq(Nat)
    <3>1. \A s \in Seq(Nat) : s # <<>> => Tail(s) \in Seq(Nat)
      OBVIOUS
    <3> QED
      BY <3>1 DEF Untyped, Rest, Types, Inv, TypeInv
  <2>2. \A s \in Seq(Nat) : Len(s) \in Nat
    OBVIOUS
  <2>3. p \in Nat /\ p # None
    BY <1>3, <1>8 DEF Boards
  <2>4. taken \in Seq(Nat) /\ laptop.powers \in Nat
    BY <1>3 DEF Inv, TypeInv, Laptops
  <2> HIDE DEF p
  <2> QED
    BY <2>1, <2>2, <2>3, <2>4, KeyboardAssumption
<1>12. p = Reports - n /\ Left(c, Untyped) /\ Due(c, Untyped) = p + 1 /\ Due(Caught, Untyped) = p
  BY <1>8, <1>11 DEF Inv, CountInv, Left, Due
<1>13. /\ taken' \in Seq(Nat) /\ Len(taken') = Len(taken) + 1 /\ Latest(taken') = p
       /\ taken' # <<>>
       /\ taken # <<>> => Head(taken') = Head(taken)
       /\ taken = <<>> => Head(taken') = p
       /\ \A i \in 1 .. Len(taken) : taken'[i] = taken[i]
       /\ taken'[Len(taken) + 1] = p
  <2>1. ASSUME NEW s \in Seq(Nat), NEW e \in Nat
        PROVE  /\ Append(s, e) \in Seq(Nat) /\ Len(Append(s, e)) = Len(s) + 1
               /\ Append(s, e)[Len(s) + 1] = e /\ Append(s, e) # <<>>
               /\ s # <<>> => Head(Append(s, e)) = Head(s)
               /\ s = <<>> => Head(Append(s, e)) = e
               /\ \A i \in 1 .. Len(s) : Append(s, e)[i] = s[i]
    <3>1. Append(s, e) \in Seq(Nat) /\ Len(Append(s, e)) = Len(s) + 1
      OBVIOUS
    <3>2. Append(s, e)[Len(s) + 1] = e /\ \A i \in 1 .. Len(s) : Append(s, e)[i] = s[i]
      OBVIOUS
    <3>3. Append(s, e) # <<>> /\ (s # <<>> => Head(Append(s, e)) = Head(s))
      OBVIOUS
    <3>4. s = <<>> => Head(Append(s, e)) = e
      OBVIOUS
    <3> QED
      BY <3>1, <3>2, <3>3, <3>4
  <2> QED
    BY <1>9, <1>11, <2>1 DEF Latest, Last
<1> HIDE DEF p, n
<1>14. \/ Latest(taken) = p - 1 /\ Len(taken) - Latest(taken) <= laptop.powers
       \/ Latest(taken) = p /\ Len(taken) - Latest(taken) + 1 <= laptop.powers
  BY <1>12 DEF Inv, CountInv, Counted
<1>15. /\ Latest(taken') = Due(c, Untyped) - 1 /\ Len(taken') - Latest(taken') <= m.powers
  BY <1>10, <1>11, <1>12, <1>13, <1>14
<1>16. InOrder(taken')
  <2>1. Head(taken') = 1
    <3>1. CASE taken # <<>>
      BY <1>13, <3>1 DEF Inv, CountInv, InOrder
    <3>2. CASE taken = <<>>
      BY <1>11, <1>13, <1>14, <3>2 DEF Latest, None
    <3> QED
      BY <3>1, <3>2
  <2>2. ASSUME NEW i \in 1 .. Len(taken') - 1
        PROVE  taken'[i + 1] - taken'[i] \in {0, 1}
    <3>1. CASE i < Len(taken)
      <4>1. taken[i + 1] - taken[i] \in {0, 1} /\ i + 1 \in 1 .. Len(taken) /\ i \in 1 .. Len(taken)
        BY <1>11, <1>13, <3>1 DEF Inv, CountInv, InOrder
      <4> QED
        BY <1>13, <4>1
    <3>2. CASE ~(i < Len(taken))
      <4>1. i = Len(taken) /\ Len(taken) # 0
        BY <1>11, <1>13, <3>2
      <4>2. taken # <<>> /\ taken'[i + 1] = p /\ taken'[i] = taken[Len(taken)]
        BY <1>11, <1>13, <4>1
      <4>3. taken'[i] = Latest(taken)
        BY <4>2 DEF Latest, Last
      <4> QED
        BY <1>11, <1>14, <4>2, <4>3
    <3> QED
      BY <3>1, <3>2
  <2> QED
    BY <2>1, <2>2 DEF InOrder
<1>17. Counted(Due(c, Untyped), taken', laptop'.powers) /\ Latest(taken') # Due(c, Untyped)
  BY <1>9, <1>11, <1>12, <1>13, <1>15 DEF Counted
<1>18. /\ laptop' \in Laptops /\ ~laptop'.failed /\ Asks(laptop') /\ Agree(c, Sent', laptop')
       /\ laptop'.bus = laptop.bus /\ c.reload = NoReload
  BY <1>2, <1>3, <1>4, <1>8, <1>9, <1>10
<1> QED
  BY <1>1, <1>4, <1>5, <1>6, <1>8, <1>12, <1>13, <1>16, <1>17, <1>18, Transacts

-----------------------------------------------------------------------------
(***************************************************************************)
(* Resets of the bus and losses of power.                                  *)
(***************************************************************************)

\* What neither feeds nor moves the board leaves what is Caught.
LEMMA Stays ==
  ASSUME UNCHANGED <<rx, board, pico, queue>>
  PROVE  Base' = Base /\ Untyped' = Untyped /\ Drained' = Drained /\ Caught' = Caught
<1>1. Base' = Base /\ Untyped' = Untyped
  BY DEF Base, Untyped, Pushing, Given, Typed, Rest, Types
<1> QED
  BY <1>1 DEF Drained, Caught

\* The counts are of what is Caught, and of how often the power was lost.
LEMMA CountsStay ==
  ASSUME CountInv, UNCHANGED <<board, queue, taken>>, laptop'.powers = laptop.powers,
         Base' = Base, Untyped' = Untyped, Drained' = Drained, Caught' = Caught
  PROVE  CountInv'
  BY DEF CountInv, Left, Due, IsRest, Counted, InOrder, Latest, Last

\* The laptop resets the bus, in its script or of itself, whatever that cuts off.
LEMMA BeginResetInv ==
  ASSUME Inv, BeginReset
  PROVE  Inv'
<1> DEFINE scripted == laptop.stage = "none" /\ laptop.script # <<>> /\ Head(laptop.script) = "reset"
           itself == ~scripted /\ ~Silent
<1>1. /\ laptop.bus = "idle" /\ pico.since = "none"
      /\ laptop' = [laptop EXCEPT
           !.bus = "reset", !.stage = "none", !.address = 0, !.toggle = "DATA0",
           !.resets = IF itself THEN @ + 1 ELSE @,
           !.script = IF scripted THEN Tail(@) ELSE Enumeration]
      /\ UNCHANGED <<core, tx, rx, board, pico, queue, logged, taken>>
  BY DEF BeginReset
<1>2. laptop \in Laptops /\ ~laptop.failed
  BY DEF Inv, TypeInv
<1>3. laptop'.script \in Scripts /\ ~(Len(laptop'.script) <= 2)
  <2>1. laptop'.script = IF scripted THEN Tail(laptop.script) ELSE Enumeration
    BY <1>1, <1>2 DEF Laptops
  <2>2. CASE scripted
    <3>1. PICK n : n = Len(laptop.script)
      OBVIOUS
    <3>2. laptop.script \in Scripts
      BY <1>2 DEF Laptops
    <3>3. n \in 0 .. 6 /\ n \notin {0, 1, 2, 3, 5}
      BY <2>2, <3>1, <3>2, ScriptIs
    <3>4. Tail(laptop.script) \in Scripts /\ Len(Tail(laptop.script)) = n - 1
      BY <3>1, <3>2, <3>3, ScriptIs
    <3>5. ~(n - 1 <= 2)
      BY <3>3
    <3> QED
      BY <2>1, <2>2, <3>4, <3>5
  <2>3. CASE ~scripted
    BY <2>1, <2>3, ScriptLengths DEF Enumeration, Scripts
  <2> QED
    BY <2>2, <2>3
<1>4. /\ laptop' \in Laptops /\ ~laptop'.failed /\ laptop'.bus = "reset"
      /\ laptop'.stage = "none" /\ laptop'.toggle = "DATA0" /\ laptop'.address = 0
      /\ laptop'.powers = laptop.powers
  <2> DEFINE script == IF scripted THEN Tail(laptop.script) ELSE Enumeration
             resets == IF itself THEN laptop.resets + 1 ELSE laptop.resets
  <2>1. laptop' = [laptop EXCEPT
           !.bus = "reset", !.stage = "none", !.address = 0, !.toggle = "DATA0",
           !.resets = resets, !.script = script]
    BY <1>1
  <2>2. laptop'.script = script
    BY <1>1, <1>2 DEF Laptops
  <2>3. resets \in Nat
    BY <1>2 DEF Laptops
  <2> HIDE DEF script, resets
  <2> QED
    BY <1>2, <1>3, <2>1, <2>2, <2>3 DEF Laptops, Pids
<1> HIDE DEF scripted, itself
<1>5. Base' = Base /\ Untyped' = Untyped /\ Drained' = Drained /\ Caught' = Caught
  BY <1>1, Stays
<1>6. TypeInv'
  BY <1>1, <1>4, <1>5 DEF Inv, TypeInv
<1>7. PicoInv' /\ ResetInv'
  BY <1>1, <1>4 DEF Inv, PicoInv, ResetInv, Halted, Pushing
<1>8. LoadInv'
  BY <1>1, <1>4, <1>5 DEF Inv, LoadInv, Loading, Nothing
<1>9. LinkedInv'
  BY <1>3, <1>4 DEF LinkedInv, Asks, Linked
<1>10. CountInv'
  BY <1>1, <1>4, <1>5, CountsStay DEF Inv
<1>11. LogInv'
  BY <1>1 DEF Inv, LogInv, Unlogged, Due
<1> QED
  BY <1>6, <1>7, <1>8, <1>9, <1>10, <1>11 DEF Inv

\* What is fed when nothing is left to feed.
LEMMA NothingToFeed ==
  ASSUME pico.words = <<>>, rx = <<>>
  PROVE  Drained = Base /\ Caught = Base
<1>1. <<>> \o <<>> = <<>>
  BY Short
<1> QED
  BY <1>1, FedNothing DEF Drained, Caught

\* The reset of the bus ends.
LEMMA EndResetInv ==
  ASSUME Inv, EndReset
  PROVE  Inv'
<1>1. /\ laptop.bus = "reset" /\ pico.since = "fired"
      /\ pico.at \in {"top", "drain", "push"} /\ board.reload = NoReload
      /\ laptop' = [laptop EXCEPT !.bus = "idle"]
      /\ UNCHANGED <<core, tx, rx, board, pico, queue, logged, taken>>
  BY DEF EndReset
<1>2. /\ laptop' \in Laptops /\ ~laptop'.failed /\ laptop'.bus = "idle"
      /\ laptop'.stage = "none" /\ laptop'.toggle = "DATA0"
      /\ laptop'.powers = laptop.powers /\ laptop'.script = laptop.script
      /\ laptop'.address = laptop.address
  BY <1>1 DEF Inv, TypeInv, ResetInv, Laptops
<1>3. /\ Nothing(board) /\ rx = <<>> /\ pico.words = <<>> /\ ~Pushing
      /\ core.running => tx = <<>>
  BY <1>1 DEF Inv, ResetInv
<1>4. Base' = Base /\ Untyped' = Untyped /\ Drained' = Drained /\ Caught' = Caught
  BY <1>1, Stays
<1>5. Caught = board /\ Drained = board
  BY <1>3, NothingToFeed DEF Base
<1>6. TypeInv'
  BY <1>1, <1>2, <1>4 DEF Inv, TypeInv
<1>7. PicoInv' /\ ResetInv'
  BY <1>1, <1>2 DEF Inv, PicoInv, ResetInv, Halted, Pushing
<1>8. LoadInv'
  BY <1>1, <1>4, <1>5 DEF LoadInv, Loading
<1>9. LinkedInv'
  <2>1. Asks(laptop')
    BY <1>2 DEF Inv, LinkedInv, ResetInv, Asks
  <2>2. core.running => Agree(Caught', Sent', laptop')
    <3> SUFFICES ASSUME core.running PROVE Agree(Caught', Sent', laptop')
      OBVIOUS
    <3>1. Sent' = <<>>
      BY <1>1, <1>3 DEF Sent, Pushing
    <3>2. board \in Boards
      BY DEF Inv, TypeInv
    <3>3. Agree(board, <<>>, laptop')
      BY <1>2, <1>3, <3>2, FreshAgrees
    <3> QED
      BY <1>4, <1>5, <3>1, <3>3
  <2> QED
    BY <1>1, <2>1, <2>2 DEF LinkedInv, Linked
<1>10. CountInv'
  BY <1>1, <1>2, <1>4, CountsStay DEF Inv
<1>11. LogInv'
  BY <1>1 DEF Inv, LogInv, Unlogged, Due
<1> QED
  BY <1>6, <1>7, <1>8, <1>9, <1>10, <1>11 DEF Inv

\* The rest of a sequence, and its first element.
LEMMA RestIs ==
  ASSUME NEW s \in Seq(Nat), IsRest(s), s # <<>>
  PROVE  /\ Tail(s) \in Seq(Nat) /\ IsRest(Tail(s)) /\ Len(Tail(s)) = Len(s) - 1
         /\ Head(s) = Reports - Len(s) + 1 /\ Head(s) # None /\ Head(s) \in Nat
<1>1. \A t \in Seq(Nat) : t # <<>> =>
        /\ Tail(t) \in Seq(Nat) /\ Len(Tail(t)) = Len(t) - 1 /\ Head(t) = t[1]
        /\ Len(t) \in Nat /\ Len(t) # 0
  OBVIOUS
<1>2. \A t \in Seq(Nat) : t # <<>> => \A i \in 1 .. Len(t) - 1 : Tail(t)[i] = t[i + 1]
  OBVIOUS
<1>3. Len(s) <= Reports /\ \A i \in 1 .. Len(s) : s[i] = Reports - Len(s) + i
  BY DEF IsRest
<1>4. Reports \in Nat
  BY KeyboardAssumption
<1>5. Head(s) = Reports - Len(s) + 1 /\ Head(s) # None /\ Head(s) \in Nat
  BY <1>1, <1>3, <1>4 DEF None
<1>6. \A i \in 1 .. Len(s) - 1 : Tail(s)[i] = Reports - (Len(s) - 1) + i
  BY <1>1, <1>2, <1>3, <1>4
<1> QED
  BY <1>1, <1>3, <1>4, <1>5, <1>6 DEF IsRest

\* A round that types moves the first of the reports still to type to the board.
LEMMA TypedCounts ==
  ASSUME NEW b \in Boards, queue \in Seq(Nat), Left(b, queue),
         NEW c, c = Typed(b), NEW q, q = Rest(b)
  PROVE  /\ c \in Boards /\ q \in Seq(Nat) /\ Left(c, q) /\ Due(c, q) = Due(b, queue)
         /\ c.reload = b.reload
         /\ queue # <<>> => Head(queue) # None
<1>1. queue # <<>> => Head(queue) # None
  BY RestIs DEF Left
<1>2. CASE ~Types(b)
  BY <1>1, <1>2 DEF Typed, Rest
<1>3. CASE Types(b)
  <2>1. queue # <<>> /\ b.pending = None
    BY <1>3 DEF Types
  <2>2. /\ q \in Seq(Nat) /\ IsRest(q) /\ Len(q) = Len(queue) - 1
        /\ Head(queue) = Reports - Len(queue) + 1 /\ Head(queue) # None
    BY <1>3, <2>1, RestIs DEF Left, Rest
  <2>3. c \in Boards /\ c.pending = Head(queue) /\ c.reload = b.reload
    BY <1>3, <2>2, TypedIs
  <2>4. Len(queue) \in Nat /\ Reports \in Nat
    BY KeyboardAssumption
  <2> QED
    BY <1>1, <2>1, <2>2, <2>3, <2>4 DEF Left, Due
<1> QED
  BY <1>2, <1>3

\* Nothing is left to feed but what the Pico has drained.
LEMMA NothingHeard ==
  ASSUME TypeInv, rx = <<>>
  PROVE  Caught = Drained
<1>1. pico.words \in Seq(Messages)
  BY DEF TypeInv, Picos
<1>2. \A s \in Seq(Messages) : s \o <<>> = s
  OBVIOUS
<1> QED
  BY <1>1, <1>2 DEF Caught, Drained

\* The chip loses what the core holds.  An ACK lost has its report taken again, for which
\* the loss accounts.
LEMMA PowerInv ==
  ASSUME Inv, Power
  PROVE  Inv'
<1>1. /\ pico.at \in {"top", "drain", "push"} /\ board.reload = NoReload
      /\ core' = [core EXCEPT !.running = FALSE, !.configured = FALSE,
                            !.certificate = @ /\ MemoryKept]
      /\ tx' = <<>> /\ rx' = <<>>
      /\ laptop' = [laptop EXCEPT !.powers = @ + 1]
      /\ UNCHANGED <<board, pico, queue, logged, taken>>
  BY DEF Power
<1>2. Base' = Base /\ Untyped' = Untyped /\ Drained' = Drained /\ Caught' = Drained
  <2>1. Base' = Base /\ Untyped' = Untyped
    BY <1>1 DEF Base, Untyped, Pushing, Given, Typed, Rest, Types
  <2>2. pico.words \in Seq(Messages)
    BY DEF Inv, TypeInv, Picos
  <2>3. \A s \in Seq(Messages) : s \o <<>> = s
    OBVIOUS
  <2> QED
    BY <1>1, <2>1, <2>2, <2>3 DEF Caught, Drained
<1>3. /\ laptop' \in Laptops /\ ~laptop'.failed /\ laptop'.bus = laptop.bus
      /\ laptop'.stage = laptop.stage /\ laptop'.toggle = laptop.toggle
      /\ laptop'.powers = laptop.powers + 1 /\ laptop'.script = laptop.script
      /\ laptop'.address = laptop.address /\ laptop'.request = laptop.request
  <2>1. laptop \in Laptops /\ ~laptop.failed
    BY DEF Inv, TypeInv
  <2>2. PICK powers \in Nat : powers = laptop.powers + 1
    BY <2>1 DEF Laptops
  <2>3. laptop' = [laptop EXCEPT !.powers = powers]
    BY <1>1, <2>2
  <2> QED
    BY <2>1, <2>2, <2>3 DEF Laptops
<1>4. TypeInv'
  <2>1. core \in Cores /\ <<>> \in Seq(Replies) /\ <<>> \in Seq(Messages)
    BY DEF Inv, TypeInv
  <2>2. PICK certificate : certificate = (core.certificate /\ MemoryKept)
    OBVIOUS
  <2>3. certificate \in BOOLEAN
    BY <2>2
  <2>4. core' = [core EXCEPT !.running = FALSE, !.configured = FALSE, !.certificate = certificate]
    BY <1>1, <2>2
  <2>5. core' \in Cores
    BY <2>1, <2>3, <2>4 DEF Cores
  <2> QED
    BY <1>1, <1>2, <1>3, <2>1, <2>5 DEF Inv, TypeInv
<1>5. PicoInv' /\ ResetInv'
  <2>1. ~core'.running
    BY <1>1 DEF Inv, TypeInv, Cores
  <2>2. PicoInv'
    BY <1>1, <1>3, <2>1 DEF Inv, PicoInv, Halted, Pushing
  <2>3. ResetInv'
    BY <1>1, <1>3, <2>1 DEF Inv, ResetInv, Halted, Pushing, Nothing
  <2> QED
    BY <2>2, <2>3
<1>6. LoadInv'
  <2>1. Drained.reload # NoReload => Nothing(Caught) /\ Caught = Drained /\ Caught.reload # NoReload
    BY NothingHeard DEF Inv, LoadInv
  <2>2. ~core'.running /\ ~Loading'
    BY <1>1 DEF Inv, TypeInv, Cores, Loading
  <2> QED
    BY <1>1, <1>2, <1>3, <2>1, <2>2 DEF Inv, LoadInv, Nothing
<1>7. LinkedInv'
  <2>1. Asks(laptop')
    BY <1>3 DEF Inv, LinkedInv, Asks
  <2>2. ~Linked'
    BY <1>1 DEF Linked, Inv, TypeInv, Cores
  <2> QED
    BY <2>1, <2>2 DEF LinkedInv
<1>8. CountInv'
  <2>1. /\ Left(Caught, Untyped) /\ Left(board, queue)
        /\ Drained.pending \in {None, Base.pending} /\ Caught.pending \in {None, Drained.pending}
        /\ Counted(Due(Caught, Untyped), taken, laptop.powers) /\ InOrder(taken)
        /\ Caught.pending # Drained.pending => Latest(taken) # Due(Caught, Untyped)
    BY DEF Inv, CountInv
  <2>2. Left(Base, Untyped)
    <3>1. CASE ~Pushing
      BY <2>1, <3>1 DEF Base, Untyped
    <3>2. CASE Pushing
      <4>1. Given \in Boards /\ Given.pending = board.pending
        BY <3>2, SentIs DEF Inv
      <4>2. Left(Given, queue) /\ queue \in Seq(Nat)
        BY <2>1, <4>1 DEF Left, Inv, TypeInv
      <4> QED
        BY <3>2, <4>1, <4>2, TypedCounts DEF Base, Untyped
    <3> QED
      BY <3>1, <3>2
  <2>3. Left(Drained, Untyped)
    BY <2>1, <2>2 DEF Left
  <2>4. Counted(Due(Drained, Untyped), taken, laptop.powers + 1)
    <3>1. Len(taken) \in Nat /\ Latest(taken) \in Nat /\ laptop.powers \in Nat
      <4>1. taken \in Seq(Nat) /\ laptop \in Laptops
        BY DEF Inv, TypeInv
      <4>2. \A s \in Seq(Nat) : Len(s) \in Nat /\ (s # <<>> => s[Len(s)] \in Nat)
        OBVIOUS
      <4> QED
        BY <4>1, <4>2 DEF Latest, Last, Laptops
    <3>2. Len(Untyped) \in Nat /\ Reports \in Nat
      <4>1. \A s \in Seq(Nat) : Len(s) \in Nat /\ (s # <<>> => Tail(s) \in Seq(Nat))
        OBVIOUS
      <4>2. Untyped \in Seq(Nat)
        BY <4>1 DEF Untyped, Rest, Types, Inv, TypeInv
      <4> QED
        BY <4>1, <4>2, KeyboardAssumption
    <3>3. CASE Caught.pending = Drained.pending
      BY <2>1, <3>1, <3>2, <3>3 DEF Counted, Due
    <3>4. CASE Caught.pending # Drained.pending
      <4>1. Caught.pending = None /\ Drained.pending # None
        BY <2>1, <3>4
      <4>2. Due(Caught, Untyped) = Due(Drained, Untyped) + 1
        BY <3>2, <4>1 DEF Due
      <4>3. Due(Drained, Untyped) \in Int
        BY <3>2 DEF Due
      <4> QED
        BY <2>1, <3>1, <3>4, <4>2, <4>3 DEF Counted
    <3> QED
      BY <3>3, <3>4
  <2>5. /\ Left(Drained', Untyped') /\ Left(board', queue')
        /\ Counted(Due(Drained', Untyped'), taken', laptop'.powers) /\ InOrder(taken')
    BY <1>1, <1>2, <1>3, <2>1, <2>3, <2>4
  <2> QED
    BY <1>1, <1>2, <2>1, <2>5 DEF CountInv
<1>9. LogInv'
  BY <1>1 DEF Inv, LogInv, Unlogged, Due
<1> QED
  BY <1>4, <1>5, <1>6, <1>7, <1>8, <1>9 DEF Inv

-----------------------------------------------------------------------------
(***************************************************************************)
(* The Pico's steps.                                                       *)
(***************************************************************************)

\* A board reset has nothing to say, and asks to be loaded.
LEMMA ResetIs ==
  /\ Reset \in Boards /\ Nothing(Reset) /\ Reset.reload # NoReload
  /\ Reset.pending = None /\ Reset.reload = 0
<1>1. <<>> \in Seq(Chunks) /\ <<>> \in Seq(Replies)
  OBVIOUS
<1> QED
  BY <1>1 DEF Reset, Boards, Nothing, NoReload, None, Pids

\* The report a reset of the bus loses goes before those still to type.
LEMMA PutBackIs ==
  ASSUME NEW b \in Boards, queue \in Seq(Nat), Left(b, queue), NEW q, q = PutBack(b.pending)
  PROVE  q \in Seq(Nat) /\ Left(Reset, q) /\ Due(Reset, q) = Due(b, queue)
<1>1. Reset.pending = None /\ Reports \in Nat
  BY ResetIs, KeyboardAssumption
<1>2. Len(queue) \in Nat /\ b.pending \in Nat
  BY DEF Boards
<1>3. CASE b.pending = None
  BY <1>1, <1>3 DEF PutBack, Left, Due
<1>4. CASE b.pending # None
  <2> DEFINE p == b.pending
             n == Len(queue)
  <2>1. q = <<p>> \o queue
    BY <1>4 DEF PutBack
  <2>2. p = Reports - n /\ p # 0 /\ p \in Nat /\ n \in Nat
    BY <1>2, <1>4 DEF Left, None
  <2>3. \A i \in 1 .. n : queue[i] = Reports - n + i
    BY DEF Left, IsRest
  <2> HIDE DEF p
  <2>4. /\ q \in Seq(Nat) /\ Len(q) = 1 + n
        /\ q[1] = p /\ \A i \in 1 .. n : q[1 + i] = queue[i]
    <3>1. <<p>> \in Seq(Nat) /\ Len(<<p>>) = 1 /\ <<p>>[1] = p
      BY <2>2
    <3>2. \A t, u \in Seq(Nat) :
            /\ t \o u \in Seq(Nat) /\ Len(t \o u) = Len(t) + Len(u)
            /\ \A i \in 1 .. Len(t) : (t \o u)[i] = t[i]
            /\ \A i \in 1 .. Len(u) : (t \o u)[Len(t) + i] = u[i]
      OBVIOUS
    <3>3. PICK t \in Seq(Nat) : t = <<p>>
      BY <3>1
    <3>4. Len(t) = 1 /\ t[1] = p /\ q = t \o queue /\ 1 \in 1 .. Len(t)
      BY <2>1, <3>1, <3>3
    <3>5. /\ t \o queue \in Seq(Nat) /\ Len(t \o queue) = Len(t) + n
          /\ \A i \in 1 .. Len(t) : (t \o queue)[i] = t[i]
          /\ \A i \in 1 .. n : (t \o queue)[Len(t) + i] = queue[i]
      BY <3>2
    <3> HIDE DEF n
    <3>6. q \in Seq(Nat) /\ Len(q) = 1 + n
      BY <3>4, <3>5
    <3>7. q[1] = p
      BY <3>4, <3>5
    <3>8. \A i \in 1 .. n : q[1 + i] = queue[i]
      BY <3>4, <3>5
    <3> QED
      BY <3>6, <3>7, <3>8
  <2> HIDE DEF n
  <2>5. ASSUME NEW i \in 1 .. 1 + n PROVE q[i] = Reports - (1 + n) + i
    <3>1. CASE i = 1
      BY <1>1, <2>2, <2>4, <3>1
    <3>2. CASE i # 1
      <4>1. PICK j \in 1 .. n : i = 1 + j
        <5>1. i - 1 \in 1 .. n /\ i = 1 + (i - 1)
          BY <2>2, <3>2
        <5> QED
          BY <5>1
      <4>2. q[1 + j] = Reports - n + j
        BY <2>3, <2>4
      <4>3. Reports - n + j = Reports - (1 + n) + (1 + j)
        BY <1>1, <2>2
      <4> QED
        BY <4>1, <4>2, <4>3
    <3> QED
      BY <3>1, <3>2
  <2>6. IsRest(q)
    BY <1>1, <2>2, <2>4, <2>5 DEF IsRest
  <2>7. Due(Reset, q) = Reports - n /\ Due(b, queue) = Reports - n
    BY <1>1, <1>4, <2>2, <2>4 DEF Due, n
  <2> QED
    BY <1>1, <2>4, <2>6, <2>7 DEF Left
<1> QED
  BY <1>3, <1>4

\* A reset of the bus is seen to have lasted, or nothing of the board changes.
LEMMA TopInv ==
  ASSUME Inv, Top
  PROVE  Inv'
<1>1. PICK long \in BOOLEAN :
       LET low == laptop.bus = "reset"
           fires == low /\ Saw(pico.since, long)
           b == IF fires THEN Reset ELSE board
       IN  /\ board' = b
           /\ queue' = IF fires THEN PutBack(board.pending) ELSE queue
           /\ pico' = [pico EXCEPT
                !.at = "drain", !.words = <<>>, !.sent = b.pending,
                !.since = CASE ~low -> "none"
                            [] fires -> "fired"
                            [] low /\ ~fires /\ pico.since = "none" -> "seen"
                            [] OTHER -> @]
  BY DEF Top
<1>2. pico.at = "top" /\ UNCHANGED <<core, tx, rx, logged, laptop, taken>>
  BY DEF Top
<1> DEFINE low == laptop.bus = "reset"
           fires == low /\ Saw(pico.since, long)
           b == IF fires THEN Reset ELSE board
           since == CASE ~low -> "none"
                      [] fires -> "fired"
                      [] low /\ ~fires /\ pico.since = "none" -> "seen"
                      [] OTHER -> pico.since
<1>3. /\ board' = b /\ queue' = IF fires THEN PutBack(board.pending) ELSE queue
      /\ pico' = [pico EXCEPT !.at = "drain", !.words = <<>>, !.sent = b.pending, !.since = since]
  BY <1>1
<1>4. pico \in Picos /\ pico.words = <<>> /\ board \in Boards
  BY <1>2 DEF Inv, TypeInv, PicoInv
<1>5. b \in Boards /\ since \in {"none", "seen", "fired"}
  <2>1. b \in Boards
    BY <1>4, ResetIs
  <2>2. pico.since \in {"none", "seen", "fired"}
    BY <1>4 DEF Picos
  <2> QED
    BY <2>1, <2>2
<1>6. /\ fires => low /\ pico.since = "seen"
      /\ since = "seen" => low
      /\ since = "fired" => fires \/ (low /\ pico.since = "fired")
  BY DEF Saw
<1> HIDE DEF b, since, fires, low
<1>7. /\ pico' \in Picos /\ pico'.at = "drain" /\ pico'.words = <<>>
      /\ pico'.sent = b.pending /\ pico'.since = since
  <2>1. b.pending \in Nat /\ <<>> \in Seq(Messages)
    BY <1>5 DEF Boards
  <2> QED
    BY <1>3, <1>4, <1>5, <2>1 DEF Picos
<1>8. Base = board /\ Untyped = queue /\ Sent = tx /\ Base' = b /\ Untyped' = queue' /\ Sent' = tx
  BY <1>2, <1>3, <1>7 DEF Base, Untyped, Sent, Pushing
<1>9. Drained = board /\ Drained' = b
  BY <1>4, <1>7, <1>8, FedNothing DEF Drained
<1>10. Left(board, queue) /\ queue \in Seq(Nat)
  BY DEF Inv, CountInv, TypeInv
<1>11. CASE fires
  <2>1. /\ low /\ rx = <<>> /\ b = Reset /\ laptop.bus = "reset"
        /\ queue' = PutBack(board.pending)
    BY <1>2, <1>3, <1>6, <1>11 DEF Inv, PicoInv, b, low
  <2>2. Caught = board /\ Caught' = Reset
    <3>1. rx' = <<>>
      BY <1>2, <2>1
    <3>2. <<>> \o <<>> = <<>>
      BY Short
    <3> QED
      BY <1>4, <1>7, <1>8, <2>1, <3>1, <3>2, FedNothing DEF Caught
  <2>3. queue' \in Seq(Nat) /\ Left(Reset, queue') /\ Due(Reset, queue') = Due(board, queue)
    BY <1>4, <1>10, <2>1, PutBackIs
  <2>4. TypeInv'
    BY <1>2, <1>3, <1>5, <1>7, <1>9, <2>1, <2>2, <2>3 DEF Inv, TypeInv
  <2>5. PicoInv'
    BY <1>2, <1>3, <1>6, <1>7, <2>1 DEF PicoInv, Halted, Pushing, low
  <2>6. ResetInv'
    BY <1>2, <1>3, <1>7, <2>1, ResetIs DEF Inv, ResetInv, Pushing
  <2>7. LoadInv'
    BY <1>2, <1>7, <2>1, <2>2, ResetIs DEF LoadInv, Loading
  <2>8. LinkedInv'
    BY <1>2, <2>1 DEF Inv, LinkedInv, Linked
  <2>9. CountInv'
    <3>1. Counted(Due(board, queue), taken, laptop.powers) /\ InOrder(taken)
      BY <1>8, <2>2 DEF Inv, CountInv
    <3>2. Counted(Due(Reset, queue'), taken', laptop'.powers) /\ InOrder(taken')
      BY <1>2, <2>3, <3>1
    <3> QED
      BY <1>3, <1>8, <1>9, <2>1, <2>2, <2>3, <3>2 DEF CountInv
  <2>10. LogInv'
    <3>1. /\ Len(logged) = Due(board, queue) - 1
          /\ \A i \in 1 .. Len(logged) : logged[i] = i
      BY <1>2 DEF Inv, LogInv, Unlogged
    <3>2. board' = Reset /\ ~Unlogged'
      BY <1>3, <1>7, <2>1 DEF Unlogged
    <3> QED
      BY <1>2, <1>7, <2>1, <2>3, <3>1, <3>2 DEF LogInv
  <2> QED
    BY <2>4, <2>5, <2>6, <2>7, <2>8, <2>9, <2>10 DEF Inv
<1>12. CASE ~fires
  <2>1. board' = board /\ queue' = queue /\ b = board
    BY <1>3, <1>12 DEF b
  <2>2. Base' = Base /\ Untyped' = Untyped /\ Drained' = Drained /\ Caught' = Caught /\ Sent' = Sent
    BY <1>2, <1>4, <1>7, <1>8, <1>9, <2>1 DEF Caught
  <2>3. TypeInv'
    BY <1>2, <1>7, <2>1, <2>2 DEF Inv, TypeInv
  <2>4. PicoInv'
    BY <1>2, <1>4, <1>6, <1>7, <2>1 DEF Inv, PicoInv, Halted, Pushing, low
  <2>5. ResetInv'
    BY <1>2, <1>6, <1>7, <1>12, <2>1 DEF Inv, ResetInv, Pushing, Nothing
  <2>6. LoadInv'
    BY <1>2, <1>7, <2>2 DEF Inv, LoadInv, Loading, Nothing
  <2>7. LinkedInv'
    BY <1>2, <1>7, <2>2 DEF Inv, LinkedInv, Linked
  <2>8. CountInv'
    BY <1>2, <2>1, <2>2, CountsStay DEF Inv
  <2>9. LogInv'
    BY <1>2, <1>7, <2>1 DEF Inv, LogInv, Unlogged, Due
  <2> QED
    BY <2>3, <2>4, <2>5, <2>6, <2>7, <2>8, <2>9 DEF Inv
<1> QED
  BY <1>11, <1>12

\* The Pico drains what the core holds: the board lags by as much as before.
LEMMA DrainInv ==
  ASSUME Inv, Drain
  PROVE  Inv'
<1>1. /\ pico.at = "drain" /\ rx # <<>> /\ pico' = [pico EXCEPT !.words = @ \o rx]
      /\ rx' = <<>> /\ UNCHANGED <<core, tx, board, queue, logged, laptop, taken>>
  BY DEF Drain
<1>2. pico \in Picos /\ pico.words \in Seq(Messages) /\ rx \in Seq(Messages)
  BY DEF Inv, TypeInv, Picos
<1>3. \A s, t \in Seq(Messages) : s \o t \in Seq(Messages) /\ s \o <<>> = s
  OBVIOUS
<1>4. /\ pico' \in Picos /\ pico'.at = "drain" /\ pico'.words = pico.words \o rx
      /\ pico'.since = pico.since /\ pico'.sent = pico.sent
  <2>1. PICK words \in Seq(Messages) : words = pico.words \o rx
    BY <1>2, <1>3
  <2>2. pico' = [pico EXCEPT !.words = words]
    BY <1>1, <2>1
  <2> QED
    BY <1>1, <1>2, <2>1, <2>2 DEF Picos
<1>5. Base' = Base /\ Untyped' = Untyped /\ Sent' = Sent
  BY <1>1, <1>4 DEF Base, Untyped, Sent, Pushing
<1>6. Drained' = Caught /\ Caught' = Caught
  BY <1>1, <1>2, <1>3, <1>4, <1>5 DEF Drained, Caught
<1>7. TypeInv'
  <2>1. <<>> \in Seq(Messages)
    OBVIOUS
  <2> QED
    BY <1>1, <1>4, <1>6, <2>1 DEF Inv, TypeInv
<1>8. PicoInv'
  BY <1>1, <1>4 DEF Inv, PicoInv, Halted, Pushing
<1>9. ResetInv'
  BY <1>1, <1>4 DEF Inv, ResetInv, Pushing, Nothing
<1>10. LoadInv'
  BY <1>1, <1>4, <1>6 DEF Inv, LoadInv, Loading, Nothing
<1>11. LinkedInv'
  BY <1>1, <1>4, <1>5, <1>6 DEF Inv, LinkedInv, Linked
<1>12. CountInv'
  <2>1. /\ Left(Caught, Untyped) /\ Left(board, queue)
        /\ Drained.pending \in {None, Base.pending} /\ Caught.pending \in {None, Drained.pending}
        /\ Counted(Due(Caught, Untyped), taken, laptop.powers) /\ InOrder(taken)
    BY DEF Inv, CountInv
  <2>2. /\ Left(Caught', Untyped') /\ Left(board', queue')
        /\ Counted(Due(Caught', Untyped'), taken', laptop'.powers) /\ InOrder(taken')
    BY <1>1, <1>5, <1>6, <2>1
  <2> QED
    BY <1>5, <1>6, <2>1, <2>2 DEF CountInv
<1>13. LogInv'
  BY <1>1, <1>4 DEF Inv, LogInv, Unlogged, Due
<1> QED
  BY <1>7, <1>8, <1>9, <1>10, <1>11, <1>12, <1>13 DEF Inv

\* A round that ends with this board has one report more to log if it was found taken.
Found(b) ==
  /\ Len(logged) = Due(b, queue) - (IF pico.sent # None /\ b.pending = None THEN 2 ELSE 1)
  /\ pico.sent # None /\ b.pending = None => pico.sent = Due(b, queue) - 1

\* A round that goes back to the top logs a report it found taken.
LEMMA RoundLogs ==
  ASSUME Inv, NEW b \in Boards, Left(b, queue), Found(b), Round(b), pico'.at = "top"
  PROVE  /\ board' = Typed(b) /\ queue' = Rest(b)
         /\ board' \in Boards /\ queue' \in Seq(Nat) /\ Left(board', queue')
         /\ Due(board', queue') = Due(b, queue) /\ board'.reload = b.reload
         /\ logged' \in Seq(Nat) /\ LogInv'
<1>1. board' = Typed(b) /\ queue' = Rest(b)
  BY DEF Round, Typed, Rest, Types
<1>2. queue \in Seq(Nat) /\ logged \in Seq(Nat) /\ pico.sent \in Nat
  BY DEF Inv, TypeInv, Picos
<1>3. /\ board' \in Boards /\ queue' \in Seq(Nat) /\ Left(board', queue')
      /\ Due(board', queue') = Due(b, queue) /\ board'.reload = b.reload
  BY <1>1, <1>2, TypedCounts
<1>4. ~Unlogged' /\ pico'.at # "drain"
  BY DEF Unlogged
<1>5. \A i \in 1 .. Len(logged) : logged[i] = i
  BY DEF Inv, LogInv
<1>6. Due(b, queue) \in Int
  BY <1>2, KeyboardAssumption DEF Due
<1>7. CASE pico.sent # None /\ b.pending = None
  <2>1. /\ logged' = Append(logged, pico.sent)
        /\ pico.sent = Due(b, queue) - 1 /\ Len(logged) = Due(b, queue) - 2
    BY <1>7 DEF Round, Found
  <2>2. /\ logged' \in Seq(Nat) /\ Len(logged') = Len(logged) + 1
        /\ logged'[Len(logged) + 1] = pico.sent
        /\ \A i \in 1 .. Len(logged) : logged'[i] = logged[i]
    BY <1>2, <2>1
  <2>3. ASSUME NEW i \in 1 .. Len(logged') PROVE logged'[i] = i
    <3>1. i \in 1 .. Len(logged) \/ i = Len(logged) + 1
      BY <1>2, <2>2
    <3> QED
      BY <1>5, <1>6, <2>1, <2>2, <3>1
  <2>4. Len(logged') = Due(board', queue') - 1
    BY <1>3, <1>6, <2>1, <2>2
  <2> QED
    BY <1>1, <1>3, <1>4, <2>2, <2>3, <2>4 DEF LogInv
<1>8. CASE ~(pico.sent # None /\ b.pending = None)
  <2>1. logged' = logged /\ Len(logged) = Due(b, queue) - 1
    BY <1>8 DEF Round, Found
  <2> QED
    BY <1>1, <1>2, <1>3, <1>4, <1>5, <2>1 DEF LogInv
<1> QED
  BY <1>7, <1>8

\* The board is fed all there was: a report found taken is the one the round began with.
LEMMA FeedFinds ==
  ASSUME Inv, pico.at = "drain", rx = <<>>
  PROVE  /\ Caught \in Boards /\ Caught = Drained /\ Base = board /\ Untyped = queue /\ Sent = tx
         /\ Left(Caught, queue) /\ Found(Caught)
         /\ Counted(Due(Caught, queue), taken, laptop.powers)
<1>1. Base = board /\ Untyped = queue /\ Sent = tx
  BY DEF Base, Untyped, Sent, Pushing
<1>2. Caught \in Boards /\ Caught = Drained
  BY NothingHeard DEF Inv, TypeInv
<1>3. /\ Left(Caught, queue) /\ Left(board, queue) /\ Caught.pending \in {None, board.pending}
      /\ Counted(Due(Caught, queue), taken, laptop.powers)
  BY <1>1, <1>2 DEF Inv, CountInv
<1>4. Len(logged) = Due(board, queue) - 1 /\ pico.sent = board.pending
  BY DEF Inv, LogInv, Unlogged
<1>5. Len(queue) \in Nat /\ Reports \in Nat /\ Len(logged) \in Nat /\ board.pending \in Nat
  <2>1. queue \in Seq(Nat) /\ logged \in Seq(Nat) /\ board \in Boards
    BY DEF Inv, TypeInv
  <2>2. \A s \in Seq(Nat) : Len(s) \in Nat
    OBVIOUS
  <2>3. board.pending \in Nat
    BY <2>1 DEF Boards
  <2> QED
    BY <2>1, <2>2, <2>3, KeyboardAssumption
<1>6. Found(Caught)
  <2>1. CASE Caught.pending = board.pending
    BY <1>4, <1>5, <2>1 DEF Found, Due
  <2>2. CASE Caught.pending = None /\ board.pending # None
    BY <1>3, <1>4, <1>5, <2>2 DEF Found, Due, Left
  <2> QED
    BY <1>3, <2>1, <2>2
<1> QED
  BY <1>1, <1>2, <1>3, <1>6

\* The Pico's place and the words it has drained, after a step that empties them.
LEMMA Emptied ==
  ASSUME pico'.words = <<>>, rx' = <<>>
  PROVE  Drained' = Base' /\ Caught' = Base'
<1>1. <<>> \o <<>> = <<>>
  BY Short
<1>2. Drained' = FedAll(Base', <<>>) /\ Caught' = FedAll(Base', <<>> \o <<>>)
  BY DEF Drained, Caught
<1> QED
  BY <1>1, <1>2, FedNothing

\* A load is asked for.
LEMMA FeedLoads ==
  ASSUME Inv, pico.at = "drain", rx = <<>>, UNCHANGED <<core, tx, rx, laptop, taken, queue, logged>>,
         Caught.reload # NoReload, board' = [Caught EXCEPT !.reload = NoReload],
         pico' = [pico EXCEPT
           !.at = "stop", !.loading = Caught.reload, !.words = <<>>,
           !.full = LoadsFull(~core.running, pico.loaded)]
  PROVE  Inv'
<1>1. /\ Caught \in Boards /\ Caught = Drained /\ Base = board /\ Untyped = queue /\ Sent = tx
      /\ Left(Caught, queue) /\ Found(Caught)
      /\ Counted(Due(Caught, queue), taken, laptop.powers)
  BY FeedFinds
<1>2. /\ board' \in Boards /\ board'.reload = NoReload /\ board'.pending = Caught.pending
      /\ Nothing(Caught) => Nothing(board')
  <2>1. NoReload \in Int
    BY DEF NoReload
  <2>2. board' \in Boards /\ board'.reload = NoReload /\ board'.pending = Caught.pending
    BY <1>1, <2>1 DEF Boards
  <2>3. /\ board'.queued = Caught.queued /\ board'.replies = Caught.replies
        /\ board'.chunks = Caught.chunks /\ board'.new_address = Caught.new_address
        /\ board'.configured = Caught.configured /\ board'.dropped = Caught.dropped
        /\ board'.report_toggle = Caught.report_toggle
    BY <1>1 DEF Boards
  <2> QED
    BY <2>2, <2>3 DEF Nothing
<1>3. /\ pico' \in Picos /\ pico'.at = "stop" /\ pico'.words = <<>>
      /\ pico'.since = pico.since /\ pico'.sent = pico.sent
  <2>1. PICK full \in BOOLEAN : full = LoadsFull(~core.running, pico.loaded)
    BY DEF LoadsFull
  <2>2. PICK loading \in Int : loading = Caught.reload
    BY <1>1 DEF Boards
  <2>3. pico' = [pico EXCEPT !.at = "stop", !.loading = loading, !.words = <<>>, !.full = full]
    BY <2>1, <2>2
  <2>4. pico \in Picos /\ <<>> \in Seq(Messages)
    BY DEF Inv, TypeInv
  <2> QED
    BY <2>3, <2>4 DEF Picos
<1>4. Base' = board' /\ Untyped' = queue
  BY <1>3 DEF Base, Untyped, Pushing
<1>5. Drained' = board' /\ Caught' = board'
  BY <1>3, <1>4, Emptied
<1>6. TypeInv'
  BY <1>2, <1>3, <1>5 DEF Inv, TypeInv
<1>7. PicoInv'
  BY <1>2, <1>3 DEF Inv, PicoInv, Halted, Pushing
<1>8. Nothing(Caught)
  BY DEF Inv, LoadInv
<1>9. ResetInv'
  BY <1>2, <1>3, <1>8 DEF Inv, ResetInv, Pushing
<1>10. LoadInv'
  BY <1>2, <1>3, <1>5, <1>8 DEF Inv, LoadInv, Loading
<1>11. LinkedInv'
  BY <1>3 DEF Inv, LinkedInv, Linked
<1>12. CountInv'
  <2>1. Left(board', queue) /\ Due(board', queue) = Due(Caught, queue) /\ InOrder(taken)
    BY <1>1, <1>2 DEF Left, Due, Inv, CountInv
  <2>2. /\ Left(board', queue') /\ InOrder(taken')
        /\ Counted(Due(board', queue'), taken', laptop'.powers)
    BY <1>1, <2>1
  <2> QED
    BY <1>4, <1>5, <2>2 DEF CountInv
<1>13. LogInv'
  <2>1. Unlogged' = (pico.sent # None /\ Caught.pending = None)
    BY <1>2, <1>3 DEF Unlogged
  <2>2. Due(board', queue') = Due(Caught, queue)
    BY <1>2 DEF Due
  <2>3. \A i \in 1 .. Len(logged) : logged[i] = i
    BY DEF Inv, LogInv
  <2> QED
    BY <1>1, <1>3, <2>1, <2>2, <2>3 DEF LogInv, Found
<1> QED
  BY <1>6, <1>7, <1>9, <1>10, <1>11, <1>12, <1>13 DEF Inv

\* A reply is to be pushed.
LEMMA FeedPushes ==
  ASSUME Inv, pico.at = "drain", rx = <<>>, UNCHANGED <<core, tx, rx, laptop, taken, queue, logged>>,
         Caught.reload = NoReload, Caught.replies # <<>>, board' = Caught,
         pico' = [pico EXCEPT !.at = "push", !.words = <<>>]
  PROVE  Inv'
<1>1. /\ Caught \in Boards /\ Caught = Drained /\ Base = board /\ Untyped = queue /\ Sent = tx
      /\ Left(Caught, queue) /\ Found(Caught)
      /\ Counted(Due(Caught, queue), taken, laptop.powers)
  BY FeedFinds
<1>2. /\ pico' \in Picos /\ pico'.at = "push" /\ pico'.words = <<>>
      /\ pico'.since = pico.since /\ pico'.sent = pico.sent
  <2>1. pico \in Picos /\ <<>> \in Seq(Messages)
    BY DEF Inv, TypeInv
  <2> QED
    BY <2>1 DEF Picos
<1>3. PICK g : g = [Caught EXCEPT !.replies = Tail(@)]
  OBVIOUS
<1>4. PICK c : c = Typed(g)
  OBVIOUS
<1>5. Base' = c /\ Untyped' = Rest(g) /\ Sent' = Append(tx, Head(Caught.replies))
  <2>1. Given' = g
    BY <1>3 DEF Given
  <2> QED
    BY <1>2, <1>4, <2>1 DEF Base, Untyped, Sent, Pushing, Typed, Rest, Types
<1>6. tx \in Seq(Replies) /\ queue \in Seq(Nat) /\ laptop \in Laptops
  BY DEF Inv, TypeInv
<1>7. g \in Boards /\ g.pending = Caught.pending /\ g.reload = Caught.reload
  <2>1. g \in Boards
    BY <1>1, <1>3, <1>6, ReplyWaits
  <2> QED
    BY <1>1, <1>3, <2>1 DEF Boards
<1>8. Left(g, queue) /\ Due(g, queue) = Due(Caught, queue)
  BY <1>1, <1>7 DEF Left, Due
<1>9. PICK q : q = Rest(g)
  OBVIOUS
<1>10. /\ c \in Boards /\ q \in Seq(Nat) /\ Left(c, q) /\ Due(c, q) = Due(g, queue)
       /\ c.reload = NoReload
       /\ queue # <<>> => Head(queue) # None
  BY <1>4, <1>6, <1>7, <1>8, <1>9, TypedCounts
<1>11. Drained' = c /\ Caught' = c
  BY <1>2, <1>5, Emptied
<1>12. TypeInv'
  BY <1>1, <1>2, <1>10, <1>11 DEF Inv, TypeInv
<1>13. PicoInv'
  BY <1>2 DEF Inv, PicoInv, Halted, Pushing
<1>14. ~(laptop.bus = "reset" /\ pico.since = "fired")
  <2> SUFFICES ASSUME laptop.bus = "reset" /\ pico.since = "fired" PROVE FALSE
    OBVIOUS
  <2>1. Nothing(board) /\ pico.words = <<>>
    BY DEF Inv, ResetInv
  <2>2. Caught = board
    BY <1>1, <2>1, NothingToFeed
  <2> QED
    BY <2>1, <2>2 DEF Nothing
<1>15. ResetInv'
  BY <1>2, <1>14 DEF Inv, ResetInv
<1>16. LoadInv'
  BY <1>2, <1>10, <1>11 DEF LoadInv, Loading
<1>17. LinkedInv'
  <2> SUFFICES ASSUME Linked' PROVE Agree(c, Sent', laptop)
    BY <1>11 DEF Inv, LinkedInv
  <2>1. Agree(Caught, tx, laptop)
    BY <1>1 DEF Inv, LinkedInv, Linked
  <2>2. PICK s \in Seq(Replies) : s = Append(tx, Head(Caught.replies))
    BY <1>1, <1>6, ReplyWaits
  <2>3. Agree(g, s, laptop)
    BY <1>1, <1>3, <1>6, <2>1, <2>2, SentAgrees
  <2>4. Agree(c, s, laptop)
    BY <1>4, <1>6, <1>7, <1>10, <2>3, TypedAgrees
  <2> QED
    BY <1>5, <2>2, <2>4
<1>18. CountInv'
  <2>1. Left(c, q) /\ InOrder(taken) /\ Counted(Due(c, q), taken, laptop.powers)
    BY <1>1, <1>8, <1>10 DEF Inv, CountInv
  <2>2. Left(Caught', Untyped') /\ InOrder(taken') /\ Counted(Due(Caught', Untyped'), taken', laptop'.powers)
    BY <1>5, <1>9, <1>11, <2>1
  <2>3. Left(board', queue')
    BY <1>1
  <2> QED
    BY <1>5, <1>11, <2>2, <2>3 DEF CountInv
<1>19. LogInv'
  <2>1. Unlogged' = (pico.sent # None /\ Caught.pending = None)
    BY <1>2 DEF Unlogged
  <2>2. \A i \in 1 .. Len(logged) : logged[i] = i
    BY DEF Inv, LogInv
  <2> QED
    BY <1>1, <1>2, <2>1, <2>2 DEF LogInv, Found
<1> QED
  BY <1>12, <1>13, <1>15, <1>16, <1>17, <1>18, <1>19 DEF Inv

\* The round ends: nothing is loaded or pushed.
LEMMA FeedEnds ==
  ASSUME Inv, pico.at = "drain", rx = <<>>, UNCHANGED <<core, tx, rx, laptop, taken>>,
         Caught.reload = NoReload, pico' = [pico EXCEPT !.at = "top", !.words = <<>>],
         Round(Caught)
  PROVE  Inv'
<1>1. /\ Caught \in Boards /\ Caught = Drained /\ Base = board /\ Untyped = queue /\ Sent = tx
      /\ Left(Caught, queue) /\ Found(Caught)
      /\ Counted(Due(Caught, queue), taken, laptop.powers)
  BY FeedFinds
<1>2. /\ pico' \in Picos /\ pico'.at = "top" /\ pico'.words = <<>>
      /\ pico'.since = pico.since /\ pico'.sent = pico.sent
  <2>1. pico \in Picos /\ <<>> \in Seq(Messages)
    BY DEF Inv, TypeInv
  <2> QED
    BY <2>1 DEF Picos
<1>3. /\ board' = Typed(Caught) /\ queue' = Rest(Caught)
      /\ board' \in Boards /\ queue' \in Seq(Nat) /\ Left(board', queue')
      /\ Due(board', queue') = Due(Caught, queue) /\ board'.reload = Caught.reload
      /\ logged' \in Seq(Nat) /\ LogInv'
  BY <1>1, <1>2, RoundLogs
<1>4. Base' = board' /\ Untyped' = queue' /\ Sent' = tx
  BY <1>2 DEF Base, Untyped, Sent, Pushing
<1>5. Drained' = board' /\ Caught' = board'
  BY <1>2, <1>4, Emptied
<1>6. TypeInv'
  BY <1>2, <1>3, <1>5 DEF Inv, TypeInv
<1>7. PicoInv'
  BY <1>2, <1>3 DEF Inv, PicoInv, Halted, Pushing
<1>8. ResetInv'
  <2>1. laptop.bus = "reset" /\ pico.since = "fired" => board' = board
    <3>1. laptop.bus = "reset" /\ pico.since = "fired" => Nothing(board) /\ Caught = board
      BY <1>1, NothingToFeed DEF Inv, ResetInv
    <3> QED
      BY <1>3, <3>1 DEF Typed, Types, Nothing
  <2> QED
    BY <1>2, <2>1 DEF Inv, ResetInv, Pushing
<1>9. LoadInv'
  BY <1>2, <1>3, <1>5 DEF LoadInv, Loading
<1>10. LinkedInv'
  <2> SUFFICES ASSUME Linked' PROVE Agree(board', tx, laptop)
    BY <1>4, <1>5 DEF Inv, LinkedInv
  <2>1. Agree(Caught, tx, laptop)
    BY <1>1 DEF Inv, LinkedInv, Linked
  <2>2. tx \in Seq(Replies) /\ queue \in Seq(Nat) /\ laptop \in Laptops
    BY DEF Inv, TypeInv
  <2>3. queue # <<>> => Head(queue) # None
    BY <1>1, <2>2, RestIs DEF Left
  <2> QED
    BY <1>1, <1>3, <2>1, <2>2, <2>3, TypedAgrees
<1>11. CountInv'
  <2>1. InOrder(taken') /\ Counted(Due(board', queue'), taken', laptop'.powers)
    BY <1>1, <1>3 DEF Inv, CountInv
  <2> QED
    BY <1>3, <1>4, <1>5, <2>1 DEF CountInv
<1> QED
  BY <1>3, <1>6, <1>7, <1>8, <1>9, <1>10, <1>11 DEF Inv

\* The Pico feeds the board what it drained, and goes round.
LEMMA FeedInv ==
  ASSUME Inv, Feed
  PROVE  Inv'
<1>1. pico.at = "drain" /\ rx = <<>> /\ UNCHANGED <<core, tx, rx, laptop, taken>>
  BY DEF Feed
<1>2. Caught = FedAll(board, pico.words)
  <2>1. Caught = Drained /\ Base = board
    BY <1>1, FeedFinds
  <2> QED
    BY <2>1 DEF Drained
<1> DEFINE loads == Caught.reload # NoReload
           pushes == ~loads /\ Caught.replies # <<>> /\ TxLevel + Words(Head(Caught.replies)) <= Depth
<1>3. \/ /\ loads
         /\ board' = [Caught EXCEPT !.reload = NoReload]
         /\ pico' = [pico EXCEPT
              !.at = "stop", !.loading = Caught.reload, !.words = <<>>,
              !.full = LoadsFull(~core.running, pico.loaded)]
         /\ UNCHANGED <<queue, logged>>
      \/ /\ pushes
         /\ board' = Caught
         /\ pico' = [pico EXCEPT !.at = "push", !.words = <<>>]
         /\ UNCHANGED <<queue, logged>>
      \/ /\ ~loads /\ ~pushes
         /\ pico' = [pico EXCEPT !.at = "top", !.words = <<>>]
         /\ Round(Caught)
  BY <1>2 DEF Feed
<1> QED
  BY <1>1, <1>3, FeedLoads, FeedPushes, FeedEnds

\* A push is what was foreseen of it.
LEMMA PushInv ==
  ASSUME Inv, Push
  PROVE  Inv'
<1>1. /\ pico.at = "push" /\ tx' = Append(tx, Head(board.replies)) /\ Round(Given)
      /\ pico' = [pico EXCEPT !.at = "top"] /\ UNCHANGED <<core, rx, laptop, taken>>
  BY DEF Push, Given
<1>2. /\ pico' \in Picos /\ pico'.at = "top" /\ pico'.words = <<>> /\ pico.words = <<>>
      /\ pico'.since = pico.since /\ pico'.sent = pico.sent
  <2>1. pico \in Picos /\ pico.words = <<>>
    BY <1>1 DEF Inv, TypeInv, PicoInv
  <2> QED
    BY <1>1, <2>1 DEF Picos
<1>3. /\ Given \in Boards /\ Given.pending = board.pending /\ Given.reload = board.reload
      /\ Sent \in Seq(Replies)
  BY <1>1, SentIs DEF Inv, Pushing
<1>4. Left(Given, queue) /\ Due(Given, queue) = Due(board, queue)
  BY <1>3 DEF Inv, CountInv, Left, Due
<1>5. Found(Given)
  BY <1>1, <1>3, <1>4 DEF Inv, LogInv, Unlogged, Found
<1>6. /\ board' = Typed(Given) /\ queue' = Rest(Given)
      /\ board' \in Boards /\ queue' \in Seq(Nat) /\ Left(board', queue')
      /\ Due(board', queue') = Due(Given, queue) /\ board'.reload = Given.reload
      /\ logged' \in Seq(Nat) /\ LogInv'
  BY <1>1, <1>2, <1>3, <1>4, <1>5, RoundLogs
<1>7. Base' = Base /\ Base = board' /\ Untyped' = Untyped /\ Untyped = queue' /\ Sent' = Sent
      /\ tx' = Sent
  BY <1>1, <1>2, <1>6 DEF Base, Untyped, Sent, Pushing
<1>8. Drained' = Drained /\ Caught' = Caught
  BY <1>1, <1>2, <1>7 DEF Drained, Caught
<1>9. TypeInv'
  BY <1>1, <1>2, <1>3, <1>6, <1>7, <1>8 DEF Inv, TypeInv
<1>11. PicoInv'
  BY <1>1, <1>2, <1>3, <1>6 DEF Inv, PicoInv, Halted, Pushing
<1>12. ResetInv'
  BY <1>1, <1>2 DEF Inv, ResetInv, Pushing
<1>13. LoadInv'
  BY <1>1, <1>2, <1>8 DEF Inv, LoadInv, Loading, Nothing
<1>14. LinkedInv'
  BY <1>1, <1>2, <1>7, <1>8 DEF Inv, LinkedInv, Linked
<1>15. CountInv'
  <2>1. /\ Drained.pending \in {None, Base.pending} /\ Caught.pending \in {None, Drained.pending}
        /\ Left(Caught, Untyped) /\ Counted(Due(Caught, Untyped), taken, laptop.powers)
        /\ Caught.pending # Drained.pending => Latest(taken) # Due(Caught, Untyped)
        /\ InOrder(taken)
    BY DEF Inv, CountInv
  <2>2. /\ Left(Caught', Untyped') /\ Counted(Due(Caught', Untyped'), taken', laptop'.powers)
        /\ Caught.pending # Drained.pending => Latest(taken') # Due(Caught', Untyped')
        /\ InOrder(taken')
    BY <1>1, <1>7, <1>8, <2>1
  <2> QED
    BY <1>6, <1>7, <1>8, <2>1, <2>2 DEF CountInv
<1> QED
  BY <1>6, <1>9, <1>11, <1>12, <1>13, <1>14, <1>15 DEF Inv

\* A load stops the engines and flushes their queues.
LEMMA LoadStopInv ==
  ASSUME Inv, LoadStop
  PROVE  Inv'
<1>1. /\ pico.at = "stop" /\ core' = [core EXCEPT !.running = FALSE]
      /\ tx' = <<>> /\ rx' = <<>> /\ pico' = [pico EXCEPT !.at = "start"]
      /\ UNCHANGED <<board, queue, logged, laptop, taken>>
  BY DEF LoadStop
<1>2. /\ pico' \in Picos /\ pico'.at = "start" /\ pico'.words = <<>> /\ pico.words = <<>>
      /\ pico'.since = pico.since /\ pico'.sent = pico.sent
  <2>1. pico \in Picos /\ pico.words = <<>>
    BY <1>1 DEF Inv, TypeInv, PicoInv
  <2> QED
    BY <1>1, <2>1 DEF Picos
<1>3. core' \in Cores /\ ~core'.running
  BY <1>1 DEF Inv, TypeInv, Cores
<1>4. rx = <<>> /\ board.reload = NoReload
  BY <1>1 DEF Inv, PicoInv
<1>5. Base' = Base /\ Base = board /\ Untyped' = Untyped /\ Untyped = queue
  BY <1>1, <1>2 DEF Base, Untyped, Pushing
<1>6. Drained' = Drained /\ Caught' = Caught
  BY <1>1, <1>2, <1>4, <1>5 DEF Drained, Caught
<1>7. TypeInv'
  <2>1. <<>> \in Seq(Replies) /\ <<>> \in Seq(Messages)
    OBVIOUS
  <2> QED
    BY <1>1, <1>2, <1>3, <1>6, <2>1 DEF Inv, TypeInv
<1>8. PicoInv'
  BY <1>1, <1>2, <1>3, <1>4 DEF Inv, PicoInv, Halted, Pushing
<1>9. ResetInv'
  BY <1>1, <1>2, <1>3 DEF Inv, ResetInv, Pushing, Nothing
<1>10. LoadInv'
  BY <1>1, <1>3, <1>6 DEF Inv, LoadInv, Loading, Nothing
<1>11. LinkedInv'
  BY <1>1, <1>3 DEF Inv, LinkedInv, Linked
<1>12. CountInv'
  BY <1>1, <1>5, <1>6, CountsStay DEF Inv
<1>13. LogInv'
  BY <1>1, <1>2 DEF Inv, LogInv, Unlogged, Due
<1> QED
  BY <1>7, <1>8, <1>9, <1>10, <1>11, <1>12, <1>13 DEF Inv

\* The core starts with nothing queued, and the laptop has asked it for nothing yet.
LEMMA LoadStarts ==
  ASSUME Inv, LoadStart, Accepted
  PROVE  Inv'
<1>1. /\ pico.at = "start" /\ pico' = [pico EXCEPT !.at = "top", !.loaded = pico.loading]
      /\ core' = [core EXCEPT !.running = TRUE, !.configured = TRUE, !.address = pico.loading]
      /\ Round(Flushed(board)) /\ UNCHANGED <<tx, rx, laptop, taken>>
  BY DEF LoadStart
<1>2. /\ pico' \in Picos /\ pico'.at = "top" /\ pico'.words = <<>> /\ pico.words = <<>>
      /\ pico'.since = pico.since /\ pico'.sent = pico.sent /\ pico.loading \in Int
  <2>1. pico \in Picos /\ pico.words = <<>>
    BY <1>1 DEF Inv, TypeInv, PicoInv
  <2> QED
    BY <1>1, <2>1 DEF Picos
<1>3. core' \in Cores
  BY <1>1, <1>2 DEF Inv, TypeInv, Cores
<1>4. rx = <<>> /\ tx = <<>> /\ board.reload = NoReload
  BY <1>1 DEF Inv, PicoInv, Halted
<1>5. Base = board /\ Untyped = queue
  BY <1>1 DEF Base, Untyped, Pushing
<1>6. Drained = board /\ Caught = board
  BY <1>2, <1>4, <1>5, NothingToFeed
<1>7. Nothing(board) /\ (laptop.bus = "idle" => laptop.stage = "none" /\ laptop.toggle = "DATA0")
  BY <1>1, <1>6 DEF Inv, LoadInv, Loading
<1>8. board \in Boards /\ Left(board, queue)
  BY DEF Inv, TypeInv, CountInv
<1>9. Found(board)
  BY <1>1 DEF Inv, LogInv, Unlogged, Found
<1>10. Round(board)
  BY <1>1, <1>7, <1>8, FlushedNothing
<1>11. /\ board' = Typed(board) /\ queue' = Rest(board) /\ logged' \in Seq(Nat) /\ LogInv'
  BY <1>2, <1>8, <1>9, <1>10, RoundLogs
<1>12. board' = board /\ queue' = queue
  BY <1>7, <1>11 DEF Typed, Rest, Types, Nothing
<1>13. Base' = Base /\ Untyped' = Untyped /\ Sent' = <<>>
  BY <1>1, <1>2, <1>4, <1>5, <1>12 DEF Base, Untyped, Sent, Pushing
<1>14. Drained' = Drained /\ Caught' = Caught
  BY <1>1, <1>2, <1>13 DEF Drained, Caught
<1>15. TypeInv'
  BY <1>1, <1>2, <1>3, <1>11, <1>12, <1>14 DEF Inv, TypeInv
<1>16. PicoInv'
  BY <1>1, <1>2, <1>4, <1>12 DEF Inv, PicoInv, Halted, Pushing
<1>17. ResetInv'
  BY <1>1, <1>2, <1>4, <1>7, <1>12 DEF Inv, ResetInv, Pushing
<1>18. LoadInv'
  BY <1>2, <1>4, <1>6, <1>14 DEF LoadInv, Loading
<1>19. LinkedInv'
  <2>1. Asks(laptop')
    BY <1>1 DEF Inv, LinkedInv
  <2>2. laptop.bus = "idle" => Agree(board, <<>>, laptop)
    BY <1>7, <1>8, FreshAgrees DEF Inv, TypeInv
  <2> QED
    BY <1>1, <1>6, <1>13, <1>14, <2>1, <2>2 DEF LinkedInv, Linked
<1>20. CountInv'
  BY <1>1, <1>12, <1>13, <1>14, CountsStay DEF Inv
<1> QED
  BY <1>11, <1>15, <1>16, <1>17, <1>18, <1>19, <1>20 DEF Inv

\* A load starts the device at the board's address, or is refused.
LEMMA LoadStartInv ==
  ASSUME Inv, LoadStart
  PROVE  Inv'
<1>1. CASE Accepted
  BY <1>1, LoadStarts
<1>2. CASE ~Accepted
  <2>1. /\ pico.at = "start" /\ pico' = [pico EXCEPT !.at = "refused"]
        /\ UNCHANGED <<core, tx, rx, board, queue, logged, laptop, taken>>
    BY <1>2 DEF LoadStart
  <2>2. /\ pico' \in Picos /\ pico'.at = "refused" /\ pico'.words = pico.words
        /\ pico'.since = pico.since /\ pico'.sent = pico.sent
    BY <2>1 DEF Inv, TypeInv, Picos
  <2>3. Base' = Base /\ Untyped' = Untyped
    BY <2>1, <2>2 DEF Base, Untyped, Pushing
  <2>4. Drained' = Drained /\ Caught' = Caught
    BY <2>1, <2>2, <2>3 DEF Drained, Caught
  <2>5. ~core.running
    BY <2>1 DEF Inv, PicoInv, Halted
  <2>6. TypeInv'
    BY <2>1, <2>2, <2>4 DEF Inv, TypeInv
  <2>7. PicoInv' /\ ResetInv'
    BY <2>1, <2>2, <2>5 DEF Inv, PicoInv, ResetInv, Halted, Pushing, Nothing
  <2>8. LoadInv'
    BY <2>1, <2>4 DEF Inv, LoadInv, Loading, Nothing
  <2>9. LinkedInv'
    BY <2>1, <2>5 DEF Inv, LinkedInv, Linked
  <2>10. CountInv'
    BY <2>1, <2>3, <2>4, CountsStay DEF Inv
  <2>11. LogInv'
    BY <2>1, <2>2 DEF Inv, LogInv, Unlogged, Due
  <2> QED
    BY <2>6, <2>7, <2>8, <2>9, <2>10, <2>11 DEF Inv
<1> QED
  BY <1>1, <1>2

-----------------------------------------------------------------------------
\* What the laptop begins with is one of the scripts.
LEMMA FirstScript ==
  <<"reset">> \o Enumeration = <<"reset", "device", "reset", "address", "configure", "report">>
<1> DEFINE S == Requests \cup {"reset"}
           s == <<"reset">>
           t == <<"reset">> \o Enumeration
<1>1. /\ Enumeration \in Seq(S) /\ Len(Enumeration) = 5
      /\ Enumeration[1] = "device" /\ Enumeration[2] = "reset" /\ Enumeration[3] = "address"
      /\ Enumeration[4] = "configure" /\ Enumeration[5] = "report"
  BY ScriptLengths DEF Enumeration, Requests
<1>2. s \in Seq(S) /\ Len(s) = 1 /\ s[1] = "reset"
  BY DEF Requests
<1> HIDE DEF S
<1>3. \A u, v \in Seq(S) :
        /\ u \o v \in Seq(S) /\ Len(u \o v) = Len(u) + Len(v)
        /\ \A i \in 1 .. Len(u) : (u \o v)[i] = u[i]
        /\ \A i \in 1 .. Len(v) : (u \o v)[Len(u) + i] = v[i]
  OBVIOUS
<1>4. \A u \in Seq(S) : Len(u) = 6 => u = <<u[1], u[2], u[3], u[4], u[5], u[6]>>
  OBVIOUS
<1> HIDE DEF s
<1>5. t = s \o Enumeration
  BY DEF s
<1> HIDE DEF t
<1>6. /\ t \in Seq(S) /\ Len(t) = 6
      /\ \A i \in 1 .. 1 : t[i] = s[i]
      /\ \A i \in 1 .. 5 : t[1 + i] = Enumeration[i]
  <2>1. PICK e : e = Enumeration
    OBVIOUS
  <2>2. e \in Seq(S) /\ Len(e) = 5 /\ t = s \o e
    BY <1>1, <1>5, <2>1
  <2>3. /\ s \o e \in Seq(S) /\ Len(s \o e) = Len(s) + Len(e)
        /\ \A i \in 1 .. Len(s) : (s \o e)[i] = s[i]
        /\ \A i \in 1 .. Len(e) : (s \o e)[Len(s) + i] = e[i]
    BY <1>2, <1>3, <2>2
  <2>4. t \in Seq(S) /\ Len(t) = 1 + 5
    BY <1>2, <2>2, <2>3
  <2>5. \A i \in 1 .. 1 : t[i] = s[i]
    BY <1>2, <2>2, <2>3
  <2>6. \A i \in 1 .. 5 : t[1 + i] = e[i]
    BY <1>2, <2>2, <2>3
  <2> QED
    BY <2>1, <2>4, <2>5, <2>6
<1>7. t[1] = "reset" /\ t[2] = "device" /\ t[3] = "reset" /\ t[4] = "address"
      /\ t[5] = "configure" /\ t[6] = "report"
  <2>1. t[1] = s[1] /\ t[1 + 1] = Enumeration[1] /\ t[1 + 2] = Enumeration[2]
        /\ t[1 + 3] = Enumeration[3] /\ t[1 + 4] = Enumeration[4] /\ t[1 + 5] = Enumeration[5]
    BY <1>6
  <2> QED
    BY <1>1, <1>2, <2>1
<1>8. t = <<"reset", "device", "reset", "address", "configure", "report">>
  BY <1>4, <1>6, <1>7
<1> QED
  BY <1>8 DEF t

\* It holds at the start,
LEMMA InitInv ==
  ASSUME Init
  PROVE  Inv
<1>1. /\ core = [running |-> FALSE, configured |-> FALSE, address |-> 0, certificate |-> TRUE]
      /\ tx = <<>> /\ rx = <<>> /\ board = Reset
      /\ pico = [at |-> "top", words |-> <<>>, since |-> "none", sent |-> None,
                 loading |-> 0, full |-> FALSE, loaded |-> NoReload]
      /\ queue = [n \in 1 .. Reports |-> n] /\ logged = <<>> /\ taken = <<>>
      /\ laptop = [bus |-> "idle", script |-> <<"reset">> \o Enumeration, stage |-> "none",
                   request |-> "none", got |-> 0, pid |-> "DATA1", address |-> 0,
                   toggle |-> "DATA0", failed |-> FALSE, spare |-> 0, resets |-> 0, powers |-> 0]
  BY DEF Init
<1>2. /\ core \in Cores /\ ~core.running
      /\ tx \in Seq(Replies) /\ rx \in Seq(Messages) /\ logged \in Seq(Nat) /\ taken \in Seq(Nat)
      /\ Len(logged) = 0 /\ Len(taken) = 0
  BY <1>1 DEF Cores
<1>3. pico \in Picos /\ pico.at = "top" /\ pico.words = <<>> /\ pico.since = "none"
  <2>1. <<>> \in Seq(Messages) /\ NoReload \in Int /\ None \in Nat
    BY DEF NoReload, None
  <2> QED
    BY <1>1, <2>1 DEF Picos
<1>4. queue \in Seq(Nat) /\ Len(queue) = Reports /\ \A i \in 1 .. Len(queue) : queue[i] = i
  BY <1>1, KeyboardAssumption
<1>5. laptop.script \in Scripts /\ Len(laptop.script) = 6
  <2>1. laptop.script = <<"reset", "device", "reset", "address", "configure", "report">>
    BY <1>1, FirstScript
  <2>2. Len(<<"reset", "device", "reset", "address", "configure", "report">>) = 6
    OBVIOUS
  <2> QED
    BY <2>1, <2>2 DEF Scripts
<1>6. /\ laptop \in Laptops /\ ~laptop.failed /\ laptop.bus = "idle" /\ laptop.stage = "none"
      /\ laptop.toggle = "DATA0" /\ laptop.address = 0 /\ laptop.powers = 0
  <2>1. PICK script : script = <<"reset">> \o Enumeration
    OBVIOUS
  <2>2. script \in Scripts
    BY <1>1, <1>5, <2>1
  <2>3. laptop = [bus |-> "idle", script |-> script, stage |-> "none",
                  request |-> "none", got |-> 0, pid |-> "DATA1", address |-> 0,
                  toggle |-> "DATA0", failed |-> FALSE, spare |-> 0, resets |-> 0, powers |-> 0]
    BY <1>1, <2>1
  <2> QED
    BY <2>2, <2>3 DEF Laptops, Requests, Pids
<1>7. board \in Boards /\ Nothing(board) /\ board.reload # NoReload /\ board.pending = None
  BY <1>1, ResetIs
<1>8. Base = board /\ Untyped = queue
  BY <1>3 DEF Base, Untyped, Pushing
<1>9. Drained = board /\ Caught = board
  BY <1>1, <1>3, <1>8, NothingToFeed
<1>10. TypeInv
  BY <1>2, <1>3, <1>4, <1>6, <1>7, <1>9 DEF TypeInv
<1>11. PicoInv /\ ResetInv
  BY <1>1, <1>3, <1>6 DEF PicoInv, ResetInv, Halted, Pushing
<1>12. LoadInv
  BY <1>1, <1>2, <1>6, <1>7, <1>9 DEF LoadInv
<1>13. LinkedInv
  BY <1>2, <1>5, <1>6 DEF LinkedInv, Asks, Linked
<1>14. Left(board, queue) /\ Due(board, queue) = 1
  BY <1>4, <1>7, KeyboardAssumption DEF Left, IsRest, Due
<1>15. CountInv
  <2>1. Latest(taken) = 0 /\ InOrder(taken)
    BY <1>1, <1>2 DEF Latest, InOrder
  <2>2. Counted(1, taken, laptop.powers)
    BY <1>2, <1>6, <2>1 DEF Counted
  <2> QED
    BY <1>8, <1>9, <1>14, <2>1, <2>2 DEF CountInv
<1>16. LogInv
  BY <1>2, <1>3, <1>14 DEF LogInv, Unlogged
<1> QED
  BY <1>10, <1>11, <1>12, <1>13, <1>15, <1>16 DEF Inv

\* and every step of the laptop's, the Pico's and the power's keeps it.
LEMMA NextInv ==
  ASSUME Inv, [Next]_vars
  PROVE  Inv'
<1>1. CASE Top
  BY <1>1, TopInv
<1>2. CASE Drain
  BY <1>2, DrainInv
<1>3. CASE Feed
  BY <1>3, FeedInv
<1>4. CASE Push
  BY <1>4, PushInv
<1>5. CASE LoadStop
  BY <1>5, LoadStopInv
<1>6. CASE LoadStart
  BY <1>6, LoadStartInv
<1>7. CASE SetupNext
  BY <1>7, SetupNextInv
<1>8. CASE SetupSpare
  BY <1>8, SetupSpareInv
<1>9. CASE InTakes
  BY <1>9, InTakesInv
<1>10. CASE InDrops
  BY <1>10, InDropsInv
<1>11. CASE Out
  BY <1>11, OutInv
<1>12. CASE PollTakes
  BY <1>12, PollTakesInv
<1>13. CASE PollDrops
  BY <1>13, PollDropsInv
<1>14. CASE BeginReset
  BY <1>14, BeginResetInv
<1>15. CASE EndReset
  BY <1>15, EndResetInv
<1>16. CASE Power
  BY <1>16, PowerInv
<1>17. CASE UNCHANGED vars
  <2>1. UNCHANGED <<core, tx, rx, board, pico, queue, logged, laptop, taken>>
    BY <1>17 DEF vars
  <2>2. Base' = Base /\ Untyped' = Untyped /\ Drained' = Drained /\ Caught' = Caught
    BY <2>1, Stays
  <2>3. TypeInv' /\ PicoInv' /\ ResetInv'
    BY <2>1, <2>2 DEF Inv, TypeInv, PicoInv, ResetInv, Halted, Pushing, Nothing
  <2>4. LoadInv'
    BY <2>1, <2>2 DEF Inv, LoadInv, Loading, Nothing
  <2>5. LinkedInv'
    BY <2>1, <2>2, SentStays DEF Inv, LinkedInv, Linked
  <2>6. CountInv'
    BY <2>1, <2>2, CountsStay DEF Inv
  <2>7. LogInv'
    BY <2>1 DEF Inv, LogInv, Unlogged, Due
  <2> QED
    BY <2>3, <2>4, <2>5, <2>6, <2>7 DEF Inv
<1> QED
  BY <1>1, <1>2, <1>3, <1>4, <1>5, <1>6, <1>7, <1>8, <1>9, <1>10, <1>11, <1>12, <1>13, <1>14,
     <1>15, <1>16, <1>17 DEF Next, Pico, Laptop

\* Whatever the laptop, the Pico and the chip's power do, the board agrees with the laptop
\* once it is fed what it lags behind, and the counts of reports hold.
THEOREM BoardAgrees == Spec => []Inv
<1>1. Init => Inv
  BY InitInv
<1>2. Inv /\ [Next]_vars => Inv'
  BY NextInv
<1> QED
  BY <1>1, <1>2, PTL DEF Spec

\* Board.report's promise: every report reaches the laptop in order and, but for an ACK that
\* dies with the chip's power, once, whatever drops, resets and configurations put back.
THEOREM ReportsAreTypedOnce == Spec => []TypedOnce
<1>1. Inv => TypedOnce
  <2> SUFFICES ASSUME Inv PROVE TypedOnce
    OBVIOUS
  <2>1. InOrder(taken) /\ Counted(Due(Caught, Untyped), taken, laptop.powers)
    BY DEF Inv, CountInv
  <2>2. taken \in Seq(Nat) /\ laptop \in Laptops
    BY DEF Inv, TypeInv
  <2>3. taken # <<>> => Len(taken) - Last(taken) <= laptop.powers
    <3> SUFFICES ASSUME taken # <<>> PROVE Len(taken) - Last(taken) <= laptop.powers
      OBVIOUS
    <3>1. \A s \in Seq(Nat) : s # <<>> => Len(s) \in Nat /\ s[Len(s)] \in Nat
      OBVIOUS
    <3>2. Len(taken) \in Nat /\ Latest(taken) = Last(taken) /\ Last(taken) \in Nat
      BY <2>2, <3>1 DEF Latest, Last
    <3>3. laptop.powers \in Nat
      BY <2>2 DEF Laptops
    <3> QED
      BY <2>1, <3>2, <3>3 DEF Counted
  <2> QED
    BY <2>1, <2>3 DEF TypedOnce, InOrder
<1> QED
  BY <1>1, BoardAgrees, PTL

\* A key is logged once, in order, and only after the laptop took it: the board's counts
\* never run ahead of the laptop's, since it is fed what the laptop already did.
THEOREM LogFollowsTheLaptop == Spec => []LoggedIsTaken
<1>1. Inv => LoggedIsTaken
  <2> SUFFICES ASSUME Inv PROVE LoggedIsTaken
    OBVIOUS
  <2>1. \A i \in 1 .. Len(logged) : logged[i] = i
    BY DEF Inv, LogInv
  <2>2. logged \in Seq(Nat) /\ taken \in Seq(Nat) /\ queue \in Seq(Nat) /\ Reports \in Nat
    BY KeyboardAssumption DEF Inv, TypeInv
  <2>3. \A s \in Seq(Nat) :
          /\ Len(s) \in Nat
          /\ s # <<>> => Len(s) # 0 /\ s[Len(s)] \in Nat /\ Tail(s) \in Seq(Nat)
    OBVIOUS
  <2>4. /\ Left(board, queue) /\ Drained.pending \in {None, Base.pending}
        /\ Caught.pending \in {None, Drained.pending}
        /\ Counted(Due(Caught, Untyped), taken, laptop.powers)
    BY DEF Inv, CountInv
  <2>5. Due(Base, Untyped) = Due(board, queue)
    <3>1. CASE ~Pushing
      BY <3>1 DEF Base, Untyped
    <3>2. CASE Pushing
      <4>1. Given \in Boards /\ Given.pending = board.pending
        BY <3>2, SentIs DEF Inv
      <4>2. Left(Given, queue) /\ Due(Given, queue) = Due(board, queue)
        BY <2>4, <4>1 DEF Left, Due
      <4> QED
        BY <2>2, <3>2, <4>1, <4>2, TypedCounts DEF Base, Untyped
    <3> QED
      BY <3>1, <3>2
  <2>6. Len(Untyped) \in Nat
    BY <2>2, <2>3 DEF Untyped, Rest, Types
  <2>7. Due(Base, Untyped) <= Due(Caught, Untyped) /\ Due(Caught, Untyped) \in Int
    BY <2>2, <2>4, <2>6 DEF Due
  <2>8. Len(logged) <= Due(board, queue) - 1
    <3>1. Due(board, queue) \in Int
      BY <2>2, <2>3 DEF Due
    <3> QED
      BY <3>1 DEF Inv, LogInv
  <2>9. Due(Caught, Untyped) - 1 <= Latest(taken)
    BY <2>4, <2>7 DEF Counted
  <2>10. ASSUME logged # <<>> PROVE taken # <<>> /\ Last(logged) <= Last(taken)
    <3>1. Last(logged) = Len(logged) /\ Len(logged) \in Nat /\ Len(logged) # 0
      BY <2>1, <2>2, <2>3, <2>10 DEF Last
    <3>2. Len(logged) <= Latest(taken)
      <4>1. Due(board, queue) \in Int /\ Latest(taken) \in Nat
        BY <2>2, <2>3 DEF Due, Latest, Last
      <4> QED
        BY <2>5, <2>7, <2>8, <2>9, <3>1, <4>1
    <3>3. taken # <<>>
      BY <3>1, <3>2 DEF Latest
    <3> QED
      BY <3>1, <3>2, <3>3 DEF Latest
  <2> QED
    BY <2>1, <2>10 DEF LoggedIsTaken
<1> QED
  BY <1>1, BoardAgrees, PTL

\* Every IN of a transfer finds the chunk it waits for, with its toggle: what an earlier
\* transfer or report left queued is dropped in front of it or behind it.
THEOREM AnswersAreAwaited == Spec => []AnswersMatch
<1>1. Inv => AnswersMatch
  BY DEF Inv, TypeInv, AnswersMatch
<1> QED
  BY <1>1, BoardAgrees, PTL
=============================================================================
