--------------------------- MODULE HostPortProofs ---------------------------
(***************************************************************************)
(* What a host program is told by the port, for every range of an engine's *)
(* time and every size of the queues: Host.now returns a time of its call, *)
(* edge_stamps returns what the watch saw, and the words of an exchange    *)
(* and of an engine that feeds another come out once, whole and in order.  *)
(*                                                                         *)
(* A job has its own invariant, of its place in the program, what is       *)
(* latched or on its way to the host, and what the engines do meanwhile.   *)
(* The last section is of a recording, what a program makes of the stamps. *)
(***************************************************************************)
EXTENDS HostPort, Recording, SequenceTheorems, TLAPS

Times == 0 .. TimeRange - 1

\* The time d cycles, less than a whole turn of the clock, after t.
After(t, d) == IF t + d < TimeRange THEN t + d ELSE t + d - TimeRange

\* A time since the high half was latched, and one after which another was: what
\* a call may take in all is less than a turn.
Since(t) == \E d \in 0 .. NowSpan : d <= span /\ now = After(t, d)

Via(t, u) ==
  \E d, e \in 0 .. NowSpan :
    d + e <= span /\ d + e <= NowSpan /\ u = After(t, d) /\ now = After(u, e)

\* The word being read, from the cycle it is latched to the host's next frame.
IsLatched == ~(frame.reads = 1 /\ state = "Command")

TheWord ==
  IF frame.reads = 1 /\ state \in {"High", "Low"} THEN word ELSE reply[1][1]

ReadStrobe == [ask |-> "read", value |-> Is(Nothing)]

\* A job that reads a word at a time, and is at its first place before any.
OneWordReads ==
  /\ frame.writes = <<>>
  /\ frame.reads = 0 => state \in {"Idle", "High"}
  /\ frame.reads = 1 =>
       /\ strobe = NoStrobe
       /\ state \in {"Command", "High", "Low", "Last"}
       /\ state = "Low" => high = word
       /\ state # "Last" => reply = <<>>
       /\ state = "Last" => Len(reply) = 1

\* A call of now(), place by place.
NowProgress ==
  /\ at = "now" => frame.reads = 0
  /\ at = "lo" =>
       /\ frame.reg = "now_hi"
       /\ IsLatched => \E t \in Times : Since(t) /\ TheWord.n = t \div LoRange
  /\ at = "again" =>
       /\ frame.reg = "now_lo"
       /\ \E t \in Times :
            /\ local.hi = t \div LoRange
            /\ ~IsLatched => Since(t)
            /\ IsLatched => Via(t, then) /\ TheWord.n = then % LoRange
  /\ at = "same" =>
       /\ frame.reg = "now_hi"
       /\ local.lo = then % LoRange
       /\ ~IsLatched =>
            \E t \in Times : local.hi = t \div LoRange /\ Via(t, then)
       /\ IsLatched =>
            /\ TheWord.n = local.hi => then \div LoRange = local.hi
            /\ \E t \in Times : Since(t) /\ TheWord.n = t \div LoRange
  /\ at = "done" =>
       /\ frame.reads = 0
       /\ local.hi * LoRange + local.lo = then

NowJob ==
  /\ at \in {"now", "lo", "again", "same", "done"}
  /\ DOMAIN local = {"hi", "lo"}
  /\ frame.reads \in {0, 1}
  /\ frame = [reg |-> frame.reg, writes |-> <<>>, reads |-> frame.reads]
  /\ OneWordReads
  /\ NowProgress

NowInv ==
  /\ now \in Times /\ then \in Times /\ span \in Nat
  /\ job = "now" => NowJob

-----------------------------------------------------------------------------
(***************************************************************************)
(* A clock that wraps, in halves.                                          *)
(***************************************************************************)

\* The ranges of a time and of its halves.
LEMMA TimeConstants ==
  /\ LoRange \in Nat /\ LoRange > 0 /\ HiRange \in Nat /\ HiRange > 0
  /\ TimeRange \in Nat /\ TimeRange >= LoRange /\ TimeRange > 0
  /\ NowSpan = TimeRange - LoRange /\ NowSpan \in Nat
<1>1. LoRange \in Nat /\ LoRange > 0 /\ HiRange \in Nat /\ HiRange > 0
  BY HostPortAssumption, SMT
<1>2. LoRange * HiRange \in Nat /\ LoRange * HiRange >= LoRange
  BY <1>1, SMT
<1> QED
  BY <1>1, <1>2, SMT DEF TimeRange, NowSpan

\* A quotient and a remainder are one pair of numbers.
LEMMA Divided ==
  ASSUME NEW m \in Nat, m > 0, NEW q \in Int, NEW r \in 0 .. m - 1,
         NEW x \in Int, x = m * q + r
  PROVE  x \div m = q /\ x % m = r
<1> DEFINE d == (x \div m) - q
<1>1. /\ x \div m \in Int /\ x % m \in 0 .. m - 1
      /\ x = m * (x \div m) + (x % m)
  BY SMT
<1>2. d \in Int /\ r - (x % m) = m * d
  BY <1>1, SMT
<1>3. r - (x % m) < m /\ (x % m) - r < m
  BY <1>1, SMT
<1>4. d = 0
  <2> HIDE DEF d
  <2>1. CASE d >= 1
    <3>1. m * d >= m
      BY <2>1, <1>2, SMT
    <3> QED
      BY <3>1, <1>1, <1>2, <1>3, SMT
  <2>2. CASE d <= -1
    <3>1. m * d <= -m
      BY <2>2, <1>2, SMT
    <3> QED
      BY <3>1, <1>1, <1>2, <1>3, SMT
  <2> QED
    BY <2>1, <2>2, <1>2, SMT
<1>5. x \div m = q
  BY <1>1, <1>4, SMT
<1> QED
  BY <1>1, <1>5, SMT

\* A tick of the clock.
LEMMA Tick ==
  ASSUME NEW t \in Times
  PROVE  (t + 1) % TimeRange = After(t, 1) /\ After(t, 1) \in Times
<1> USE TimeConstants
<1>1. t \in Int /\ t + 1 \in Int /\ t >= 0 /\ t < TimeRange
  BY SMT DEF Times
<1>2. CASE t + 1 < TimeRange
  <2>1. t + 1 = TimeRange * 0 + (t + 1) /\ t + 1 \in 0 .. TimeRange - 1
    BY <1>1, <1>2, SMT
  <2>2. (t + 1) % TimeRange = t + 1
    BY <1>1, <2>1, Divided
  <2> QED
    BY <1>2, <2>1, <2>2 DEF After, Times
<1>3. CASE ~(t + 1 < TimeRange)
  <2>1. t + 1 = TimeRange
    BY <1>1, <1>3, SMT
  <2>2. t + 1 = TimeRange * 1 + 0 /\ 0 \in 0 .. TimeRange - 1
    BY <2>1, SMT
  <2>3. (t + 1) % TimeRange = 0
    BY <1>1, <2>2, Divided
  <2> QED
    BY <2>1, <2>3, <1>3, SMT DEF After, Times
<1> QED
  BY <1>2, <1>3

\* A time is its two halves.
LEMMA Halved ==
  ASSUME NEW t \in Times
  PROVE  /\ t \div LoRange \in Int
         /\ t % LoRange \in 0 .. LoRange - 1
         /\ t = LoRange * (t \div LoRange) + (t % LoRange)
BY TimeConstants, SMT DEF Times

\* Two times with one high half, less than a turn apart, have it all the way.
LEMMA HalfStoodStill ==
  ASSUME NEW t \in Times, NEW u \in Times, NEW v \in Times,
         NEW d \in Nat, NEW e \in Nat, d + e <= NowSpan,
         u = After(t, d), v = After(u, e),
         t \div LoRange = v \div LoRange
  PROVE  u \div LoRange = t \div LoRange
<1> DEFINE h == t \div LoRange
           low == LoRange * h
<1>1. h \in Int /\ low \in Int
  BY Halved, TimeConstants, SMT
<1>2. /\ t = low + (t % LoRange) /\ t % LoRange \in 0 .. LoRange - 1
      /\ v = low + (v % LoRange) /\ v % LoRange \in 0 .. LoRange - 1
  BY Halved
<1> HIDE DEF h, low
<1>3. u \in Int /\ low <= u /\ u < low + LoRange
  BY <1>1, <1>2, TimeConstants, SMT DEF After, Times
<1>4. u = LoRange * h + (u - low) /\ u - low \in 0 .. LoRange - 1
  BY <1>1, <1>3, TimeConstants, SMT DEF low
<1>5. u \div LoRange = h
  <2>1. PICK r \in 0 .. LoRange - 1 : u = LoRange * h + r
    BY <1>4
  <2>2. u \in Int /\ h \in Int /\ LoRange \in Nat /\ LoRange > 0
    BY <1>1, <1>3, TimeConstants
  <2> QED
    BY <2>1, <2>2, Divided
<1> QED
  BY <1>5 DEF h

-----------------------------------------------------------------------------
(***************************************************************************)
(* What the chip does in a cycle of any job.                               *)
(***************************************************************************)

\* What a cycle of the port is, whatever the engines do in it.
LEMMA ChipStep ==
  ASSUME Next
  PROVE  /\ Host /\ job' = job
         /\ now' = IF job = "now" /\ span < NowSpan THEN (now + 1) % TimeRange ELSE now
         /\ span' = IF Latches("now_hi") THEN 1
                    ELSE IF job = "now" /\ span < NowSpan THEN span + 1 ELSE span
         /\ then' = IF Latches("now_lo") THEN now ELSE then
BY DEF Next, Chips, Chip

\* A time stays one as the clock turns.
LEMMA ClockTypes ==
  ASSUME NowInv, Next
  PROVE  now' \in Times /\ then' \in Times /\ span' \in Nat
<1>1. now' \in Times
  BY ChipStep, Tick DEF NowInv
<1> QED
  BY <1>1, ChipStep, SMT DEF NowInv

\* The clock goes on by at most the cycles that span counts.
LEMMA TimeGoesOn ==
  ASSUME NowInv, Next, ~Latches("now_hi"), NEW t \in Times
  PROVE  /\ Since(t) => Since(t)'
         /\ \A u \in Times : Via(t, u) => Via(t, u)'
<1> USE TimeConstants
<1>1. /\ span' = IF job = "now" /\ span < NowSpan THEN span + 1 ELSE span
      /\ now' = IF job = "now" /\ span < NowSpan THEN After(now, 1) ELSE now
      /\ span \in Nat
  BY ChipStep, Tick DEF NowInv
<1>2. ASSUME NEW u \in Times, NEW e \in 0 .. NowSpan, e < NowSpan
      PROVE  After(After(u, e), 1) = After(u, e + 1) /\ e + 1 \in 0 .. NowSpan
  BY <1>2, SMT DEF After, Times
<1>3. Since(t) => Since(t)'
  <2> SUFFICES ASSUME NEW d \in 0 .. NowSpan, d <= span, now = After(t, d)
               PROVE  \E f \in 0 .. NowSpan : f <= span' /\ now' = After(t, f)
    BY DEF Since
  <2>1. CASE job = "now" /\ span < NowSpan
    <3>1. d < NowSpan /\ d + 1 <= span'
      BY <1>1, <2>1, SMT
    <3>2. now' = After(t, d + 1) /\ d + 1 \in 0 .. NowSpan
      BY <1>1, <1>2, <2>1, <3>1
    <3> QED
      BY <3>1, <3>2
  <2>2. CASE ~(job = "now" /\ span < NowSpan)
    BY <1>1, <2>2
  <2> QED
    BY <2>1, <2>2
<1>4. ASSUME NEW u \in Times, Via(t, u)
      PROVE  Via(t, u)'
  <2>1. PICK d \in 0 .. NowSpan, e \in 0 .. NowSpan :
          d + e <= span /\ d + e <= NowSpan /\ u = After(t, d) /\ now = After(u, e)
    BY <1>4 DEF Via
  <2>2. SUFFICES \E g, f \in 0 .. NowSpan :
                   g + f <= span' /\ g + f <= NowSpan
                     /\ u = After(t, g) /\ now' = After(u, f)
    BY DEF Via
  <2>3. CASE job = "now" /\ span < NowSpan
    <3>1. e < NowSpan /\ d + (e + 1) <= span' /\ d + (e + 1) <= NowSpan
      BY <1>1, <2>1, <2>3, SMT
    <3>2. now' = After(u, e + 1) /\ e + 1 \in 0 .. NowSpan
      BY <1>1, <1>2, <2>1, <2>3, <3>1
    <3> QED
      BY <2>1, <3>1, <3>2
  <2>4. CASE ~(job = "now" /\ span < NowSpan)
    BY <1>1, <2>1, <2>4
  <2> QED
    BY <2>3, <2>4
<1> QED
  BY <1>3, <1>4

\* The time a high half is latched at is the first the call is counted from.
LEMMA TimeLatches ==
  ASSUME NowInv, Next, Latches("now_hi")
  PROVE  \E t \in Times : t = now /\ Since(t)'
<1> USE TimeConstants
<1>1. PICK t \in Times : t = now
  BY DEF NowInv
<1>2. /\ span' = 1 /\ span \in Nat
      /\ now' = IF job = "now" /\ span < NowSpan THEN After(now, 1) ELSE now
  BY ChipStep, Tick DEF NowInv
<1>3. \E f \in 0 .. NowSpan : f <= span' /\ now' = After(t, f)
  <2>1. CASE job = "now" /\ span < NowSpan
    <3>1. 1 \in 0 .. NowSpan /\ 1 <= span'
      BY <1>2, <2>1, SMT
    <3> QED
      BY <1>1, <1>2, <2>1, <3>1
  <2>2. CASE ~(job = "now" /\ span < NowSpan)
    <3>1. 0 \in 0 .. NowSpan /\ 0 <= span' /\ After(t, 0) = t
      BY <1>2, SMT DEF After, Times
    <3> QED
      BY <1>1, <1>2, <2>2, <3>1
  <2> QED
    BY <2>1, <2>2
<1> QED
  BY <1>1, <1>3 DEF Since

\* What is latched as a low half is latched on the way.
LEMMA LowLatches ==
  ASSUME NowInv, Next, Latches("now_lo"), ~Latches("now_hi"),
         NEW t \in Times, Since(t)
  PROVE  Via(t, then)' /\ then' = now
<1>1. PICK u \in Times : u = now
  BY DEF NowInv
<1>2. PICK d \in 0 .. NowSpan : d <= span /\ now = After(t, d)
  BY DEF Since
<1>3. 0 \in 0 .. NowSpan /\ d + 0 <= span /\ d + 0 <= NowSpan /\ After(u, 0) = u
  BY <1>2, TimeConstants, SMT DEF After, Times
<1>4. Via(t, u)
  BY <1>1, <1>2, <1>3 DEF Via
<1>5. Via(t, u)' /\ then' = u
  BY <1>1, <1>4, TimeGoesOn, ChipStep
<1> QED
  BY <1>1, <1>5 DEF Via

-----------------------------------------------------------------------------
(***************************************************************************)
(* Host.now.                                                               *)
(***************************************************************************)

\* A step that latches nothing and says the same of the word being read.
LEMMA NowKeeps ==
  ASSUME NowInv, job = "now", Next, ~Latches("now_hi"), ~Latches("now_lo"),
         UNCHANGED <<at, local>>,
         frame'.reg = frame.reg, IsLatched' = IsLatched,
         IsLatched /\ at # "now" /\ at # "done" => TheWord' = TheWord,
         at = "now" \/ at = "done" => frame'.reads = 0
  PROVE  NowProgress'
<1>1. then' = then
  BY ChipStep
<1>2. \A t \in Times : /\ Since(t) => Since(t)'
                       /\ \A u \in Times : Via(t, u) => Via(t, u)'
  BY TimeGoesOn
<1>3. \A t \in Times : Via(t, then) => Via(t, then)'
  <2>1. PICK u \in Times : u = then
    BY DEF NowInv
  <2>2. ASSUME NEW t \in Times, Via(t, then)
        PROVE  Via(t, then)'
    <3>1. Via(t, u)
      BY <2>1, <2>2
    <3>2. Via(t, u)'
      BY <1>2, <3>1
    <3> QED
      BY <1>1, <2>1, <3>2 DEF Via
  <2> QED
    BY <2>2
<1>4. NowProgress
  BY DEF NowInv, NowJob
<1> QED
  BY <1>1, <1>2, <1>3, <1>4 DEF NowProgress, Times

\* The command byte latches the word read: a half of the time at that cycle.
LEMMA NowCommandByte ==
  ASSUME NowInv, job = "now", Next, CommandByte
  PROVE  NowJob'
<1>1. NowJob
  BY DEF NowInv
<1>2. /\ strobe = NoStrobe /\ state = "Command" /\ state' = "High"
      /\ UNCHANGED <<strobe, frame, high, reply, at, local>>
      /\ frame.reads = 1 /\ word' = ReadValue(frame.reg)
  BY <1>1 DEF CommandByte, NowJob, OneWordReads
<1>3. /\ OneWordReads' /\ frame.reads = 1
      /\ ~IsLatched /\ IsLatched' /\ TheWord' = word'
      /\ \A reg : Latches(reg) <=> frame.reg = reg
  BY <1>1, <1>2 DEF NowJob, OneWordReads, IsLatched, TheWord, Latches
<1>4. CASE at = "lo"
  <2>1. frame.reg = "now_hi"
    BY <1>1, <1>4 DEF NowJob, NowProgress
  <2>2. TheWord'.n = now \div LoRange
    BY <1>2, <1>3, <2>1 DEF ReadValue, Is
  <2>3. PICK t \in Times : t = now /\ Since(t)'
    BY <1>3, <2>1, TimeLatches
  <2>4. NowProgress'
    BY <1>2, <1>4, <2>1, <2>2, <2>3 DEF NowProgress
  <2> QED
    BY <1>1, <1>2, <1>3, <2>4 DEF NowJob
<1>5. CASE at = "again"
  <2>1. frame.reg = "now_lo"
    BY <1>1, <1>5 DEF NowJob, NowProgress
  <2>2. PICK t \in Times : local.hi = t \div LoRange /\ Since(t)
    BY <1>1, <1>3, <1>5 DEF NowJob, NowProgress
  <2>3. TheWord'.n = now % LoRange
    BY <1>2, <1>3, <2>1 DEF ReadValue, Is
  <2>4. Via(t, then)' /\ then' = now
    BY <1>3, <2>1, <2>2, LowLatches
  <2>5. NowProgress'
    BY <1>2, <1>3, <1>5, <2>1, <2>2, <2>3, <2>4 DEF NowProgress
  <2> QED
    BY <1>1, <1>2, <1>3, <2>5 DEF NowJob
<1>6. CASE at = "same"
  <2>1. frame.reg = "now_hi" /\ local.lo = then % LoRange
    BY <1>1, <1>6 DEF NowJob, NowProgress
  <2>2. PICK t \in Times : local.hi = t \div LoRange /\ Via(t, then)
    BY <1>1, <1>3, <1>6 DEF NowJob, NowProgress
  <2>3. TheWord'.n = now \div LoRange
    BY <1>2, <1>3, <2>1 DEF ReadValue, Is
  <2>4. PICK v \in Times : v = now /\ Since(v)'
    BY <1>3, <2>1, TimeLatches
  <2>5. now \div LoRange = local.hi => then \div LoRange = local.hi
    <3>1. PICK d \in 0 .. NowSpan, e \in 0 .. NowSpan :
            d + e <= NowSpan /\ then = After(t, d) /\ now = After(then, e)
      BY <2>2 DEF Via
    <3>2. d \in Nat /\ e \in Nat /\ then \in Times /\ now \in Times
      BY TimeConstants, SMT DEF NowInv
    <3> QED
      BY <2>2, <3>1, <3>2, HalfStoodStill
  <2>6. then' = then
    BY <1>3, <2>1, ChipStep
  <2>7. NowProgress'
    BY <1>2, <1>3, <1>6, <2>1, <2>3, <2>4, <2>5, <2>6 DEF NowProgress
  <2> QED
    BY <1>1, <1>2, <1>3, <2>7 DEF NowJob
<1>7. at # "now" /\ at # "done"
  BY <1>1, <1>2 DEF NowJob, NowProgress
<1> QED
  BY <1>1, <1>4, <1>5, <1>6, <1>7 DEF NowJob

\* A reply's bytes take cycles, in which the clock goes on.
LEMMA NowBytes ==
  ASSUME NowInv, job = "now", Next, Quiet \/ HighByte \/ LowByte \/ ReadDone
  PROVE  NowJob'
<1>1. NowJob
  BY DEF NowInv
<1> USE DEF NowJob, OneWordReads, IsLatched, TheWord, Latches
<1>2. frame.reads = 1 => at # "now" /\ at # "done"
  BY <1>1 DEF NowProgress
<1>3. CASE Quiet
  <2>1. /\ UNCHANGED <<state, frame, high, reply, at, local>>
        /\ strobe' = NoStrobe /\ (strobe = NoStrobe => word' = word)
    BY <1>3 DEF Quiet, NoStrobe
  <2>2. OneWordReads' /\ frame' = [reg |-> frame'.reg, writes |-> <<>>, reads |-> frame'.reads]
    BY <1>1, <2>1
  <2>3. IsLatched' = IsLatched /\ TheWord' = TheWord
    BY <1>1, <2>1
  <2>4. NowProgress'
    <3>1. ~Latches("now_hi") /\ ~Latches("now_lo")
      BY <2>1
    <3>2. at = "now" \/ at = "done" => frame'.reads = 0
      BY <1>1, <1>2, <2>1
    <3> HIDE DEF NowJob, OneWordReads, IsLatched, TheWord, Latches
    <3> QED
      BY <2>1, <2>3, <3>1, <3>2, NowKeeps
  <2> QED
    BY <1>1, <2>1, <2>2, <2>4
<1>4. CASE HighByte
  <2>1. /\ state = "High" /\ frame.reads = 1 /\ strobe = NoStrobe
        /\ high' = TxWord /\ state' = "Low"
        /\ UNCHANGED <<strobe, word, frame, reply, at, local>>
    BY <1>1, <1>4 DEF HighByte
  <2>2. TxWord = word
    BY <1>1, <1>2, <2>1 DEF NowProgress, TxWord
  <2>3. OneWordReads'
    BY <1>1, <2>1, <2>2
  <2>4. NowProgress'
    <3>1. ~Latches("now_hi") /\ ~Latches("now_lo")
      BY <2>1
    <3>2. IsLatched' = IsLatched /\ TheWord' = TheWord
      BY <2>1
    <3>3. frame'.reg = frame.reg /\ (at = "now" \/ at = "done" => frame'.reads = 0)
      BY <1>2, <2>1
    <3> HIDE DEF NowJob, OneWordReads, IsLatched, TheWord, Latches
    <3> QED
      BY <2>1, <3>1, <3>2, <3>3, NowKeeps
  <2> QED
    BY <1>1, <2>1, <2>3, <2>4
<1>5. CASE LowByte
  <2>1. /\ state = "Low" /\ frame.reads = 1 /\ strobe = NoStrobe
        /\ reply' = Append(reply, <<high, TxWord>>)
        /\ state' = "Last"
        /\ UNCHANGED <<strobe, word, frame, at, local>>
    BY <1>1, <1>5 DEF LowByte
  <2>2. reply = <<>> /\ high = word
    BY <1>1, <2>1
  <2>3. reply' = <<<<word, TxWord>>>>
    BY <2>1, <2>2
  <2>4. OneWordReads'
    BY <1>1, <2>1, <2>3
  <2>5. NowProgress'
    <3>1. ~Latches("now_hi") /\ ~Latches("now_lo")
      BY <2>1
    <3>2. IsLatched' = IsLatched /\ TheWord' = TheWord
      BY <2>1, <2>3
    <3>3. frame'.reg = frame.reg /\ (at = "now" \/ at = "done" => frame'.reads = 0)
      BY <1>2, <2>1
    <3> HIDE DEF NowJob, OneWordReads, IsLatched, TheWord, Latches
    <3> QED
      BY <2>1, <3>1, <3>2, <3>3, NowKeeps
  <2> QED
    BY <1>1, <2>1, <2>4, <2>5
<1>6. CASE ReadDone
  <2>1. /\ state = "Last" /\ state' = "High"
        /\ frame' = [frame EXCEPT !.reads = @ - 1]
        /\ UNCHANGED <<word, high, reply, at, local>>
    BY <1>6 DEF ReadDone
  <2>2. frame.reads = 1
    BY <1>1, <2>1
  <2>3. /\ frame'.reads = 0 /\ frame'.writes = <<>> /\ frame'.reg = frame.reg
        /\ frame' = [reg |-> frame'.reg, writes |-> <<>>, reads |-> frame'.reads]
    BY <1>1, <2>1, <2>2
  <2>4. OneWordReads'
    BY <2>1, <2>3
  <2>5. NowProgress'
    <3>1. ~Latches("now_hi") /\ ~Latches("now_lo")
      BY <2>1
    <3>2. IsLatched' = IsLatched /\ TheWord' = TheWord
      BY <2>1, <2>2, <2>3
    <3> HIDE DEF NowJob, OneWordReads, IsLatched, TheWord, Latches
    <3> QED
      BY <2>1, <2>3, <3>1, <3>2, NowKeeps
  <2> QED
    BY <1>1, <2>1, <2>3, <2>4, <2>5
<1> QED
  BY <1>3, <1>4, <1>5, <1>6

\* The places of the program that a job of calls of now() is at.
LEMMA NowPlaces ==
  ASSUME NowInv, job = "now", Program
  PROVE  NowHi \/ NowLo \/ NowAgain \/ NowSame
BY DEF NowInv, NowJob, Program, Load, Select, Push, Stray, Level, AnyLevel, Pop,
   Popped, WatchMask, WatchControl, TimeHi, TimeLo, PinsLo, PinsHi, Stamp, Stamped

\* A step of the program sends the next frame, or ends the call.
LEMMA NowProgram ==
  ASSUME NowInv, job = "now", Next, Program
  PROVE  NowJob'
<1>1. NowJob
  BY DEF NowInv
<1>2. /\ strobe = NoStrobe /\ frame.reads = 0
      /\ state # "Command" /\ IsLatched /\ TheWord = reply[1][1]
  BY <1>1 DEF Program, Between, NowJob, OneWordReads, IsLatched, TheWord
<1>3. ~Latches("now_hi") /\ ~Latches("now_lo")
  BY <1>2 DEF Latches
<1>4. /\ then' = then
      /\ \A t \in Times : /\ Since(t) => Since(t)'
                          /\ \A u \in Times : Via(t, u) => Via(t, u)'
  BY <1>3, ChipStep, TimeGoesOn
\* A read of one word begins.
<1>5. ASSUME NEW reg, Read(reg, 1)
      PROVE  /\ OneWordReads' /\ ~IsLatched'
             /\ frame' = [reg |-> reg, writes |-> <<>>, reads |-> 1]
             /\ frame'.reg = reg /\ frame'.reads = 1
  <2>1. /\ frame' = [reg |-> reg, writes |-> <<>>, reads |-> 1]
        /\ state' = "Command" /\ reply' = <<>> /\ strobe' = strobe
    BY <1>5 DEF Read
  <2> QED
    BY <1>2, <2>1 DEF OneWordReads, IsLatched
<1>6. CASE NowHi
  <2>1. Read("now_hi", 1) /\ at' = "lo" /\ local' = local
    BY <1>6 DEF NowHi, Goes
  <2>2. NowProgress'
    BY <1>5, <2>1 DEF NowProgress
  <2> QED
    BY <1>1, <1>5, <2>1, <2>2 DEF NowJob
<1>7. CASE NowLo
  <2>1. /\ at = "lo" /\ Read("now_lo", 1) /\ at' = "again"
        /\ local' = [local EXCEPT !.hi = reply[1][1].n]
    BY <1>7 DEF NowLo, Goes
  <2>2. PICK t \in Times : Since(t) /\ reply[1][1].n = t \div LoRange
    BY <1>1, <1>2, <2>1 DEF NowJob, NowProgress
  <2>3. local'.hi = t \div LoRange /\ DOMAIN local' = {"hi", "lo"}
    BY <1>1, <2>1, <2>2 DEF NowJob
  <2>4. NowProgress'
    BY <1>4, <1>5, <2>1, <2>2, <2>3 DEF NowProgress
  <2> QED
    BY <1>5, <2>1, <2>3, <2>4 DEF NowJob
<1>8. CASE NowAgain
  <2>1. /\ at = "again" /\ Read("now_hi", 1) /\ at' = "same"
        /\ local' = [local EXCEPT !.lo = reply[1][1].n]
    BY <1>8 DEF NowAgain, Goes
  <2>2. PICK t \in Times : /\ local.hi = t \div LoRange
                           /\ Via(t, then) /\ reply[1][1].n = then % LoRange
    BY <1>1, <1>2, <2>1 DEF NowJob, NowProgress
  <2>3. /\ local'.hi = t \div LoRange /\ local'.lo = then % LoRange
        /\ DOMAIN local' = {"hi", "lo"}
    BY <1>1, <2>1, <2>2 DEF NowJob
  <2>4. PICK u \in Times : u = then
    BY DEF NowInv
  <2>5. Via(t, u)'
    BY <1>4, <2>2, <2>4
  <2>6. Via(t, then)'
    BY <1>4, <2>4, <2>5 DEF Via
  <2>7. NowProgress'
    BY <1>4, <1>5, <2>1, <2>3, <2>6 DEF NowProgress
  <2> QED
    BY <1>5, <2>1, <2>3, <2>7 DEF NowJob
<1>9. CASE NowSame
  <2>1. /\ local.lo = then % LoRange
        /\ reply[1][1].n = local.hi => then \div LoRange = local.hi
        /\ frame.reg = "now_hi"
    BY <1>1, <1>2, <1>9 DEF NowJob, NowProgress, NowSame
  <2>2. PICK t \in Times : Since(t) /\ reply[1][1].n = t \div LoRange
    BY <1>1, <1>2, <1>9 DEF NowJob, NowProgress, NowSame
  <2>3. CASE reply[1][1].n = local.hi
    <3>1. Stays /\ at' = "done" /\ local' = local
      BY <1>9, <2>3 DEF NowSame, Goes
    <3>2. local.hi * LoRange + local.lo = then
      BY <2>1, <2>2, <2>3, Halved, TimeConstants, SMT DEF NowInv
    <3>3. NowProgress'
      BY <1>2, <1>4, <3>1, <3>2 DEF NowProgress, Stays
    <3>4. OneWordReads'
      BY <1>1, <1>2, <3>1 DEF NowJob, OneWordReads, Stays
    <3> QED
      BY <1>1, <3>1, <3>3, <3>4 DEF NowJob, Stays
  <2>4. CASE reply[1][1].n # local.hi
    <3>1. /\ Read("now_lo", 1) /\ at' = "again"
          /\ local' = [local EXCEPT !.hi = reply[1][1].n]
      BY <1>9, <2>4 DEF NowSame, Goes
    <3>2. local'.hi = t \div LoRange /\ DOMAIN local' = {"hi", "lo"}
      BY <1>1, <2>2, <3>1 DEF NowJob
    <3>3. NowProgress'
      BY <1>4, <1>5, <2>2, <3>1, <3>2 DEF NowProgress
    <3> QED
      BY <1>5, <3>1, <3>2, <3>3 DEF NowJob
  <2> QED
    BY <2>3, <2>4
<1> QED
  BY <1>6, <1>7, <1>8, <1>9, NowPlaces

\* The invariant holds before a call,
LEMMA NowInitInv == Init => NowInv
<1> SUFFICES ASSUME Init PROVE NowInv
  OBVIOUS
<1>1. now \in Times /\ then \in Times /\ span \in Nat
  BY TimeConstants, SMT DEF Init, Times
<1>2. ASSUME job = "now" PROVE NowJob
  <2>1. /\ at = "now" /\ local = [hi |-> 0, lo |-> 0]
        /\ frame = [reg |-> "status", writes |-> <<>>, reads |-> 0]
        /\ state = "Idle"
    BY <1>2 DEF Init
  <2> QED
    BY <2>1 DEF NowJob, NowProgress, OneWordReads
<1> QED
  BY <1>1, <1>2 DEF NowInv

\* and through it.
LEMMA NowStepInv == NowInv /\ [Next]_vars => NowInv'
<1> SUFFICES ASSUME NowInv, [Next]_vars PROVE NowInv'
  OBVIOUS
<1>1. CASE Next
  <2>1. ASSUME job = "now" PROVE NowJob'
    <3>1. ~WriteWord
      BY <2>1 DEF WriteWord, NowInv, NowJob, OneWordReads
    <3> QED
      BY <1>1, <2>1, <3>1, ChipStep, NowCommandByte, NowBytes, NowProgram
         DEF Host, Byte
  <2> QED
    BY <1>1, <2>1, ClockTypes, ChipStep DEF NowInv
<1>2. CASE UNCHANGED vars
  BY <1>2 DEF NowInv, NowJob, NowProgress, OneWordReads, IsLatched, TheWord,
     Since, Via, vars, portVars, hostVars
<1> QED
  BY <1>1, <1>2

\* What a call of now() has by its place in the program and the cycle it is in.
THEOREM NowInvariant == Spec => []NowInv
BY NowInitInv, NowStepInv, PTL DEF Spec

\* Host.now returns a time of the call, the one at which it read the low half, for
\* every split of the clock in two (protocol_emulator.py: now).
THEOREM NowIsOfTheCall == Spec => []NowIsNow
<1>1. NowInv => NowIsNow
  BY DEF NowInv, NowJob, NowProgress, NowIsNow
<1> QED
  BY <1>1, NowInvariant, PTL

-----------------------------------------------------------------------------
(***************************************************************************)
(* Host.watch_edges and Host.edge_stamps.                                  *)
(***************************************************************************)

\* The word a watch writes is on its way or takes effect in this cycle.
Writing == frame.writes # <<>> \/ strobe.ask = "write"

\* A frame writes one word or reads one.
OneWordFrames ==
  /\ frame.reads \in {0, 1}
  /\ frame.writes \in {<<>>, <<local.asked>>}
  /\ frame = [reg |-> frame.reg, writes |-> frame.writes, reads |-> frame.reads]
  /\ strobe \in {NoStrobe, ReadStrobe, [ask |-> "write", value |-> local.asked]}
  /\ frame.writes # <<>> =>
       frame.reads = 0 /\ strobe = NoStrobe /\ state \in {"Command", "High"}
  /\ frame.writes = <<>> /\ frame.reads = 0 => state \in {"Idle", "High"}
  /\ frame.reads = 1 =>
       /\ strobe = NoStrobe
       /\ state \in {"Command", "High", "Low", "Last"}
       /\ state = "Low" => high = word
       /\ state # "Last" => reply = <<>>
       /\ state = "Last" => Len(reply) = 1

\* The last read of a stamp has popped it.
HasPopped == at = "stamp" /\ frame.reads = 0 /\ strobe = NoStrobe

\* The edges queued since the queue was emptied: those the host has, then those
\* still there.
Taken == Len(local.got) + (IF HasPopped THEN 1 ELSE 0)

TakenEdge(i) == IF i <= Len(local.got) THEN local.got[i][1] ELSE local.stamp[1]

Edge(i) == IF i <= Taken THEN TakenEdge(i) ELSE stamps[i - Taken]

Queued == Taken + Len(stamps)

\* Between watches the queue is of what the host asked for.
Settled == at # "control" /\ ~(at = "time_hi" /\ Writing)

QueueSound ==
  /\ mask = local.asked.mask /\ timer = local.asked.engine
  /\ \A i \in 1 .. Queued : Edge(i).n \in 1 .. edges /\ Asked(Edge(i))
  /\ \A i \in 2 .. Queued : Edge(i - 1).n < Edge(i).n
  /\ ~lost => Queued = edges /\ \A i \in 1 .. Queued : Edge(i).n = i
  /\ lost => Queued < edges

\* The stamp being read is the oldest in the queue, until it is popped.
Oldest(edge) == stamps # <<>> /\ edge = Head(stamps)

\* Which frame a place of the program waits for.
FrameAt ==
  /\ at = "time_lo" => frame.reg = "time_hi"
  /\ at = "pins_lo" => frame.reg = "time_lo"
  /\ at = "pins_hi" => frame.reg = "pins_lo"
  /\ at = "stamp" => frame.reg = "pins_hi"
  /\ at \in {"time_lo", "pins_lo", "pins_hi", "stamp"} =>
       ~Writing /\ (frame.reads = 0 => Len(reply) = 1)
  /\ at \in {"watch", "stamped"} => frame.reads = 0 /\ ~Writing /\ strobe = NoStrobe
  /\ at = "control" =>
       frame.reg = "stamp_mask" /\ frame.reads = 0 /\ strobe # ReadStrobe
  /\ at = "time_hi" =>
       frame.reads = 0 /\ strobe # ReadStrobe /\ (Writing => frame.reg = "stamp_control")

\* What the host has of a watch and of the stamp it is reading.
StampAt ==
  /\ at = "control" /\ ~Writing =>
       mask \cap {"lo"} = local.asked.mask \cap {"lo"}
  /\ at = "time_hi" /\ Writing =>
       local.got = <<>> /\ mask \cap {"lo"} = local.asked.mask \cap {"lo"}
  /\ at = "time_lo" /\ IsLatched =>
       /\ TheWord.level > 0 => Oldest(TheWord.edge)
       /\ TheWord.lost \in BOOLEAN
       /\ TheWord.lost => lost
       /\ ~TheWord.lost => \A i \in 1 .. Len(local.got) : local.got[i][1].n = i
  /\ at \in {"pins_lo", "pins_hi", "stamp"} =>
       /\ \A i \in 1 .. Len(local.stamp) : local.stamp[i] = local.stamp[1]
       /\ ~HasPopped => Oldest(local.stamp[1])
       /\ IsLatched => TheWord = local.stamp[1]
  /\ at = "pins_lo" => Len(local.stamp) = 1
  /\ at = "pins_hi" => Len(local.stamp) = 2
  /\ at = "stamp" => Len(local.stamp) = 3
  /\ at = "stamped" =>
       /\ local.lost => lost
       /\ ~local.lost => \A i \in 1 .. Len(local.got) : local.got[i][1].n = i

Marks == [n : Nat, half : Halves, engine : {0, 1}]

EdgesTypes ==
  /\ stamps \in Seq(Marks) /\ edges \in Nat /\ lost \in BOOLEAN
  /\ mask \in SUBSET Halves /\ timer \in {0, 1}
  /\ at \in {"watch", "control", "time_hi", "time_lo", "pins_lo", "pins_hi",
             "stamp", "stamped"}
  /\ DOMAIN local = {"watches", "asked", "stamp", "got", "lost"}
  /\ local.asked \in [mask : Masks, engine : {0, 1}]
  /\ local.got \in Seq(Seq(Marks)) /\ local.stamp \in Seq(Marks)
  /\ local.lost \in BOOLEAN

GotWhole == \A i \in 1 .. Len(local.got) : Whole(local.got[i])

EdgesJob ==
  /\ EdgesTypes
  /\ OneWordFrames
  /\ FrameAt
  /\ GotWhole
  /\ Settled => QueueSound
  /\ StampAt

EdgesInv == job = "edges" => EdgesJob

-----------------------------------------------------------------------------
\* What a cycle does to the stamps' queue.
LEMMA StampsStep ==
  ASSUME Next
  PROVE  /\ \E halves \in SUBSET Halves :
              StampsCycle(halves, strobe.ask = "read" /\ frame.reg = "pins_hi",
                          StampFlush)
         /\ mask' = CASE Writes("stamp_mask") ->
                           (mask \ {"lo"}) \cup (strobe.value.mask \cap {"lo"})
                      [] Writes("stamp_control") ->
                           (mask \ {"hi"}) \cup (strobe.value.mask \cap {"hi"})
                      [] OTHER -> mask
         /\ timer' = IF Writes("stamp_control") THEN strobe.value.engine ELSE timer
<1>1. PICK acts : Chip(acts)
  BY DEF Next, Chips
<1>2. PICK halves \in EdgesHere :
        StampsCycle(halves, strobe.ask = "read" /\ frame.reg = "pins_hi", StampFlush)
  BY <1>1 DEF Chip
<1>3. halves \in SUBSET Halves
  BY DEF EdgesHere, Halves
<1> QED
  BY <1>1, <1>2, <1>3 DEF Chip

\* An edge of a watched half, by the chosen engine's time.
LEMMA EdgeIsWatched ==
  ASSUME NEW halves \in SUBSET Halves, mask \in SUBSET Halves, timer \in {0, 1},
         edges \in Nat, halves \cap mask # {},
         NEW edge, edge = [n |-> edges + 1, half |-> CHOOSE h \in halves \cap mask : TRUE,
                           engine |-> timer]
  PROVE  edge \in Marks /\ edge.n = edges + 1 /\ edge.half \in mask /\ edge.engine = timer
<1>1. (CHOOSE h \in halves \cap mask : TRUE) \in halves \cap mask
  OBVIOUS
<1> QED
  BY <1>1 DEF Marks

\* What a cycle without a flush leaves: the queue less the edge popped, with at most
\* one more, unless that one was lost.
LEMMA StampsGoOn ==
  ASSUME stamps \in Seq(Marks), edges \in Nat, lost \in BOOLEAN,
         mask \in SUBSET Halves, timer \in {0, 1},
         NEW halves \in SUBSET Halves, NEW pop \in BOOLEAN,
         pop => stamps # <<>>, StampsCycle(halves, pop, FALSE),
         NEW left, left = IF pop THEN Tail(stamps) ELSE stamps
  PROVE  /\ left \in Seq(Marks) /\ lost' \in BOOLEAN
         /\ \/ stamps' = left /\ edges' = edges /\ lost' = lost
            \/ stamps' = left /\ edges' = edges + 1 /\ lost'
            \/ /\ edges' = edges + 1 /\ lost' = lost
               /\ \E edge \in Marks :
                    /\ stamps' = Append(left, edge)
                    /\ edge.n = edges + 1 /\ edge.half \in mask /\ edge.engine = timer
<1> DEFINE moved == halves \cap mask # {}
           edge == [n |-> edges + 1, half |-> CHOOSE h \in halves \cap mask : TRUE,
                    engine |-> timer]
<1>1. /\ stamps' = IF moved /\ ~StampsFull(pop) THEN Append(left, edge) ELSE left
      /\ lost' = (lost \/ (moved /\ StampsFull(pop)))
      /\ edges' = IF moved THEN edges + 1 ELSE edges
  BY DEF StampsCycle
<1>2. left \in Seq(Marks)
  <2>1. stamps # <<>> => Tail(stamps) \in Seq(Marks)
    OBVIOUS
  <2> QED
    BY <2>1
<1>3. CASE ~moved
  BY <1>1, <1>2, <1>3
<1>4. CASE moved /\ StampsFull(pop)
  BY <1>1, <1>2, <1>4
<1>5. CASE moved /\ ~StampsFull(pop)
  <2>1. edge \in Marks /\ edge.n = edges + 1 /\ edge.half \in mask /\ edge.engine = timer
    BY <1>5, EdgeIsWatched
  <2> QED
    BY <1>1, <1>2, <1>5, <2>1
<1> QED
  BY <1>3, <1>4, <1>5

\* The edges a watch saw stay what they were as the queue goes on, and one that is
\* popped goes from the queue to the host.
LEMMA QueueGoesOn ==
  ASSUME EdgesTypes, QueueSound, NEW halves \in SUBSET Halves,
         NEW pop \in BOOLEAN, pop => stamps # <<>>,
         StampsCycle(halves, pop, FALSE),
         mask' = mask, timer' = timer, local'.asked = local.asked,
         Taken \in Nat, Taken' = Taken + (IF pop THEN 1 ELSE 0),
         \A i \in 1 .. Taken' : TakenEdge(i)' = Edge(i)
  PROVE  QueueSound'
<1>1. PICK left \in Seq(Marks) : left = IF pop THEN Tail(stamps) ELSE stamps
  <2>1. stamps # <<>> => Tail(stamps) \in Seq(Marks)
    BY DEF EdgesTypes
  <2> QED
    BY <2>1 DEF EdgesTypes
<1>2. /\ lost' \in BOOLEAN
      /\ \/ stamps' = left /\ edges' = edges /\ lost' = lost
         \/ stamps' = left /\ edges' = edges + 1 /\ lost'
         \/ /\ edges' = edges + 1 /\ lost' = lost
            /\ \E edge \in Marks :
                 /\ stamps' = Append(left, edge)
                 /\ edge.n = edges + 1 /\ edge.half \in mask /\ edge.engine = timer
  BY <1>1, StampsGoOn DEF EdgesTypes
<1>3. /\ Len(stamps) \in Nat /\ Len(left) \in Nat
      /\ Len(left) = Len(stamps) - (IF pop THEN 1 ELSE 0)
      /\ \A i \in 1 .. Len(left) : left[i] = stamps[i + (IF pop THEN 1 ELSE 0)]
  <2>1. CASE pop
    <3>1. stamps # <<>> /\ stamps \in Seq(Marks)
      BY <2>1 DEF EdgesTypes
    <3>2. /\ Len(Tail(stamps)) = Len(stamps) - 1
          /\ \A i \in 1 .. Len(Tail(stamps)) : Tail(stamps)[i] = stamps[i + 1]
          /\ Len(stamps) \in Nat /\ Len(Tail(stamps)) \in Nat
      BY <3>1
    <3> QED
      BY <1>1, <2>1, <3>2
  <2>2. CASE ~pop
    <3>1. left = stamps /\ Len(stamps) \in Nat
      BY <1>1, <2>2 DEF EdgesTypes
    <3> QED
      BY <2>2, <3>1
  <2> QED
    BY <2>1, <2>2
<1>4. Queued \in Nat /\ Queued = Taken' + Len(left) /\ Taken' \in Nat
  <2>1. Queued = Taken + Len(stamps)
    BY DEF Queued
  <2>2. CASE pop
    BY <1>3, <2>1, <2>2, SMT
  <2>3. CASE ~pop
    BY <1>3, <2>1, <2>3, SMT
  <2> QED
    BY <2>2, <2>3
<1>5. \A i \in 1 .. Queued :
        Edge(i) = IF i <= Taken' THEN TakenEdge(i)' ELSE left[i - Taken']
  <2> SUFFICES ASSUME NEW i \in 1 .. Queued, ~(i <= Taken')
               PROVE  Edge(i) = left[i - Taken']
    BY <1>4, SMT
  <2>1. i - Taken' \in 1 .. Len(left) /\ ~(i <= Taken)
    BY <1>4, SMT
  <2>2. left[i - Taken'] = stamps[(i - Taken') + (IF pop THEN 1 ELSE 0)]
    BY <1>3, <2>1
  <2>3. (i - Taken') + (IF pop THEN 1 ELSE 0) = i - Taken
    BY <1>4, SMT
  <2> QED
    BY <2>1, <2>2, <2>3 DEF Edge
<1>6. \A i : Edge(i)' = IF i <= Taken' THEN TakenEdge(i)' ELSE stamps'[i - Taken']
  BY DEF Edge
<1>7. /\ mask = local.asked.mask /\ timer = local.asked.engine
      /\ \A i \in 1 .. Queued : Edge(i).n \in 1 .. edges /\ Asked(Edge(i))
      /\ \A i \in 2 .. Queued : Edge(i - 1).n < Edge(i).n
      /\ ~lost => Queued = edges /\ \A i \in 1 .. Queued : Edge(i).n = i
      /\ lost => Queued < edges
      /\ edges \in Nat /\ lost \in BOOLEAN
  BY DEF QueueSound, EdgesTypes
<1>8. \A e : Asked(e)' <=> e.half \in local.asked.mask /\ e.engine = local.asked.engine
  BY DEF Asked
<1>9. \A e : Asked(e) <=> e.half \in local.asked.mask /\ e.engine = local.asked.engine
  BY DEF Asked
<1>10. CASE stamps' = left
  <2>1. Queued' = Queued /\ \A i \in 1 .. Queued : Edge(i)' = Edge(i)
    BY <1>4, <1>5, <1>6, <1>10 DEF Queued
  <2>2. edges' \in Nat /\ edges' >= edges /\ (lost => lost')
        /\ (edges' # edges => lost' /\ edges' = edges + 1) /\ (edges' = edges => lost' = lost)
    <3>1. \/ edges' = edges /\ lost' = lost
          \/ edges' = edges + 1 /\ lost'
          \/ \E edge \in Marks : stamps' = Append(left, edge)
      BY <1>2
    <3>2. \A edge \in Marks : Append(left, edge) # left
      <4> SUFFICES ASSUME NEW edge \in Marks PROVE Append(left, edge) # left
        OBVIOUS
      <4>1. Len(Append(left, edge)) = Len(left) + 1
        OBVIOUS
      <4> QED
        BY <1>3, <4>1
    <3> QED
      BY <1>7, <1>10, <3>1, <3>2, SMT
  <2>3. \A i \in 1 .. Queued' : Edge(i)'.n \in 1 .. edges' /\ Asked(Edge(i))'
    <3> SUFFICES ASSUME NEW i \in 1 .. Queued
                 PROVE  Edge(i)'.n \in 1 .. edges' /\ Asked(Edge(i))'
      BY <2>1
    <3>1. Edge(i)' = Edge(i) /\ Edge(i).n \in 1 .. edges /\ Asked(Edge(i))
      BY <1>7, <2>1
    <3>2. Edge(i)'.n \in 1 .. edges'
      BY <1>7, <2>2, <3>1, SMT
    <3>3. Asked(Edge(i))'
      BY <3>1 DEF Asked
    <3> QED
      BY <3>2, <3>3
  <2>4. \A i \in 2 .. Queued' : Edge(i - 1)'.n < Edge(i)'.n
    <3> SUFFICES ASSUME NEW i \in 2 .. Queued
                 PROVE  Edge(i - 1)'.n < Edge(i)'.n
      BY <2>1
    <3>1. i \in 1 .. Queued /\ i - 1 \in 1 .. Queued
      BY <1>4, SMT
    <3> QED
      BY <1>7, <2>1, <3>1
  <2>5. ~lost' => Queued' = edges' /\ \A i \in 1 .. Queued' : Edge(i)'.n = i
    BY <1>7, <2>1, <2>2
  <2>6. lost' => Queued' < edges'
    <3>1. /\ Queued \in Nat /\ edges \in Nat /\ Queued' = Queued
          /\ lost => Queued < edges
          /\ ~lost => Queued = edges
      BY <1>4, <1>7, <2>1
    <3>2. CASE edges' = edges
      BY <2>2, <3>1, <3>2
    <3>3. CASE edges' = edges + 1
      <4>1. Queued <= edges
        BY <3>1
      <4> QED
        BY <3>1, <3>3, <4>1
    <3> QED
      BY <2>2, <3>2, <3>3
  <2> QED
    BY <1>7, <2>3, <2>4, <2>5, <2>6 DEF QueueSound
<1>11. CASE stamps' # left
  <2>1. PICK edge \in Marks :
          /\ stamps' = Append(left, edge) /\ edges' = edges + 1 /\ lost' = lost
          /\ edge.n = edges + 1 /\ edge.half \in mask /\ edge.engine = timer
    BY <1>2, <1>11
  <2>2. /\ Len(stamps') = Len(left) + 1
        /\ \A i \in 1 .. Len(left) : stamps'[i] = left[i]
        /\ stamps'[Len(left) + 1] = edge
    BY <2>1
  <2>3. Queued' = Queued + 1
    <3>1. Queued' = Taken' + Len(stamps')
      BY DEF Queued
    <3>2. Len(stamps') = Len(left) + 1 /\ Len(left) \in Nat
      BY <1>3, <2>2
    <3> QED
      BY <1>4, <3>1, <3>2
  <2>4. \A i \in 1 .. Queued : Edge(i)' = Edge(i)
    <3> SUFFICES ASSUME NEW i \in 1 .. Queued PROVE Edge(i)' = Edge(i)
      OBVIOUS
    <3>1. ~(i <= Taken') => i - Taken' \in 1 .. Len(left)
      BY <1>3, <1>4, SMT
    <3> QED
      BY <1>5, <1>6, <2>2, <3>1
  <2>5. PICK k \in Nat : k = Queued + 1
    BY <1>4
  <2>6. Edge(k)' = edge
    <3>1. ~(k <= Taken') /\ k - Taken' = Len(left) + 1
      BY <1>3, <1>4, <2>5, SMT
    <3> QED
      BY <1>6, <2>2, <3>1
  <2>7. ASSUME NEW i \in 1 .. Queued'
        PROVE  i \in 1 .. Queued \/ i = k
    BY <1>4, <2>3, <2>5, SMT
  <2>8. \A i \in 1 .. Queued' : Edge(i)'.n \in 1 .. edges' /\ Asked(Edge(i))'
    <3> SUFFICES ASSUME NEW i \in 1 .. Queued'
                 PROVE  Edge(i)'.n \in 1 .. edges' /\ Asked(Edge(i))'
      OBVIOUS
    <3>1. CASE i = k
      <4>1. Edge(i)' = edge
        BY <2>6, <3>1
      <4>2. edge.n \in 1 .. edges'
        BY <1>7, <2>1, SMT
      <4> QED
        BY <1>7, <2>1, <4>1, <4>2 DEF Asked
    <3>2. CASE i \in 1 .. Queued
      <4>1. Edge(i)' = Edge(i) /\ Edge(i).n \in 1 .. edges /\ Asked(Edge(i))
        BY <1>7, <2>4, <3>2
      <4>2. Edge(i)'.n \in 1 .. edges'
        BY <1>7, <2>1, <4>1, SMT
      <4> QED
        BY <4>1, <4>2 DEF Asked
    <3> QED
      BY <2>7, <3>1, <3>2
  <2>9. \A i \in 2 .. Queued' : Edge(i - 1)'.n < Edge(i)'.n
    <3> SUFFICES ASSUME NEW i \in 2 .. Queued'
                 PROVE  Edge(i - 1)'.n < Edge(i)'.n
      OBVIOUS
    <3>1. i - 1 \in 1 .. Queued /\ i \in 1 .. Queued'
      BY <1>4, <2>3, SMT
    <3>2. Edge(i - 1)' = Edge(i - 1) /\ Edge(i - 1).n \in 1 .. edges
      BY <1>7, <2>4, <3>1
    <3>3. CASE i = k
      BY <1>7, <2>1, <2>6, <3>2, <3>3, SMT
    <3>4. CASE i \in 1 .. Queued
      <4>1. i \in 2 .. Queued
        BY <3>4, <1>4, SMT
      <4> QED
        BY <1>7, <2>4, <3>2, <3>4, <4>1
    <3> QED
      BY <2>7, <3>1, <3>3, <3>4
  <2>10. ~lost' => Queued' = edges' /\ \A i \in 1 .. Queued' : Edge(i)'.n = i
    <3> SUFFICES ASSUME ~lost
                 PROVE  Queued' = edges' /\ \A i \in 1 .. Queued' : Edge(i)'.n = i
      BY <2>1
    <3>1. k = edges + 1
      BY <1>7, <2>5
    <3> QED
      BY <1>7, <2>1, <2>3, <2>4, <2>5, <2>6, <2>7, <3>1
  <2>11. lost' => Queued' < edges'
    BY <1>4, <1>7, <2>1, <2>3, SMT
  <2> QED
    BY <1>7, <2>8, <2>9, <2>10, <2>11 DEF QueueSound
<1> QED
  BY <1>10, <1>11

-----------------------------------------------------------------------------
\* A cycle in which the host neither empties the queue nor pops it.
Undisturbed == strobe = NoStrobe \/ (strobe = ReadStrobe /\ frame.reg # "pins_hi")

\* In such a cycle the queue only grows.
LEMMA StampsGrow ==
  ASSUME EdgesTypes, Undisturbed, Next
  PROVE  /\ \E halves \in SUBSET Halves : StampsCycle(halves, FALSE, FALSE)
         /\ mask' = mask /\ timer' = timer
<1>1. strobe.ask # "write" /\ ~(strobe.ask = "read" /\ frame.reg = "pins_hi")
  BY DEF NoStrobe, ReadStrobe, Undisturbed
<1>2. \A reg : ~Writes(reg)
  BY <1>1 DEF Writes
<1>3. StampFlush = FALSE /\ (strobe.ask = "read" /\ frame.reg = "pins_hi") = FALSE
  BY <1>1, <1>2 DEF StampFlush
<1>4. PICK halves \in SUBSET Halves :
        StampsCycle(halves, strobe.ask = "read" /\ frame.reg = "pins_hi", StampFlush)
  BY StampsStep
<1>5. StampsCycle(halves, FALSE, FALSE)
  BY <1>3, <1>4
<1> QED
  BY <1>2, <1>5, StampsStep

\* A cycle that neither pops a stamp nor empties the queue adds one at most.
LEMMA StampsStay ==
  ASSUME EdgesTypes, Undisturbed, Next
  PROVE  /\ stamps' \in Seq(Marks) /\ edges' \in Nat /\ lost' \in BOOLEAN
         /\ mask' = mask /\ timer' = timer
         /\ lost => lost'
         /\ \A edge : Oldest(edge) => Oldest(edge)'
<1>1. PICK halves \in SUBSET Halves : StampsCycle(halves, FALSE, FALSE)
  BY StampsGrow
<1>2. /\ lost' \in BOOLEAN
      /\ \/ stamps' = stamps /\ edges' = edges /\ lost' = lost
         \/ stamps' = stamps /\ edges' = edges + 1 /\ lost'
         \/ /\ edges' = edges + 1 /\ lost' = lost
            /\ \E edge \in Marks :
                 /\ stamps' = Append(stamps, edge)
                 /\ edge.n = edges + 1 /\ edge.half \in mask /\ edge.engine = timer
  BY <1>1, StampsGoOn DEF EdgesTypes
<1>3. stamps \in Seq(Marks) /\ edges \in Nat /\ lost \in BOOLEAN
  BY DEF EdgesTypes
<1>4. CASE stamps' = stamps
  BY <1>2, <1>3, <1>4, StampsGrow DEF Oldest
<1>5. ASSUME NEW edge \in Marks, stamps' = Append(stamps, edge)
      PROVE  /\ stamps' \in Seq(Marks)
             /\ stamps # <<>> => stamps' # <<>> /\ Head(stamps') = Head(stamps)
  BY <1>3, <1>5
<1>6. CASE \E edge \in Marks : stamps' = Append(stamps, edge)
  <2>1. /\ stamps' \in Seq(Marks)
        /\ stamps # <<>> => stamps' # <<>> /\ Head(stamps') = Head(stamps)
    BY <1>5, <1>6
  <2>2. edges' \in Nat /\ (lost => lost')
    BY <1>2, <1>3
  <2> QED
    BY <1>2, <2>1, <2>2, StampsGrow DEF Oldest
<1> QED
  BY <1>2, <1>4, <1>6

\* What the host knows of the queue stays so through such a cycle.
LEMMA SoundStays ==
  ASSUME EdgesTypes, Undisturbed, Next, QueueSound,
         local'.asked = local.asked, Taken \in Nat, Taken' = Taken,
         \A i \in 1 .. Taken : TakenEdge(i)' = TakenEdge(i)
  PROVE  QueueSound'
<1>1. PICK halves \in SUBSET Halves : StampsCycle(halves, FALSE, FALSE)
  BY StampsGrow
<1>2. \A i \in 1 .. Taken' : TakenEdge(i)' = Edge(i)
  BY DEF Edge
<1>3. Taken' = Taken + (IF FALSE THEN 1 ELSE 0)
  OBVIOUS
<1> QED
  BY <1>1, <1>2, <1>3, StampsGrow, QueueGoesOn

\* A step that leaves the program where it is and what is being read.
LEMMA EdgesKeeps ==
  ASSUME EdgesJob, Undisturbed, Next, UNCHANGED <<at, local>>,
         HasPopped' = HasPopped, Writing' = Writing, IsLatched' = IsLatched,
         IsLatched => TheWord' = TheWord
  PROVE  /\ EdgesTypes' /\ GotWhole' /\ (Settled' => QueueSound')
         /\ StampAt'
<1>1. EdgesTypes'
  BY StampsStay DEF EdgesJob, EdgesTypes
<1>2. GotWhole'
  BY DEF EdgesJob, GotWhole, Whole
<1>3. ASSUME Settled' PROVE QueueSound'
  <2>1. QueueSound
    BY <1>3 DEF EdgesJob, Settled
  <2>2. Taken \in Nat /\ Taken' = Taken /\ \A i : TakenEdge(i)' = TakenEdge(i)
    BY DEF EdgesJob, EdgesTypes, Taken, TakenEdge
  <2> QED
    BY <2>1, <2>2, SoundStays DEF EdgesJob
<1>4. /\ mask' = mask /\ (lost => lost')
      /\ \A edge : Oldest(edge) => Oldest(edge)'
  BY StampsStay DEF EdgesJob
<1>5. Oldest(local.stamp[1]) => Oldest(local.stamp[1])'
  <2>1. Oldest(local.stamp[1])' <=> (stamps' # <<>> /\ local.stamp[1] = Head(stamps'))
    BY DEF Oldest
  <2>2. \A edge : Oldest(edge)' <=> (stamps' # <<>> /\ edge = Head(stamps'))
    BY DEF Oldest
  <2> QED
    BY <1>4, <2>1, <2>2
<1>6. IsLatched /\ Oldest(TheWord.edge) => Oldest(TheWord.edge)'
  <2>1. IsLatched => (Oldest(TheWord.edge)'
                        <=> (stamps' # <<>> /\ TheWord.edge = Head(stamps')))
    BY DEF Oldest
  <2>2. \A edge : Oldest(edge)' <=> (stamps' # <<>> /\ edge = Head(stamps'))
    BY DEF Oldest
  <2> QED
    BY <1>4, <2>1, <2>2
<1>7. StampAt
  BY DEF EdgesJob
<1>8. StampAt'
  BY <1>4, <1>5, <1>6, <1>7 DEF StampAt
<1> QED
  BY <1>1, <1>2, <1>3, <1>8

\* The bytes that latch nothing, and a cycle with none.
LEMMA EdgesBytes ==
  ASSUME EdgesJob, strobe = NoStrobe, Next,
         Quiet \/ WriteWord \/ HighByte \/ LowByte \/ ReadDone
  PROVE  EdgesJob'
<1>1. OneWordFrames /\ FrameAt /\ EdgesTypes
  BY DEF EdgesJob
<1>2. /\ NoStrobe.ask = "none" /\ ReadStrobe.ask = "read" /\ NoStrobe # ReadStrobe
      /\ [ask |-> "write", value |-> local.asked].ask = "write"
      /\ [ask |-> "write", value |-> local.asked] # ReadStrobe
  BY DEF NoStrobe, ReadStrobe
<1>3. SUFFICES /\ UNCHANGED <<at, local>> /\ OneWordFrames' /\ FrameAt'
               /\ HasPopped' = HasPopped /\ Writing' = Writing
               /\ IsLatched' = IsLatched /\ (IsLatched => TheWord' = TheWord)
  BY EdgesKeeps DEF EdgesJob, Undisturbed
<1>4. CASE Quiet
  <2>1. /\ UNCHANGED <<state, frame, high, reply, at, local>>
        /\ strobe' = strobe /\ word' = word
    BY <1>2, <1>4 DEF Quiet
  <2> QED
    BY <1>1, <2>1 DEF OneWordFrames, FrameAt, HasPopped, Writing, IsLatched, TheWord
<1>5. CASE WriteWord
  <2>1. /\ state = "High" /\ frame.writes # <<>>
        /\ strobe' = [ask |-> "write", value |-> Head(frame.writes)]
        /\ frame' = [frame EXCEPT !.writes = Tail(@)]
        /\ UNCHANGED <<state, word, high, reply, at, local>>
    BY <1>5 DEF WriteWord
  <2>a. /\ frame.writes = <<local.asked>> /\ frame.reads = 0
        /\ frame = [reg |-> frame.reg, writes |-> frame.writes, reads |-> frame.reads]
    BY <1>1, <2>1 DEF OneWordFrames
  <2>b. Head(<<local.asked>>) = local.asked /\ Tail(<<local.asked>>) = <<>>
    OBVIOUS
  <2>c. strobe' = [ask |-> "write", value |-> local.asked]
    BY <2>1, <2>a, <2>b
  <2>d. frame' = [reg |-> frame.reg, writes |-> <<>>, reads |-> 0]
    BY <2>1, <2>a, <2>b
  <2>2. /\ Writing /\ Writing' = Writing /\ ~HasPopped'
        /\ IsLatched' = IsLatched /\ TheWord' = TheWord
    BY <1>2, <2>1, <2>a, <2>c, <2>d DEF Writing, HasPopped, IsLatched, TheWord
  <2>3. at \in {"control", "time_hi"}
    BY <1>1, <2>2 DEF FrameAt, EdgesTypes
  <2>4. HasPopped' = HasPopped
    BY <2>1, <2>3 DEF HasPopped
  <2>5. OneWordFrames'
    <3>1. /\ frame'.reads = 0 /\ frame'.writes = <<>> /\ frame'.reg = frame.reg
          /\ frame' = [reg |-> frame'.reg, writes |-> frame'.writes, reads |-> frame'.reads]
      BY <2>d
    <3> QED
      BY <2>1, <2>c, <3>1 DEF OneWordFrames
  <2>6. FrameAt'
    BY <1>1, <1>2, <2>1, <2>2, <2>3, <2>c, <2>d DEF FrameAt
  <2> QED
    BY <2>1, <2>2, <2>4, <2>5, <2>6
<1>6. CASE HighByte
  <2>1. /\ state = "High" /\ frame.reads = 1
        /\ high' = TxWord /\ state' = "Low"
        /\ UNCHANGED <<strobe, word, frame, reply, at, local>>
    BY <1>1, <1>6 DEF HighByte, OneWordFrames
  <2>2. at \in {"time_lo", "pins_lo", "pins_hi", "stamp"}
    BY <1>1, <2>1 DEF FrameAt, EdgesTypes
  <2>3. TxWord = word
    BY <1>1, <2>2 DEF FrameAt, TxWord
  <2> QED
    BY <1>1, <2>1, <2>3 DEF OneWordFrames, FrameAt, HasPopped, Writing, IsLatched, TheWord
<1>7. CASE LowByte
  <2>1. /\ state = "Low" /\ frame.reads = 1 /\ high = word /\ reply = <<>>
        /\ reply' = Append(reply, <<high, TxWord>>)
        /\ state' = "Last"
        /\ UNCHANGED <<strobe, word, frame, at, local>>
    BY <1>1, <1>7 DEF LowByte, OneWordFrames
  <2>2. reply' = <<<<word, TxWord>>>>
    BY <2>1
  <2>3. Len(reply') = 1 /\ reply'[1][1] = word
    BY <2>2
  <2> QED
    BY <1>1, <2>1, <2>3 DEF OneWordFrames, FrameAt, HasPopped, Writing, IsLatched, TheWord
<1>8. CASE ReadDone
  <2>1. /\ state = "Last" /\ state' = "High" /\ strobe' = ReadStrobe
        /\ frame' = [frame EXCEPT !.reads = @ - 1]
        /\ UNCHANGED <<word, high, reply, at, local>>
    BY <1>8 DEF ReadDone, ReadStrobe
  <2>2. frame.reads = 1 /\ frame.writes = <<>> /\ Len(reply) = 1
    BY <1>1, <2>1 DEF OneWordFrames
  <2>3. frame' = [reg |-> frame.reg, writes |-> <<>>, reads |-> 0]
    BY <1>1, <2>1, <2>2 DEF OneWordFrames
  <2>4. OneWordFrames'
    <3>1. /\ frame'.reads = 0 /\ frame'.writes = <<>> /\ frame'.reg = frame.reg
          /\ frame' = [reg |-> frame'.reg, writes |-> frame'.writes, reads |-> frame'.reads]
      BY <2>3
    <3> QED
      BY <2>1, <3>1 DEF OneWordFrames
  <2>5. at \in {"time_lo", "pins_lo", "pins_hi", "stamp"}
    BY <1>1, <2>2 DEF FrameAt, EdgesTypes
  <2>6. ~Writing /\ Writing' = Writing
    BY <1>2, <2>1, <2>2, <2>3 DEF Writing
  <2>7. FrameAt'
    BY <1>1, <2>1, <2>2, <2>3, <2>5, <2>6 DEF FrameAt
  <2>8. HasPopped' = HasPopped
    BY <1>2, <2>1, <2>2 DEF HasPopped
  <2>9. IsLatched' = IsLatched /\ TheWord' = TheWord
    BY <2>1, <2>2, <2>3 DEF IsLatched, TheWord
  <2> QED
    BY <2>1, <2>4, <2>6, <2>7, <2>8, <2>9
<1> QED
  BY <1>4, <1>5, <1>6, <1>7, <1>8

\* A register is latched: what the host has of the stamp it reads is the oldest's.
LEMMA EdgesCommandByte ==
  ASSUME EdgesJob, strobe = NoStrobe, Next, CommandByte
  PROVE  EdgesJob'
<1>1. OneWordFrames /\ FrameAt /\ EdgesTypes /\ StampAt
  BY DEF EdgesJob
<1>2. /\ state = "Command" /\ state' = "High"
      /\ word' = IF frame.reads > 0 THEN ReadValue(frame.reg) ELSE word
      /\ UNCHANGED <<strobe, frame, high, reply, at, local>>
  BY DEF CommandByte
<1>3. OneWordFrames' /\ FrameAt' /\ HasPopped' = HasPopped /\ Writing' = Writing
  BY <1>1, <1>2 DEF OneWordFrames, FrameAt, HasPopped, Writing
<1>4. CASE frame.reads = 0
  <2>1. IsLatched' /\ IsLatched /\ TheWord' = TheWord
    BY <1>2, <1>4 DEF IsLatched, TheWord
  <2> QED
    BY <1>2, <1>3, <2>1, EdgesKeeps DEF EdgesJob, Undisturbed
<1>5. CASE frame.reads = 1
  <2>1. /\ ~IsLatched /\ IsLatched' /\ TheWord' = word'
        /\ word' = ReadValue(frame.reg) /\ ~HasPopped
    BY <1>2, <1>5 DEF IsLatched, TheWord, HasPopped
  <2>2. /\ stamps' \in Seq(Marks) /\ edges' \in Nat /\ lost' \in BOOLEAN
        /\ mask' = mask /\ timer' = timer /\ (lost => lost')
        /\ \A edge : Oldest(edge) => Oldest(edge)'
    BY <1>1, StampsStay DEF Undisturbed
  <2>3. EdgesTypes'
    BY <1>1, <1>2, <2>2 DEF EdgesTypes
  <2>4. GotWhole'
    BY <1>2 DEF EdgesJob, GotWhole, Whole
  <2>5. ASSUME Settled' PROVE QueueSound'
    <3>1. QueueSound
      BY <1>2, <1>3, <2>5 DEF EdgesJob, Settled
    <3>2. Taken \in Nat /\ Taken' = Taken /\ \A i : TakenEdge(i)' = TakenEdge(i)
      BY <1>1, <1>2, <1>3 DEF EdgesTypes, Taken, TakenEdge
    <3> QED
      BY <1>1, <1>2, <3>1, <3>2, SoundStays DEF Undisturbed
  <2>6. at \in {"time_lo", "pins_lo", "pins_hi", "stamp"}
    BY <1>1, <1>5 DEF FrameAt, EdgesTypes
  <2>7. CASE at = "time_lo"
    <3>1. word' = [level |-> Len(stamps), lost |-> lost, edge |-> HeadOr(stamps, NoStamp)]
      BY <1>1, <2>1, <2>7 DEF FrameAt, ReadValue
    <3>2. word'.level > 0 => Oldest(word'.edge)
      BY <1>1, <3>1 DEF Oldest, HeadOr, EdgesTypes
    <3>3. word'.level > 0 => Oldest(word.edge)'
      <4>1. PICK e : e = word'.edge
        OBVIOUS
      <4>2. Oldest(e) => Oldest(e)'
        BY <2>2
      <4> QED
        BY <3>2, <4>1, <4>2 DEF Oldest
    <3>4. word'.lost = lost
      BY <3>1
    <3>5. ~lost => \A i \in 1 .. Len(local.got) : local.got[i][1].n = i
      <4>1. QueueSound
        BY <2>7 DEF EdgesJob, Settled
      <4> SUFFICES ASSUME ~lost, NEW i \in 1 .. Len(local.got)
                   PROVE  local.got[i][1].n = i
        OBVIOUS
      <4>2. Taken = Len(local.got) /\ Len(local.got) \in Nat /\ Len(stamps) \in Nat
        BY <1>1, <2>1 DEF Taken, EdgesTypes
      <4>3. i \in 1 .. Queued /\ i <= Taken
        BY <4>2, SMT DEF Queued
      <4> QED
        BY <4>1, <4>2, <4>3 DEF QueueSound, Edge, TakenEdge
    <3>6. TheWord'.level > 0 => Oldest(TheWord.edge)'
      BY <2>1, <3>3 DEF Oldest
    <3>7. /\ TheWord'.lost \in BOOLEAN
          /\ TheWord'.lost => lost'
          /\ ~TheWord'.lost => \A i \in 1 .. Len(local.got) : local.got[i][1].n = i
      BY <1>1, <2>1, <2>2, <3>4, <3>5 DEF EdgesTypes
    <3>8. StampAt'
      BY <1>2, <2>7, <3>6, <3>7 DEF StampAt
    <3> QED
      BY <1>3, <2>3, <2>4, <2>5, <3>8 DEF EdgesJob
  <2>8. CASE at \in {"pins_lo", "pins_hi", "stamp"}
    <3>1. frame.reg \in {"time_lo", "pins_lo", "pins_hi"}
      BY <1>1, <2>8 DEF FrameAt
    <3>2. word' = HeadOr(stamps, NoStamp)
      BY <2>1, <3>1 DEF ReadValue
    <3>3. PICK e : e = local.stamp[1]
      OBVIOUS
    <3>4. Oldest(e) /\ word' = e
      BY <1>1, <2>1, <2>8, <3>2, <3>3 DEF StampAt, Oldest, HeadOr
    <3>5. Oldest(e)'
      BY <2>2, <3>4
    <3>6. Oldest(local.stamp[1])'
      BY <1>2, <3>3, <3>5 DEF Oldest
    <3>7. StampAt'
      BY <1>1, <1>2, <2>1, <2>8, <3>3, <3>4, <3>6 DEF StampAt
    <3> QED
      BY <1>3, <2>3, <2>4, <2>5, <3>7 DEF EdgesJob
  <2> QED
    BY <2>6, <2>7, <2>8
<1> QED
  BY <1>1, <1>4, <1>5 DEF OneWordFrames

\* A register of the mask takes effect: the queue is emptied, and after the second
\* of the two the pins and the engine are those the host asked for.
LEMMA EdgesWritten ==
  ASSUME EdgesJob, strobe.ask = "write", Quiet, Next
  PROVE  EdgesJob'
<1>1. OneWordFrames /\ FrameAt /\ EdgesTypes /\ StampAt
  BY DEF EdgesJob
<1>2. strobe # NoStrobe /\ strobe # ReadStrobe /\ NoStrobe # ReadStrobe
  BY DEF NoStrobe, ReadStrobe
<1>3. /\ strobe.value = local.asked /\ frame.writes = <<>> /\ frame.reads = 0
      /\ state \in {"Idle", "High"}
  BY <1>1, <1>2 DEF OneWordFrames
<1>4. /\ UNCHANGED <<state, frame, high, reply, at, local>> /\ strobe' = NoStrobe
      /\ NoStrobe.ask = "none"
  BY DEF Quiet, NoStrobe
<1>5. OneWordFrames'
  BY <1>1, <1>3, <1>4 DEF OneWordFrames
<1>6. Writing /\ ~Writing'
  BY <1>3, <1>4 DEF Writing
<1>7. at \in {"control", "time_hi"}
  BY <1>1, <1>6 DEF FrameAt, EdgesTypes
<1>8. FrameAt'
  BY <1>1, <1>2, <1>3, <1>4, <1>6, <1>7 DEF FrameAt
<1>9. frame.reg = IF at = "control" THEN "stamp_mask" ELSE "stamp_control"
  BY <1>1, <1>6, <1>7 DEF FrameAt
<1>10. /\ Writes("stamp_mask") <=> at = "control"
       /\ Writes("stamp_control") <=> at = "time_hi"
  BY <1>7, <1>9 DEF Writes
<1>11. stamps' = <<>> /\ lost' = FALSE /\ edges' = 0
  <2>1. StampFlush
    BY <1>7, <1>10 DEF StampFlush
  <2>2. PICK halves \in SUBSET Halves :
          StampsCycle(halves, strobe.ask = "read" /\ frame.reg = "pins_hi", StampFlush)
    BY StampsStep
  <2> QED
    BY <2>1, <2>2 DEF StampsCycle
<1>12. /\ at = "control" =>
            mask' = (mask \ {"lo"}) \cup (local.asked.mask \cap {"lo"}) /\ timer' = timer
       /\ at = "time_hi" =>
            /\ mask' = (mask \ {"hi"}) \cup (local.asked.mask \cap {"hi"})
            /\ timer' = local.asked.engine
  BY <1>3, <1>10, StampsStep
<1>13. local.asked.mask \in SUBSET Halves /\ local.asked.engine \in {0, 1}
  BY <1>1 DEF EdgesTypes, Masks
<1>14. mask' \in SUBSET Halves /\ timer' \in {0, 1} /\ EdgesTypes'
  <2>1. mask' \in SUBSET Halves /\ timer' \in {0, 1}
    BY <1>1, <1>7, <1>12, <1>13 DEF EdgesTypes
  <2>2. stamps' \in Seq(Marks) /\ edges' \in Nat /\ lost' \in BOOLEAN
    <3>1. <<>> \in Seq(Marks) /\ 0 \in Nat /\ FALSE \in BOOLEAN
      OBVIOUS
    <3> QED
      BY <1>11, <3>1
  <2> QED
    BY <1>1, <1>4, <2>1, <2>2 DEF EdgesTypes
<1>15. GotWhole'
  BY <1>4 DEF EdgesJob, GotWhole, Whole
<1>16. CASE at = "control"
  <2>1. mask' \cap {"lo"} = local.asked.mask \cap {"lo"}
    BY <1>12, <1>16
  <2>2. StampAt'
    BY <1>4, <1>16, <2>1 DEF StampAt
  <2>3. ~Settled'
    BY <1>4, <1>16 DEF Settled
  <2> QED
    BY <1>5, <1>8, <1>14, <1>15, <2>2, <2>3 DEF EdgesJob
<1>17. CASE at = "time_hi"
  <2>1. local.got = <<>> /\ mask \cap {"lo"} = local.asked.mask \cap {"lo"}
    BY <1>1, <1>6, <1>17 DEF StampAt
  <2>2. mask' = local.asked.mask
    BY <1>1, <1>12, <1>13, <1>17, <2>1 DEF EdgesTypes, Halves
  <2>3. Queued' = 0
    <3>1. Len(local'.got) = 0 /\ Len(stamps') = 0 /\ ~HasPopped'
      BY <1>4, <1>11, <1>17, <2>1 DEF HasPopped
    <3>2. Taken' = 0
      BY <3>1 DEF Taken
    <3> QED
      BY <3>1, <3>2 DEF Queued
  <2>4. \A i : i \notin 1 .. Queued' /\ i \notin 2 .. Queued'
    BY <2>3
  <2>5. mask' = local'.asked.mask /\ timer' = local'.asked.engine
    BY <1>4, <1>12, <1>17, <2>2
  <2>6. QueueSound'
    BY <1>11, <2>3, <2>4, <2>5 DEF QueueSound
  <2>7. StampAt'
    BY <1>4, <1>6, <1>17 DEF StampAt
  <2> QED
    BY <1>5, <1>8, <1>14, <1>15, <2>6, <2>7 DEF EdgesJob
<1> QED
  BY <1>7, <1>16, <1>17

\* A read is done: the last of a stamp's four pops the edge the other three were of.
LEMMA EdgesRead ==
  ASSUME EdgesJob, strobe = ReadStrobe, Quiet, Next
  PROVE  EdgesJob'
<1>1. OneWordFrames /\ FrameAt /\ EdgesTypes /\ StampAt
  BY DEF EdgesJob
<1>2. strobe # NoStrobe /\ strobe.ask = "read" /\ NoStrobe.ask = "none"
  BY DEF NoStrobe, ReadStrobe
<1>3. /\ frame.writes = <<>> /\ frame.reads = 0 /\ state \in {"Idle", "High"}
  BY <1>1, <1>2 DEF OneWordFrames
<1>4. /\ UNCHANGED <<state, frame, high, reply, at, local>> /\ strobe' = NoStrobe
  BY DEF Quiet
<1>5. OneWordFrames'
  BY <1>1, <1>3, <1>4 DEF OneWordFrames
<1>6. ~Writing /\ Writing' = Writing
  BY <1>2, <1>3, <1>4 DEF Writing
<1>7. at \in {"time_lo", "pins_lo", "pins_hi", "stamp"}
  BY <1>1, <1>2 DEF FrameAt, EdgesTypes
<1>8. FrameAt'
  BY <1>1, <1>4, <1>6, <1>7 DEF FrameAt
<1>9. ~HasPopped /\ IsLatched' = IsLatched /\ IsLatched /\ TheWord' = TheWord
  BY <1>2, <1>3, <1>4 DEF HasPopped, IsLatched, TheWord
<1>10. CASE at # "stamp"
  <2>1. frame.reg # "pins_hi" /\ HasPopped' = HasPopped
    BY <1>1, <1>4, <1>7, <1>10 DEF FrameAt, HasPopped
  <2>2. Undisturbed
    BY <2>1 DEF Undisturbed
  <2> QED
    BY <1>4, <1>5, <1>6, <1>8, <1>9, <2>1, <2>2, EdgesKeeps DEF EdgesJob
<1>11. CASE at = "stamp"
  <2>1. frame.reg = "pins_hi" /\ HasPopped'
    BY <1>1, <1>3, <1>4, <1>11 DEF FrameAt, HasPopped
  <2>2. \A reg : ~Writes(reg)
    BY <1>2 DEF Writes
  <2>3. PICK halves \in SUBSET Halves : StampsCycle(halves, TRUE, FALSE)
    <3>1. StampFlush = FALSE /\ (strobe.ask = "read" /\ frame.reg = "pins_hi") = TRUE
      BY <1>2, <2>1, <2>2 DEF StampFlush
    <3>2. PICK halves \in SUBSET Halves :
            StampsCycle(halves, strobe.ask = "read" /\ frame.reg = "pins_hi", StampFlush)
      BY StampsStep
    <3>3. StampsCycle(halves, TRUE, FALSE)
      BY <3>1, <3>2
    <3> QED
      BY <3>3
  <2>4. mask' = mask /\ timer' = timer
    BY <2>2, StampsStep
  <2>5. Oldest(local.stamp[1])
    BY <1>1, <1>9, <1>11 DEF StampAt
  <2>6. stamps # <<>> /\ stamps \in Seq(Marks) /\ local.stamp[1] = stamps[1]
    BY <1>1, <2>5 DEF Oldest, EdgesTypes
  <2>7. Taken = Len(local.got) /\ Taken \in Nat /\ Taken' = Taken + 1
    BY <1>1, <1>4, <1>9, <2>1 DEF Taken, EdgesTypes
  <2>8. \A i \in 1 .. Taken' : TakenEdge(i)' = Edge(i)
    <3> SUFFICES ASSUME NEW i \in 1 .. Taken'
                 PROVE  TakenEdge(i)' = Edge(i)
      OBVIOUS
    <3>1. i <= Taken \/ (~(i <= Taken) /\ i - Taken = 1)
      BY <2>7
    <3> QED
      BY <1>4, <2>6, <2>7, <3>1 DEF TakenEdge, Edge
  <2>9. QueueSound
    BY <1>11 DEF EdgesJob, Settled
  <2>10. QueueSound'
    <3>1. Taken' = Taken + (IF TRUE THEN 1 ELSE 0) /\ local'.asked = local.asked
      BY <1>4, <2>7
    <3> QED
      BY <1>1, <2>3, <2>4, <2>6, <2>7, <2>8, <2>9, <3>1, QueueGoesOn
  <2>11. stamps' \in Seq(Marks) /\ edges' \in Nat /\ lost' \in BOOLEAN
    <3>1. PICK left \in Seq(Marks) : left = Tail(stamps)
      <4>1. stamps \in Seq(Marks) /\ stamps # <<>>
        BY <2>6
      <4>2. Tail(stamps) \in Seq(Marks)
        BY <4>1
      <4> QED
        BY <4>2
    <3>2. /\ lost' \in BOOLEAN
          /\ \/ stamps' = left /\ edges' = edges /\ lost' = lost
             \/ stamps' = left /\ edges' = edges + 1 /\ lost'
             \/ /\ edges' = edges + 1 /\ lost' = lost
                /\ \E edge \in Marks :
                     /\ stamps' = Append(left, edge)
                     /\ edge.n = edges + 1 /\ edge.half \in mask /\ edge.engine = timer
      BY <1>1, <2>3, <2>6, <3>1, StampsGoOn DEF EdgesTypes
    <3>3. \A edge \in Marks : Append(left, edge) \in Seq(Marks)
      BY <3>1
    <3>4. edges \in Nat
      BY <1>1 DEF EdgesTypes
    <3> QED
      BY <3>1, <3>2, <3>3, <3>4
  <2>12. EdgesTypes'
    BY <1>1, <1>4, <2>4, <2>11 DEF EdgesTypes
  <2>13. GotWhole'
    BY <1>4 DEF EdgesJob, GotWhole, Whole
  <2>14. StampAt'
    BY <1>1, <1>4, <1>9, <1>11, <2>1 DEF StampAt
  <2> QED
    BY <1>5, <1>8, <2>10, <2>12, <2>13, <2>14 DEF EdgesJob
<1> QED
  BY <1>10, <1>11

-----------------------------------------------------------------------------
\* The steps of the program an edges' job may take.
LEMMA EdgesProgram ==
  ASSUME EdgesJob, job = "edges", Program
  PROVE  \/ WatchMask \/ WatchControl \/ TimeHi \/ TimeLo \/ PinsLo \/ PinsHi
         \/ Stamp \/ Stamped
BY DEF EdgesJob, EdgesTypes, Program, Load, Select, Push, Stray, Level, AnyLevel, Pop,
       Popped, NowHi, NowLo, NowAgain, NowSame

\* Between frames.
LEMMA EdgesBetween ==
  ASSUME EdgesJob, Between
  PROVE  /\ strobe = NoStrobe /\ frame.writes = <<>> /\ frame.reads = 0
         /\ Undisturbed /\ ~Writing /\ IsLatched /\ TheWord = reply[1][1]
         /\ at = "stamp" => HasPopped
         /\ at # "stamp" => ~HasPopped
         /\ NoStrobe.ask = "none" /\ NoStrobe # ReadStrobe
BY DEF Between, Undisturbed, Writing, IsLatched, TheWord, HasPopped, NoStrobe, ReadStrobe

\* A frame that reads a word begins.
LEMMA EdgesReads ==
  ASSUME EdgesJob, Between, NEW reg, Read(reg, 1)
  PROVE  /\ OneWordFrames' /\ ~IsLatched' /\ ~Writing' /\ ~HasPopped'
         /\ frame'.reg = reg /\ frame'.reads = 1 /\ strobe' = NoStrobe
<1>1. /\ strobe' = NoStrobe /\ state' = "Command" /\ reply' = <<>>
      /\ frame' = [reg |-> reg, writes |-> <<>>, reads |-> 1]
  BY EdgesBetween DEF Read
<1>2. /\ frame'.reg = reg /\ frame'.writes = <<>> /\ frame'.reads = 1
      /\ frame' = [reg |-> frame'.reg, writes |-> frame'.writes, reads |-> frame'.reads]
  BY <1>1
<1>3. OneWordFrames'
  BY <1>1, <1>2 DEF OneWordFrames
<1> QED
  BY <1>1, <1>2, <1>3, EdgesBetween DEF IsLatched, Writing, HasPopped

\* The program goes on with the reply it has.
LEMMA EdgesStays ==
  ASSUME EdgesJob, Between, Stays, local'.asked = local.asked
  PROVE  /\ OneWordFrames' /\ ~Writing' /\ frame' = frame /\ frame'.reads = 0
         /\ strobe' = NoStrobe /\ reply' = reply /\ IsLatched' /\ TheWord' = reply[1][1]
<1>1. OneWordFrames
  BY DEF EdgesJob
<1>2. UNCHANGED <<strobe, word, high, frame, state, reply>>
  BY DEF Stays
<1>3. OneWordFrames'
  BY <1>1, <1>2, EdgesBetween DEF OneWordFrames
<1> QED
  BY <1>2, <1>3, EdgesBetween DEF Writing, IsLatched, TheWord

\* What a step of the program leaves of the queue, when the host has as many of its
\* edges after the step as before.
LEMMA EdgesGoOn ==
  ASSUME EdgesJob, Between, Next, at # "control",
         local'.asked = local.asked, Taken' = Taken,
         \A i \in 1 .. Taken : TakenEdge(i)' = TakenEdge(i)
  PROVE  /\ QueueSound'
         /\ stamps' \in Seq(Marks) /\ edges' \in Nat /\ lost' \in BOOLEAN
         /\ mask' = mask /\ timer' = timer
         /\ lost => lost'
         /\ \A edge : Oldest(edge) => Oldest(edge)'
<1>1. QueueSound /\ EdgesTypes
  BY EdgesBetween DEF EdgesJob, Settled
<1>2. Taken \in Nat
  BY <1>1 DEF EdgesTypes, Taken
<1> QED
  BY <1>1, <1>2, EdgesBetween, StampsStay, SoundStays

\* A watch is set up, in two frames.
LEMMA EdgesWatches ==
  ASSUME EdgesJob, Between, Next, WatchMask \/ WatchControl
  PROVE  EdgesJob'
<1>1. OneWordFrames /\ FrameAt /\ EdgesTypes /\ StampAt
  BY DEF EdgesJob
<1>2. /\ stamps' \in Seq(Marks) /\ edges' \in Nat /\ lost' \in BOOLEAN
      /\ mask' = mask /\ timer' = timer
  BY <1>1, EdgesBetween, StampsStay
<1>3. ASSUME NEW reg, NEW watch, Write(reg, <<watch>>), local'.asked = watch
      PROVE  /\ OneWordFrames' /\ Writing' /\ strobe' # ReadStrobe
             /\ frame'.reads = 0 /\ frame'.reg = reg
  <2>1. /\ strobe' = NoStrobe /\ state' = "Command" /\ reply' = <<>>
        /\ frame' = [reg |-> reg, writes |-> <<watch>>, reads |-> 0]
    BY <1>3, EdgesBetween DEF Write
  <2>2. /\ frame'.reg = reg /\ frame'.writes = <<watch>> /\ frame'.reads = 0
        /\ frame' = [reg |-> frame'.reg, writes |-> frame'.writes, reads |-> frame'.reads]
        /\ <<watch>> # <<>>
    BY <2>1
  <2>3. OneWordFrames'
    BY <1>3, <2>1, <2>2 DEF OneWordFrames
  <2>4. Writing'
    BY <2>2 DEF Writing
  <2> QED
    BY <2>1, <2>2, <2>3, <2>4, EdgesBetween
<1>4. CASE WatchMask
  <2>1. PICK watch \in Watches :
          /\ at = "watch" /\ at' = "control" /\ Write("stamp_mask", <<watch>>)
          /\ local' = [local EXCEPT !.watches = @ + 1, !.asked = watch]
    BY <1>4 DEF WatchMask, Goes
  <2>2. /\ local'.asked = watch /\ local'.stamp = local.stamp /\ local'.got = local.got
        /\ local'.lost = local.lost
        /\ DOMAIN local' = {"watches", "asked", "stamp", "got", "lost"}
    BY <1>1, <2>1 DEF EdgesTypes
  <2>3. watch \in [mask : Masks, engine : {0, 1}]
    BY <2>1, HostPortAssumption DEF Engines
  <2>4. EdgesTypes'
    BY <1>1, <1>2, <2>1, <2>2, <2>3 DEF EdgesTypes
  <2>5. GotWhole'
    BY <2>2 DEF EdgesJob, GotWhole, Whole
  <2>6. /\ OneWordFrames' /\ Writing' /\ strobe' # ReadStrobe
        /\ frame'.reads = 0 /\ frame'.reg = "stamp_mask"
    BY <1>3, <2>1, <2>2
  <2>7. FrameAt' /\ StampAt' /\ ~Settled'
    BY <2>1, <2>6 DEF FrameAt, StampAt, Settled
  <2> QED
    BY <2>4, <2>5, <2>6, <2>7 DEF EdgesJob
<1>5. CASE WatchControl
  <2>1. /\ at = "control" /\ at' = "time_hi"
        /\ Write("stamp_control", <<local.asked>>)
        /\ local' = [local EXCEPT !.got = <<>>]
    BY <1>5 DEF WatchControl, Goes
  <2>2. /\ local'.asked = local.asked /\ local'.stamp = local.stamp /\ local'.got = <<>>
        /\ local'.lost = local.lost
        /\ DOMAIN local' = {"watches", "asked", "stamp", "got", "lost"}
    BY <1>1, <2>1 DEF EdgesTypes
  <2>3. <<>> \in Seq(Seq(Marks))
    OBVIOUS
  <2>4. EdgesTypes'
    BY <1>1, <1>2, <2>1, <2>2, <2>3 DEF EdgesTypes
  <2>5. GotWhole'
    BY <2>2 DEF GotWhole
  <2>6. /\ OneWordFrames' /\ Writing' /\ strobe' # ReadStrobe
        /\ frame'.reads = 0 /\ frame'.reg = "stamp_control"
    BY <1>3, <2>1, <2>2
  <2>7. mask \cap {"lo"} = local.asked.mask \cap {"lo"}
    BY <1>1, <2>1, EdgesBetween DEF StampAt
  <2>8. FrameAt' /\ StampAt' /\ ~Settled'
    BY <1>2, <2>1, <2>2, <2>6, <2>7 DEF FrameAt, StampAt, Settled
  <2> QED
    BY <2>4, <2>5, <2>6, <2>8 DEF EdgesJob
<1> QED
  BY <1>4, <1>5

\* The reads of a stamp's time.
LEMMA EdgesTimes ==
  ASSUME EdgesJob, Between, Next, TimeHi \/ TimeLo
  PROVE  EdgesJob'
<1>1. OneWordFrames /\ FrameAt /\ EdgesTypes /\ StampAt
  BY DEF EdgesJob
<1>2. CASE TimeHi
  <2>1. at = "time_hi" /\ at' = "time_lo" /\ local' = local /\ Read("time_hi", 1)
    BY <1>2 DEF TimeHi, Goes
  <2>2. /\ OneWordFrames' /\ ~IsLatched' /\ ~Writing' /\ ~HasPopped'
        /\ frame'.reg = "time_hi" /\ frame'.reads = 1
    BY <2>1, EdgesReads
  <2>3. Taken' = Taken /\ \A i : TakenEdge(i)' = TakenEdge(i)
    BY <2>1, <2>2, EdgesBetween DEF Taken, TakenEdge
  <2>4. /\ QueueSound'
        /\ stamps' \in Seq(Marks) /\ edges' \in Nat /\ lost' \in BOOLEAN
        /\ mask' = mask /\ timer' = timer
    BY <2>1, <2>3, EdgesGoOn
  <2>5. EdgesTypes'
    BY <1>1, <2>1, <2>4 DEF EdgesTypes
  <2>6. GotWhole'
    BY <2>1 DEF EdgesJob, GotWhole, Whole
  <2>7. FrameAt' /\ StampAt'
    BY <2>1, <2>2 DEF FrameAt, StampAt
  <2> QED
    BY <2>2, <2>4, <2>5, <2>6, <2>7 DEF EdgesJob
<1>3. CASE TimeLo
  <2> DEFINE hi == reply[1][1]
  <2>1. at = "time_lo" /\ TheWord = hi /\ IsLatched /\ ~HasPopped
    BY <1>3, EdgesBetween DEF TimeLo
  <2>2. /\ hi.level > 0 => Oldest(hi.edge)
        /\ hi.lost \in BOOLEAN
        /\ hi.lost => lost
        /\ ~hi.lost => \A i \in 1 .. Len(local.got) : local.got[i][1].n = i
    BY <1>1, <2>1 DEF StampAt
  <2> HIDE DEF hi
  <2>3. CASE hi.level > 0
    <3>1. /\ Read("time_lo", 1) /\ at' = "pins_lo"
          /\ local' = [local EXCEPT !.stamp = <<hi.edge>>]
      BY <1>3, <2>3 DEF TimeLo, Goes, hi
    <3>2. /\ local'.asked = local.asked /\ local'.stamp = <<hi.edge>>
          /\ local'.got = local.got /\ local'.lost = local.lost
          /\ DOMAIN local' = {"watches", "asked", "stamp", "got", "lost"}
      BY <1>1, <3>1 DEF EdgesTypes
    <3>3. /\ OneWordFrames' /\ ~IsLatched' /\ ~Writing' /\ ~HasPopped'
          /\ frame'.reg = "time_lo" /\ frame'.reads = 1
      BY <3>1, EdgesReads
    <3>4. Taken' = Taken /\ \A i \in 1 .. Taken : TakenEdge(i)' = TakenEdge(i)
      <4>1. Taken' = Len(local.got) /\ Taken = Len(local.got) /\ Len(local.got) \in Nat
        BY <1>1, <2>1, <3>2, <3>3 DEF Taken, EdgesTypes
      <4> QED
        BY <3>2, <4>1 DEF TakenEdge
    <3>5. /\ QueueSound'
          /\ stamps' \in Seq(Marks) /\ edges' \in Nat /\ lost' \in BOOLEAN
          /\ mask' = mask /\ timer' = timer
          /\ \A edge : Oldest(edge) => Oldest(edge)'
      BY <2>1, <3>2, <3>4, EdgesGoOn
    <3>6. PICK e : e = hi.edge
      OBVIOUS
    <3>7. Oldest(e) /\ Oldest(e)'
      BY <2>2, <2>3, <3>5, <3>6
    <3>8. e \in Marks
      <4>1. stamps # <<>> /\ stamps \in Seq(Marks) /\ e = Head(stamps)
        BY <1>1, <3>7 DEF Oldest, EdgesTypes
      <4> QED
        BY <4>1
    <3>9. local'.stamp = <<e>> /\ <<e>> \in Seq(Marks) /\ Len(<<e>>) = 1 /\ <<e>>[1] = e
      BY <3>2, <3>6, <3>8
    <3>10. EdgesTypes'
      BY <1>1, <3>1, <3>2, <3>5, <3>9 DEF EdgesTypes
    <3>11. GotWhole'
      BY <3>2 DEF EdgesJob, GotWhole, Whole
    <3>12. FrameAt'
      BY <3>1, <3>3 DEF FrameAt
    <3>13. Oldest(local.stamp[1])'
      BY <3>7, <3>9 DEF Oldest
    <3>14. Len(local'.stamp) = 1
           /\ \A i \in 1 .. Len(local'.stamp) : local'.stamp[i] = local'.stamp[1]
      BY <3>9
    <3>15. StampAt'
      BY <3>1, <3>3, <3>13, <3>14 DEF StampAt
    <3> QED
      BY <3>3, <3>5, <3>10, <3>11, <3>12, <3>15 DEF EdgesJob
  <2>4. CASE ~(hi.level > 0)
    <3>1. /\ Stays /\ at' = "stamped" /\ local' = [local EXCEPT !.lost = hi.lost]
      BY <1>3, <2>4 DEF TimeLo, Goes, hi
    <3>2. /\ local'.asked = local.asked /\ local'.stamp = local.stamp
          /\ local'.got = local.got /\ local'.lost = hi.lost
          /\ DOMAIN local' = {"watches", "asked", "stamp", "got", "lost"}
      BY <1>1, <3>1 DEF EdgesTypes
    <3>3. /\ OneWordFrames' /\ ~Writing' /\ frame'.reads = 0 /\ strobe' = NoStrobe
      BY <3>1, <3>2, EdgesStays
    <3>4. Taken' = Taken /\ \A i \in 1 .. Taken : TakenEdge(i)' = TakenEdge(i)
      <4>1. ~HasPopped'
        BY <3>1 DEF HasPopped
      <4>2. Taken' = Len(local.got) /\ Taken = Len(local.got) /\ Len(local.got) \in Nat
        BY <1>1, <2>1, <3>2, <4>1 DEF Taken, EdgesTypes
      <4> QED
        BY <3>2, <4>2 DEF TakenEdge
    <3>5. /\ QueueSound'
          /\ stamps' \in Seq(Marks) /\ edges' \in Nat /\ lost' \in BOOLEAN
          /\ mask' = mask /\ timer' = timer /\ (lost => lost')
      BY <2>1, <3>2, <3>4, EdgesGoOn
    <3>6. EdgesTypes'
      BY <1>1, <2>2, <3>1, <3>2, <3>5 DEF EdgesTypes
    <3>7. GotWhole'
      BY <3>2 DEF EdgesJob, GotWhole, Whole
    <3>8. FrameAt' /\ StampAt'
      BY <2>2, <3>1, <3>2, <3>3, <3>5 DEF FrameAt, StampAt
    <3> QED
      BY <3>3, <3>5, <3>6, <3>7, <3>8 DEF EdgesJob
  <2> QED
    BY <2>3, <2>4
<1> QED
  BY <1>2, <1>3

\* Another half of the stamp being read.
LEMMA EdgesPins ==
  ASSUME EdgesJob, Between, Next, PinsLo \/ PinsHi
  PROVE  EdgesJob'
<1>1. OneWordFrames /\ FrameAt /\ EdgesTypes /\ StampAt
  BY DEF EdgesJob
<1>2. PICK reg : /\ reg \in {"pins_lo", "pins_hi"} /\ Read(reg, 1)
                 /\ local' = [local EXCEPT !.stamp = Append(@, reply[1][1])]
                 /\ \/ at = "pins_lo" /\ at' = "pins_hi" /\ reg = "pins_lo"
                    \/ at = "pins_hi" /\ at' = "stamp" /\ reg = "pins_hi"
  <2>1. CASE PinsLo
    BY <2>1 DEF PinsLo, Goes
  <2>2. CASE PinsHi
    BY <2>2 DEF PinsHi, Goes
  <2> QED
    BY <2>1, <2>2
<1>3. /\ OneWordFrames' /\ ~IsLatched' /\ ~Writing' /\ ~HasPopped'
      /\ frame'.reg = reg /\ frame'.reads = 1
  BY <1>2, EdgesReads
<1>4. TheWord = reply[1][1] /\ IsLatched /\ ~HasPopped
  BY <1>2, EdgesBetween
<1>5. PICK e : e = local.stamp[1]
  OBVIOUS
<1>6. /\ Oldest(e) /\ reply[1][1] = e
      /\ \A i \in 1 .. Len(local.stamp) : local.stamp[i] = e
      /\ Len(local.stamp) = IF at = "pins_lo" THEN 1 ELSE 2
  BY <1>1, <1>2, <1>4, <1>5 DEF StampAt
<1>7. /\ local'.asked = local.asked /\ local'.stamp = Append(local.stamp, e)
      /\ local'.got = local.got /\ local'.lost = local.lost
      /\ DOMAIN local' = {"watches", "asked", "stamp", "got", "lost"}
  BY <1>1, <1>2, <1>6 DEF EdgesTypes
<1>8. local.stamp \in Seq(Marks) /\ e \in Marks
  <2>1. local.stamp \in Seq(Marks) /\ 1 \in 1 .. Len(local.stamp)
    BY <1>1, <1>6 DEF EdgesTypes
  <2> QED
    BY <1>5, <2>1
<1>9. /\ local'.stamp \in Seq(Marks) /\ Len(local'.stamp) = Len(local.stamp) + 1
      /\ \A i \in 1 .. Len(local'.stamp) : local'.stamp[i] = e
      /\ local'.stamp[1] = e
  <2>1. /\ Append(local.stamp, e) \in Seq(Marks) /\ Len(local.stamp) \in Nat
        /\ Len(Append(local.stamp, e)) = Len(local.stamp) + 1
        /\ \A i \in 1 .. Len(local.stamp) : Append(local.stamp, e)[i] = local.stamp[i]
        /\ Append(local.stamp, e)[Len(local.stamp) + 1] = e
    BY <1>8
  <2>2. \A i \in 1 .. Len(local.stamp) + 1 :
          i \in 1 .. Len(local.stamp) \/ i = Len(local.stamp) + 1
    BY <2>1
  <2>3. \A i \in 1 .. Len(local.stamp) + 1 : Append(local.stamp, e)[i] = e
    BY <1>6, <2>1, <2>2
  <2>4. 1 \in 1 .. Len(local.stamp) + 1
    BY <2>1
  <2> QED
    BY <1>7, <2>1, <2>3, <2>4
<1>10. Taken' = Taken /\ \A i \in 1 .. Taken : TakenEdge(i)' = TakenEdge(i)
  <2>1. Taken' = Len(local.got) /\ Taken = Len(local.got) /\ Len(local.got) \in Nat
    BY <1>1, <1>3, <1>4, <1>7 DEF Taken, EdgesTypes
  <2> QED
    BY <1>7, <2>1 DEF TakenEdge
<1>11. /\ QueueSound'
       /\ stamps' \in Seq(Marks) /\ edges' \in Nat /\ lost' \in BOOLEAN
       /\ mask' = mask /\ timer' = timer
       /\ \A edge : Oldest(edge) => Oldest(edge)'
  BY <1>2, <1>7, <1>10, EdgesGoOn
<1>12. EdgesTypes'
  BY <1>1, <1>2, <1>7, <1>9, <1>11 DEF EdgesTypes
<1>13. GotWhole'
  BY <1>7 DEF EdgesJob, GotWhole, Whole
<1>14. FrameAt'
  BY <1>2, <1>3 DEF FrameAt
<1>15. Oldest(local.stamp[1])'
  <2>1. Oldest(e)'
    BY <1>6, <1>11
  <2> QED
    BY <1>9, <2>1 DEF Oldest
<1>16. /\ \A i \in 1 .. Len(local'.stamp) : local'.stamp[i] = local'.stamp[1]
       /\ Len(local'.stamp) = IF at' = "pins_hi" THEN 2 ELSE 3
  BY <1>2, <1>6, <1>9
<1>17. StampAt'
  BY <1>2, <1>3, <1>15, <1>16 DEF StampAt
<1> QED
  BY <1>3, <1>11, <1>12, <1>13, <1>14, <1>17 DEF EdgesJob

\* A whole stamp is the host's, and the next is asked for.
LEMMA EdgesStamp ==
  ASSUME EdgesJob, Between, Next, Stamp
  PROVE  EdgesJob'
<1>1. OneWordFrames /\ FrameAt /\ EdgesTypes /\ StampAt
  BY DEF EdgesJob
<1>2. /\ at = "stamp" /\ at' = "time_lo" /\ Read("time_hi", 1)
      /\ local' = [local EXCEPT !.got = Append(@, Append(local.stamp, reply[1][1])),
                               !.stamp = <<>>]
  BY DEF Stamp, Goes
<1>3. /\ OneWordFrames' /\ ~IsLatched' /\ ~Writing' /\ ~HasPopped'
      /\ frame'.reg = "time_hi" /\ frame'.reads = 1
  BY <1>2, EdgesReads
<1>4. TheWord = reply[1][1] /\ IsLatched /\ HasPopped
  BY <1>2, EdgesBetween
<1>5. PICK e : e = local.stamp[1]
  OBVIOUS
<1>6. /\ reply[1][1] = e /\ Len(local.stamp) = 3
      /\ \A i \in 1 .. Len(local.stamp) : local.stamp[i] = e
  BY <1>1, <1>2, <1>4, <1>5 DEF StampAt
<1>7. PICK whole : whole = Append(local.stamp, e)
  OBVIOUS
<1>8. local.stamp \in Seq(Marks) /\ e \in Marks
  <2>1. local.stamp \in Seq(Marks) /\ 1 \in 1 .. Len(local.stamp)
    BY <1>1, <1>6 DEF EdgesTypes
  <2> QED
    BY <1>5, <2>1
<1>9. whole \in Seq(Marks) /\ Whole(whole) /\ whole[1] = e
  <2>1. /\ whole \in Seq(Marks) /\ whole[4] = e
        /\ \A i \in 1 .. 3 : whole[i] = local.stamp[i]
    BY <1>6, <1>7, <1>8
  <2>2. \A i \in 1 .. 3 : local.stamp[i] = e
    BY <1>6
  <2>3. \A i \in 1 .. 4 : i \in 1 .. 3 \/ i = 4
    OBVIOUS
  <2>4. \A i \in 1 .. 4 : whole[i] = e
    BY <2>1, <2>2, <2>3
  <2>5. whole[1] = e
    BY <2>4
  <2> QED
    BY <2>1, <2>4, <2>5 DEF Whole
<1>10. /\ local'.asked = local.asked /\ local'.stamp = <<>>
       /\ local'.got = Append(local.got, whole) /\ local'.lost = local.lost
       /\ DOMAIN local' = {"watches", "asked", "stamp", "got", "lost"}
  BY <1>1, <1>2, <1>6, <1>7 DEF EdgesTypes
<1>11. /\ local.got \in Seq(Seq(Marks)) /\ Len(local.got) \in Nat
       /\ local'.got \in Seq(Seq(Marks)) /\ Len(local'.got) = Len(local.got) + 1
       /\ \A i \in 1 .. Len(local.got) : local'.got[i] = local.got[i]
       /\ local'.got[Len(local.got) + 1] = whole
  <2>1. local.got \in Seq(Seq(Marks))
    BY <1>1 DEF EdgesTypes
  <2> QED
    BY <1>9, <1>10, <2>1
<1>12. Taken' = Taken /\ Taken = Len(local.got) + 1
  BY <1>3, <1>4, <1>11 DEF Taken
<1>13. \A i \in 1 .. Taken : TakenEdge(i)' = TakenEdge(i)
  <2> SUFFICES ASSUME NEW i \in 1 .. Taken PROVE TakenEdge(i)' = TakenEdge(i)
    OBVIOUS
  <2>1. TakenEdge(i)' = local'.got[i][1]
    BY <1>11, <1>12 DEF TakenEdge
  <2>2. i \in 1 .. Len(local.got) \/ (i = Len(local.got) + 1 /\ ~(i <= Len(local.got)))
    BY <1>11, <1>12
  <2>3. CASE i \in 1 .. Len(local.got)
    <3>1. i <= Len(local.got) /\ local'.got[i] = local.got[i]
      BY <1>11, <2>3
    <3> QED
      BY <2>1, <3>1 DEF TakenEdge
  <2>4. CASE i = Len(local.got) + 1 /\ ~(i <= Len(local.got))
    <3>1. local'.got[i] = whole
      BY <1>11, <2>4
    <3> QED
      BY <1>5, <1>9, <2>1, <2>4, <3>1 DEF TakenEdge
  <2> QED
    BY <2>2, <2>3, <2>4
<1>14. /\ QueueSound'
       /\ stamps' \in Seq(Marks) /\ edges' \in Nat /\ lost' \in BOOLEAN
       /\ mask' = mask /\ timer' = timer
  BY <1>2, <1>10, <1>12, <1>13, EdgesGoOn
<1>15. EdgesTypes'
  <2>1. <<>> \in Seq(Marks)
    OBVIOUS
  <2> QED
    BY <1>1, <1>2, <1>10, <1>11, <1>14, <2>1 DEF EdgesTypes
<1>16. GotWhole'
  <2>1. \A i \in 1 .. Len(local.got) : Whole(local.got[i])
    BY DEF EdgesJob, GotWhole
  <2>2. \A i \in 1 .. Len(local'.got) :
          i \in 1 .. Len(local.got) \/ i = Len(local.got) + 1
    BY <1>11
  <2> SUFFICES ASSUME NEW i \in 1 .. Len(local'.got) PROVE Whole(local'.got[i])
    BY DEF GotWhole, Whole
  <2>3. \/ local'.got[i] = local.got[i] /\ Whole(local.got[i])
        \/ local'.got[i] = whole
    BY <1>11, <2>1, <2>2
  <2> QED
    BY <1>9, <2>3
<1>17. FrameAt' /\ StampAt'
  BY <1>2, <1>3 DEF FrameAt, StampAt
<1> QED
  BY <1>3, <1>14, <1>15, <1>16, <1>17 DEF EdgesJob

\* The host calls edge_stamps again, or is about to watch other pins.
LEMMA EdgesStamped ==
  ASSUME EdgesJob, Between, Next, Stamped
  PROVE  EdgesJob'
<1>1. OneWordFrames /\ FrameAt /\ EdgesTypes /\ StampAt
  BY DEF EdgesJob
<1>2. at = "stamped" /\ at' \in {"time_hi", "watch"} /\ local' = local /\ Stays
  BY DEF Stamped, Goes
<1>3. /\ OneWordFrames' /\ ~Writing' /\ frame'.reads = 0 /\ strobe' = NoStrobe
      /\ NoStrobe # ReadStrobe
  BY <1>2, EdgesStays, EdgesBetween
<1>4. Taken' = Taken /\ \A i : TakenEdge(i)' = TakenEdge(i)
  BY <1>2, EdgesBetween DEF Taken, TakenEdge, HasPopped
<1>5. /\ QueueSound'
      /\ stamps' \in Seq(Marks) /\ edges' \in Nat /\ lost' \in BOOLEAN
      /\ mask' = mask /\ timer' = timer
  BY <1>2, <1>4, EdgesGoOn
<1>6. EdgesTypes'
  BY <1>1, <1>2, <1>5 DEF EdgesTypes
<1>7. GotWhole'
  BY <1>2 DEF EdgesJob, GotWhole, Whole
<1>8. FrameAt' /\ StampAt'
  BY <1>2, <1>3 DEF FrameAt, StampAt
<1> QED
  BY <1>3, <1>5, <1>6, <1>7, <1>8 DEF EdgesJob

-----------------------------------------------------------------------------
\* The invariant holds before a watch,
LEMMA EdgesInitInv == Init => EdgesInv
<1> SUFFICES ASSUME Init, job = "edges" PROVE EdgesJob
  BY DEF EdgesInv
<1>1. /\ stamps = <<>> /\ lost = FALSE /\ mask = {} /\ timer = 0 /\ edges = 0
      /\ state = "Idle" /\ strobe = NoStrobe /\ at = "watch"
      /\ frame = [reg |-> "status", writes |-> <<>>, reads |-> 0]
      /\ local = [watches |-> 0, asked |-> [mask |-> {}, engine |-> 0],
                  stamp |-> <<>>, got |-> <<>>, lost |-> FALSE]
  BY DEF Init, StampsInit
<1>2. /\ <<>> \in Seq(Marks) /\ <<>> \in Seq(Seq(Marks)) /\ Len(<<>>) = 0
      /\ local.asked = [mask |-> {}, engine |-> 0] /\ local.stamp = <<>>
      /\ local.got = <<>> /\ local.lost = FALSE
      /\ local.asked.mask = {} /\ local.asked.engine = 0
      /\ NoStrobe.ask = "none"
  BY <1>1 DEF NoStrobe
<1>3. EdgesTypes
  BY <1>1, <1>2 DEF EdgesTypes, Masks, Halves
<1>4. OneWordFrames /\ FrameAt
  BY <1>1, <1>2 DEF OneWordFrames, FrameAt, Writing
<1>5. GotWhole
  BY <1>2 DEF GotWhole
<1>6. StampAt
  BY <1>1, <1>2 DEF StampAt
<1>7. QueueSound
  <2>1. Queued = 0
    BY <1>1, <1>2 DEF Queued, Taken, HasPopped
  <2>2. \A i : i \notin 1 .. Queued /\ i \notin 2 .. Queued
    BY <2>1
  <2> QED
    BY <1>1, <1>2, <2>1, <2>2 DEF QueueSound
<1> QED
  BY <1>3, <1>4, <1>5, <1>6, <1>7 DEF EdgesJob

\* and through it.
LEMMA EdgesStepInv == EdgesInv /\ [Next]_vars => EdgesInv'
<1> SUFFICES ASSUME EdgesInv, [Next]_vars, job' = "edges" PROVE EdgesJob'
  BY DEF EdgesInv
<1>1. CASE Next
  <2>1. job = "edges" /\ Host /\ EdgesJob
    BY <1>1, ChipStep DEF EdgesInv
  <2>2. strobe \in {NoStrobe, ReadStrobe, [ask |-> "write", value |-> local.asked]}
    BY <2>1 DEF EdgesJob, OneWordFrames
  <2>3. CASE Quiet
    <3>1. CASE strobe = NoStrobe
      BY <1>1, <2>1, <2>3, <3>1, EdgesBytes
    <3>2. CASE strobe = ReadStrobe
      BY <1>1, <2>1, <2>3, <3>2, EdgesRead
    <3>3. CASE strobe = [ask |-> "write", value |-> local.asked]
      <4>1. strobe.ask = "write"
        BY <3>3
      <4> QED
        BY <1>1, <2>1, <2>3, <4>1, EdgesWritten
    <3> QED
      BY <2>2, <3>1, <3>2, <3>3
  <2>4. CASE Byte
    <3>1. strobe = NoStrobe
      BY <2>4 DEF Byte, CommandByte, WriteWord, HighByte, LowByte, ReadDone
    <3> QED
      BY <1>1, <2>1, <2>4, <3>1, EdgesBytes, EdgesCommandByte DEF Byte
  <2>5. CASE Program
    <3>1. Between
      BY <2>5 DEF Program
    <3> QED
      BY <1>1, <2>1, <2>5, <3>1, EdgesProgram, EdgesWatches, EdgesTimes, EdgesPins,
         EdgesStamp, EdgesStamped
  <2> QED
    BY <2>1, <2>3, <2>4, <2>5 DEF Host
<1>2. CASE UNCHANGED vars
  <2>1. EdgesJob
    BY <1>2 DEF EdgesInv, vars, hostVars
  <2> QED
    BY <1>2, <2>1
    DEF EdgesJob, EdgesTypes, OneWordFrames, FrameAt, GotWhole, Settled, QueueSound,
        StampAt, Writing, IsLatched, TheWord, HasPopped, Taken, TakenEdge, Edge, Queued,
        Oldest, Asked, Whole, vars, portVars, hostVars, stampVars
<1> QED
  BY <1>1, <1>2

\* What the queue of stamps and the host have of a watch, at each place of the calls.
THEOREM EdgesInvariant == Spec => []EdgesInv
BY EdgesInitInv, EdgesStepInv, PTL DEF Spec

\* The stamps edge_stamps returned since watch_edges are whole, of the pins and the
\* engine asked for, in order and, unless it says one was lost, all there were; if it
\* says so, one was.  For every size of the stamps' queue and number of edges
\* (protocol_emulator.py: watch_edges, edge_stamps; edge_stamps.ml).
THEOREM StampsAreOfTheWatch == Spec => []StampsAreTrue
<1>1. EdgesInv => StampsAreTrue
  <2> SUFFICES ASSUME EdgesInv, job = "edges", at = "stamped"
               PROVE  LET got == local.got IN
                        /\ \A i \in DOMAIN got : Whole(got[i]) /\ Asked(got[i][1])
                        /\ \A i \in 2 .. Len(got) : got[i - 1][1].n < got[i][1].n
                        /\ ~local.lost => \A i \in DOMAIN got : got[i][1].n = i
                        /\ local.lost => Len(got) + Len(stamps) < edges
    BY DEF StampsAreTrue
  <2>1. EdgesTypes /\ GotWhole /\ QueueSound /\ StampAt
    BY DEF EdgesInv, EdgesJob, Settled
  <2>2. /\ DOMAIN local.got = 1 .. Len(local.got) /\ Len(local.got) \in Nat
        /\ Len(stamps) \in Nat
    BY <2>1 DEF EdgesTypes
  <2>3. Taken = Len(local.got) /\ Queued = Len(local.got) + Len(stamps)
    BY <2>2 DEF Taken, HasPopped, Queued
  <2>4. \A i \in 1 .. Len(local.got) : i \in 1 .. Queued /\ Edge(i) = local.got[i][1]
    BY <2>2, <2>3 DEF Edge, TakenEdge
  <2>5. \A i \in 1 .. Len(local.got) : Whole(local.got[i]) /\ Asked(local.got[i][1])
    BY <2>1, <2>4 DEF GotWhole, QueueSound
  <2>6. ASSUME NEW i \in 2 .. Len(local.got)
        PROVE  local.got[i - 1][1].n < local.got[i][1].n
    <3>1. i - 1 \in 1 .. Len(local.got) /\ i \in 1 .. Len(local.got) /\ i \in 2 .. Queued
      BY <2>2, <2>3
    <3> QED
      BY <2>1, <2>4, <3>1 DEF QueueSound
  <2>7. /\ ~local.lost => \A i \in 1 .. Len(local.got) : local.got[i][1].n = i
        /\ local.lost => Len(local.got) + Len(stamps) < edges
    BY <2>1, <2>3 DEF StampAt, QueueSound
  <2> QED
    BY <2>2, <2>5, <2>6, <2>7
<1> QED
  BY <1>1, EdgesInvariant, PTL

-----------------------------------------------------------------------------
(***************************************************************************)
(* An exchange is a channel, and so is an engine that feeds another.       *)
(***************************************************************************)

\* A queue whose words are the numbers that follow k.
Run(queue, k) == \A i \in 1 .. Len(queue) : queue[i] = k + i

QueueTypes ==
  /\ tx \in [Engines -> Seq(Nat)] /\ rx \in [Engines -> Seq(Nat)]
  /\ hold \in [Engines -> Nat] /\ made \in Nat

\* How many words an engine carries from its tx to its rx.
Carried(held) == IF held = Nothing THEN 0 ELSE 1

\* An engine's words, after the first p and up to s: those to pop, the one
\* carried, and those to carry.
Line(popped, held, pulled, p, s) ==
  /\ Run(popped, p)
  /\ held # Nothing => held = p + Len(popped) + 1
  /\ Run(pulled, p + Len(popped) + Carried(held))
  /\ s = p + Len(popped) + Carried(held) + Len(pulled)

\* What a cycle does to a queue: a word leaves it or not, and one lands or not.
Moves(queue, after, out, in, landed) ==
  \E left :
    /\ \/ left = queue /\ out = 0
       \/ left = Tail(queue) /\ queue # <<>> /\ out = 1
    /\ \/ after = left /\ in = 0
       \/ after = Append(left, landed) /\ in = 1

\* What a cycle does to a line that the word after s may join: one is popped or
\* not, and pushed, and pulled, and put in.
LineMoves(r, h, x, r2, h2, x2, s, popped, pushed, pulled, put) ==
  /\ Moves(r, r2, popped, pushed, h)
  /\ Moves(x, x2, pulled, put, s + 1)
  /\ pushed = 1 => h # Nothing
  /\ pulled = 1 => h = Nothing
  /\ h2 = IF pulled = 1 THEN Head(x) ELSE IF pushed = 1 THEN Nothing ELSE h

\* The words of an exchange: p popped, and s put in.
Answered(p, s) == Line(rx[0], hold[0], tx[0], p, s)

\* The words an engine makes up for the next one: there is room for each that is
\* about to be pushed.
Routed(p) ==
  /\ made \in 0 .. Words
  /\ hold[0] # Nothing => hold[0] = made
  /\ Line(rx[1], hold[1], tx[1], p, made - Carried(hold[0]))
  /\ Len(tx[1]) <= Depth /\ Len(rx[1]) <= Depth
  /\ room[0] => Len(tx[1]) < Depth
  /\ room[1] => Len(rx[1]) < Depth

\* There is a place for every word put in, and the one the host writes is the next.
Fits(p, s, ask, value) ==
  /\ s - p <= Depth
  /\ ask = "tx" => value = s + 1 /\ s + 1 - p <= Depth

-----------------------------------------------------------------------------
\* The queue the host pops.
Source == IF route THEN rx[1] ELSE rx[0]

\* The words popped: those the host has, but for one whose pop is to come.
Unpopped == IF state = "Last" \/ strobe.ask = "read" THEN 1 ELSE 0

Drawn == Len(local.got) + (IF at = "popped" THEN Len(reply) - Unpopped ELSE 0)

\* The words of an exchange put in: those sent, but for what is still to be written.
Unwritten ==
  IF frame.reg = "tx" THEN Len(frame.writes) + (IF strobe.ask = "write" THEN 1 ELSE 0) ELSE 0

PutIn == local.sent - Unwritten

Said == [n : Nat]

Pairs == Said \X Said

\* Words read, each in two bytes of one word, that follow k.
Answers(parts, k) == \A i \in 1 .. Len(parts) : parts[i] = <<Is(k + i), Is(k + i)>>

IsAFrame == frame = [reg |-> frame.reg, writes |-> frame.writes, reads |-> frame.reads]

\* No frame is on its way.
AtRest ==
  /\ IsAFrame
  /\ frame.reads = 0 /\ frame.writes = <<>> /\ strobe = NoStrobe /\ state \in {"Idle", "High"}

\* A frame of words to write.
Telling ==
  /\ IsAFrame
  /\ frame.reads = 0 /\ state \in {"Idle", "Command", "High"}
  /\ state = "Command" => frame.writes # <<>>
  /\ strobe = NoStrobe \/ (state = "High" /\ strobe = [ask |-> "write", value |-> strobe.value])

\* A frame that reads how many words there are to pop; no more than that by the
\* time the host knows.
Asking ==
  /\ IsAFrame /\ frame.reg = "status" /\ frame.reads \in {0, 1}
  /\ OneWordReads
  /\ strobe \in {NoStrobe, ReadStrobe}
  /\ frame.reads = 0 => Len(reply) = 1
  /\ IsLatched => TheWord.n \in Nat /\ TheWord.n <= Len(Source)

\* A frame that pops words, no more than there are.
Popping ==
  /\ IsAFrame /\ frame.reg = "rx" /\ frame.writes = <<>> /\ frame.reads \in Nat
  /\ strobe \in {NoStrobe, ReadStrobe}
  /\ state \in {"Command", "High", "Low", "Last"}
  /\ state # "High" => strobe = NoStrobe /\ frame.reads > 0
  /\ reply \in Seq(Pairs) /\ Answers(reply, Len(local.got))
  /\ Unpopped <= Len(reply)
  /\ state = "Low" => high = Is(Drawn + 1)
  /\ frame.reads + (IF strobe = ReadStrobe THEN 1 ELSE 0) <= Len(Source)

\* What a frame that pushes the words of an exchange still has of them.
Pushing ==
  /\ frame.writes \in Seq(Said)
  /\ Unwritten <= local.sent
  /\ \A i \in 1 .. Len(frame.writes) :
       frame.writes[i] = Is(local.sent - Len(frame.writes) + i)
  /\ strobe.ask = "write" => strobe.value = Is(local.sent - Len(frame.writes))

\* bench.load: how many of its writes have taken effect, and what they leave.
Loaded == IF Writing THEN local.k - 2 ELSE local.k - 1

Loading ==
  /\ local.k \in 1 .. Len(LoadWrites) + 1 /\ local.sent = 0 /\ local.got = <<>>
  /\ Telling
  /\ local.k = 1 => AtRest /\ frame.reg # "tx"
  /\ local.k > 1 =>
       LET done == LoadWrites[local.k - 1]
       IN /\ frame.reg = done[1]
          /\ frame.writes \in {<<>>, <<done[2]>>}
          /\ strobe = NoStrobe \/ (frame.writes = <<>> /\ strobe.value = done[2])
  /\ Loaded >= 4 => select = 0
  /\ Loaded \in 5 .. 7 => halted[0]
  /\ Loaded >= 6 => tx[0] = <<>> /\ rx[0] = <<>>
  /\ Loaded = 8 => hold[0] = Nothing

ExchangeFlow ==
  /\ select = 0
  /\ local.sent - Len(local.got) <= ExchangeDepth
  /\ Answered(Drawn, PutIn)

ExchangeJob ==
  /\ ~route
  /\ at \in {"load", "room", "level", "any", "status", "popped", "done"}
  /\ DOMAIN local = {"k", "sent", "level", "got"}
  /\ local.sent \in 0 .. Words /\ local.level \in Nat
  /\ local.got \in Seq(Pairs) /\ Answers(local.got, 0)
  /\ at = "load" => Loading
  /\ at # "load" => ExchangeFlow
  /\ at \in {"room", "done"} \/ (at = "level" /\ frame.reg # "tx") => AtRest
  /\ at = "level" /\ frame.reg = "tx" => Telling /\ Pushing
  /\ at \in {"any", "status"} => Asking
  /\ at = "popped" => Popping

PopJob ==
  /\ route
  /\ at \in {"select", "level", "status", "popped", "done"}
  /\ DOMAIN local = {"level", "got", "strayed"}
  /\ local.level \in Nat /\ local.got \in Seq(Pairs) /\ Answers(local.got, 0)
  /\ Routed(Drawn) /\ select \in Engines
  /\ at = "select" => AtRest
  /\ at = "level" =>
       /\ Telling
       /\ frame.reg \notin {"select", "tx"} => AtRest
       /\ frame.reg = "select" =>
            /\ frame.writes \in {<<>>, <<Is(1)>>}
            /\ strobe.ask = "write" => frame.writes = <<>> /\ strobe.value = Is(1)
       /\ frame.reg = "tx" =>
            /\ frame.writes \in {<<>>, <<Is(Stale)>>}
            /\ strobe.ask = "write" => frame.writes = <<>> /\ strobe.value = Is(Stale)
  /\ at # "select" /\ ~(Writing /\ frame.reg = "select") => select = 1
  /\ at = "done" => AtRest
  /\ at = "status" => Asking
  /\ at = "popped" => Popping

ChannelInv ==
  /\ job \in {"exchange", "pop", "now", "edges"}
  /\ job \in {"exchange", "pop"} => QueueTypes
  /\ job = "exchange" => ExchangeJob
  /\ job = "pop" => PopJob

-----------------------------------------------------------------------------
\* How many words the host has read, and how a step may change that.
GotCount == Len(local.got) + (IF at = "popped" THEN Len(reply) ELSE 0)

Counts ==
  /\ GotCount' = GotCount \/ (GotCount' = GotCount + 1 /\ GotCount < SentWords)
  /\ SentWords' = SentWords \/ (SentWords' = SentWords + 1 /\ SentWords < Words)

\* What the engines do in a cycle, and what lets them.
Does(acts) ==
  /\ QueuesCycle(acts, QueueAsk, select, IF Writes("tx") THEN strobe.value.n ELSE Nothing)
  /\ \A n \in Engines :
       /\ acts[n] \in {"none", "pull", "make", "push", "wait"}
       /\ acts[n] # "none" => ~halted[n]
       /\ acts[n] = "pull" => hold[n] = Nothing /\ tx[n] # <<>> /\ ~(route /\ n = 0)
       /\ acts[n] = "make" => hold[n] = Nothing /\ route /\ n = 0 /\ made < Words
       /\ acts[n] = "push" => hold[n] # Nothing /\ (route => room[n])
  /\ acts[0] = "wait" => route /\ Len(tx[1]) # Depth
  /\ acts[1] = "wait" => route /\ (Len(rx[1]) # Depth \/ QueueAsk = "rx_pop")

\* Whether a word is popped, or put in, in this cycle.
Pops == IF at = "popped" /\ strobe = ReadStrobe THEN 1 ELSE 0

Puts == IF frame.reg = "tx" /\ strobe.ask = "write" THEN 1 ELSE 0

-----------------------------------------------------------------------------
\* A word put at the end of a run,
LEMMA AppendRun ==
  ASSUME NEW queue \in Seq(Nat), NEW k \in Nat, Run(queue, k)
  PROVE  LET after == Append(queue, k + Len(queue) + 1)
         IN  after \in Seq(Nat) /\ Len(after) = Len(queue) + 1 /\ Run(after, k)
<1> DEFINE after == Append(queue, k + Len(queue) + 1)
<1>1. /\ after \in Seq(Nat) /\ Len(after) = Len(queue) + 1
      /\ \A i \in 1 .. Len(queue) : after[i] = queue[i]
      /\ after[Len(queue) + 1] = k + Len(queue) + 1
  OBVIOUS
<1> HIDE DEF after
<1>2. Run(after, k)
  <2> SUFFICES ASSUME NEW i \in 1 .. Len(after) PROVE after[i] = k + i
    BY DEF Run
  <2>1. CASE i \in 1 .. Len(queue)
    BY <1>1, <2>1 DEF Run
  <2>2. CASE i = Len(queue) + 1
    BY <1>1, <2>2
  <2> QED
    BY <1>1, <2>1, <2>2
<1> QED
  BY <1>1, <1>2 DEF after

\* and one taken from its start.
LEMMA TailRun ==
  ASSUME NEW queue \in Seq(Nat), NEW k \in Nat, Run(queue, k), queue # <<>>
  PROVE  /\ Tail(queue) \in Seq(Nat) /\ Len(Tail(queue)) = Len(queue) - 1
         /\ Head(queue) = k + 1
         /\ Run(Tail(queue), k + 1)
<1> DEFINE after == Tail(queue)
<1>1. /\ after \in Seq(Nat) /\ Len(after) = Len(queue) - 1 /\ Len(queue) > 0
      /\ \A i \in 1 .. Len(queue) - 1 : after[i] = queue[i + 1]
      /\ Head(queue) = queue[1]
  OBVIOUS
<1> HIDE DEF after
<1>2. Head(queue) = k + 1
  BY <1>1 DEF Run
<1>3. Run(after, k + 1)
  <2> SUFFICES ASSUME NEW i \in 1 .. Len(after) PROVE after[i] = k + 1 + i
    BY DEF Run
  <2>1. i + 1 \in 1 .. Len(queue) /\ after[i] = queue[i + 1]
    BY <1>1
  <2> QED
    BY <2>1 DEF Run
<1> QED
  BY <1>1, <1>2, <1>3 DEF after

\* What a cycle leaves of a run that the next word may join.
LEMMA MovesRun ==
  ASSUME NEW queue \in Seq(Nat), NEW k \in Nat, Run(queue, k),
         NEW out \in Nat, NEW in \in Nat, NEW after, NEW landed,
         in = 1 => landed = k + Len(queue) + 1,
         Moves(queue, after, out, in, landed)
  PROVE  /\ after \in Seq(Nat) /\ Len(after) = Len(queue) - out + in
         /\ out \in {0, 1} /\ in \in {0, 1}
         /\ \A j : j = k + out => Run(after, j)
<1>0. PICK left :
        /\ \/ left = queue /\ out = 0
           \/ left = Tail(queue) /\ queue # <<>> /\ out = 1
        /\ \/ after = left /\ in = 0
           \/ after = Append(left, landed) /\ in = 1
  BY DEF Moves
<1>1. PICK j \in Nat : /\ j = k + out /\ out \in {0, 1} /\ k + Len(queue) = j + Len(left)
                       /\ left \in Seq(Nat) /\ Len(left) = Len(queue) - out /\ Run(left, j)
  <2>1. CASE left = queue /\ out = 0
    <3>1. k = k + out /\ Len(queue) - out = Len(queue)
      BY <2>1
    <3> QED
      BY <2>1, <3>1
  <2>2. CASE left = Tail(queue) /\ queue # <<>> /\ out = 1
    <3>1. k + 1 \in Nat /\ Len(left) = Len(queue) - 1 /\ left \in Seq(Nat) /\ Run(left, k + 1)
      BY <2>2, TailRun
    <3>2. k + Len(queue) = (k + 1) + Len(left)
      BY <3>1
    <3> QED
      BY <2>2, <3>1, <3>2
  <2> QED
    BY <1>0, <2>1, <2>2
<1>2. CASE after = left /\ in = 0
  BY <1>1, <1>2
<1>3. CASE after = Append(left, landed) /\ in = 1
  <2>1. after = Append(left, j + Len(left) + 1)
    BY <1>1, <1>3
  <2>2. /\ after \in Seq(Nat) /\ Len(after) = Len(left) + 1 /\ Run(after, j)
    BY <1>1, <2>1, AppendRun
  <2> QED
    BY <1>1, <1>3, <2>2
<1> QED
  BY <1>0, <1>2, <1>3

\* A cycle of an engine's line.
LEMMA LineCycle ==
  ASSUME NEW r \in Seq(Nat), NEW h \in Nat, NEW x \in Seq(Nat), NEW p \in Nat, NEW s \in Nat,
         Line(r, h, x, p, s),
         NEW popped \in Nat, NEW pushed \in Nat, NEW pulled \in Nat, NEW put \in Nat,
         NEW r2, NEW h2, NEW x2,
         LineMoves(r, h, x, r2, h2, x2, s, popped, pushed, pulled, put)
  PROVE  /\ Line(r2, h2, x2, p + popped, s + put)
         /\ r2 \in Seq(Nat) /\ h2 \in Nat /\ x2 \in Seq(Nat)
         /\ Len(r2) = Len(r) - popped + pushed /\ Len(x2) = Len(x) - pulled + put
         /\ Carried(h2) = Carried(h) - pushed + pulled
         /\ {popped, pushed, pulled, put} \subseteq {0, 1}
<1>0. /\ Moves(r, r2, popped, pushed, h) /\ Moves(x, x2, pulled, put, s + 1)
      /\ (pushed = 1 => h # Nothing) /\ (pulled = 1 => h = Nothing)
      /\ h2 = IF pulled = 1 THEN Head(x) ELSE IF pushed = 1 THEN Nothing ELSE h
  BY DEF LineMoves
<1>1. /\ Run(r, p) /\ (h # Nothing => h = p + Len(r) + 1)
      /\ Run(x, p + Len(r) + Carried(h))
      /\ s = p + Len(r) + Carried(h) + Len(x)
      /\ Carried(h) \in {0, 1} /\ (Carried(h) = 0 <=> h = Nothing)
  BY DEF Line, Carried
<1>2. /\ r2 \in Seq(Nat) /\ Len(r2) = Len(r) - popped + pushed
      /\ popped \in {0, 1} /\ pushed \in {0, 1}
      /\ \A j : j = p + popped => Run(r2, j)
  BY <1>0, <1>1, MovesRun
<1>3. PICK k \in Nat : k = p + Len(r) + Carried(h)
  BY <1>1
<1>4. /\ x2 \in Seq(Nat) /\ Len(x2) = Len(x) - pulled + put
      /\ pulled \in {0, 1} /\ put \in {0, 1}
      /\ \A j : j = k + pulled => Run(x2, j)
  <2>1. Run(x, k) /\ s + 1 = k + Len(x) + 1
    BY <1>1, <1>3
  <2> QED
    BY <1>0, <2>1, MovesRun
<1>5. pulled = 1 => Head(x) = p + Len(r) + 1
  <2> SUFFICES ASSUME pulled = 1 PROVE Head(x) = p + Len(r) + 1
    OBVIOUS
  <2>1. x # <<>>
    BY <1>0 DEF Moves
  <2>2. Head(x) = k + 1
    BY <1>1, <1>3, <2>1, TailRun
  <2>3. Len(r) \in Nat /\ Carried(h) = 0
    BY <1>0, <1>1, LenProperties
  <2> QED
    BY <1>3, <2>2, <2>3
<1>6. /\ h2 \in Nat /\ Carried(h2) = Carried(h) - pushed + pulled
      /\ h2 # Nothing => h2 = p + popped + Len(r2) + 1
  <2>1. CASE pulled = 1
    <3>1. Carried(h) = 0 /\ pushed = 0 /\ h2 = p + Len(r) + 1
      BY <1>0, <1>1, <1>2, <1>5, <2>1
    <3>2. h2 \in Nat /\ h2 # Nothing /\ Carried(h2) = 1
      BY <3>1 DEF Nothing, Carried
    <3> QED
      BY <1>2, <1>4, <2>1, <3>1, <3>2
  <2>2. CASE pulled # 1 /\ pushed = 1
    <3>1. h2 = Nothing /\ Carried(h2) = 0 /\ Carried(h) = 1 /\ pulled = 0 /\ h2 \in Nat
      BY <1>0, <1>1, <1>2, <1>4, <2>2 DEF Carried, Nothing
    <3> QED
      BY <2>2, <3>1
  <2>3. CASE pulled # 1 /\ pushed # 1
    <3>1. h2 = h /\ pulled = 0 /\ pushed = 0
      BY <1>0, <1>2, <1>4, <2>3
    <3>2. Len(r) \in Nat /\ Len(r2) \in Nat /\ Len(r2) = Len(r) - popped
      BY <1>2, <3>1
    <3>3. h2 # Nothing => h2 = p + popped + Len(r2) + 1
      BY <1>1, <1>2, <3>1, <3>2
    <3> QED
      BY <1>1, <3>1, <3>3
  <2> QED
    BY <2>1, <2>2, <2>3
<1>7. /\ k + pulled = p + popped + Len(r2) + Carried(h2)
      /\ s + put = p + popped + Len(r2) + Carried(h2) + Len(x2)
  <2> DEFINE a == Len(r)
             b == Len(r2)
             c == Len(x)
             d == Len(x2)
             u == Carried(h)
             v == Carried(h2)
  <2>1. a \in Nat /\ b \in Nat /\ c \in Nat /\ d \in Nat
    BY <1>2, <1>4, LenProperties
  <2>0. /\ u \in Int /\ popped \in Int /\ pushed \in Int /\ pulled \in Int /\ put \in Int
    BY <1>1, <1>2, <1>4
  <2>2. s = p + a + u + c /\ k = p + a + u
    BY <1>1, <1>3
  <2>3. b = a - popped + pushed /\ d = c - pulled + put /\ v = u - pushed + pulled
    BY <1>2, <1>4, <1>6
  <2> HIDE DEF a, b, c, d, u, v
  <2>4. k + pulled = p + popped + b + v /\ s + put = p + popped + b + v + d
    BY <2>0, <2>1, <2>2, <2>3
  <2> QED
    BY <2>4 DEF a, b, c, d, v
<1> QED
  BY <1>2, <1>4, <1>6, <1>7 DEF Line

-----------------------------------------------------------------------------
\* A cycle leaves numbers in the queues.
LEMMA QueuesTyped ==
  ASSUME QueueTypes, NEW acts, NEW ask, NEW of, NEW value \in Nat,
         acts[0] = "pull" => tx[0] # <<>>, acts[1] = "pull" => tx[1] # <<>>,
         QueuesCycle(acts, ask, of, value)
  PROVE  QueueTypes'
<1>0. /\ Engines = {0, 1} /\ Nothing \in Nat
      /\ tx \in [Engines -> Seq(Nat)] /\ rx \in [Engines -> Seq(Nat)]
      /\ hold \in [Engines -> Nat] /\ made \in Nat
  BY DEF Engines, Nothing, QueueTypes
<1>1. ASSUME NEW queue \in Seq(Nat), NEW landed \in Nat, NEW pop, NEW flush
      PROVE  Holds(queue, landed, pop, flush) \in Seq(Nat)
  BY DEF Holds
<1> DEFINE pushed(n) ==
      IF acts[n] = "push" /\ ~RxFull(n, ask = "rx_pop" /\ of = n) THEN hold[n] ELSE Nothing
<1>2. \A n \in Engines : pushed(n) \in Nat
  BY <1>0
<1>3. rx' \in [Engines -> Seq(Nat)]
  <2> DEFINE landed(n) == IF route /\ n = 0 THEN Nothing ELSE pushed(n)
  <2>1. rx' = [n \in Engines |->
                 Holds(rx[n], landed(n), ask = "rx_pop" /\ of = n,
                       (ask = "flush" /\ of = n) /\ halted[n])]
    BY DEF QueuesCycle
  <2>2. \A n \in Engines : landed(n) \in Nat
    BY <1>0, <1>2
  <2> HIDE DEF landed
  <2>3. \A n \in Engines : Holds(rx[n], landed(n), ask = "rx_pop" /\ of = n,
                                 (ask = "flush" /\ of = n) /\ halted[n]) \in Seq(Nat)
    BY <1>0, <1>1, <2>2
  <2> QED
    BY <2>1, <2>3
<1>4. tx' \in [Engines -> Seq(Nat)]
  <2> DEFINE landed(n) ==
        IF route /\ n = 1 THEN pushed(0) ELSE IF ask = "tx" /\ of = n THEN value ELSE Nothing
  <2>1. tx' = [n \in Engines |->
                 Holds(tx[n], landed(n), acts[n] = "pull",
                       (ask = "flush" /\ of = n) /\ halted[n])]
    BY DEF QueuesCycle
  <2>2. \A n \in Engines : landed(n) \in Nat
    BY <1>0, <1>2
  <2> HIDE DEF landed
  <2>3. \A n \in Engines : Holds(tx[n], landed(n), acts[n] = "pull",
                                 (ask = "flush" /\ of = n) /\ halted[n]) \in Seq(Nat)
    BY <1>0, <1>1, <2>2
  <2> QED
    BY <2>1, <2>3
<1>5. hold' \in [Engines -> Nat] /\ made' \in Nat
  <2>1. \A n \in Engines : acts[n] = "pull" => Head(tx[n]) \in Nat
    <3>1. ASSUME NEW queue \in Seq(Nat), queue # <<>> PROVE Head(queue) \in Nat
      BY <3>1
    <3> QED
      BY <1>0, <3>1
  <2>2. made + 1 \in Nat
    BY <1>0
  <2>3. hold' = [n \in Engines |->
                  IF acts[n] = "pull" THEN Head(tx[n])
                  ELSE IF acts[n] = "make" THEN made + 1
                  ELSE IF acts[n] = "push" \/ ((ask = "start" /\ of = n) /\ halted[n]) THEN Nothing
                  ELSE hold[n]]
    BY DEF QueuesCycle
  <2>4. made' = IF acts[0] = "make" THEN made + 1 ELSE made
    BY DEF QueuesCycle
  <2> QED
    BY <1>0, <2>1, <2>2, <2>3, <2>4
<1> QED
  BY <1>3, <1>4, <1>5 DEF QueueTypes

\* An exchange's words in a cycle in which the host pushes the next one, or pops.
LEMMA AnsweredCycle ==
  ASSUME QueueTypes, ~route, NEW acts, NEW ask \in {"none", "tx", "rx_pop"}, NEW value \in Nat,
         QueuesCycle(acts, ask, 0, value),
         acts[0] \in {"none", "pull", "push"},
         acts[0] = "pull" => hold[0] = Nothing /\ tx[0] # <<>>,
         acts[0] = "push" => hold[0] # Nothing,
         NEW p \in Nat, NEW s \in Nat, Answered(p, s), Fits(p, s, ask, value),
         ask = "rx_pop" => rx[0] # <<>>,
         NEW popped \in Nat, popped = IF ask = "rx_pop" THEN 1 ELSE 0,
         NEW put \in Nat, put = IF ask = "tx" THEN 1 ELSE 0
  PROVE  /\ Line(rx'[0], hold'[0], tx'[0], p + popped, s + put)
         /\ Len(rx'[0]) >= Len(rx[0]) - popped
<1> DEFINE act == acts[0]
<1>1. /\ Depth \in Nat
      /\ rx[0] \in Seq(Nat) /\ tx[0] \in Seq(Nat) /\ hold[0] \in Nat /\ Nothing \in Nat
  BY QueuesAssumption DEF QueueTypes, Engines, Nothing
<1>2. /\ act \in {"none", "pull", "push"}
      /\ act = "pull" => hold[0] = Nothing /\ tx[0] # <<>>
      /\ act = "push" => hold[0] # Nothing
  OBVIOUS
<1>3. /\ act = "push" => Len(rx[0]) # Depth
      /\ ask = "tx" => Len(tx[0]) # Depth /\ value # Nothing /\ value = s + 1
  <2> DEFINE a == Len(rx[0])
             b == Len(tx[0])
             c == Carried(hold[0])
  <2>1. a \in Nat /\ b \in Nat /\ c \in {0, 1} /\ (c = 0 <=> hold[0] = Nothing)
    BY <1>1, LenProperties DEF Carried
  <2>2. s = p + a + c + b
    BY DEF Answered, Line
  <2>3. act = "push" => c = 1
    BY <1>2, <2>1
  <2> HIDE DEF a, b, c
  <2>4. c \in Nat
    BY <2>1
  <2>5. (act = "push" => a # Depth) /\ (ask = "tx" => b # Depth /\ value # 0 /\ value = s + 1)
    BY <1>1, <2>1, <2>2, <2>3, <2>4 DEF Fits
  <2> QED
    BY <2>5 DEF a, b, Nothing
<1> DEFINE pushed == IF act = "push" THEN 1 ELSE 0
           pulled == IF act = "pull" THEN 1 ELSE 0
<1>p. /\ pushed \in Nat /\ pulled \in Nat /\ pushed \in {0, 1} /\ pulled \in {0, 1}
      /\ popped \in {0, 1} /\ put \in {0, 1}
      /\ (popped = 1 => rx[0] # <<>>) /\ (pulled = 1 => tx[0] # <<>>)
  OBVIOUS
<1>4. Moves(rx[0], rx'[0], popped, pushed, hold[0])
  <2>1. rx'[0] = LET left == IF popped = 1 THEN Tail(rx[0]) ELSE rx[0]
                 IN  IF pushed = 1 THEN Append(left, hold[0]) ELSE left
    BY <1>2, <1>3 DEF QueuesCycle, Engines, RxFull, Holds
  <2> HIDE DEF pushed
  <2> QED
    BY <1>1, <1>p, <2>1 DEF Moves
<1>5. Moves(tx[0], tx'[0], pulled, put, s + 1)
  <2>1. tx'[0] = LET left == IF pulled = 1 THEN Tail(tx[0]) ELSE tx[0]
                 IN  IF put = 1 THEN Append(left, s + 1) ELSE left
    BY <1>2, <1>3 DEF QueuesCycle, Engines, Holds
  <2> HIDE DEF pulled
  <2> QED
    BY <1>1, <1>p, <2>1 DEF Moves
<1>6. hold'[0] = IF pulled = 1 THEN Head(tx[0]) ELSE IF pushed = 1 THEN Nothing ELSE hold[0]
  BY <1>2 DEF QueuesCycle, Engines
<1>7. LineMoves(rx[0], hold[0], tx[0], rx'[0], hold'[0], tx'[0], s, popped, pushed, pulled, put)
  BY <1>2, <1>4, <1>5, <1>6 DEF LineMoves
<1> HIDE DEF pushed, pulled
<1>8. /\ Line(rx'[0], hold'[0], tx'[0], p + popped, s + put)
      /\ rx'[0] \in Seq(Nat) /\ Len(rx'[0]) = Len(rx[0]) - popped + pushed
  <2>1. Line(rx[0], hold[0], tx[0], p, s)
    BY DEF Answered
  <2>2. PICK r \in Seq(Nat) : r = rx[0]
    BY <1>1
  <2>3. PICK x \in Seq(Nat) : x = tx[0]
    BY <1>1
  <2>4. PICK h \in Nat : h = hold[0]
    BY <1>1
  <2>5. PICK r2, h2, x2 : r2 = rx'[0] /\ h2 = hold'[0] /\ x2 = tx'[0]
    OBVIOUS
  <2>6. Line(r, h, x, p, s) /\ LineMoves(r, h, x, r2, h2, x2, s, popped, pushed, pulled, put)
    BY <1>7, <2>1, <2>2, <2>3, <2>4, <2>5
  <2>7. /\ Line(r2, h2, x2, p + popped, s + put)
        /\ r2 \in Seq(Nat) /\ Len(r2) = Len(r) - popped + pushed
    BY <1>p, <2>6, LineCycle, SMTT(40)
  <2> QED
    BY <2>2, <2>5, <2>7
<1>9. Len(rx[0]) \in Nat /\ Len(rx'[0]) \in Nat /\ pushed \in Nat /\ popped \in Nat
  BY <1>1, <1>8, LenProperties DEF pushed
<1> QED
  BY <1>8, <1>9

\* Made-up words in a cycle in which the host may pop.
LEMMA RoutedCycle ==
  ASSUME QueueTypes, route, NEW acts, NEW ask \in {"none", "tx", "rx_pop"}, NEW of \in Engines,
         ask = "none" \/ of = 1, NEW value \in Nat, QueuesCycle(acts, ask, of, value),
         acts[0] \in {"none", "make", "push", "wait"},
         acts[0] = "make" => hold[0] = Nothing /\ made < Words,
         acts[0] = "push" => hold[0] # Nothing /\ room[0],
         acts[0] = "wait" => Len(tx[1]) # Depth,
         acts[1] \in {"none", "pull", "push", "wait"},
         acts[1] = "pull" => hold[1] = Nothing /\ tx[1] # <<>>,
         acts[1] = "push" => hold[1] # Nothing /\ room[1],
         acts[1] = "wait" => Len(rx[1]) # Depth \/ ask = "rx_pop",
         NEW p \in Nat, Routed(p), ask = "rx_pop" => rx[1] # <<>>,
         NEW popped \in Nat, popped = IF ask = "rx_pop" THEN 1 ELSE 0
  PROVE  /\ Routed(p + popped)'
         /\ made' = IF acts[0] = "make" THEN made + 1 ELSE made
         /\ Len(rx'[1]) >= Len(rx[1]) - popped
<1> DEFINE s == made - Carried(hold[0])
           put == IF acts[0] = "push" THEN 1 ELSE 0
           pushed == IF acts[1] = "push" THEN 1 ELSE 0
           pulled == IF acts[1] = "pull" THEN 1 ELSE 0
<1>1. /\ Depth \in Nat /\ Words \in Nat /\ made \in Nat /\ made <= Words
      /\ rx[1] \in Seq(Nat) /\ tx[1] \in Seq(Nat) /\ hold[1] \in Nat /\ hold[0] \in Nat
      /\ Nothing = 0
  BY QueuesAssumption DEF QueueTypes, Engines, Nothing, Routed
<1>2. /\ Line(rx[1], hold[1], tx[1], p, s)
      /\ hold[0] # Nothing => hold[0] = made /\ s + 1 = made
      /\ hold[0] = Nothing => s = made
      /\ s \in Nat
  <2>1. /\ Line(rx[1], hold[1], tx[1], p, s) /\ (hold[0] # Nothing => hold[0] = made)
        /\ Carried(hold[0]) = IF hold[0] = Nothing THEN 0 ELSE 1
    BY DEF Routed, Carried
  <2> QED
    BY <1>1, <2>1
<1>3. /\ Len(tx[1]) \in Nat /\ Len(rx[1]) \in Nat /\ Len(tx[1]) <= Depth /\ Len(rx[1]) <= Depth
      /\ room[0] => Len(tx[1]) < Depth
      /\ room[1] => Len(rx[1]) < Depth
  BY <1>1, LenProperties DEF Routed
<1>4. /\ acts[1] = "push" => Len(rx[1]) # Depth
      /\ acts[0] = "push" => Len(tx[1]) # Depth
  BY <1>1, <1>3
<1>5. /\ pushed \in Nat /\ pulled \in Nat /\ pushed \in {0, 1} /\ pulled \in {0, 1}
      /\ popped \in {0, 1} /\ put \in {0, 1} /\ put \in Nat
      /\ (popped = 1 => rx[1] # <<>>) /\ (pulled = 1 => tx[1] # <<>>)
  OBVIOUS
<1>6. Moves(rx[1], rx'[1], popped, pushed, hold[1])
  <2>1. rx'[1] = LET left == IF popped = 1 THEN Tail(rx[1]) ELSE rx[1]
                 IN  IF pushed = 1 THEN Append(left, hold[1]) ELSE left
    BY <1>4 DEF QueuesCycle, Engines, RxFull, Holds
  <2> HIDE DEF pushed
  <2> QED
    BY <1>1, <1>5, <2>1 DEF Moves
<1>7. Moves(tx[1], tx'[1], pulled, put, s + 1)
  <2>1. tx'[1] = LET left == IF pulled = 1 THEN Tail(tx[1]) ELSE tx[1]
                 IN  IF put = 1 THEN Append(left, hold[0]) ELSE left
    BY <1>4 DEF QueuesCycle, Engines, RxFull, Holds
  <2>2. put = 1 => hold[0] = s + 1
    BY <1>2
  <2> HIDE DEF pulled, put, s
  <2> QED
    BY <1>1, <1>5, <2>1, <2>2 DEF Moves
<1>8. hold'[1] = IF pulled = 1 THEN Head(tx[1]) ELSE IF pushed = 1 THEN Nothing ELSE hold[1]
  BY DEF QueuesCycle, Engines
<1>9. LineMoves(rx[1], hold[1], tx[1], rx'[1], hold'[1], tx'[1], s, popped, pushed, pulled, put)
  BY <1>6, <1>7, <1>8 DEF LineMoves
<1>10. /\ hold'[0] = IF acts[0] = "make" THEN made + 1 ELSE IF put = 1 THEN Nothing ELSE hold[0]
       /\ made' = IF acts[0] = "make" THEN made + 1 ELSE made
       /\ room'[0] => acts[0] = "wait" \/ (room[0] /\ put = 0)
       /\ room'[1] => acts[1] = "wait" \/ (room[1] /\ pushed = 0)
  <2>1. /\ hold'[0] = IF acts[0] = "make" THEN made + 1 ELSE IF put = 1 THEN Nothing ELSE hold[0]
        /\ made' = IF acts[0] = "make" THEN made + 1 ELSE made
    BY DEF QueuesCycle, Engines
  <2>2. room' = [n \in Engines |-> acts[n] = "wait" \/ (room[n] /\ acts[n] # "push")]
    BY DEF QueuesCycle
  <2>3. /\ room'[0] => acts[0] = "wait" \/ (room[0] /\ acts[0] # "push")
        /\ room'[1] => acts[1] = "wait" \/ (room[1] /\ acts[1] # "push")
    BY <2>2, Zenon DEF Engines
  <2> QED
    BY <2>1, <2>3
<1>11. /\ made' \in 0 .. Words /\ (hold'[0] # Nothing => hold'[0] = made')
       /\ made' - Carried(hold[0])' = s + put
  <2>1. Carried(hold[0])' = IF hold'[0] = Nothing THEN 0 ELSE 1
    BY DEF Carried
  <2>2. CASE acts[0] = "make"
    <3>1. made' = made + 1 /\ hold'[0] = made + 1 /\ put = 0 /\ s = made
      BY <1>2, <1>10, <2>2
    <3>2. hold'[0] # Nothing /\ Carried(hold[0])' = 1
      BY <1>1, <2>1, <3>1
    <3> QED
      BY <1>1, <2>2, <3>1, <3>2
  <2>3. CASE acts[0] = "push"
    <3>1. made' = made /\ hold'[0] = 0 /\ put = 1 /\ s + 1 = made
      BY <1>1, <1>2, <1>10, <2>3
    <3> QED
      BY <1>1, <2>1, <2>3, <3>1
  <2>4. CASE acts[0] \notin {"make", "push"}
    <3>1. made' = made /\ hold'[0] = hold[0] /\ put = 0
      BY <1>1, <1>10, <2>4
    <3> QED
      BY <1>1, <1>2, <2>1, <2>4, <3>1
  <2> QED
    BY <2>2, <2>3, <2>4
<1> HIDE DEF s
<1>12. /\ Line(rx'[1], hold'[1], tx'[1], p + popped, s + put)
       /\ rx'[1] \in Seq(Nat) /\ Len(rx'[1]) = Len(rx[1]) - popped + pushed
       /\ tx'[1] \in Seq(Nat) /\ Len(tx'[1]) = Len(tx[1]) - pulled + put
  <2> HIDE DEF pushed, pulled, put
  <2>2. PICK r \in Seq(Nat) : r = rx[1]
    BY <1>1
  <2>3. PICK x \in Seq(Nat) : x = tx[1]
    BY <1>1
  <2>4. PICK h \in Nat : h = hold[1]
    BY <1>1
  <2>5. PICK r2, h2, x2 : r2 = rx'[1] /\ h2 = hold'[1] /\ x2 = tx'[1]
    OBVIOUS
  <2>6. Line(r, h, x, p, s) /\ LineMoves(r, h, x, r2, h2, x2, s, popped, pushed, pulled, put)
    BY <1>2, <1>9, <2>2, <2>3, <2>4, <2>5
  <2>7. /\ Line(r2, h2, x2, p + popped, s + put)
        /\ r2 \in Seq(Nat) /\ Len(r2) = Len(r) - popped + pushed
        /\ x2 \in Seq(Nat) /\ Len(x2) = Len(x) - pulled + put
    BY <1>2, <1>5, <2>6, LineCycle, SMTT(40)
  <2> QED
    BY <2>2, <2>3, <2>5, <2>7
<1>13. /\ Len(tx'[1]) <= Depth /\ Len(rx'[1]) <= Depth
       /\ room'[0] => Len(tx'[1]) < Depth
       /\ room'[1] => Len(rx'[1]) < Depth
       /\ Len(rx'[1]) >= Len(rx[1]) - popped
  <2>1. Len(rx'[1]) \in Nat /\ Len(tx'[1]) \in Nat
    BY <1>12, LenProperties
  <2> DEFINE a == Len(rx[1])
             b == Len(tx[1])
             c == Len(rx'[1])
             d == Len(tx'[1])
  <2>2. /\ a \in Nat /\ b \in Nat /\ c \in Nat /\ d \in Nat
        /\ a <= Depth /\ b <= Depth /\ (room[0] => b < Depth) /\ (room[1] => a < Depth)
        /\ c = a - popped + pushed /\ d = b - pulled + put
    BY <1>3, <1>12, <2>1
  <2>3. /\ put = 1 => b < Depth
        /\ pushed = 1 => a < Depth
        /\ acts[0] = "wait" => b < Depth /\ put = 0
        /\ acts[1] = "wait" => (a < Depth \/ popped = 1) /\ pushed = 0
    BY <1>1, <2>2
  <2> HIDE DEF a, b, c, d, pushed, pulled, put
  <2>4. c >= a - popped /\ c <= Depth /\ d <= Depth
    BY <1>1, <1>5, <2>2, <2>3
  <2>5. room'[0] => d < Depth
    BY <1>1, <1>5, <1>10, <2>2, <2>3
  <2>6. room'[1] => c < Depth
    BY <1>1, <1>5, <1>10, <2>2, <2>3
  <2> QED
    BY <2>4, <2>5, <2>6 DEF a, b, c, d
<1> QED
  BY <1>10, <1>11, <1>12, <1>13 DEF Routed

\* A step of the chip is a cycle of its queues.
LEMMA NextDoes ==
  ASSUME Next
  PROVE  /\ \E acts : Does(acts)
         /\ UNCHANGED <<job, route>>
         /\ select' = IF Writes("select") THEN strobe.value.n ELSE select
<1>1. PICK a \in CanAct(0), b \in CanAct(1) : Chip([n \in Engines |-> IF n = 0 THEN a ELSE b])
  BY DEF Next, Chips
<1> DEFINE acts == [n \in Engines |-> IF n = 0 THEN a ELSE b]
<1>2. acts[0] = a /\ acts[1] = b
  BY DEF Engines
<1>3. Chip(acts)
  BY <1>1
<1> HIDE DEF acts
<1>4. /\ QueuesCycle(acts, QueueAsk, select, IF Writes("tx") THEN strobe.value.n ELSE Nothing)
      /\ UNCHANGED job /\ select' = IF Writes("select") THEN strobe.value.n ELSE select
  BY <1>3 DEF Chip
<1>5. UNCHANGED route
  BY <1>4 DEF QueuesCycle
<1>6. ASSUME NEW n \in Engines, NEW act, NEW pop, act \in Acts(n, pop)
      PROVE  /\ act \in {"none", "pull", "make", "push", "wait"}
             /\ act # "none" => ~halted[n]
             /\ act = "pull" => hold[n] = Nothing /\ tx[n] # <<>> /\ ~(route /\ n = 0)
             /\ act = "make" => hold[n] = Nothing /\ route /\ n = 0 /\ made < Words
             /\ act = "push" => hold[n] # Nothing /\ (route => room[n])
             /\ act = "wait" => route /\ ~RxFull(n, pop)
  BY <1>6 DEF Acts, Pulls, Makes, Pushes, Waits
<1>7. /\ acts[0] \in Acts(0, QueueAsk = "rx_pop" /\ select = 0)
      /\ acts[1] \in Acts(1, QueueAsk = "rx_pop" /\ select = 1)
  BY <1>1, <1>2 DEF CanAct
<1>8. \A n \in Engines :
       /\ acts[n] \in {"none", "pull", "make", "push", "wait"}
       /\ acts[n] # "none" => ~halted[n]
       /\ acts[n] = "pull" => hold[n] = Nothing /\ tx[n] # <<>> /\ ~(route /\ n = 0)
       /\ acts[n] = "make" => hold[n] = Nothing /\ route /\ n = 0 /\ made < Words
       /\ acts[n] = "push" => hold[n] # Nothing /\ (route => room[n])
  <2> SUFFICES ASSUME NEW n \in Engines
      PROVE /\ acts[n] \in {"none", "pull", "make", "push", "wait"}
            /\ acts[n] # "none" => ~halted[n]
            /\ acts[n] = "pull" => hold[n] = Nothing /\ tx[n] # <<>> /\ ~(route /\ n = 0)
            /\ acts[n] = "make" => hold[n] = Nothing /\ route /\ n = 0 /\ made < Words
            /\ acts[n] = "push" => hold[n] # Nothing /\ (route => room[n])
    OBVIOUS
  <2>1. acts[n] \in Acts(n, QueueAsk = "rx_pop" /\ select = n)
    BY <1>7 DEF Engines
  <2> QED
    BY <2>1, <1>6, Zenon
<1>9. /\ acts[0] = "wait" => route /\ Len(tx[1]) # Depth
      /\ acts[1] = "wait" => route /\ (Len(rx[1]) # Depth \/ QueueAsk = "rx_pop")
  <2>1. 0 \in Engines /\ 1 \in Engines
    BY DEF Engines
  <2>2. /\ acts[0] = "wait" => route /\ ~RxFull(0, QueueAsk = "rx_pop" /\ select = 0)
        /\ acts[1] = "wait" => route /\ ~RxFull(1, QueueAsk = "rx_pop" /\ select = 1)
    BY <1>6, <1>7, <2>1, Zenon
  <2> QED
    BY <2>2 DEF RxFull
<1> QED
  BY <1>4, <1>5, <1>8, <1>9 DEF Does

\* A cycle of an exchange past its load.
LEMMA ExchangeCycle ==
  ASSUME QueueTypes, Next, ~route, select = 0, ~Writes("control"),
         QueueAsk \in {"none", "tx", "rx_pop"},
         NEW value \in Nat, QueueAsk = "tx" => value = strobe.value.n,
         NEW p \in Nat, NEW s \in Nat, Answered(p, s), Fits(p, s, QueueAsk, value),
         QueueAsk = "rx_pop" => rx[0] # <<>>,
         NEW popped \in Nat, popped = IF QueueAsk = "rx_pop" THEN 1 ELSE 0,
         NEW put \in Nat, put = IF QueueAsk = "tx" THEN 1 ELSE 0
  PROVE  /\ QueueTypes' /\ ~route' /\ Answered(p + popped, s + put)'
         /\ Len(rx'[0]) >= Len(rx[0]) - popped
<1>1. PICK acts : Does(acts)
  BY NextDoes
<1>2. PICK v \in Nat : /\ QueuesCycle(acts, QueueAsk, 0, v)
                       /\ QueueAsk = "tx" => v = value
  <2>1. QueueAsk = "tx" <=> Writes("tx")
    BY DEF QueueAsk, Writes
  <2>2. QueueAsk = "tx" => QueuesCycle(acts, QueueAsk, 0, value)
    BY <1>1, <2>1 DEF Does
  <2>3. QueueAsk # "tx" => QueuesCycle(acts, QueueAsk, 0, Nothing)
    BY <1>1, <2>1 DEF Does
  <2> QED
    BY <2>2, <2>3 DEF Nothing
<1>3. 0 \in Engines /\ 1 \in Engines
  BY DEF Engines
<1>4. /\ acts[0] \in {"none", "pull", "push"}
      /\ acts[0] = "pull" => hold[0] = Nothing /\ tx[0] # <<>>
      /\ acts[0] = "push" => hold[0] # Nothing
      /\ acts[1] = "pull" => tx[1] # <<>>
  BY <1>1, <1>3 DEF Does
<1>5. QueueTypes'
  BY <1>2, <1>4, QueuesTyped
<1>6. ~route'
  BY NextDoes
<1>7. PICK ask \in {"none", "tx", "rx_pop"} : ask = QueueAsk
  OBVIOUS
<1>8. Fits(p, s, ask, v) /\ QueuesCycle(acts, ask, 0, v)
  BY <1>2, <1>7 DEF Fits
<1>9. /\ ask = "rx_pop" => rx[0] # <<>>
      /\ popped = IF ask = "rx_pop" THEN 1 ELSE 0
      /\ put = IF ask = "tx" THEN 1 ELSE 0
  BY <1>7
<1>10. /\ Line(rx'[0], hold'[0], tx'[0], p + popped, s + put)
       /\ Len(rx'[0]) >= Len(rx[0]) - popped
  BY <1>4, <1>8, <1>9, AnsweredCycle
<1> QED
  BY <1>5, <1>6, <1>10 DEF Answered

\* A cycle of a job whose words an engine makes up.
LEMMA PopCycle ==
  ASSUME QueueTypes, Next, route, select \in Engines, ~Writes("control"),
         QueueAsk \in {"none", "tx", "rx_pop"}, QueueAsk = "none" \/ select = 1,
         QueueAsk = "tx" => strobe.value.n \in Nat,
         NEW p \in Nat, Routed(p), QueueAsk = "rx_pop" => rx[1] # <<>>,
         NEW popped \in Nat, popped = IF QueueAsk = "rx_pop" THEN 1 ELSE 0
  PROVE  /\ QueueTypes' /\ route' /\ Routed(p + popped)'
         /\ made' = made \/ (made' = made + 1 /\ made < Words)
         /\ Len(rx'[1]) >= Len(rx[1]) - popped
<1>1. PICK acts : Does(acts)
  BY NextDoes
<1>2. PICK v \in Nat : QueuesCycle(acts, QueueAsk, select, v)
  <2>1. QueueAsk = "tx" <=> Writes("tx")
    BY DEF QueueAsk, Writes
  <2>2. (IF Writes("tx") THEN strobe.value.n ELSE Nothing) \in Nat
    BY <2>1 DEF Nothing
  <2> QED
    BY <1>1, <2>2 DEF Does
<1>3. 0 \in Engines /\ 1 \in Engines
  BY DEF Engines
<1>4. /\ acts[0] \in {"none", "make", "push", "wait"}
      /\ acts[0] = "make" => hold[0] = Nothing /\ made < Words
      /\ acts[0] = "push" => hold[0] # Nothing /\ room[0]
      /\ acts[0] = "wait" => Len(tx[1]) # Depth
      /\ acts[1] \in {"none", "pull", "push", "wait"}
      /\ acts[1] = "pull" => hold[1] = Nothing /\ tx[1] # <<>>
      /\ acts[1] = "push" => hold[1] # Nothing /\ room[1]
      /\ acts[1] = "wait" => Len(rx[1]) # Depth \/ QueueAsk = "rx_pop"
  BY <1>1, <1>3 DEF Does
<1>5. QueueTypes'
  BY <1>2, <1>4, QueuesTyped
<1>6. route'
  BY NextDoes
<1>7. PICK ask \in {"none", "tx", "rx_pop"} : ask = QueueAsk
  OBVIOUS
<1>8. PICK of \in Engines : of = select
  OBVIOUS
<1>9. /\ ask = "rx_pop" => rx[1] # <<>>
      /\ popped = IF ask = "rx_pop" THEN 1 ELSE 0
      /\ (ask = "none" \/ of = 1) /\ QueuesCycle(acts, ask, of, v)
      /\ acts[1] = "wait" => Len(rx[1]) # Depth \/ ask = "rx_pop"
  BY <1>2, <1>4, <1>7, <1>8
<1>10. /\ Routed(p + popped)'
       /\ made' = IF acts[0] = "make" THEN made + 1 ELSE made
       /\ Len(rx'[1]) >= Len(rx[1]) - popped
  BY <1>4, <1>9, RoutedCycle
<1> QED
  BY <1>4, <1>5, <1>6, <1>10

-----------------------------------------------------------------------------
\* With no frame on its way, no byte ends.
LEMMA RestBytes ==
  ASSUME AtRest, Quiet \/ Byte
  PROVE  AtRest' /\ UNCHANGED <<state, strobe, frame, reply, at, local>>
BY DEF AtRest, IsAFrame, Quiet, Byte, CommandByte, WriteWord, HighByte, LowByte, ReadDone, NoStrobe

\* A word to write arrives, or takes effect.
LEMMA TellingBytes ==
  ASSUME Telling, Quiet \/ Byte
  PROVE  /\ Telling' /\ UNCHANGED <<at, local, reply>> /\ frame'.reg = frame.reg
         /\ \/ UNCHANGED <<frame, strobe>> /\ strobe.ask = "none"
            \/ /\ strobe.ask = "none" /\ frame.writes # <<>>
               /\ strobe' = [ask |-> "write", value |-> Head(frame.writes)]
               /\ frame'.writes = Tail(frame.writes)
            \/ /\ strobe.ask = "write" /\ strobe' = NoStrobe /\ UNCHANGED frame
<1> USE DEF Telling, IsAFrame, NoStrobe
<1>1. CASE Quiet
  BY <1>1 DEF Quiet
<1>2. CASE CommandByte
  BY <1>2 DEF CommandByte
<1>3. CASE WriteWord
  <2>1. /\ strobe = NoStrobe /\ state = "High" /\ frame.writes # <<>>
        /\ strobe' = [ask |-> "write", value |-> Head(frame.writes)]
        /\ frame' = [frame EXCEPT !.writes = Tail(@)]
        /\ UNCHANGED <<state, word, high, reply, at, local>>
    BY <1>3 DEF WriteWord
  <2>2. /\ frame'.reg = frame.reg /\ frame'.reads = frame.reads
        /\ frame'.writes = Tail(frame.writes)
        /\ frame' = [reg |-> frame'.reg, writes |-> frame'.writes, reads |-> frame'.reads]
    BY <2>1
  <2> QED
    BY <2>1, <2>2
<1>4. ~HighByte /\ ~LowByte /\ ~ReadDone
  BY DEF HighByte, LowByte, ReadDone
<1> QED
  BY <1>1, <1>2, <1>3, <1>4 DEF Byte

\* A level is latched, and stays a lower bound while the host does not pop.
LEMMA AskingBytes ==
  ASSUME Asking, Quiet \/ Byte, Source = rx[select], Source \in Seq(Nat), Source' \in Seq(Nat),
         Len(Source') >= Len(Source)
  PROVE  Asking' /\ UNCHANGED <<at, local>> /\ frame'.reg = frame.reg
<1>0. /\ Len(Source) \in Nat /\ Len(Source') \in Nat
  BY LenProperties
<1>1. /\ IsAFrame /\ frame.reg = "status" /\ frame.reads \in {0, 1} /\ OneWordReads
      /\ strobe \in {NoStrobe, ReadStrobe} /\ (frame.reads = 0 => Len(reply) = 1)
      /\ IsLatched => TheWord.n \in Nat /\ TheWord.n <= Len(Source)
  BY DEF Asking
<1>2. ASSUME IsLatched' => IsLatched /\ TheWord' = TheWord
      PROVE  IsLatched' => TheWord'.n \in Nat /\ TheWord'.n <= Len(Source')
  <2> SUFFICES ASSUME IsLatched' PROVE TheWord'.n \in Nat /\ TheWord'.n <= Len(Source')
    OBVIOUS
  <2>1. PICK n \in Nat : n = TheWord.n /\ n <= Len(Source)
    BY <1>1, <1>2
  <2>2. TheWord'.n = n
    BY <1>2, <2>1
  <2>3. n <= Len(Source')
    BY <1>0, <2>1
  <2> QED
    BY <2>2, <2>3
<1>3. CASE Quiet
  <2>1. /\ UNCHANGED <<state, frame, reply, high, at, local>> /\ strobe' = NoStrobe
        /\ strobe = NoStrobe => word' = word
    BY <1>3 DEF Quiet, NoStrobe
  <2>2. OneWordReads' /\ IsAFrame'
    BY <1>1, <2>1 DEF OneWordReads, IsAFrame
  <2>3. IsLatched' => IsLatched /\ TheWord' = TheWord
    BY <1>1, <2>1 DEF OneWordReads, IsLatched, TheWord
  <2> QED
    BY <1>1, <1>2, <2>1, <2>2, <2>3 DEF Asking
<1>4. CASE CommandByte
  <2>1. /\ state' = "High" /\ state = "Command" /\ strobe = NoStrobe
        /\ UNCHANGED <<strobe, frame, high, reply, at, local>>
        /\ frame.reads = 1 /\ word' = ReadValue("status")
    BY <1>1, <1>4 DEF CommandByte, OneWordReads
  <2>2. OneWordReads' /\ IsAFrame'
    BY <1>1, <2>1 DEF OneWordReads, IsAFrame
  <2>3. TheWord'.n = Len(Source)
    BY <2>1 DEF TheWord, ReadValue, Is
  <2>4. TheWord'.n \in Nat /\ TheWord'.n <= Len(Source')
    BY <1>0, <2>3
  <2> QED
    BY <1>1, <2>1, <2>2, <2>4 DEF Asking
<1>5. CASE HighByte
  <2>1. /\ state = "High" /\ frame.reads = 1 /\ strobe = NoStrobe
        /\ high' = word /\ state' = "Low"
        /\ UNCHANGED <<strobe, word, frame, reply, at, local>>
    BY <1>1, <1>5 DEF HighByte, TxWord
  <2>2. OneWordReads' /\ IsAFrame'
    BY <1>1, <2>1 DEF OneWordReads, IsAFrame
  <2>3. IsLatched' => IsLatched /\ TheWord' = TheWord
    BY <1>1, <2>1 DEF IsLatched, TheWord
  <2> QED
    BY <1>1, <1>2, <2>1, <2>2, <2>3 DEF Asking
<1>6. CASE LowByte
  <2>1. /\ state = "Low" /\ frame.reads = 1 /\ strobe = NoStrobe
        /\ reply' = Append(reply, <<high, word>>) /\ state' = "Last"
        /\ UNCHANGED <<strobe, word, frame, at, local>>
        /\ reply = <<>> /\ high = word
    BY <1>1, <1>6 DEF LowByte, OneWordReads, TxWord
  <2>2. reply' = <<<<word, word>>>>
    BY <2>1
  <2>3. OneWordReads' /\ IsAFrame'
    BY <1>1, <2>1, <2>2 DEF OneWordReads, IsAFrame
  <2>4. IsLatched' => IsLatched /\ TheWord' = TheWord
    BY <1>1, <2>1, <2>2 DEF IsLatched, TheWord
  <2> QED
    BY <1>1, <1>2, <2>1, <2>3, <2>4 DEF Asking
<1>7. CASE ReadDone
  <2>1. /\ state = "Last" /\ state' = "High" /\ strobe = NoStrobe /\ strobe' = ReadStrobe
        /\ frame' = [frame EXCEPT !.reads = @ - 1]
        /\ UNCHANGED <<word, high, reply, at, local>>
    BY <1>7 DEF ReadDone, ReadStrobe
  <2>2. frame.reads = 1
    BY <1>1, <2>1 DEF OneWordReads
  <2>3. /\ frame'.reads = 0 /\ frame'.writes = <<>> /\ frame'.reg = frame.reg
        /\ frame' = [reg |-> frame'.reg, writes |-> <<>>, reads |-> frame'.reads]
    BY <1>1, <2>1, <2>2 DEF OneWordReads, IsAFrame
  <2>4. OneWordReads' /\ IsAFrame' /\ Len(reply') = 1
    BY <1>1, <2>1, <2>2, <2>3 DEF OneWordReads, IsAFrame
  <2>5. IsLatched' => IsLatched /\ TheWord' = TheWord
    BY <1>1, <2>1, <2>2, <2>3 DEF IsLatched, TheWord
  <2> QED
    BY <1>1, <1>2, <2>1, <2>3, <2>4, <2>5 DEF Asking
<1>8. ~WriteWord
  BY <1>1 DEF WriteWord, OneWordReads
<1> QED
  BY <1>3, <1>4, <1>5, <1>6, <1>7, <1>8 DEF Byte

-----------------------------------------------------------------------------
\* The next word read goes on with the answers,
LEMMA AnswersAppend ==
  ASSUME NEW parts \in Seq(Pairs), NEW k \in Nat, Answers(parts, k),
         NEW w, w = Is(k + Len(parts) + 1)
  PROVE  LET after == Append(parts, <<w, w>>)
         IN  after \in Seq(Pairs) /\ Len(after) = Len(parts) + 1 /\ Answers(after, k)
<1> DEFINE after == Append(parts, <<w, w>>)
<1>1. Len(parts) \in Nat /\ w \in Said /\ <<w, w>> \in Pairs
  BY LenProperties DEF Is, Said, Pairs
<1>2. /\ after \in Seq(Pairs) /\ Len(after) = Len(parts) + 1
      /\ \A i \in 1 .. Len(parts) : after[i] = parts[i]
      /\ after[Len(parts) + 1] = <<w, w>>
  BY <1>1
<1> HIDE DEF after
<1>3. Answers(after, k)
  <2> SUFFICES ASSUME NEW i \in 1 .. Len(after)
      PROVE after[i] = <<Is(k + i), Is(k + i)>>
    BY DEF Answers
  <2>1. CASE i \in 1 .. Len(parts)
    BY <1>2, <2>1 DEF Answers
  <2>2. CASE i = Len(parts) + 1
    <3>1. k + i = k + Len(parts) + 1
      BY <1>1, <2>2
    <3> QED
      BY <1>2, <2>2, <3>1
  <2> QED
    BY <1>1, <1>2, <2>1, <2>2
<1> QED
  BY <1>2, <1>3 DEF after

\* and so does a reply.
LEMMA AnswersConcat ==
  ASSUME NEW parts \in Seq(Pairs), NEW more \in Seq(Pairs),
         Answers(parts, 0), Answers(more, Len(parts))
  PROVE  LET after == parts \o more
         IN  /\ after \in Seq(Pairs) /\ Len(after) = Len(parts) + Len(more)
             /\ Answers(after, 0)
<1> DEFINE after == parts \o more
<1>1. Len(parts) \in Nat /\ Len(more) \in Nat
  BY LenProperties
<1>2. /\ after \in Seq(Pairs) /\ Len(after) = Len(parts) + Len(more)
      /\ \A i \in 1 .. Len(parts) + Len(more) :
           after[i] = IF i <= Len(parts) THEN parts[i] ELSE more[i - Len(parts)]
  BY ConcatProperties
<1> HIDE DEF after
<1>3. Answers(after, 0)
  <2> SUFFICES ASSUME NEW i \in 1 .. Len(after)
      PROVE after[i] = <<Is(0 + i), Is(0 + i)>>
    BY DEF Answers
  <2>0. i \in 1 .. Len(parts) + Len(more)
    BY <1>2
  <2>1. CASE i <= Len(parts)
    <3>1. i \in 1 .. Len(parts) /\ after[i] = parts[i]
      BY <1>1, <1>2, <2>0, <2>1
    <3> QED
      BY <3>1 DEF Answers
  <2>2. CASE ~(i <= Len(parts))
    <3>1. PICK j \in 1 .. Len(more) : j = i - Len(parts)
      BY <1>1, <2>0, <2>2
    <3>2. after[i] = more[j]
      BY <1>2, <2>0, <2>2, <3>1
    <3>3. Len(parts) + j = 0 + i
      BY <1>1, <2>0, <3>1
    <3> QED
      BY <3>2, <3>3 DEF Answers
  <2> QED
    BY <2>1, <2>2
<1> QED
  BY <1>2, <1>3 DEF after

\* Words are popped, each read in two bytes before it goes.
LEMMA PoppingBytes ==
  ASSUME Popping, Quiet \/ Byte, at = "popped", local.got \in Seq(Pairs),
         Source = rx[select], Source \in Seq(Nat), Source' \in Seq(Nat),
         Drawn \in Nat, Run(Source, Drawn),
         NEW popped \in Nat, popped = IF strobe = ReadStrobe THEN 1 ELSE 0,
         Len(Source') >= Len(Source) - popped
  PROVE  /\ Popping' /\ UNCHANGED <<at, local>> /\ frame'.reg = frame.reg
         /\ Drawn' = Drawn + popped
         /\ \/ Len(reply') = Len(reply)
            \/ Len(reply') = Len(reply) + 1 /\ Source # <<>> /\ Drawn = Len(local.got) + Len(reply)
<1>1. /\ IsAFrame /\ frame.reg = "rx" /\ frame.writes = <<>> /\ frame.reads \in Nat
      /\ strobe \in {NoStrobe, ReadStrobe}
      /\ state \in {"Command", "High", "Low", "Last"}
      /\ state # "High" => strobe = NoStrobe /\ frame.reads > 0
      /\ reply \in Seq(Pairs) /\ Answers(reply, Len(local.got))
      /\ Unpopped <= Len(reply)
      /\ state = "Low" => high = Is(Drawn + 1)
      /\ frame.reads + popped <= Len(Source)
  BY DEF Popping
<1>2. /\ Len(Source) \in Nat /\ Len(Source') \in Nat /\ Len(reply) \in Nat /\ Len(local.got) \in Nat
  BY <1>1, LenProperties
<1>3. /\ Drawn = Len(local.got) + (Len(reply) - Unpopped)
      /\ at' = at /\ local' = local => Drawn' = Len(local.got) + (Len(reply') - Unpopped')
      /\ Unpopped = IF state = "Last" \/ strobe.ask = "read" THEN 1 ELSE 0
      /\ Unpopped' = IF state' = "Last" \/ strobe'.ask = "read" THEN 1 ELSE 0
  BY DEF Drawn, Unpopped
<1>4. /\ NoStrobe.ask = "none" /\ ReadStrobe.ask = "read" /\ NoStrobe # ReadStrobe
  BY DEF NoStrobe, ReadStrobe
<1>5. frame.reads > 0 => Source # <<>> /\ TxWord = Is(Drawn + 1)
  <2> SUFFICES ASSUME frame.reads > 0 PROVE Source # <<>> /\ TxWord = Is(Drawn + 1)
    OBVIOUS
  <2>1. Len(Source) > 0
    BY <1>1, <1>2
  <2>2. Source # <<>>
    BY <2>1
  <2>3. Head(Source) = Drawn + 1
    BY <2>2, TailRun
  <2> QED
    BY <1>1, <2>2, <2>3 DEF TxWord, ReadValue, HeadOr
<1>6. CASE Quiet
  <2>1. /\ UNCHANGED <<state, frame, reply, high, at, local>> /\ strobe' = NoStrobe
    BY <1>6 DEF Quiet
  <2>2. CASE strobe = NoStrobe
    <3>1. popped = 0 /\ Unpopped' = Unpopped /\ Drawn' = Drawn
      BY <1>3, <1>4, <2>1, <2>2
    <3>2. frame.reads <= Len(Source')
      BY <1>1, <1>2, <3>1
    <3>3. Popping'
      BY <1>1, <1>4, <2>1, <3>1, <3>2 DEF Popping, IsAFrame
    <3> QED
      BY <2>1, <3>1, <3>3
  <2>3. CASE strobe = ReadStrobe
    <3>1. popped = 1 /\ Unpopped = 1 /\ Unpopped' = 0 /\ state = "High"
      BY <1>1, <1>3, <1>4, <2>1, <2>3
    <3>2. Drawn' = Drawn + popped
      <4>1. Drawn = Len(local.got) + (Len(reply) - 1)
        BY <1>3, <3>1
      <4>2. Drawn' = Len(local.got) + (Len(reply) - 0)
        BY <1>3, <2>1, <3>1
      <4>3. \A a, b \in Nat : a + (b - 0) = a + (b - 1) + 1
        OBVIOUS
      <4>4. Drawn' = Drawn + 1
        BY <1>2, <4>1, <4>2, <4>3
      <4> QED
        BY <3>1, <4>4
    <3>3. frame.reads <= Len(Source')
      BY <1>1, <1>2, <3>1
    <3>4. Unpopped' <= Len(reply)
      BY <1>1, <1>2, <3>1
    <3>5. Popping'
      BY <1>1, <1>4, <2>1, <3>1, <3>3, <3>4 DEF Popping, IsAFrame
    <3> QED
      BY <2>1, <3>2, <3>5
  <2> QED
    BY <1>1, <2>2, <2>3
<1>7. CASE CommandByte \/ HighByte
  <2>1. /\ UNCHANGED <<strobe, frame, reply, at, local>> /\ strobe = NoStrobe
        /\ state # "Last" /\ state' \in {"High", "Low"}
        /\ frame.reads > 0
        /\ state' = "Low" => high' = TxWord
    BY <1>1, <1>7 DEF CommandByte, HighByte
  <2>2. popped = 0 /\ Unpopped' = Unpopped /\ Drawn' = Drawn
    BY <1>3, <1>4, <2>1
  <2>3. frame.reads <= Len(Source')
    BY <1>1, <1>2, <2>2
  <2>4. Popping'
    BY <1>1, <1>4, <1>5, <2>1, <2>2, <2>3 DEF Popping, IsAFrame
  <2> QED
    BY <2>1, <2>2, <2>4
<1>8. CASE LowByte
  <2>1. /\ UNCHANGED <<strobe, frame, at, local>> /\ strobe = NoStrobe
        /\ state = "Low" /\ state' = "Last" /\ frame.reads > 0
        /\ reply' = Append(reply, <<high, TxWord>>)
    BY <1>1, <1>8 DEF LowByte
  <2>2. popped = 0 /\ Unpopped = 0 /\ Unpopped' = 1
    BY <1>3, <1>4, <2>1
  <2>3. Drawn = Len(local.got) + Len(reply)
    <3>1. Drawn = Len(local.got) + (Len(reply) - 0)
      BY <1>3, <2>2
    <3> QED
      BY <1>2, <3>1
  <2>4. high = Is(Len(local.got) + Len(reply) + 1) /\ TxWord = high
    BY <1>1, <1>5, <2>1, <2>3
  <2>5. /\ reply' \in Seq(Pairs) /\ Len(reply') = Len(reply) + 1
        /\ Answers(reply', Len(local.got))
    BY <1>1, <1>2, <2>1, <2>4, AnswersAppend
  <2>6. Drawn' = Drawn
    <3>1. Drawn' = Len(local.got) + (Len(reply) + 1 - 1)
      BY <1>3, <2>1, <2>2, <2>5
    <3> QED
      BY <1>2, <2>3, <3>1
  <2>7. frame.reads <= Len(Source') /\ Unpopped' <= Len(reply')
    BY <1>1, <1>2, <2>2, <2>5
  <2>8. Popping'
    BY <1>1, <1>4, <2>1, <2>5, <2>7 DEF Popping, IsAFrame
  <2> QED
    <3>1. Source # <<>> /\ Drawn' = Drawn + popped
      BY <1>5, <2>1, <2>2, <2>6
    <3> QED
      BY <2>1, <2>3, <2>5, <2>8, <3>1
<1>9. CASE ReadDone
  <2>1. /\ state = "Last" /\ state' = "High" /\ strobe = NoStrobe /\ strobe' = ReadStrobe
        /\ frame' = [frame EXCEPT !.reads = @ - 1]
        /\ UNCHANGED <<reply, at, local>>
    BY <1>9 DEF ReadDone, ReadStrobe
  <2>2. popped = 0 /\ Unpopped = 1 /\ Unpopped' = 1 /\ frame.reads > 0
    BY <1>1, <1>3, <1>4, <2>1
  <2>3. Drawn' = Drawn
    BY <1>3, <2>1, <2>2
  <2>4. /\ frame'.reads = frame.reads - 1 /\ frame'.writes = <<>> /\ frame'.reg = frame.reg
        /\ frame' = [reg |-> frame'.reg, writes |-> frame'.writes, reads |-> frame'.reads]
    BY <1>1, <2>1 DEF IsAFrame
  <2>5. frame'.reads \in Nat /\ frame'.reads + 1 <= Len(Source')
    BY <1>1, <1>2, <2>2, <2>4
  <2>6. Popping'
    BY <1>1, <1>4, <2>1, <2>2, <2>4, <2>5 DEF Popping, IsAFrame
  <2> QED
    BY <2>1, <2>2, <2>3, <2>4, <2>6
<1>10. ~WriteWord
  BY <1>1 DEF WriteWord
<1> QED
  BY <1>6, <1>7, <1>8, <1>9, <1>10 DEF Byte

-----------------------------------------------------------------------------
\* What an exchange asks of the queues past its load.
LEMMA ExchangeAsks ==
  ASSUME QueueTypes, ExchangeJob, at # "load"
  PROVE  /\ Drawn \in Nat /\ PutIn \in Nat /\ ~Writes("control") /\ ~Writes("select")
         /\ Pops \in Nat /\ Puts \in Nat
         /\ QueueAsk \in {"none", "tx", "rx_pop"}
         /\ Pops = (IF QueueAsk = "rx_pop" THEN 1 ELSE 0)
         /\ Puts = (IF QueueAsk = "tx" THEN 1 ELSE 0)
         /\ QueueAsk = "tx" => strobe.value.n = PutIn + 1
         /\ QueueAsk = "rx_pop" => rx[0] # <<>>
         /\ Fits(Drawn, PutIn, QueueAsk, PutIn + 1)
<1>1. /\ local.sent \in 0 .. Words /\ Words \in Nat /\ local.got \in Seq(Pairs)
      /\ local.sent \in Nat
      /\ local.sent - Len(local.got) <= ExchangeDepth
      /\ ExchangeDepth \in Nat /\ Depth \in Nat /\ ExchangeDepth <= Depth
      /\ Len(local.got) \in Nat /\ rx[0] \in Seq(Nat) /\ Len(rx[0]) \in Nat
  <2>1. 0 \in Engines
    BY DEF Engines
  <2> QED
    BY <2>1, QueuesAssumption, HostPortAssumption, LenProperties DEF ExchangeJob, ExchangeFlow, QueueTypes
<1>2. /\ QueueAsk = (IF Writes("tx") THEN "tx" ELSE IF Writes("control") THEN strobe.value.bit
                     ELSE IF strobe.ask = "read" /\ frame.reg = "rx" THEN "rx_pop" ELSE "none")
  BY DEF QueueAsk, Writes
<1>3. /\ NoStrobe.ask = "none" /\ ReadStrobe.ask = "read" /\ NoStrobe # ReadStrobe
  BY DEF NoStrobe, ReadStrobe
<1> DEFINE g == Len(local.got)
<1>4. ASSUME NEW n \in Nat, PutIn = local.sent - n, n <= local.sent, Drawn \in Nat, Drawn >= g,
             QueueAsk = "tx" => n > 0
      PROVE  PutIn \in Nat /\ Fits(Drawn, PutIn, QueueAsk, PutIn + 1)
  <2> HIDE DEF g
  <2>1. g \in Nat /\ local.sent - g <= ExchangeDepth
    BY <1>1 DEF g
  <2>2. PutIn \in Nat /\ PutIn - Drawn <= Depth
    BY <1>1, <1>4, <2>1
  <2>3. QueueAsk = "tx" => PutIn + 1 - Drawn <= Depth
    BY <1>1, <1>4, <2>1
  <2> QED
    BY <2>2, <2>3 DEF Fits
<1>5. at # "popped" => Drawn = g + 0 /\ Drawn \in Nat /\ Drawn >= g
  <2>1. at # "popped" => Drawn = g + 0
    BY DEF Drawn
  <2> QED
    BY <1>1, <2>1
<1>6. ASSUME strobe.ask # "write", frame.reg = "tx" => frame.writes = <<>>,
             Drawn \in Nat, Drawn >= g
      PROVE  /\ PutIn \in Nat /\ Fits(Drawn, PutIn, QueueAsk, PutIn + 1)
             /\ \A reg : ~Writes(reg)
  <2>1. \A reg : ~Writes(reg)
    BY <1>6 DEF Writes
  <2>2. Unwritten = 0
    BY <1>6 DEF Unwritten
  <2>3. PutIn = local.sent - 0
    BY <2>2 DEF PutIn
  <2>4. QueueAsk # "tx"
    BY <1>2, <2>1
  <2> QED
    BY <1>1, <1>4, <1>6, <2>1, <2>3, <2>4
<1>7. CASE at # "popped" /\ (AtRest \/ Asking)
  <2>1. /\ strobe.ask # "write" /\ (frame.reg = "tx" => frame.writes = <<>>)
        /\ ~(strobe.ask = "read" /\ frame.reg = "rx")
    BY <1>3, <1>7 DEF AtRest, Asking
  <2>2. /\ PutIn \in Nat /\ Fits(Drawn, PutIn, QueueAsk, PutIn + 1) /\ \A reg : ~Writes(reg)
    BY <1>5, <1>6, <1>7, <2>1
  <2>3. QueueAsk = "none" /\ Pops = 0 /\ Puts = 0
    BY <1>2, <1>7, <2>1, <2>2 DEF Pops, Puts
  <2> QED
    BY <1>5, <1>7, <2>2, <2>3
<1>8. CASE at = "level" /\ frame.reg = "tx" /\ Telling /\ Pushing
  <2>1. /\ strobe.ask \in {"none", "write"} /\ ~Writes("control") /\ ~Writes("select")
        /\ Writes("tx") <=> strobe.ask = "write"
    BY <1>3, <1>8 DEF Telling, Writes
  <2>2. /\ QueueAsk = (IF strobe.ask = "write" THEN "tx" ELSE "none")
        /\ Pops = 0 /\ Puts = (IF strobe.ask = "write" THEN 1 ELSE 0)
    BY <1>2, <1>8, <2>1 DEF Pops, Puts
  <2>3. PICK n \in Nat : n = Len(frame.writes)
    BY <1>8, LenProperties DEF Pushing
  <2>4. /\ Unwritten = n + Puts /\ Unwritten <= local.sent
        /\ strobe.ask = "write" => strobe.value.n = local.sent - n
    <3>1. Unwritten = n + (IF strobe.ask = "write" THEN 1 ELSE 0)
      BY <1>8, <2>3 DEF Unwritten
    <3>2. Unwritten = n + Puts
      BY <2>2, <3>1
    <3>3. /\ Unwritten <= local.sent
          /\ strobe.ask = "write" => strobe.value = Is(local.sent - n)
      BY <1>8, <2>3 DEF Pushing
    <3> QED
      BY <3>2, <3>3 DEF Is
  <2>5. PICK u \in Nat : u = n + Puts /\ u <= local.sent /\ PutIn = local.sent - u
                         /\ (QueueAsk = "tx" => u > 0 /\ strobe.value.n = local.sent - u + 1)
    <3>1. CASE strobe.ask = "write"
      <4>1. Puts = 1 /\ n + 1 \in Nat /\ PutIn = local.sent - (n + 1) /\ n + 1 <= local.sent
        BY <2>2, <2>4, <3>1 DEF PutIn
      <4>2. strobe.value.n = local.sent - (n + 1) + 1
        BY <1>1, <2>4, <3>1
      <4> QED
        BY <4>1, <4>2
    <3>2. CASE strobe.ask # "write"
      <4>1. Puts = 0 /\ n + 0 = n /\ PutIn = local.sent - n /\ n <= local.sent /\ QueueAsk # "tx"
        BY <2>2, <2>4, <3>2 DEF PutIn
      <4> QED
        BY <4>1
    <3> QED
      BY <3>1, <3>2
  <2>6. PutIn \in Nat /\ Fits(Drawn, PutIn, QueueAsk, PutIn + 1)
    BY <1>4, <1>5, <1>8, <2>5
  <2>7. QueueAsk = "tx" => strobe.value.n = PutIn + 1
    BY <1>1, <2>5
  <2> QED
    BY <1>5, <1>8, <2>1, <2>2, <2>6, <2>7
<1>9. CASE at = "popped" /\ Popping
  <2>1. /\ strobe \in {NoStrobe, ReadStrobe} /\ frame.reg = "rx"
        /\ frame.reads \in Nat /\ frame.reads + Pops <= Len(Source)
        /\ Unpopped <= Len(reply) /\ reply \in Seq(Pairs) /\ Len(reply) \in Nat
    BY <1>9, LenProperties DEF Popping, Pops
  <2>2. Drawn \in Nat /\ Drawn >= g
    <3>1. Drawn = g + (Len(reply) - Unpopped)
      BY <1>9 DEF Drawn
    <3>2. Unpopped \in Nat
      BY DEF Unpopped
    <3> QED
      BY <1>1, <2>1, <3>1, <3>2
  <2>3. /\ PutIn \in Nat /\ Fits(Drawn, PutIn, QueueAsk, PutIn + 1) /\ \A reg : ~Writes(reg)
    BY <1>3, <1>6, <2>1, <2>2
  <2>4. /\ QueueAsk = (IF strobe = ReadStrobe THEN "rx_pop" ELSE "none")
        /\ Pops = (IF strobe = ReadStrobe THEN 1 ELSE 0) /\ Puts = 0
    BY <1>2, <1>3, <1>9, <2>1, <2>3 DEF Pops, Puts
  <2>5. QueueAsk = "rx_pop" => rx[0] # <<>>
    <3>1. Source = rx[0]
      BY DEF Source, ExchangeJob
    <3>2. QueueAsk = "rx_pop" => Len(rx[0]) > 0
      BY <1>1, <2>1, <2>4, <3>1
    <3> QED
      BY <3>2
  <2> QED
    BY <2>2, <2>3, <2>4, <2>5
<1> QED
  BY <1>7, <1>8, <1>9 DEF ExchangeJob

\* The words of an exchange go on, whatever the host's step.
LEMMA ExchangeGoesOn ==
  ASSUME QueueTypes, ExchangeJob, at # "load", Next, NEW d \in Nat, NEW w \in Nat,
         d = Drawn + Pops, w = PutIn + Puts
  PROVE  /\ QueueTypes' /\ ~route' /\ select' = 0 /\ Answered(d, w)'
         /\ Drawn \in Nat /\ PutIn \in Nat /\ Pops \in Nat /\ Puts \in Nat
         /\ Source = rx[select] /\ Source \in Seq(Nat) /\ Source' \in Seq(Nat)
         /\ Run(Source, Drawn) /\ PutIn >= Drawn + Len(Source)
         /\ Len(Source') >= Len(Source) - Pops
<1>1. ~route /\ select = 0 /\ Answered(Drawn, PutIn)
  BY DEF ExchangeJob, ExchangeFlow
<1>2. /\ Drawn \in Nat /\ PutIn \in Nat /\ ~Writes("control") /\ ~Writes("select")
      /\ QueueAsk \in {"none", "tx", "rx_pop"} /\ Pops \in Nat /\ Puts \in Nat
      /\ Pops = (IF QueueAsk = "rx_pop" THEN 1 ELSE 0)
      /\ Puts = (IF QueueAsk = "tx" THEN 1 ELSE 0)
      /\ QueueAsk = "tx" => strobe.value.n = PutIn + 1
      /\ QueueAsk = "rx_pop" => rx[0] # <<>>
      /\ Fits(Drawn, PutIn, QueueAsk, PutIn + 1)
  BY ExchangeAsks
<1>3. PICK p \in Nat : p = Drawn
  BY <1>2
<1>4. PICK s \in Nat : s = PutIn
  BY <1>2
<1>5. PICK value \in Nat : value = PutIn + 1
  BY <1>2
<1>6. PICK popped \in Nat : popped = Pops
  BY <1>2
<1>7. PICK put \in Nat : put = Puts
  BY <1>2
<1>8. /\ ~route /\ select = 0 /\ ~Writes("control")
      /\ QueueAsk \in {"none", "tx", "rx_pop"} /\ (QueueAsk = "rx_pop" => rx[0] # <<>>)
      /\ Answered(p, s) /\ Fits(p, s, QueueAsk, value)
      /\ QueueAsk = "tx" => value = strobe.value.n
      /\ popped = (IF QueueAsk = "rx_pop" THEN 1 ELSE 0)
      /\ put = (IF QueueAsk = "tx" THEN 1 ELSE 0)
  BY <1>1, <1>2, <1>3, <1>4, <1>5, <1>6, <1>7
<1>9. /\ QueueTypes' /\ ~route' /\ Answered(p + popped, s + put)'
      /\ Len(rx'[0]) >= Len(rx[0]) - popped
  BY <1>8, ExchangeCycle
<1>10. d = p + popped /\ w = s + put
  BY <1>3, <1>4, <1>6, <1>7
<1>11. select' = 0
  BY <1>1, <1>2, NextDoes
<1>12. /\ Source = rx[select] /\ Source' = rx'[0] /\ Source = rx[0]
       /\ Source \in Seq(Nat) /\ Source' \in Seq(Nat)
  BY <1>1, <1>9 DEF Source, QueueTypes, Engines
<1>13. Run(Source, Drawn) /\ PutIn >= Drawn + Len(Source)
  <2>1. /\ Run(Source, Drawn)
        /\ PutIn = Drawn + Len(Source) + Carried(hold[0]) + Len(tx[0])
    BY <1>1, <1>12 DEF Answered, Line
  <2>2. Len(Source) \in Nat /\ Len(tx[0]) \in Nat /\ Carried(hold[0]) \in Nat
    BY <1>12, LenProperties DEF QueueTypes, Engines, Carried
  <2> QED
    BY <1>2, <2>1, <2>2
<1> QED
  BY <1>2, <1>6, <1>9, <1>10, <1>11, <1>12, <1>13

\* The flow holds on when what the host has popped and put in is what the queues did.
LEMMA ExchangeFlows ==
  ASSUME QueueTypes, ExchangeJob, at # "load", Next,
         Drawn' = Drawn + Pops, PutIn' = PutIn + Puts,
         local'.sent - Len(local'.got) <= ExchangeDepth
  PROVE  QueueTypes' /\ ~route' /\ ExchangeFlow'
<1>1. Drawn \in Nat /\ PutIn \in Nat /\ Pops \in Nat /\ Puts \in Nat
  BY ExchangeAsks
<1>2. PICK d \in Nat : d = Drawn + Pops
  BY <1>1
<1>3. PICK w \in Nat : w = PutIn + Puts
  BY <1>1
<1>4. QueueTypes' /\ ~route' /\ select' = 0 /\ Answered(d, w)'
  BY <1>2, <1>3, ExchangeGoesOn
<1>5. Answered(Drawn, PutIn)'
  BY <1>2, <1>3, <1>4 DEF Answered
<1> QED
  BY <1>4, <1>5 DEF ExchangeFlow

\* An exchange's frames, byte by byte.
LEMMA ExchangeBytes ==
  ASSUME QueueTypes, job = "exchange", ExchangeJob, at # "load", Next, Quiet \/ Byte
  PROVE  QueueTypes' /\ ExchangeJob' /\ Counts
<1>1. /\ ~route /\ at \in {"room", "level", "any", "status", "popped", "done"}
      /\ DOMAIN local = {"k", "sent", "level", "got"}
      /\ local.sent \in 0 .. Words /\ local.sent \in Nat /\ local.sent <= Words /\ Words \in Nat
      /\ local.level \in Nat
      /\ local.got \in Seq(Pairs) /\ Answers(local.got, 0) /\ Len(local.got) \in Nat
      /\ local.sent - Len(local.got) <= ExchangeDepth
      /\ at \in {"room", "done"} \/ (at = "level" /\ frame.reg # "tx") => AtRest
      /\ at = "level" /\ frame.reg = "tx" => Telling /\ Pushing
      /\ at \in {"any", "status"} => Asking
      /\ at = "popped" => Popping
  BY QueuesAssumption, LenProperties DEF ExchangeJob, ExchangeFlow
<1>2. /\ Drawn \in Nat /\ PutIn \in Nat /\ Pops \in Nat /\ Puts \in Nat
      /\ Source = rx[select] /\ Source \in Seq(Nat) /\ Source' \in Seq(Nat)
      /\ Run(Source, Drawn) /\ PutIn >= Drawn + Len(Source)
      /\ Len(Source') >= Len(Source) - Pops
      /\ Len(Source) \in Nat /\ Len(Source') \in Nat
  <2>1. Drawn \in Nat /\ PutIn \in Nat /\ Pops \in Nat /\ Puts \in Nat
    BY ExchangeAsks
  <2>2. PICK d \in Nat, w \in Nat : d = Drawn + Pops /\ w = PutIn + Puts
    BY <2>1
  <2> QED
    BY <2>1, <2>2, ExchangeGoesOn, LenProperties
<1>3. /\ NoStrobe.ask = "none" /\ ReadStrobe.ask = "read" /\ NoStrobe # ReadStrobe
  BY DEF NoStrobe, ReadStrobe
<1>4. job' = job
  BY NextDoes
<1>5. SentWords = local.sent - (IF frame.reg = "tx" THEN Len(frame.writes) ELSE 0)
  BY DEF SentWords
<1>6. SentWords' = local'.sent - (IF frame'.reg = "tx" THEN Len(frame'.writes) ELSE 0)
  BY <1>4 DEF SentWords
<1>7. ASSUME UNCHANGED <<at, local>>, at # "popped" PROVE Pops = 0 /\ UNCHANGED <<Drawn, GotCount>>
  BY <1>7 DEF Pops, Drawn, GotCount
<1>8. ASSUME UNCHANGED <<at, local>>, frame'.reg = frame.reg, frame.reg # "tx"
      PROVE  Puts = 0 /\ UNCHANGED <<PutIn, SentWords>>
  BY <1>5, <1>6, <1>8 DEF Puts, PutIn, Unwritten
\* Bytes leave the program where it was.
<1>9. ASSUME UNCHANGED <<at, local>>, Drawn' = Drawn + Pops, PutIn' = PutIn + Puts
      PROVE  /\ QueueTypes' /\ ~route' /\ ExchangeFlow'
  BY <1>1, <1>9, ExchangeFlows
<1>10. CASE AtRest /\ (at \in {"room", "done"} \/ (at = "level" /\ frame.reg # "tx"))
  <2>1. AtRest' /\ UNCHANGED <<state, strobe, frame, reply, at, local>>
    BY <1>10, RestBytes
  <2>2. Pops = 0 /\ Puts = 0 /\ UNCHANGED <<Drawn, PutIn, GotCount, SentWords>>
    <3>1. Pops = 0 /\ UNCHANGED <<Drawn, GotCount>>
      BY <1>7, <1>10, <2>1
    <3>2. Puts = 0
      BY <1>3, <1>10 DEF Puts, AtRest
    <3>3. UNCHANGED <<PutIn, SentWords>>
      BY <1>5, <1>6, <2>1 DEF PutIn, Unwritten
    <3> QED
      BY <3>1, <3>2, <3>3
  <2>3. Drawn' = Drawn + Pops /\ PutIn' = PutIn + Puts
    BY <1>2, <2>2
  <2>4. QueueTypes' /\ ~route' /\ ExchangeFlow'
    BY <1>9, <2>1, <2>3
  <2>5. ExchangeJob'
    BY <1>1, <1>10, <2>1, <2>4 DEF ExchangeJob
  <2> QED
    BY <2>2, <2>4, <2>5 DEF Counts
<1>11. CASE at \in {"any", "status"} /\ Asking
  <2>1. /\ at # "popped" /\ frame.reg # "tx"
    BY <1>11 DEF Asking
  <2>2. Len(Source') >= Len(Source)
    BY <1>2, <2>1 DEF Pops
  <2>3. Asking' /\ UNCHANGED <<at, local>> /\ frame'.reg = frame.reg
    BY <1>2, <1>11, <2>2, AskingBytes
  <2>4. Pops = 0 /\ Puts = 0 /\ UNCHANGED <<Drawn, PutIn, GotCount, SentWords>>
    BY <1>7, <1>8, <2>1, <2>3
  <2>5. Drawn' = Drawn + Pops /\ PutIn' = PutIn + Puts
    BY <1>2, <2>4
  <2>6. QueueTypes' /\ ~route' /\ ExchangeFlow'
    BY <1>9, <2>3, <2>5
  <2>7. ExchangeJob'
    BY <1>1, <1>11, <2>3, <2>6 DEF ExchangeJob
  <2> QED
    BY <2>4, <2>6, <2>7 DEF Counts
<1>12. CASE at = "popped" /\ Popping
  <2>1. /\ frame.reg = "rx" /\ Pops = (IF strobe = ReadStrobe THEN 1 ELSE 0)
        /\ frame.writes = <<>> /\ reply \in Seq(Pairs) /\ Len(reply) \in Nat
    BY <1>12, LenProperties DEF Popping, Pops
  <2>2. /\ Popping' /\ UNCHANGED <<at, local>> /\ frame'.reg = frame.reg
        /\ Drawn' = Drawn + Pops
        /\ \/ Len(reply') = Len(reply)
           \/ Len(reply') = Len(reply) + 1 /\ Source # <<>> /\ Drawn = Len(local.got) + Len(reply)
    BY <1>1, <1>2, <1>12, <2>1, PoppingBytes
  <2>3. Puts = 0 /\ UNCHANGED <<PutIn, SentWords>>
    BY <1>8, <2>1, <2>2
  <2>4. PutIn' = PutIn + Puts
    BY <1>2, <2>3
  <2>5. QueueTypes' /\ ~route' /\ ExchangeFlow'
    BY <1>9, <2>2, <2>4
  <2>6. ExchangeJob'
    BY <1>1, <1>12, <2>2, <2>5 DEF ExchangeJob
  <2>7. GotCount = Len(local.got) + Len(reply) /\ GotCount' = Len(local.got) + Len(reply')
    BY <1>12, <2>2 DEF GotCount
  <2>8. SentWords = PutIn
    <3>1. SentWords = local.sent - 0 /\ PutIn = local.sent - 0
      BY <1>5, <2>1 DEF PutIn, Unwritten
    <3> QED
      BY <3>1
  <2>9. GotCount' = GotCount \/ (GotCount' = GotCount + 1 /\ GotCount < SentWords)
    <3>1. CASE Len(reply') = Len(reply)
      BY <2>7, <3>1
    <3>2. CASE Len(reply') = Len(reply) + 1 /\ Source # <<>> /\ Drawn = Len(local.got) + Len(reply)
      <4>1. Len(Source) > 0
        BY <1>2, <3>2
      <4>2. GotCount = Drawn /\ Drawn < PutIn
        <5>1. \A a, b, c \in Nat : c >= a + b /\ b > 0 => a < c
          OBVIOUS
        <5>2. Drawn < PutIn
          BY <1>2, <4>1, <5>1
        <5>3. GotCount = Drawn
          BY <2>7, <3>2
        <5> QED
          BY <5>2, <5>3
      <4>3. GotCount' = GotCount + 1
        BY <1>1, <2>1, <2>7, <3>2
      <4> QED
        BY <2>8, <4>2, <4>3
    <3> QED
      BY <2>2, <3>1, <3>2
  <2> QED
    BY <2>3, <2>5, <2>6, <2>9 DEF Counts
<1>13. CASE at = "level" /\ frame.reg = "tx" /\ Telling /\ Pushing
  <2>1. /\ Telling' /\ UNCHANGED <<at, local, reply>> /\ frame'.reg = frame.reg
        /\ \/ UNCHANGED <<frame, strobe>> /\ strobe.ask = "none"
           \/ /\ strobe.ask = "none" /\ frame.writes # <<>>
              /\ strobe' = [ask |-> "write", value |-> Head(frame.writes)]
              /\ frame'.writes = Tail(frame.writes)
           \/ /\ strobe.ask = "write" /\ strobe' = NoStrobe /\ UNCHANGED frame
    BY <1>13, TellingBytes
  <2>2. Pops = 0 /\ UNCHANGED <<Drawn, GotCount>> /\ Drawn' = Drawn + Pops
    <3>1. Pops = 0 /\ UNCHANGED <<Drawn, GotCount>>
      BY <1>7, <1>13, <2>1
    <3> QED
      BY <1>2, <3>1
  <2>3. /\ frame.writes \in Seq(Said) /\ Len(frame.writes) \in Nat /\ Unwritten <= local.sent
        /\ \A i \in 1 .. Len(frame.writes) :
             frame.writes[i] = Is(local.sent - Len(frame.writes) + i)
        /\ strobe.ask = "write" => strobe.value = Is(local.sent - Len(frame.writes))
    BY <1>13, LenProperties DEF Pushing
  <2>4. /\ Unwritten = Len(frame.writes) + Puts
        /\ Unwritten' = Len(frame'.writes) + Puts'
        /\ PutIn = local.sent - Unwritten /\ PutIn' = local.sent - Unwritten'
        /\ Puts = (IF strobe.ask = "write" THEN 1 ELSE 0)
        /\ Puts' = (IF strobe'.ask = "write" THEN 1 ELSE 0)
        /\ SentWords = local.sent - Len(frame.writes)
        /\ SentWords' = local.sent - Len(frame'.writes)
    BY <1>5, <1>6, <1>13, <2>1 DEF PutIn, Unwritten, Puts
  <2>5. /\ PutIn' = PutIn + Puts /\ Pushing'
        /\ SentWords' = SentWords \/ (SentWords' = SentWords + 1 /\ SentWords < Words)
    <3>1. CASE UNCHANGED <<frame, strobe>> /\ strobe.ask = "none"
      <4>1. Puts = 0 /\ UNCHANGED <<Unwritten, PutIn, SentWords>>
        BY <2>1, <2>4, <3>1 DEF Unwritten
      <4>2. PutIn' = PutIn + Puts
        BY <1>2, <4>1
      <4>3. Pushing'
        BY <2>1, <2>3, <3>1, <4>1 DEF Pushing
      <4> QED
        BY <4>1, <4>2, <4>3
    <3>2. CASE /\ strobe.ask = "none" /\ frame.writes # <<>>
               /\ strobe' = [ask |-> "write", value |-> Head(frame.writes)]
               /\ frame'.writes = Tail(frame.writes)
      <4>1. PICK n \in Nat : n = Len(frame.writes) /\ n > 0
        BY <2>3, <3>2
      <4>2. /\ frame'.writes \in Seq(Said) /\ Len(frame'.writes) = n - 1
            /\ \A i \in 1 .. n - 1 : frame'.writes[i] = frame.writes[i + 1]
            /\ Head(frame.writes) = frame.writes[1]
        BY <2>3, <3>2, <4>1
      <4>3. Puts = 0 /\ Puts' = 1
        BY <2>4, <3>2
      <4>4. Unwritten = n + 0 /\ Unwritten' = (n - 1) + 1 /\ n <= local.sent
        <5>1. Unwritten = n + 0
          BY <2>4, <4>1, <4>3
        <5>2. Unwritten' = (n - 1) + 1
          BY <2>4, <4>2, <4>3
        <5>3. n + 0 <= local.sent
          BY <2>3, <5>1
        <5> QED
          BY <1>1, <4>1, <5>1, <5>2, <5>3
      <4>5. UNCHANGED Unwritten /\ Unwritten' <= local'.sent /\ PutIn' = PutIn + Puts
        <5>1. Unwritten' = Unwritten
          BY <4>1, <4>4
        <5>2. PutIn' = PutIn
          BY <2>1, <2>4, <5>1
        <5>3. PutIn' = PutIn + 0
          BY <1>2, <5>2
        <5> QED
          BY <2>1, <2>3, <4>3, <5>1, <5>3
      <4>6. SentWords' = SentWords + 1 /\ SentWords < Words
        BY <1>1, <2>4, <4>1, <4>2, <4>4
      <4>7. strobe'.value = Is(local'.sent - Len(frame'.writes))
        <5>1. local.sent - n + 1 = local.sent - (n - 1)
          BY <1>1, <4>1
        <5>2. frame.writes[1] = Is(local.sent - n + 1)
          BY <2>3, <4>1
        <5> QED
          BY <2>1, <3>2, <4>2, <5>1, <5>2
      <4>8. ASSUME NEW i \in 1 .. Len(frame'.writes)
            PROVE  frame'.writes[i] = Is(local'.sent - Len(frame'.writes) + i)
        <5>1. i \in 1 .. n - 1 /\ i + 1 \in 1 .. n
          BY <4>1, <4>2, <4>8
        <5>2. local.sent - n + (i + 1) = local.sent - (n - 1) + i
          <6>1. \A a, b, j \in Int : a - b + (j + 1) = a - (b - 1) + j
            OBVIOUS
          <6>2. local.sent \in Int /\ n \in Int /\ i \in Int
            BY <1>1, <4>1, <5>1
          <6> QED
            BY <6>1, <6>2
        <5>3. frame.writes[i + 1] = Is(local.sent - n + (i + 1))
          BY <2>3, <4>1, <5>1
        <5> QED
          BY <2>1, <4>2, <5>1, <5>2, <5>3
      <4>9. Pushing'
        BY <4>2, <4>5, <4>7, <4>8 DEF Pushing
      <4> QED
        BY <4>5, <4>6, <4>9
    <3>3. CASE strobe.ask = "write" /\ strobe' = NoStrobe /\ UNCHANGED frame
      <4>1. PICK n \in Nat : n = Len(frame.writes)
        BY <2>3
      <4>2. Puts = 1 /\ Puts' = 0 /\ UNCHANGED SentWords
        BY <1>3, <2>4, <3>3
      <4>3. Unwritten = n + 1 /\ Unwritten' = n + 0 /\ n + 1 <= local.sent
        BY <2>3, <2>4, <3>3, <4>1, <4>2
      <4>4. PutIn' = PutIn + Puts /\ Unwritten' <= local'.sent
        <5>1. \A a, b \in Int : a - (b + 0) = a - (b + 1) + 1
          OBVIOUS
        <5>2. local.sent \in Int /\ n \in Int
          BY <1>1, <4>1
        <5>3. PutIn = local.sent - (n + 1) /\ PutIn' = local.sent - (n + 0)
          BY <2>1, <2>4, <4>3
        <5>4. PutIn' = PutIn + Puts
          BY <4>2, <5>1, <5>2, <5>3
        <5>5. n + 0 <= local.sent
          BY <4>1, <4>3, <5>2
        <5> QED
          BY <2>1, <4>3, <5>4, <5>5
      <4>5. Pushing'
        BY <1>3, <2>1, <2>3, <3>3, <4>4 DEF Pushing
      <4> QED
        BY <4>2, <4>4, <4>5
    <3> QED
      BY <2>1, <3>1, <3>2, <3>3
  <2>6. QueueTypes' /\ ~route' /\ ExchangeFlow'
    BY <1>9, <2>1, <2>2, <2>5
  <2>7. ExchangeJob'
    BY <1>1, <1>13, <2>1, <2>5, <2>6 DEF ExchangeJob
  <2> QED
    BY <2>2, <2>5, <2>6, <2>7 DEF Counts
<1> QED
  BY <1>1, <1>10, <1>11, <1>12, <1>13

\* Between two frames, with the next to begin.
LEMMA Begins ==
  ASSUME Between, Program
  PROVE  /\ Pops = 0 /\ Puts = 0 /\ strobe = NoStrobe /\ strobe' = NoStrobe
         /\ frame.reads = 0 /\ frame.writes = <<>> /\ Unwritten = 0
         /\ IsLatched /\ TheWord = reply[1][1]
         /\ \A reg, count : Read(reg, count) =>
              /\ frame' = [reg |-> reg, writes |-> <<>>, reads |-> count] /\ IsAFrame'
              /\ frame'.reg = reg /\ frame'.writes = <<>> /\ frame'.reads = count
              /\ state' = "Command" /\ reply' = <<>> /\ Unwritten' = 0
         /\ \A reg, values : Write(reg, values) =>
              /\ frame' = [reg |-> reg, writes |-> values, reads |-> 0] /\ IsAFrame'
              /\ frame'.reg = reg /\ frame'.writes = values /\ frame'.reads = 0
              /\ state' = "Command" /\ reply' = <<>>
         /\ Stays => UNCHANGED <<frame, state, reply, Unwritten>>
<1>1. /\ strobe = NoStrobe /\ frame.reads = 0 /\ frame.writes = <<>>
      /\ strobe.ask = "none" /\ strobe # ReadStrobe
  BY DEF Between, NoStrobe, ReadStrobe
<1>2. strobe' = strobe
  BY DEF Program, Load, Select, Push, Stray, Level, AnyLevel, Pop, Popped, NowHi, NowLo, NowAgain,
     NowSame, WatchMask, WatchControl, TimeHi, TimeLo, PinsLo, PinsHi, Stamp, Stamped,
     Stays, Write, Read
<1>3. Pops = 0 /\ Puts = 0 /\ Unwritten = 0 /\ IsLatched /\ TheWord = reply[1][1]
  BY <1>1 DEF Pops, Puts, Unwritten, IsLatched, TheWord
<1>4. ASSUME NEW reg, NEW count, Read(reg, count)
      PROVE  /\ frame' = [reg |-> reg, writes |-> <<>>, reads |-> count] /\ IsAFrame'
             /\ frame'.reg = reg /\ frame'.writes = <<>> /\ frame'.reads = count
             /\ state' = "Command" /\ reply' = <<>> /\ Unwritten' = 0
  <2>1. frame' = [reg |-> reg, writes |-> <<>>, reads |-> count] /\ state' = "Command" /\ reply' = <<>>
    BY <1>4 DEF Read
  <2>2. Unwritten' = 0
    BY <1>1, <1>2, <2>1 DEF Unwritten
  <2> QED
    BY <2>1, <2>2 DEF IsAFrame
<1>5. ASSUME NEW reg, NEW values, Write(reg, values)
      PROVE  /\ frame' = [reg |-> reg, writes |-> values, reads |-> 0] /\ IsAFrame'
             /\ frame'.reg = reg /\ frame'.writes = values /\ frame'.reads = 0
             /\ state' = "Command" /\ reply' = <<>>
  BY <1>5 DEF Write, IsAFrame
<1>6. Stays => UNCHANGED <<frame, state, reply, Unwritten>>
  BY <1>2 DEF Stays, Unwritten
<1> QED
  BY <1>1, <1>2, <1>3, <1>4, <1>5, <1>6

\* A frame that asks for a level.
LEMMA AsksLevel ==
  ASSUME Between, Program, Read("status", 1)
  PROVE  Asking'
<1>1. /\ strobe' = NoStrobe /\ IsAFrame'
      /\ frame'.reg = "status" /\ frame'.writes = <<>> /\ frame'.reads = 1
      /\ state' = "Command" /\ reply' = <<>>
  BY Begins
<1>2. OneWordReads' /\ ~IsLatched'
  BY <1>1 DEF OneWordReads, IsLatched
<1> QED
  BY <1>1, <1>2 DEF Asking

\* A frame that pops as many words as there are, or fewer.
LEMMA PopsWords ==
  ASSUME Between, Program, NEW count \in Nat, count > 0, Read("rx", count),
         Source' \in Seq(Nat), count <= Len(Source'), local' = local
  PROVE  Popping' /\ Unpopped' = 0
<1>1. /\ strobe' = NoStrobe /\ IsAFrame'
      /\ frame'.reg = "rx" /\ frame'.writes = <<>> /\ frame'.reads = count
      /\ state' = "Command" /\ reply' = <<>>
  BY Begins
<1>2. Unpopped' = 0 /\ Len(reply') = 0 /\ reply' \in Seq(Pairs) /\ strobe' # ReadStrobe
  BY <1>1 DEF Unpopped, NoStrobe, ReadStrobe
<1>3. Answers(reply, Len(local.got))'
  BY <1>2 DEF Answers
<1>4. frame'.reads + (IF strobe' = ReadStrobe THEN 1 ELSE 0) <= Len(Source')
  BY <1>1, <1>2
<1> QED
  BY <1>1, <1>2, <1>3, <1>4 DEF Popping, ReadStrobe, NoStrobe

\* A reply is complete.
LEMMA PoppedAll ==
  ASSUME Popping, Between
  PROVE  /\ state = "High" /\ Unpopped = 0
         /\ reply \in Seq(Pairs) /\ Len(reply) \in Nat /\ Answers(reply, Len(local.got))
         /\ AtRest /\ frame.reg = "rx"
<1>1. /\ strobe = NoStrobe /\ frame.reads = 0 /\ frame.writes = <<>> /\ strobe.ask = "none"
  BY DEF Between, NoStrobe
<1>2. state = "High"
  BY <1>1 DEF Popping
<1> QED
  BY <1>1, <1>2, LenProperties DEF Popping, Unpopped, AtRest

\* The words a frame of an exchange is given to push.
LEMMA PushesWords ==
  ASSUME NEW b \in Nat, NEW n \in Nat, NEW values, values = [k \in 1 .. n |-> Is(b + k)]
  PROVE  /\ values \in Seq(Said) /\ Len(values) = n
         /\ \A i \in 1 .. n : values[i] = Is(b + i)
<1>1. \A k \in 1 .. n : Is(b + k) \in Said
  BY DEF Is, Said
<1> QED
  BY <1>1

\* An exchange's program past its load, step by step.
LEMMA ExchangeProgram ==
  ASSUME QueueTypes, job = "exchange", ExchangeJob, at # "load", Next, Program
  PROVE  QueueTypes' /\ ExchangeJob' /\ Counts
<1>1. /\ ~route /\ at \in {"room", "level", "any", "status", "popped", "done"}
      /\ DOMAIN local = {"k", "sent", "level", "got"}
      /\ local.sent \in 0 .. Words /\ local.sent \in Nat /\ local.sent <= Words /\ Words \in Nat
      /\ local.level \in Nat /\ ExchangeDepth \in Nat
      /\ local.got \in Seq(Pairs) /\ Answers(local.got, 0) /\ Len(local.got) \in Nat
      /\ local.sent - Len(local.got) <= ExchangeDepth
  BY QueuesAssumption, HostPortAssumption, LenProperties DEF ExchangeJob, ExchangeFlow
<1>p. /\ at \in {"room", "done"} \/ (at = "level" /\ frame.reg # "tx") => AtRest
      /\ at = "level" /\ frame.reg = "tx" => Telling /\ Pushing
      /\ at \in {"any", "status"} => Asking
      /\ at = "popped" => Popping
  BY <1>1 DEF ExchangeJob
<1>b. /\ Between
      /\ Push \/ Level \/ AnyLevel \/ Pop \/ Popped
  BY <1>1 DEF Program, Load, Select, Push, Stray, Level, AnyLevel, Pop, Popped, NowHi, NowLo,
     NowAgain, NowSame, WatchMask, WatchControl, TimeHi, TimeLo, PinsLo, PinsHi, Stamp, Stamped
<1>2. /\ Drawn \in Nat /\ PutIn \in Nat /\ Source \in Seq(Nat) /\ Source' \in Seq(Nat)
      /\ Pops = 0 /\ Puts = 0 /\ Len(Source) \in Nat /\ Len(Source') \in Nat
      /\ Len(Source') >= Len(Source)
  <2>1. Drawn \in Nat /\ PutIn \in Nat /\ Pops \in Nat /\ Puts \in Nat /\ Pops = 0 /\ Puts = 0
    BY <1>b, ExchangeAsks, Begins
  <2>2. PICK d \in Nat, w \in Nat : d = Drawn + Pops /\ w = PutIn + Puts
    BY <2>1
  <2>3. /\ Source \in Seq(Nat) /\ Source' \in Seq(Nat) /\ Len(Source') >= Len(Source) - Pops
    BY <2>2, ExchangeGoesOn
  <2>4. Len(Source) \in Nat /\ Len(Source') \in Nat
    BY <2>3, LenProperties
  <2> QED
    BY <2>1, <2>3, <2>4
<1>3. /\ strobe = NoStrobe /\ strobe' = NoStrobe
      /\ frame.reads = 0 /\ frame.writes = <<>> /\ Unwritten = 0
      /\ IsLatched /\ TheWord = reply[1][1]
      /\ Stays => UNCHANGED <<frame, state, reply, Unwritten>>
  BY <1>b, Begins
<1>4. job' = job
  BY NextDoes
<1>5. /\ SentWords = local.sent /\ PutIn = local.sent
  <2>1. SentWords = local.sent - 0 /\ PutIn = local.sent - 0
    BY <1>3 DEF SentWords, PutIn, Unwritten
  <2> QED
    BY <1>1, <2>1
<1>6. /\ SentWords' = local'.sent - (IF frame'.reg = "tx" THEN Len(frame'.writes) ELSE 0)
      /\ PutIn' = local'.sent - Unwritten'
  BY <1>4 DEF SentWords, PutIn
<1>7. at # "popped" => Drawn = Len(local.got) + 0 /\ GotCount = Len(local.got) + 0
  BY DEF Drawn, GotCount
<1>8. at' # "popped" => Drawn' = Len(local'.got) + 0 /\ GotCount' = Len(local'.got) + 0
  BY DEF Drawn, GotCount
\* Most steps send no word, and take none.
<1>9. ASSUME at # "popped", local'.got = local.got, local'.sent = local.sent,
             Unwritten' = 0, frame'.writes = <<>>,
             at' = "popped" => Unpopped' = 0 /\ reply' = <<>>
      PROVE  QueueTypes' /\ ~route' /\ ExchangeFlow' /\ Counts
  <2>1. Drawn' = Drawn /\ GotCount' = GotCount
    <3>1. CASE at' # "popped"
      BY <1>7, <1>8, <1>9, <3>1
    <3>2. CASE at' = "popped"
      <4>1. Drawn' = Len(local'.got) + (Len(reply') - Unpopped') /\ GotCount' = Len(local'.got) + Len(reply')
        BY <3>2 DEF Drawn, GotCount
      <4>2. Drawn' = Len(local.got) + (0 - 0) /\ GotCount' = Len(local.got) + 0
        BY <1>9, <3>2, <4>1
      <4> QED
        BY <1>1, <1>7, <1>9, <4>2
    <3> QED
      BY <3>1, <3>2
  <2>2. SentWords' = local.sent - 0 /\ PutIn' = local.sent - 0
    BY <1>6, <1>9
  <2>3. SentWords' = SentWords /\ PutIn' = PutIn
    BY <1>1, <1>5, <2>2
  <2>4. Drawn' = Drawn + Pops /\ PutIn' = PutIn + Puts
    BY <1>2, <2>1, <2>3
  <2>5. local'.sent - Len(local'.got) <= ExchangeDepth
    BY <1>1, <1>9
  <2>6. QueueTypes' /\ ~route' /\ ExchangeFlow'
    BY <2>4, <2>5, ExchangeFlows
  <2> QED
    BY <2>1, <2>3, <2>6 DEF Counts
<1>10. CASE Level
  <2>1. at = "level" /\ Read("status", 1) /\ at' = "any" /\ local' = local
    BY <1>10 DEF Level, Goes
  <2>2. Asking' /\ Unwritten' = 0 /\ frame'.writes = <<>>
    BY <1>b, <2>1, AsksLevel, Begins
  <2>3. QueueTypes' /\ ~route' /\ ExchangeFlow' /\ Counts
    BY <1>9, <2>1, <2>2
  <2> QED
    BY <1>1, <2>1, <2>2, <2>3 DEF ExchangeJob
<1>11. CASE AnyLevel
  <2>1. at = "any" /\ Asking
    BY <1>p, <1>11 DEF AnyLevel
  <2>2. PICK level \in Nat : level = reply[1][1].n
    BY <1>3, <2>1 DEF Asking
  <2>3. CASE level > 0
    <3>1. Read("status", 1) /\ at' = "status" /\ local' = [local EXCEPT !.level = level]
      BY <1>11, <2>2, <2>3 DEF AnyLevel, Goes
    <3>2. /\ local'.got = local.got /\ local'.sent = local.sent /\ local'.level = level
          /\ DOMAIN local' = {"k", "sent", "level", "got"}
      BY <1>1, <3>1
    <3>3. Asking' /\ Unwritten' = 0 /\ frame'.writes = <<>>
      BY <1>b, <3>1, AsksLevel, Begins
    <3>4. QueueTypes' /\ ~route' /\ ExchangeFlow' /\ Counts
      BY <1>9, <2>1, <3>1, <3>2, <3>3
    <3> QED
      BY <1>1, <3>1, <3>2, <3>3, <3>4 DEF ExchangeJob
  <2>4. CASE ~(level > 0)
    <3>1. Stays /\ at' \in {"done", "room"} /\ local' = local
      BY <1>11, <2>2, <2>4 DEF AnyLevel, Goes
    <3>2. AtRest
      BY <1>3, <2>1 DEF Asking, AtRest, OneWordReads
    <3>3. AtRest' /\ Unwritten' = 0 /\ frame'.writes = <<>>
      BY <1>3, <3>1, <3>2 DEF AtRest, IsAFrame
    <3>4. QueueTypes' /\ ~route' /\ ExchangeFlow' /\ Counts
      BY <1>9, <2>1, <3>1, <3>3
    <3> QED
      BY <1>1, <3>1, <3>3, <3>4 DEF ExchangeJob
  <2> QED
    BY <2>3, <2>4
<1>12. CASE Pop
  <2>1. at = "status" /\ Asking
    BY <1>p, <1>12 DEF Pop
  <2>2. PICK level \in Nat : level = reply[1][1].n /\ level <= Len(Source)
    BY <1>3, <2>1 DEF Asking
  <2>3. PICK count \in Nat : count = PopCount(level) /\ count <= Len(Source')
    <3>1. PopCount(level) \in Nat /\ PopCount(level) <= level
      BY <1>1 DEF PopCount
    <3> QED
      BY <1>2, <2>2, <3>1
  <2>4. CASE count > 0
    <3>1. Read("rx", count) /\ at' = "popped" /\ local' = local
      BY <1>12, <2>2, <2>3, <2>4 DEF Pop, Goes
    <3>2. Popping' /\ Unpopped' = 0 /\ Unwritten' = 0 /\ frame'.writes = <<>> /\ reply' = <<>>
      BY <1>b, <1>2, <2>3, <2>4, <3>1, PopsWords, Begins
    <3>3. QueueTypes' /\ ~route' /\ ExchangeFlow' /\ Counts
      BY <1>9, <2>1, <3>1, <3>2
    <3> QED
      BY <1>1, <3>1, <3>2, <3>3 DEF ExchangeJob
  <2>5. CASE ~(count > 0)
    <3>1. Stays /\ at' = "level" /\ local' = local
      BY <1>12, <2>2, <2>3, <2>5 DEF Pop, Goes
    <3>2. AtRest /\ frame.reg = "status"
      BY <1>3, <2>1 DEF Asking, AtRest, OneWordReads
    <3>3. AtRest' /\ Unwritten' = 0 /\ frame'.writes = <<>> /\ frame'.reg = "status"
      BY <1>3, <3>1, <3>2 DEF AtRest, IsAFrame
    <3>4. QueueTypes' /\ ~route' /\ ExchangeFlow' /\ Counts
      BY <1>9, <2>1, <3>1, <3>3
    <3> QED
      BY <1>1, <3>1, <3>3, <3>4 DEF ExchangeJob
  <2> QED
    BY <2>4, <2>5
<1>13. CASE Popped
  <2>1. /\ at = "popped" /\ Stays /\ at' \in {"done", "room"}
        /\ local' = [local EXCEPT !.got = local.got \o reply]
    BY <1>13 DEF Popped, Goes
  <2>2. /\ Unpopped = 0 /\ reply \in Seq(Pairs) /\ Len(reply) \in Nat
        /\ Answers(reply, Len(local.got)) /\ AtRest /\ frame.reg = "rx"
    BY <1>b, <1>p, <2>1, PoppedAll
  <2>3. /\ local'.sent = local.sent /\ local'.level = local.level /\ local'.got = local.got \o reply
        /\ DOMAIN local' = {"k", "sent", "level", "got"}
    BY <1>1, <2>1
  <2>4. /\ local'.got \in Seq(Pairs) /\ Len(local'.got) = Len(local.got) + Len(reply)
        /\ Answers(local'.got, 0) /\ Answers(local.got, 0)'
    <3>1. /\ local'.got \in Seq(Pairs) /\ Len(local'.got) = Len(local.got) + Len(reply)
          /\ Answers(local'.got, 0)
      BY <1>1, <2>2, <2>3, AnswersConcat
    <3>2. Answers(local.got, 0)' <=> Answers(local'.got, 0)
      BY DEF Answers
    <3> QED
      BY <3>1, <3>2
  <2>5. AtRest' /\ Unwritten' = 0 /\ frame'.writes = <<>> /\ frame'.reg = "rx"
    BY <1>3, <2>1, <2>2 DEF AtRest, IsAFrame
  <2>6. Drawn' = Drawn /\ GotCount' = GotCount
    <3>1. Drawn = Len(local.got) + (Len(reply) - 0) /\ GotCount = Len(local.got) + Len(reply)
      BY <2>1, <2>2 DEF Drawn, GotCount
    <3>2. /\ Drawn' = Len(local.got) + Len(reply) + 0
          /\ GotCount' = Len(local.got) + Len(reply) + 0
      BY <1>8, <2>1, <2>4
    <3> QED
      BY <1>1, <2>2, <3>1, <3>2
  <2>7. SentWords' = local.sent - 0 /\ PutIn' = local.sent - 0
    BY <1>6, <2>3, <2>5
  <2>8. SentWords' = SentWords /\ PutIn' = PutIn + Puts /\ Drawn' = Drawn + Pops
    BY <1>1, <1>2, <1>5, <2>6, <2>7
  <2>9. local'.sent - Len(local'.got) <= ExchangeDepth
    <3>1. \A a, b, c, d \in Nat : a - b <= c => a - (b + d) <= c
      OBVIOUS
    <3> QED
      BY <1>1, <2>2, <2>3, <2>4, <3>1
  <2>10. QueueTypes' /\ ~route' /\ ExchangeFlow'
    BY <2>8, <2>9, ExchangeFlows
  <2>11. ExchangeJob'
    BY <1>1, <2>1, <2>3, <2>4, <2>5, <2>10 DEF ExchangeJob
  <2> QED
    BY <2>6, <2>8, <2>10, <2>11 DEF Counts
<1>14. CASE Push
  <2>1. at = "room" /\ AtRest
    BY <1>p, <1>14 DEF Push
  <2>2. PICK last \in Int :
          /\ last = IF local.sent + Room > Words THEN Words ELSE local.sent + Room
          /\ last <= Words /\ last - Len(local.got) <= ExchangeDepth
    <3>1. \A a, b, c \in Int : a + (b - (a - c)) - c = b
      OBVIOUS
    <3>2. Room \in Int /\ local.sent + Room - Len(local.got) = ExchangeDepth
      BY <1>1, <3>1 DEF Room
    <3>3. \A a, b, c \in Int : a <= b => a - c <= b - c
      OBVIOUS
    <3> QED
      BY <1>1, <3>2, <3>3
  <2>3. CASE last > local.sent
    <3> DEFINE values == [k \in 1 .. last - local.sent |-> Is(local.sent + k)]
    <3>1. Write("tx", values) /\ at' = "level" /\ local' = [local EXCEPT !.sent = last]
      BY <1>14, <2>2, <2>3 DEF Push, Goes
    <3>2. PICK n \in Nat : n = last - local.sent /\ n > 0 /\ last = local.sent + n
      BY <1>1, <2>2, <2>3
    <3>3. /\ values \in Seq(Said) /\ Len(values) = n
          /\ \A i \in 1 .. n : values[i] = Is(local.sent + i)
      <4>1. PICK b \in Nat : b = local.sent
        BY <1>1
      <4>2. values = [k \in 1 .. n |-> Is(b + k)]
        BY <3>2, <4>1
      <4> HIDE DEF values
      <4> QED
        BY <4>1, <4>2, PushesWords
    <3> HIDE DEF values
    <3>4. /\ frame'.writes = values /\ frame'.reg = "tx" /\ frame'.reads = 0 /\ IsAFrame'
          /\ state' = "Command"
      BY <1>b, <3>1, Begins
    <3>5. /\ local'.got = local.got /\ local'.sent = last /\ local'.level = local.level
          /\ DOMAIN local' = {"k", "sent", "level", "got"} /\ last \in 0 .. Words
      BY <1>1, <2>2, <2>3, <3>1
    <3>6. Unwritten' = n + 0
      BY <1>3, <3>3, <3>4 DEF Unwritten, NoStrobe
    <3>7. Telling'
      <4>1. frame'.writes # <<>>
        BY <3>2, <3>3, <3>4
      <4> QED
        BY <1>3, <3>4, <4>1 DEF Telling
    <3>8. Pushing'
      <4>1. Unwritten' <= local'.sent
        <5>1. n + 0 <= local.sent + n
          BY <1>1
        <5> QED
          BY <3>2, <3>5, <3>6, <5>1
      <4>2. last - n = local.sent /\ \A i \in 1 .. n : last - n + i = local.sent + i
        BY <1>1, <3>2
      <4>3. \A i \in 1 .. Len(frame'.writes) :
              frame'.writes[i] = Is(local'.sent - Len(frame'.writes) + i)
        BY <3>3, <3>4, <3>5, <4>2
      <4> QED
        BY <1>3, <3>3, <3>4, <4>1, <4>3 DEF Pushing, NoStrobe
    <3>9. SentWords' = local.sent /\ PutIn' = local.sent
      <4>1. SentWords' = last - n /\ PutIn' = last - (n + 0)
        BY <1>6, <3>3, <3>4, <3>5, <3>6
      <4> QED
        BY <1>1, <3>2, <4>1
    <3>10. Drawn' = Drawn /\ GotCount' = GotCount
      BY <1>7, <1>8, <2>1, <3>1, <3>5
    <3>11. Drawn' = Drawn + Pops /\ PutIn' = PutIn + Puts
      BY <1>2, <1>5, <3>9, <3>10
    <3>12. local'.sent - Len(local'.got) <= ExchangeDepth
      BY <2>2, <3>5
    <3>13. QueueTypes' /\ ~route' /\ ExchangeFlow'
      BY <3>11, <3>12, ExchangeFlows
    <3>14. ExchangeJob'
      BY <1>1, <3>1, <3>4, <3>5, <3>7, <3>8, <3>13 DEF ExchangeJob, Answers
    <3> QED
      BY <1>5, <3>9, <3>10, <3>13, <3>14 DEF Counts
  <2>4. CASE ~(last > local.sent)
    <3>1. Stays /\ at' = "level" /\ local' = local
      BY <1>14, <2>2, <2>4 DEF Push, Goes
    <3>2. AtRest' /\ Unwritten' = 0 /\ frame'.writes = <<>>
      BY <1>3, <2>1, <3>1 DEF AtRest, IsAFrame
    <3>3. Telling' /\ Pushing'
      BY <1>1, <1>3, <3>1, <3>2 DEF AtRest, Telling, Pushing, NoStrobe
    <3>4. QueueTypes' /\ ~route' /\ ExchangeFlow' /\ Counts
      BY <1>9, <2>1, <3>1, <3>2
    <3> QED
      BY <1>1, <3>1, <3>2, <3>3, <3>4 DEF ExchangeJob
  <2> QED
    BY <2>3, <2>4
<1> QED
  BY <1>b, <1>10, <1>11, <1>12, <1>13, <1>14

-----------------------------------------------------------------------------
\* What a cycle does to engine 0 and its queues, when they are stopped or empty.
LEMMA StoppedCycle ==
  ASSUME Next, ~route, QueueAsk # "tx"
  PROVE  /\ halted'[0] <=> \/ QueueAsk = "stop" /\ select = 0
                           \/ halted[0] /\ ~(QueueAsk = "start" /\ select = 0)
         /\ halted[0] /\ QueueAsk = "flush" /\ select = 0 => tx'[0] = <<>> /\ rx'[0] = <<>>
         /\ (halted[0] \/ hold[0] = Nothing) /\ tx[0] = <<>> /\ rx[0] = <<>> =>
              tx'[0] = <<>> /\ rx'[0] = <<>>
         /\ halted[0] /\ QueueAsk = "start" /\ select = 0 => hold'[0] = Nothing
         /\ hold[0] = Nothing /\ tx[0] = <<>> => hold'[0] = Nothing
<1>1. PICK acts : Does(acts)
  BY NextDoes
<1> DEFINE value == IF Writes("tx") THEN strobe.value.n ELSE Nothing
<1>2. /\ acts[0] \in {"none", "pull", "push"}
      /\ acts[0] # "none" => ~halted[0]
      /\ acts[0] = "pull" => tx[0] # <<>>
      /\ acts[0] = "push" => hold[0] # Nothing
  <2>1. 0 \in Engines
    BY DEF Engines
  <2> QED
    BY <1>1, <2>1 DEF Does
<1>3. QueuesCycle(acts, QueueAsk, select, value)
  BY <1>1 DEF Does
<1> HIDE DEF value
<1>4. halted'[0] <=> \/ QueueAsk = "stop" /\ select = 0
                     \/ halted[0] /\ ~(QueueAsk = "start" /\ select = 0)
  <2>1. halted' = [n \in Engines |->
                     \/ QueueAsk = "stop" /\ select = n
                     \/ halted[n] /\ ~(QueueAsk = "start" /\ select = n)]
    BY <1>3 DEF QueuesCycle
  <2> QED
    BY <2>1, Zenon DEF Engines
<1>5. hold'[0] = IF acts[0] = "pull" THEN Head(tx[0])
                 ELSE IF acts[0] = "push" \/ (QueueAsk = "start" /\ select = 0 /\ halted[0])
                 THEN Nothing ELSE hold[0]
  <2>1. hold' = [n \in Engines |->
                  IF acts[n] = "pull" THEN Head(tx[n])
                  ELSE IF acts[n] = "make" THEN made + 1
                  ELSE IF acts[n] = "push" \/ ((QueueAsk = "start" /\ select = n) /\ halted[n])
                  THEN Nothing ELSE hold[n]]
    BY <1>3 DEF QueuesCycle
  <2> QED
    BY <1>2, <2>1 DEF Engines
<1>6. /\ halted[0] /\ QueueAsk = "flush" /\ select = 0 => tx'[0] = <<>> /\ rx'[0] = <<>>
      /\ (halted[0] \/ hold[0] = Nothing) /\ tx[0] = <<>> /\ rx[0] = <<>> =>
              tx'[0] = <<>> /\ rx'[0] = <<>>
  <2>1. tx'[0] = Holds(tx[0], Nothing, acts[0] = "pull", (QueueAsk = "flush" /\ select = 0) /\ halted[0])
    BY <1>3 DEF QueuesCycle, Engines
  <2>2. acts[0] # "push" =>
          rx'[0] = Holds(rx[0], Nothing, QueueAsk = "rx_pop" /\ select = 0,
                         (QueueAsk = "flush" /\ select = 0) /\ halted[0])
    BY <1>3 DEF QueuesCycle, Engines
  <2> QED
    BY <1>2, <2>1, <2>2 DEF Holds
<1> QED
  BY <1>2, <1>4, <1>5, <1>6

\* The writes of a load.
LEMMA LoadWritesAre ==
  /\ Len(LoadWrites) = 8
  /\ LoadWrites[1] = <<"select", Is(1)>>
  /\ LoadWrites[2] = <<"control", Bit("stop")>>
  /\ LoadWrites[3] = <<"control", Bit("flush")>>
  /\ LoadWrites[4] = <<"select", Is(0)>>
  /\ LoadWrites[5] = <<"control", Bit("stop")>>
  /\ LoadWrites[6] = <<"control", Bit("flush")>>
  /\ LoadWrites[7] = <<"select", Is(0)>>
  /\ LoadWrites[8] = <<"control", Bit("start")>>
BY DEF LoadWrites

\* What a load's writes leave, once they have taken effect.
LEMMA LoadQueues ==
  ASSUME QueueTypes, ~route, Loading, Next, NEW done,
         done = IF strobe.ask = "write" THEN Loaded + 1 ELSE Loaded
  PROVE  /\ QueueTypes' /\ ~route'
         /\ done >= 4 => select' = 0
         /\ done \in 5 .. 7 => halted'[0]
         /\ done >= 6 => tx'[0] = <<>> /\ rx'[0] = <<>>
         /\ done = 8 => hold'[0] = Nothing
<1>1. /\ local.k \in 1 .. 9 /\ Telling
      /\ local.k = 1 => AtRest /\ frame.reg # "tx"
      /\ Loaded >= 4 => select = 0
      /\ Loaded \in 5 .. 7 => halted[0]
      /\ Loaded >= 6 => tx[0] = <<>> /\ rx[0] = <<>>
      /\ Loaded = 8 => hold[0] = Nothing
  BY LoadWritesAre DEF Loading
<1>2. ASSUME local.k > 1
      PROVE  /\ frame.reg = LoadWrites[local.k - 1][1]
             /\ strobe = NoStrobe \/ strobe.value = LoadWrites[local.k - 1][2]
  BY <1>2 DEF Loading
<1>3. /\ strobe.ask \in {"none", "write"} /\ (strobe = NoStrobe => strobe.ask = "none")
      /\ strobe.ask = "write" => strobe # NoStrobe /\ local.k > 1 /\ Loaded = local.k - 2
  <2>1. strobe.ask \in {"none", "write"} /\ (strobe = NoStrobe => strobe.ask = "none")
    BY <1>1 DEF Telling, NoStrobe
  <2>2. strobe.ask = "write" => local.k # 1
    BY <1>1, <2>1 DEF AtRest
  <2> QED
    BY <1>1, <2>1, <2>2 DEF Loaded, Writing
<1>4. frame.reg # "tx"
  <2>1. CASE local.k = 1
    BY <1>1, <2>1
  <2>2. CASE local.k > 1
    <3>1. local.k \in 2 .. 9
      BY <1>1, <2>2
    <3>2. frame.reg \in {"select", "control"}
      BY <1>2, <2>2, <3>1, LoadWritesAre
    <3> QED
      BY <3>2
  <2> QED
    BY <1>1, <2>1, <2>2
<1>5. /\ QueueAsk = (IF Writes("control") THEN strobe.value.bit ELSE "none")
      /\ select' = IF Writes("select") THEN strobe.value.n ELSE select
      /\ ~Writes("tx")
      /\ \A reg : Writes(reg) <=> strobe.ask = "write" /\ frame.reg = reg
  <2>1. ~Writes("tx") /\ \A reg : Writes(reg) <=> strobe.ask = "write" /\ frame.reg = reg
    BY <1>4 DEF Writes
  <2>2. strobe.ask # "read"
    BY <1>3
  <2> QED
    BY <2>1, <2>2, NextDoes DEF QueueAsk
\* Which of them takes effect.
<1>6. CASE strobe.ask # "write"
  <2>1. QueueAsk = "none" /\ select' = select /\ done = Loaded
    BY <1>3, <1>5, <1>6
  <2>2. ~route' /\ QueueTypes'
    <3>1. PICK acts : Does(acts)
      BY NextDoes
    <3>2. QueuesCycle(acts, QueueAsk, select, Nothing)
      BY <1>5, <3>1 DEF Does
    <3>3. /\ acts[0] = "pull" => tx[0] # <<>>
          /\ acts[1] = "pull" => tx[1] # <<>>
      BY <3>1 DEF Does, Engines
    <3>4. Nothing \in Nat
      BY DEF Nothing
    <3> QED
      BY <3>2, <3>3, <3>4, QueuesTyped, NextDoes
  <2>3. /\ halted'[0] <=> halted[0]
        /\ (halted[0] \/ hold[0] = Nothing) /\ tx[0] = <<>> /\ rx[0] = <<>> =>
              tx'[0] = <<>> /\ rx'[0] = <<>>
        /\ hold[0] = Nothing /\ tx[0] = <<>> => hold'[0] = Nothing
    BY <2>1, StoppedCycle
  <2>4. Loaded \in Int /\ Loaded <= 8
    BY <1>1 DEF Loaded, Writing
  <2>5. Loaded >= 6 => halted[0] \/ hold[0] = Nothing
    BY <1>1, <2>4
  <2> QED
    BY <1>1, <2>1, <2>2, <2>3, <2>4, <2>5
<1>7. CASE strobe.ask = "write"
  <2>1. /\ local.k \in 2 .. 9 /\ Loaded = local.k - 2 /\ done = local.k - 1
        /\ frame.reg = LoadWrites[local.k - 1][1]
        /\ strobe.value = LoadWrites[local.k - 1][2]
    BY <1>1, <1>2, <1>3, <1>7
  <2>2. QueueAsk # "tx"
    BY <1>5, <2>1, LoadWritesAre DEF Bit
  <2>3. ~route' /\ QueueTypes'
    <3>1. PICK acts : Does(acts)
      BY NextDoes
    <3>2. QueuesCycle(acts, QueueAsk, select, Nothing)
      BY <1>5, <3>1 DEF Does
    <3>3. /\ acts[0] = "pull" => tx[0] # <<>>
          /\ acts[1] = "pull" => tx[1] # <<>>
      BY <3>1 DEF Does, Engines
    <3>4. Nothing \in Nat
      BY DEF Nothing
    <3> QED
      BY <3>2, <3>3, <3>4, QueuesTyped, NextDoes
  <2>4. /\ halted'[0] <=> \/ QueueAsk = "stop" /\ select = 0
                          \/ halted[0] /\ ~(QueueAsk = "start" /\ select = 0)
        /\ halted[0] /\ QueueAsk = "flush" /\ select = 0 => tx'[0] = <<>> /\ rx'[0] = <<>>
        /\ (halted[0] \/ hold[0] = Nothing) /\ tx[0] = <<>> /\ rx[0] = <<>> =>
              tx'[0] = <<>> /\ rx'[0] = <<>>
        /\ halted[0] /\ QueueAsk = "start" /\ select = 0 => hold'[0] = Nothing
    BY <2>2, StoppedCycle
  <2>5. CASE local.k \in {2, 3, 4}
    BY <2>1, <2>3, <2>5
  <2>6. CASE local.k = 5
    <3>1. done = 4 /\ Writes("select") /\ strobe.value.n = 0
      BY <1>5, <1>7, <2>1, <2>6, LoadWritesAre DEF Is
    <3> QED
      BY <1>5, <2>3, <3>1
  <2>7. CASE local.k = 6
    <3>1. done = 5 /\ Loaded = 4 /\ frame.reg = "control" /\ QueueAsk = "stop"
      BY <1>5, <1>7, <2>1, <2>7, LoadWritesAre DEF Bit
    <3>2. select = 0 /\ select' = 0
      BY <1>1, <1>5, <3>1
    <3> QED
      BY <2>3, <2>4, <3>1, <3>2
  <2>8. CASE local.k = 7
    <3>1. done = 6 /\ Loaded = 5 /\ frame.reg = "control" /\ QueueAsk = "flush"
      BY <1>5, <1>7, <2>1, <2>8, LoadWritesAre DEF Bit
    <3>2. select = 0 /\ select' = 0 /\ halted[0]
      BY <1>1, <1>5, <3>1
    <3> QED
      BY <2>3, <2>4, <3>1, <3>2
  <2>9. CASE local.k = 8
    <3>1. done = 7 /\ Loaded = 6 /\ Writes("select") /\ strobe.value.n = 0 /\ QueueAsk = "none"
      BY <1>5, <1>7, <2>1, <2>9, LoadWritesAre DEF Is
    <3>2. select' = 0 /\ halted[0] /\ tx[0] = <<>> /\ rx[0] = <<>>
      BY <1>1, <1>5, <3>1
    <3> QED
      BY <2>3, <2>4, <3>1, <3>2
  <2>10. CASE local.k = 9
    <3>1. done = 8 /\ Loaded = 7 /\ frame.reg = "control" /\ QueueAsk = "start"
      BY <1>5, <1>7, <2>1, <2>10, LoadWritesAre DEF Bit
    <3>2. select = 0 /\ select' = 0 /\ halted[0] /\ tx[0] = <<>> /\ rx[0] = <<>>
      BY <1>1, <1>5, <3>1
    <3> QED
      BY <2>3, <2>4, <3>1, <3>2
  <2>11. local.k \in {2, 3, 4} \/ local.k \in {5, 6, 7, 8, 9}
    BY <2>1
  <2> QED
    BY <2>5, <2>6, <2>7, <2>8, <2>9, <2>10, <2>11
<1> QED
  BY <1>6, <1>7

\* A load, byte by byte and write by write, leaves an empty engine to an exchange.
LEMMA ExchangeLoad ==
  ASSUME QueueTypes, job = "exchange", ExchangeJob, at = "load", Next
  PROVE  QueueTypes' /\ ExchangeJob' /\ Counts
<1>1. /\ ~route /\ DOMAIN local = {"k", "sent", "level", "got"}
      /\ local.sent = 0 /\ local.level \in Nat /\ local.got = <<>>
      /\ Loading /\ Telling
      /\ local.k \in 1 .. 9
      /\ local.k = 1 => AtRest /\ frame.reg # "tx"
      /\ local.k > 1 => /\ frame.reg = LoadWrites[local.k - 1][1]
                        /\ frame.writes \in {<<>>, <<LoadWrites[local.k - 1][2]>>}
                        /\ \/ strobe = NoStrobe
                           \/ /\ frame.writes = <<>>
                              /\ strobe.value = LoadWrites[local.k - 1][2]
  BY LoadWritesAre DEF ExchangeJob, Loading
<1>2. frame.reg # "tx" /\ strobe.ask \in {"none", "write"}
  <2>1. strobe.ask \in {"none", "write"}
    BY <1>1 DEF Telling, NoStrobe
  <2>2. CASE local.k = 1
    BY <1>1, <2>1, <2>2
  <2>3. CASE local.k > 1
    <3>1. local.k \in 2 .. 9
      BY <1>1, <2>3
    <3>2. frame.reg \in {"select", "control"}
      BY <1>1, <2>3, <3>1, LoadWritesAre
    <3> QED
      BY <2>1, <3>2
  <2> QED
    BY <1>1, <2>2, <2>3
<1>3. PICK done \in Int : done = IF strobe.ask = "write" THEN Loaded + 1 ELSE Loaded
  BY <1>1 DEF Loaded
<1>4. /\ QueueTypes' /\ ~route'
      /\ done >= 4 => select' = 0
      /\ done \in 5 .. 7 => halted'[0]
      /\ done >= 6 => tx'[0] = <<>> /\ rx'[0] = <<>>
      /\ done = 8 => hold'[0] = Nothing
  BY <1>1, <1>3, LoadQueues
<1>5. job' = job
  BY NextDoes
<1>6. ASSUME local'.sent = 0, local'.got = <<>>, frame'.reg # "tx", at' # "popped"
      PROVE  Counts
  <2>1. GotCount = 0 + 0 /\ GotCount' = 0 + 0
    BY <1>1, <1>6 DEF GotCount
  <2>2. SentWords = 0 - 0 /\ SentWords' = 0 - 0
    BY <1>1, <1>2, <1>5, <1>6 DEF SentWords
  <2> QED
    BY <2>1, <2>2 DEF Counts
<1>7. CASE Quiet \/ Byte
  <2>1. /\ Telling' /\ UNCHANGED <<at, local, reply>> /\ frame'.reg = frame.reg
        /\ \/ UNCHANGED <<frame, strobe>> /\ strobe.ask = "none"
           \/ /\ strobe.ask = "none" /\ frame.writes # <<>>
              /\ strobe' = [ask |-> "write", value |-> Head(frame.writes)]
              /\ frame'.writes = Tail(frame.writes)
           \/ /\ strobe.ask = "write" /\ strobe' = NoStrobe /\ UNCHANGED frame
    BY <1>1, <1>7, TellingBytes
  <2>2. local.k = 1 => AtRest' /\ UNCHANGED <<frame, strobe>>
    BY <1>1, <1>7, RestBytes
  <2>3. local.k > 1 =>
          /\ frame'.writes \in {<<>>, <<LoadWrites[local.k - 1][2]>>}
          /\ \/ strobe' = NoStrobe
             \/ frame'.writes = <<>> /\ strobe'.value = LoadWrites[local.k - 1][2]
    <3> DEFINE said == LoadWrites[local.k - 1][2]
    <3> HIDE DEF said
    <3>1. ASSUME local.k > 1 PROVE frame'.writes \in {<<>>, <<said>>}
                  /\ (strobe' = NoStrobe \/ (frame'.writes = <<>> /\ strobe'.value = said))
      <4>1. frame.writes \in {<<>>, <<said>>} /\ (strobe = NoStrobe \/ (frame.writes = <<>> /\ strobe.value = said))
        BY <1>1, <3>1 DEF said
      <4>2. CASE UNCHANGED <<frame, strobe>>
        BY <4>1, <4>2
      <4>3. CASE /\ frame.writes # <<>>
                 /\ strobe' = [ask |-> "write", value |-> Head(frame.writes)]
                 /\ frame'.writes = Tail(frame.writes)
        <5>1. frame.writes = <<said>>
          BY <4>1, <4>3
        <5>2. Head(<<said>>) = said /\ Tail(<<said>>) = <<>>
          OBVIOUS
        <5> QED
          BY <4>3, <5>1, <5>2
      <4>4. CASE strobe' = NoStrobe /\ UNCHANGED frame
        BY <4>1, <4>4
      <4> QED
        BY <2>1, <4>2, <4>3, <4>4
    <3> QED
      BY <3>1 DEF said
  <2>4. Loaded' = done
    <3>1. NoStrobe.ask = "none"
      BY DEF NoStrobe
    <3>2. CASE UNCHANGED <<frame, strobe>> /\ strobe.ask = "none"
      BY <1>3, <2>1, <3>2 DEF Loaded, Writing
    <3>3. CASE /\ strobe.ask = "none" /\ frame.writes # <<>>
               /\ strobe' = [ask |-> "write", value |-> Head(frame.writes)]
      BY <1>3, <2>1, <3>3 DEF Loaded, Writing
    <3>4. CASE strobe.ask = "write" /\ strobe' = NoStrobe /\ UNCHANGED frame
      <4>1. local.k > 1
        BY <1>1, <3>1, <3>4 DEF AtRest
      <4>2. frame.writes = <<>>
        BY <1>1, <3>1, <3>4, <4>1
      <4>3. Loaded = local.k - 2 /\ Loaded' = local.k - 1
        BY <2>1, <3>1, <3>4, <4>2 DEF Loaded, Writing
      <4> QED
        BY <1>1, <1>3, <3>4, <4>3
    <3> QED
      BY <2>1, <3>2, <3>3, <3>4
  <2>5. Loading'
    BY <1>1, <1>2, <1>4, <2>1, <2>2, <2>3, <2>4, LoadWritesAre DEF Loading
  <2>6. ExchangeJob'
    BY <1>1, <1>4, <2>1, <2>5, QueuesAssumption DEF ExchangeJob, Answers
  <2> QED
    BY <1>1, <1>2, <1>4, <1>6, <2>1, <2>6
<1>8. CASE Program
  <2>1. Between /\ Load
    BY <1>8 DEF Program, Load, Select, Push, Stray, Level, AnyLevel, Pop, Popped, NowHi, NowLo,
       NowAgain, NowSame, WatchMask, WatchControl, TimeHi, TimeLo, PinsLo, PinsHi, Stamp, Stamped
  <2>2. /\ strobe = NoStrobe /\ strobe' = NoStrobe /\ strobe.ask = "none"
        /\ frame.reads = 0 /\ frame.writes = <<>>
        /\ Stays => UNCHANGED <<frame, state, reply>>
    BY <1>8, <2>1, Begins DEF NoStrobe
  <2>3. done = local.k - 1 /\ Loaded = local.k - 1
    BY <1>3, <2>2 DEF Loaded, Writing
  <2>4. CASE local.k <= 8
    <3> DEFINE reg == LoadWrites[local.k][1]
               said == LoadWrites[local.k][2]
    <3>1. Write(reg, <<said>>) /\ at' = "load" /\ local' = [local EXCEPT !.k = @ + 1]
      BY <2>1, <2>4, LoadWritesAre DEF Load, Goes
    <3>2. /\ local'.k = local.k + 1 /\ local'.sent = 0 /\ local'.got = <<>>
          /\ local'.level = local.level
          /\ DOMAIN local' = {"k", "sent", "level", "got"}
      BY <1>1, <3>1
    <3>3. local.k \in 1 .. 8 /\ local.k + 1 \in 2 .. 9 /\ local.k + 1 - 1 = local.k
          /\ local.k + 1 - 2 = local.k - 1 /\ local.k + 1 \in 1 .. Len(LoadWrites) + 1
      BY <1>1, <2>4, LoadWritesAre
    <3>4. reg \in {"select", "control"}
      BY <3>3, LoadWritesAre
    <3> HIDE DEF reg, said
    <3>5. /\ IsAFrame' /\ frame'.reg = reg /\ frame'.writes = <<said>> /\ frame'.reads = 0
          /\ state' = "Command"
      BY <1>8, <2>1, <3>1, Begins
    <3>6. Telling' /\ frame'.writes # <<>>
      BY <2>2, <3>5 DEF Telling
    <3>7. Loaded' = done
      BY <2>3, <3>2, <3>3, <3>6 DEF Loaded, Writing
    <3>8. /\ frame'.reg = LoadWrites[local'.k - 1][1]
          /\ frame'.writes \in {<<>>, <<LoadWrites[local'.k - 1][2]>>}
      BY <3>2, <3>3, <3>5 DEF reg, said
    <3>9. local'.k # 1 /\ local'.k \in 1 .. Len(LoadWrites) + 1
      BY <3>2, <3>3
    <3>10. Loading'
      BY <1>4, <2>2, <3>2, <3>6, <3>7, <3>8, <3>9 DEF Loading
    <3>11. ExchangeJob'
      BY <1>1, <1>4, <3>1, <3>2, <3>10, QueuesAssumption DEF ExchangeJob, Answers
    <3> QED
      BY <1>4, <1>6, <3>1, <3>2, <3>4, <3>5, <3>11
  <2>5. CASE ~(local.k <= 8)
    <3>1. Stays /\ at' = "room" /\ local' = local
      BY <2>1, <2>5, LoadWritesAre DEF Load, Goes
    <3>2. done = 8
      BY <1>1, <2>3, <2>5
    <3>3. /\ select' = 0 /\ tx'[0] = <<>> /\ rx'[0] = <<>> /\ hold'[0] = Nothing
      BY <1>4, <3>2
    <3>4. AtRest' /\ UNCHANGED <<frame, state, reply>>
      BY <1>1, <2>2, <3>1 DEF Telling, AtRest, IsAFrame
    <3>5. Drawn' = 0 + 0 /\ PutIn' = 0 - 0
      BY <1>1, <1>2, <3>1, <3>4 DEF Drawn, PutIn, Unwritten
    <3>6. Line(<<>>, Nothing, <<>>, 0, 0)
      BY DEF Line, Run, Carried
    <3>7. Answered(Drawn, PutIn)'
      <4>1. Answered(0, 0)'
        BY <3>3, <3>6 DEF Answered
      <4> QED
        BY <3>5, <4>1 DEF Answered
    <3>8. ExchangeFlow'
      BY <1>1, <3>1, <3>3, <3>7, HostPortAssumption DEF ExchangeFlow
    <3>9. ExchangeJob'
      BY <1>1, <1>4, <3>1, <3>4, <3>8, QueuesAssumption DEF ExchangeJob, Answers
    <3> QED
      BY <1>1, <1>2, <1>4, <1>6, <3>1, <3>4, <3>9
  <2> QED
    BY <1>1, <2>4, <2>5
<1> QED
  BY <1>7, <1>8 DEF Next, Host

-----------------------------------------------------------------------------
\* What a host that pops another engine's words asks of the queues.
LEMMA RoutedAsks ==
  ASSUME QueueTypes, PopJob
  PROVE  /\ Drawn \in Nat /\ Pops \in Nat /\ ~Writes("control")
         /\ QueueAsk \in {"none", "tx", "rx_pop"}
         /\ QueueAsk = "none" \/ select = 1
         /\ QueueAsk = "tx" => strobe.value.n \in Nat
         /\ QueueAsk = "rx_pop" => rx[1] # <<>>
         /\ Pops = (IF QueueAsk = "rx_pop" THEN 1 ELSE 0)
         /\ Writes("select") => strobe.value.n = 1
<1>1. /\ route /\ at \in {"select", "level", "status", "popped", "done"}
      /\ local.got \in Seq(Pairs) /\ Len(local.got) \in Nat
      /\ rx[1] \in Seq(Nat) /\ Len(rx[1]) \in Nat
      /\ at = "level" /\ frame.reg = "select" =>
           (strobe.ask = "write" => frame.writes = <<>> /\ strobe.value = Is(1))
      /\ at = "level" /\ frame.reg = "tx" =>
           (strobe.ask = "write" => frame.writes = <<>> /\ strobe.value = Is(Stale))
      /\ at = "level" /\ frame.reg \notin {"select", "tx"} => AtRest
      /\ at = "level" => Telling
      /\ at # "select" /\ ~(Writing /\ frame.reg = "select") => select = 1
  BY LenProperties DEF PopJob, QueueTypes, Engines
<1>2. /\ QueueAsk = (IF Writes("tx") THEN "tx" ELSE IF Writes("control") THEN strobe.value.bit
                     ELSE IF strobe.ask = "read" /\ frame.reg = "rx" THEN "rx_pop" ELSE "none")
  BY DEF QueueAsk, Writes
<1>3. /\ NoStrobe.ask = "none" /\ ReadStrobe.ask = "read" /\ NoStrobe # ReadStrobe
  BY DEF NoStrobe, ReadStrobe
<1>4. at # "popped" => Drawn \in Nat /\ Pops = 0
  <2>1. at # "popped" => Drawn = Len(local.got) + 0 /\ Pops = 0
    BY DEF Drawn, Pops
  <2> QED
    BY <1>1, <2>1
<1>5. CASE at # "popped" /\ (AtRest \/ Asking)
  <2>1. /\ strobe.ask # "write" /\ ~(strobe.ask = "read" /\ frame.reg = "rx")
    BY <1>3, <1>5 DEF AtRest, Asking
  <2>2. \A reg : ~Writes(reg)
    BY <2>1 DEF Writes
  <2> QED
    BY <1>2, <1>4, <1>5, <2>1, <2>2
<1>6. CASE at = "level" /\ frame.reg \in {"select", "tx"}
  <2>1. strobe.ask \in {"none", "write"}
    BY <1>1, <1>3, <1>6 DEF Telling
  <2>2. /\ \A reg : Writes(reg) <=> strobe.ask = "write" /\ frame.reg = reg
    BY DEF Writes
  <2>3. /\ QueueAsk = (IF strobe.ask = "write" /\ frame.reg = "tx" THEN "tx" ELSE "none")
        /\ ~Writes("control")
    BY <1>2, <1>6, <2>1, <2>2
  <2>4. QueueAsk = "tx" => strobe.value.n \in Nat /\ select = 1
    <3>1. Stale \in Nat
      BY QueuesAssumption DEF Stale
    <3>2. QueueAsk = "tx" => strobe.value = Is(Stale) /\ select = 1
      BY <1>1, <1>6, <2>3
    <3> QED
      BY <3>1, <3>2 DEF Is
  <2>5. Writes("select") => strobe.value.n = 1
    BY <1>1, <1>6, <2>2 DEF Is
  <2> QED
    BY <1>4, <1>6, <2>3, <2>4, <2>5
<1>7. CASE at = "popped" /\ Popping
  <2>1. /\ strobe \in {NoStrobe, ReadStrobe} /\ frame.reg = "rx"
        /\ frame.reads \in Nat /\ frame.reads + Pops <= Len(Source)
        /\ Unpopped <= Len(reply) /\ reply \in Seq(Pairs) /\ Len(reply) \in Nat
    BY <1>7, LenProperties DEF Popping, Pops
  <2>2. Drawn \in Nat
    <3>1. Drawn = Len(local.got) + (Len(reply) - Unpopped)
      BY <1>7 DEF Drawn
    <3>2. Unpopped \in Nat
      BY DEF Unpopped
    <3> QED
      BY <1>1, <2>1, <3>1, <3>2
  <2>3. \A reg : ~Writes(reg)
    BY <1>3, <2>1 DEF Writes
  <2>4. /\ QueueAsk = (IF strobe = ReadStrobe THEN "rx_pop" ELSE "none")
        /\ Pops = (IF strobe = ReadStrobe THEN 1 ELSE 0)
    BY <1>2, <1>3, <1>7, <2>1, <2>3 DEF Pops
  <2>5. QueueAsk = "rx_pop" => rx[1] # <<>>
    <3>1. Source = rx[1]
      BY <1>1 DEF Source
    <3>2. QueueAsk = "rx_pop" => Len(rx[1]) > 0
      BY <1>1, <2>1, <2>4, <3>1
    <3> QED
      BY <3>2
  <2>6. select = 1
    BY <1>1, <1>7, <2>1
  <2> QED
    BY <2>2, <2>3, <2>4, <2>5, <2>6
<1> QED
  BY <1>1, <1>5, <1>6, <1>7 DEF PopJob

\* The made-up words go on, whatever the host's step.
LEMMA PopGoesOn ==
  ASSUME QueueTypes, PopJob, Next, NEW d \in Nat, d = Drawn + Pops
  PROVE  /\ QueueTypes' /\ route' /\ Routed(d)' /\ select' \in Engines
         /\ Drawn \in Nat /\ Pops \in Nat /\ made \in Nat
         /\ select = 1 \/ Writes("select") => select' = 1
         /\ select = 1 => Source = rx[select]
         /\ Source \in Seq(Nat) /\ Source' \in Seq(Nat)
         /\ Run(Source, Drawn) /\ made >= Drawn + Len(Source)
         /\ Len(Source') >= Len(Source) - Pops
         /\ made' = made \/ (made' = made + 1 /\ made < Words)
<1>1. route /\ Routed(Drawn) /\ select \in Engines
  BY DEF PopJob
<1>2. /\ Drawn \in Nat /\ Pops \in Nat /\ ~Writes("control")
      /\ QueueAsk \in {"none", "tx", "rx_pop"}
      /\ QueueAsk = "none" \/ select = 1
      /\ QueueAsk = "tx" => strobe.value.n \in Nat
      /\ QueueAsk = "rx_pop" => rx[1] # <<>>
      /\ Pops = (IF QueueAsk = "rx_pop" THEN 1 ELSE 0)
      /\ Writes("select") => strobe.value.n = 1
  BY RoutedAsks
<1>3. PICK p \in Nat : p = Drawn
  BY <1>2
<1>4. PICK popped \in Nat : popped = Pops
  BY <1>2
<1>5. /\ route /\ select \in Engines /\ ~Writes("control") /\ Routed(p)
      /\ QueueAsk \in {"none", "tx", "rx_pop"}
      /\ QueueAsk = "none" \/ select = 1
      /\ QueueAsk = "tx" => strobe.value.n \in Nat
      /\ QueueAsk = "rx_pop" => rx[1] # <<>>
      /\ popped = (IF QueueAsk = "rx_pop" THEN 1 ELSE 0)
  BY <1>1, <1>2, <1>3, <1>4
<1>6. /\ QueueTypes' /\ route' /\ Routed(p + popped)'
      /\ made' = made \/ (made' = made + 1 /\ made < Words)
      /\ Len(rx'[1]) >= Len(rx[1]) - popped
  BY <1>5, PopCycle
<1>7. d = p + popped
  BY <1>3, <1>4
<1>8. /\ select' \in Engines /\ (select = 1 \/ Writes("select") => select' = 1)
  BY <1>1, <1>2, NextDoes DEF Engines
<1>9. /\ Source = rx[1] /\ Source' = rx'[1]
      /\ Source \in Seq(Nat) /\ Source' \in Seq(Nat)
  BY <1>1, <1>6 DEF Source, QueueTypes, Engines
<1>10. Run(Source, Drawn) /\ made >= Drawn + Len(Source) /\ made \in Nat
  <2>1. /\ Run(Source, Drawn)
        /\ made - Carried(hold[0]) = Drawn + Len(Source) + Carried(hold[1]) + Len(tx[1])
    BY <1>1, <1>9 DEF Routed, Line
  <2>2. /\ Len(Source) \in Nat /\ Len(tx[1]) \in Nat /\ Carried(hold[0]) \in Nat
        /\ Carried(hold[1]) \in Nat /\ made \in Nat
    BY <1>9, LenProperties DEF QueueTypes, Engines, Carried
  <2>3. \A a, b, c, e, f, g \in Nat : a - b = c + e + f + g => a >= c + e
    OBVIOUS
  <2> QED
    BY <1>2, <2>1, <2>2, <2>3
<1> QED
  BY <1>2, <1>4, <1>6, <1>7, <1>8, <1>9, <1>10

\* The made-up words are where they are to be when what the host has popped is
\* what the queue gave.
LEMMA PopFlows ==
  ASSUME QueueTypes, PopJob, Next, Drawn' = Drawn + Pops
  PROVE  QueueTypes' /\ route' /\ Routed(Drawn)'
<1>1. Drawn \in Nat /\ Pops \in Nat
  BY RoutedAsks
<1>2. PICK d \in Nat : d = Drawn + Pops
  BY <1>1
<1>3. QueueTypes' /\ route' /\ Routed(d)'
  BY <1>2, PopGoesOn
<1>4. Routed(Drawn)'
  BY <1>2, <1>3 DEF Routed
<1> QED
  BY <1>3, <1>4

\* Frames of a host that pops another engine's words, byte by byte.
LEMMA PopBytes ==
  ASSUME QueueTypes, job = "pop", PopJob, Next, Quiet \/ Byte
  PROVE  QueueTypes' /\ PopJob' /\ Counts
<1>1. /\ route /\ at \in {"select", "level", "status", "popped", "done"}
      /\ DOMAIN local = {"level", "got", "strayed"}
      /\ local.level \in Nat /\ local.got \in Seq(Pairs) /\ Answers(local.got, 0)
      /\ Len(local.got) \in Nat
      /\ at = "select" => AtRest
      /\ at = "level" => Telling
      /\ at = "level" /\ frame.reg \notin {"select", "tx"} => AtRest
      /\ at = "level" /\ frame.reg = "select" =>
           /\ frame.writes \in {<<>>, <<Is(1)>>}
           /\ strobe.ask = "write" => frame.writes = <<>> /\ strobe.value = Is(1)
      /\ at = "level" /\ frame.reg = "tx" =>
           /\ frame.writes \in {<<>>, <<Is(Stale)>>}
           /\ strobe.ask = "write" => frame.writes = <<>> /\ strobe.value = Is(Stale)
      /\ at # "select" /\ ~(Writing /\ frame.reg = "select") => select = 1
      /\ at = "done" => AtRest
      /\ at = "status" => Asking
      /\ at = "popped" => Popping
  BY LenProperties DEF PopJob
<1>2. /\ Drawn \in Nat /\ Pops \in Nat /\ made \in Nat
      /\ select' \in Engines
      /\ select = 1 \/ Writes("select") => select' = 1
      /\ select = 1 => Source = rx[select]
      /\ Source \in Seq(Nat) /\ Source' \in Seq(Nat)
      /\ Run(Source, Drawn) /\ made >= Drawn + Len(Source)
      /\ Len(Source') >= Len(Source) - Pops
      /\ Len(Source) \in Nat /\ Len(Source') \in Nat
      /\ made' = made \/ (made' = made + 1 /\ made < Words)
  <2>1. Drawn \in Nat /\ Pops \in Nat
    BY RoutedAsks
  <2>2. PICK d \in Nat : d = Drawn + Pops
    BY <2>1
  <2> QED
    BY <2>1, <2>2, PopGoesOn, LenProperties
<1>3. /\ NoStrobe.ask = "none" /\ ReadStrobe.ask = "read" /\ NoStrobe # ReadStrobe
  BY DEF NoStrobe, ReadStrobe
<1>4. SentWords = made /\ SentWords' = made'
  BY NextDoes DEF SentWords
<1>5. ASSUME UNCHANGED <<at, local>>, at # "popped" PROVE Pops = 0 /\ UNCHANGED <<Drawn, GotCount>>
  BY <1>5 DEF Pops, Drawn, GotCount
\* Bytes leave the program where it was.
<1>6. ASSUME UNCHANGED <<at, local>>, at # "popped"
      PROVE  QueueTypes' /\ route' /\ Routed(Drawn)' /\ Counts
  <2>1. Drawn' = Drawn + Pops
    BY <1>2, <1>5, <1>6
  <2>2. QueueTypes' /\ route' /\ Routed(Drawn)'
    BY <2>1, PopFlows
  <2> QED
    BY <1>2, <1>4, <1>5, <1>6, <2>2 DEF Counts
<1>7. CASE at \in {"select", "done"} \/ (at = "level" /\ frame.reg \notin {"select", "tx"})
  <2>1. AtRest' /\ UNCHANGED <<state, strobe, frame, reply, at, local>>
    BY <1>1, <1>7, RestBytes
  <2>2. QueueTypes' /\ route' /\ Routed(Drawn)' /\ Counts
    BY <1>6, <1>7, <2>1
  <2>3. Telling'
    BY <1>3, <2>1 DEF AtRest, Telling
  <2>4. at # "select" => select' = 1
    BY <1>1, <1>2, <1>7, <2>1 DEF AtRest, Writing, NoStrobe
  <2>5. PopJob'
    BY <1>1, <1>2, <1>7, <2>1, <2>2, <2>3, <2>4 DEF PopJob
  <2> QED
    BY <2>2, <2>5
<1>8. CASE at = "status"
  <2>1. select = 1 /\ Asking
    BY <1>1, <1>8 DEF Asking
  <2>2. Len(Source') >= Len(Source)
    BY <1>2, <1>8 DEF Pops
  <2>3. Asking' /\ UNCHANGED <<at, local>> /\ frame'.reg = frame.reg
    BY <1>2, <2>1, <2>2, AskingBytes
  <2>4. QueueTypes' /\ route' /\ Routed(Drawn)' /\ Counts
    BY <1>6, <1>8, <2>3
  <2>5. PopJob'
    BY <1>1, <1>2, <1>8, <2>1, <2>3, <2>4 DEF PopJob
  <2> QED
    BY <2>4, <2>5
<1>9. CASE at = "popped"
  <2>1. /\ Popping /\ select = 1 /\ frame.reg = "rx"
        /\ Pops = (IF strobe = ReadStrobe THEN 1 ELSE 0)
        /\ reply \in Seq(Pairs) /\ Len(reply) \in Nat
    BY <1>1, <1>9, LenProperties DEF Popping, Pops
  <2>2. /\ Popping' /\ UNCHANGED <<at, local>> /\ frame'.reg = frame.reg
        /\ Drawn' = Drawn + Pops
        /\ \/ Len(reply') = Len(reply)
           \/ Len(reply') = Len(reply) + 1 /\ Source # <<>> /\ Drawn = Len(local.got) + Len(reply)
    BY <1>1, <1>2, <1>9, <2>1, PoppingBytes
  <2>3. QueueTypes' /\ route' /\ Routed(Drawn)'
    BY <2>2, PopFlows
  <2>4. PopJob'
    BY <1>1, <1>2, <1>9, <2>1, <2>2, <2>3 DEF PopJob
  <2>5. GotCount = Len(local.got) + Len(reply) /\ GotCount' = Len(local.got) + Len(reply')
    BY <1>9, <2>2 DEF GotCount
  <2>6. GotCount' = GotCount \/ (GotCount' = GotCount + 1 /\ GotCount < SentWords)
    <3>1. CASE Len(reply') = Len(reply)
      BY <2>5, <3>1
    <3>2. CASE Len(reply') = Len(reply) + 1 /\ Source # <<>> /\ Drawn = Len(local.got) + Len(reply)
      <4>1. Len(Source) > 0
        BY <1>2, <3>2
      <4>2. \A a, b, c \in Nat : c >= a + b /\ b > 0 => a < c
        OBVIOUS
      <4>3. Drawn < made
        BY <1>2, <4>1, <4>2
      <4>4. GotCount = Drawn /\ GotCount' = GotCount + 1
        BY <1>1, <2>1, <2>5, <3>2
      <4> QED
        BY <1>4, <4>3, <4>4
    <3> QED
      BY <2>2, <3>1, <3>2
  <2> QED
    BY <1>2, <1>4, <2>3, <2>4, <2>6 DEF Counts
<1>10. CASE at = "level" /\ frame.reg \in {"select", "tx"}
  <2>1. /\ Telling' /\ UNCHANGED <<at, local, reply>> /\ frame'.reg = frame.reg
        /\ \/ UNCHANGED <<frame, strobe>> /\ strobe.ask = "none"
           \/ /\ strobe.ask = "none" /\ frame.writes # <<>>
              /\ strobe' = [ask |-> "write", value |-> Head(frame.writes)]
              /\ frame'.writes = Tail(frame.writes)
           \/ /\ strobe.ask = "write" /\ strobe' = NoStrobe /\ UNCHANGED frame
    BY <1>1, <1>10, TellingBytes
  <2>2. QueueTypes' /\ route' /\ Routed(Drawn)' /\ Counts
    BY <1>6, <1>10, <2>1
  <2>3. ASSUME NEW v, frame.writes \in {<<>>, <<v>>},
               strobe.ask = "write" => frame.writes = <<>> /\ strobe.value = v
        PROVE  /\ frame'.writes \in {<<>>, <<v>>}
               /\ strobe'.ask = "write" => frame'.writes = <<>> /\ strobe'.value = v
               /\ Writing => Writing' \/ strobe.ask = "write"
    <3>1. CASE UNCHANGED <<frame, strobe>>
      BY <2>3, <3>1 DEF Writing
    <3>2. CASE /\ frame.writes # <<>>
               /\ strobe' = [ask |-> "write", value |-> Head(frame.writes)]
               /\ frame'.writes = Tail(frame.writes)
      <4>1. frame.writes = <<v>>
        BY <2>3, <3>2
      <4>2. Head(<<v>>) = v /\ Tail(<<v>>) = <<>>
        OBVIOUS
      <4> QED
        BY <3>2, <4>1, <4>2 DEF Writing
    <3>3. CASE strobe.ask = "write" /\ strobe' = NoStrobe /\ UNCHANGED frame
      BY <1>3, <2>3, <3>3
    <3> QED
      BY <2>1, <3>1, <3>2, <3>3
  <2>4. CASE frame.reg = "select"
    <3>1. /\ frame'.writes \in {<<>>, <<Is(1)>>}
          /\ strobe'.ask = "write" => frame'.writes = <<>> /\ strobe'.value = Is(1)
          /\ Writing => Writing' \/ strobe.ask = "write"
      BY <1>1, <1>10, <2>3, <2>4
    <3>2. ~(Writing' /\ frame'.reg = "select") => select' = 1
      BY <1>1, <1>2, <1>10, <2>1, <2>4, <3>1 DEF Writes
    <3> QED
      BY <1>1, <1>2, <1>10, <2>1, <2>2, <2>4, <3>1, <3>2 DEF PopJob
  <2>5. CASE frame.reg = "tx"
    <3>1. /\ frame'.writes \in {<<>>, <<Is(Stale)>>}
          /\ strobe'.ask = "write" => frame'.writes = <<>> /\ strobe'.value = Is(Stale)
      BY <1>1, <1>10, <2>3, <2>5
    <3>2. select' = 1
      BY <1>1, <1>2, <1>10, <2>5
    <3> QED
      BY <1>1, <1>2, <1>10, <2>1, <2>2, <2>5, <3>1, <3>2 DEF PopJob, Stale
  <2> QED
    BY <1>10, <2>4, <2>5
<1> QED
  BY <1>1, <1>7, <1>8, <1>9, <1>10

\* The program of a host that pops another engine's words, step by step.
LEMMA PopProgram ==
  ASSUME QueueTypes, job = "pop", PopJob, Next, Program
  PROVE  QueueTypes' /\ PopJob' /\ Counts
<1>1. /\ route /\ at \in {"select", "level", "status", "popped", "done"}
      /\ DOMAIN local = {"level", "got", "strayed"}
      /\ local.level \in Nat /\ local.got \in Seq(Pairs) /\ Answers(local.got, 0)
      /\ Len(local.got) \in Nat
      /\ at # "select" /\ ~(Writing /\ frame.reg = "select") => select = 1
      /\ at = "status" => Asking
      /\ at = "popped" => Popping
  BY LenProperties DEF PopJob
<1>b. /\ Between
      /\ Select \/ Stray \/ Level \/ Pop \/ Popped
  BY <1>1 DEF Program, Load, Select, Push, Stray, Level, AnyLevel, Pop, Popped, NowHi, NowLo,
     NowAgain, NowSame, WatchMask, WatchControl, TimeHi, TimeLo, PinsLo, PinsHi, Stamp, Stamped
<1>2. /\ strobe = NoStrobe /\ strobe' = NoStrobe /\ NoStrobe.ask = "none"
      /\ frame.reads = 0 /\ frame.writes = <<>> /\ Pops = 0
      /\ IsLatched /\ TheWord = reply[1][1]
      /\ Stays => UNCHANGED <<frame, state, reply>>
  BY <1>b, Begins DEF NoStrobe
<1>3. /\ Drawn \in Nat /\ select' \in Engines /\ (select = 1 => select' = 1)
      /\ Source \in Seq(Nat) /\ Source' \in Seq(Nat)
      /\ Len(Source) \in Nat /\ Len(Source') \in Nat /\ Len(Source') >= Len(Source)
      /\ made' = made \/ (made' = made + 1 /\ made < Words)
  <2>1. PICK d \in Nat : d = Drawn + Pops /\ d = Drawn
    BY <1>2, RoutedAsks
  <2>2. /\ select' \in Engines /\ (select = 1 => select' = 1)
        /\ Source \in Seq(Nat) /\ Source' \in Seq(Nat)
        /\ Len(Source') >= Len(Source) - Pops
        /\ made' = made \/ (made' = made + 1 /\ made < Words)
    BY <2>1, PopGoesOn
  <2>3. Len(Source) \in Nat /\ Len(Source') \in Nat
    BY <2>2, LenProperties
  <2> QED
    BY <1>2, <2>1, <2>2, <2>3
<1>4. SentWords = made /\ SentWords' = made'
  BY NextDoes DEF SentWords
<1>5. at # "select" => select' = 1
  BY <1>1, <1>2, <1>3 DEF Writing
\* No step of the program changes how many words the host has.
<1>6. ASSUME Drawn' = Drawn, GotCount' = GotCount
      PROVE  QueueTypes' /\ route' /\ Routed(Drawn)' /\ Counts
  <2>1. Drawn' = Drawn + Pops
    BY <1>2, <1>3, <1>6
  <2>2. QueueTypes' /\ route' /\ Routed(Drawn)'
    BY <2>1, PopFlows
  <2> QED
    BY <1>3, <1>4, <1>6, <2>2 DEF Counts
<1>7. ASSUME at # "popped", local'.got = local.got,
             at' = "popped" => Unpopped' = 0 /\ reply' = <<>>
      PROVE  Drawn' = Drawn /\ GotCount' = GotCount
  <2>1. Drawn = Len(local.got) + 0 /\ GotCount = Len(local.got) + 0
    BY <1>7 DEF Drawn, GotCount
  <2>2. CASE at' # "popped"
    BY <1>7, <2>1, <2>2 DEF Drawn, GotCount
  <2>3. CASE at' = "popped"
    <3>1. Drawn' = Len(local'.got) + (Len(reply') - Unpopped') /\ GotCount' = Len(local'.got) + Len(reply')
      BY <2>3 DEF Drawn, GotCount
    <3>2. Drawn' = Len(local.got) + (0 - 0) /\ GotCount' = Len(local.got) + 0
      BY <1>7, <2>3, <3>1
    <3> QED
      BY <1>1, <2>1, <3>2
  <2> QED
    BY <2>2, <2>3
<1>8. CASE Select
  <2>1. /\ at = "select" /\ Write("select", <<Is(1)>>) /\ at' = "level" /\ local' = local
    BY <1>8 DEF Select, Goes
  <2>2. /\ IsAFrame' /\ frame'.reg = "select" /\ frame'.writes = <<Is(1)>> /\ frame'.reads = 0
        /\ state' = "Command"
    BY <1>b, <2>1, Begins
  <2>3. Telling' /\ Writing'
    BY <1>2, <2>2 DEF Telling, Writing
  <2>4. QueueTypes' /\ route' /\ Routed(Drawn)' /\ Counts
    BY <1>6, <1>7, <2>1
  <2>5. PopJob'
    BY <1>1, <1>2, <1>3, <2>1, <2>2, <2>3, <2>4 DEF PopJob
  <2> QED
    BY <2>4, <2>5
<1>9. CASE Stray
  <2>1. /\ at = "level" /\ Write("tx", <<Is(Stale)>>) /\ at' = "level"
        /\ local' = [local EXCEPT !.strayed = TRUE]
    BY <1>9 DEF Stray, Goes
  <2>2. /\ local'.got = local.got /\ local'.level = local.level
        /\ DOMAIN local' = {"level", "got", "strayed"}
    BY <1>1, <2>1
  <2>3. /\ IsAFrame' /\ frame'.reg = "tx" /\ frame'.writes = <<Is(Stale)>> /\ frame'.reads = 0
        /\ state' = "Command"
    BY <1>b, <2>1, Begins
  <2>4. Telling'
    BY <1>2, <2>3 DEF Telling
  <2>5. QueueTypes' /\ route' /\ Routed(Drawn)' /\ Counts
    BY <1>6, <1>7, <2>1, <2>2
  <2>6. PopJob'
    BY <1>1, <1>2, <1>3, <1>5, <2>1, <2>2, <2>3, <2>4, <2>5 DEF PopJob, Stale
  <2> QED
    BY <2>5, <2>6
<1>10. CASE Level
  <2>1. at = "level" /\ Read("status", 1) /\ at' = "status" /\ local' = local
    BY <1>10 DEF Level, Goes
  <2>2. Asking'
    BY <1>b, <2>1, AsksLevel
  <2>3. QueueTypes' /\ route' /\ Routed(Drawn)' /\ Counts
    BY <1>6, <1>7, <2>1
  <2>4. PopJob'
    BY <1>1, <1>3, <1>5, <2>1, <2>2, <2>3 DEF PopJob
  <2> QED
    BY <2>3, <2>4
<1>11. CASE Pop
  <2>1. at = "status" /\ Asking
    BY <1>1, <1>11 DEF Pop
  <2>2. PICK level \in Nat : level = reply[1][1].n /\ level <= Len(Source)
    BY <1>2, <2>1 DEF Asking
  <2>3. PICK count \in Nat : count = PopCount(level) /\ count <= Len(Source')
    <3>1. PopCount(level) \in Nat /\ PopCount(level) <= level
      BY <1>1 DEF PopCount
    <3> QED
      BY <1>3, <2>2, <3>1
  <2>4. CASE count > 0
    <3>1. Read("rx", count) /\ at' = "popped" /\ local' = local
      BY <1>11, <2>2, <2>3, <2>4 DEF Pop, Goes
    <3>2. Popping' /\ Unpopped' = 0 /\ reply' = <<>>
      BY <1>b, <1>3, <2>3, <2>4, <3>1, PopsWords, Begins
    <3>3. QueueTypes' /\ route' /\ Routed(Drawn)' /\ Counts
      BY <1>6, <1>7, <2>1, <3>1, <3>2
    <3>4. PopJob'
      BY <1>1, <1>3, <1>5, <2>1, <3>1, <3>2, <3>3 DEF PopJob
    <3> QED
      BY <3>3, <3>4
  <2>5. CASE ~(count > 0)
    <3>1. Stays /\ at' = "level" /\ local' = local
      BY <1>11, <2>2, <2>3, <2>5 DEF Pop, Goes
    <3>2. AtRest /\ frame.reg = "status"
      BY <1>2, <2>1 DEF Asking, AtRest, OneWordReads
    <3>3. AtRest' /\ Telling' /\ frame'.reg = "status"
      BY <1>2, <3>1, <3>2 DEF AtRest, IsAFrame, Telling
    <3>4. QueueTypes' /\ route' /\ Routed(Drawn)' /\ Counts
      BY <1>6, <1>7, <2>1, <3>1
    <3>5. PopJob'
      BY <1>1, <1>3, <1>5, <2>1, <3>1, <3>3, <3>4 DEF PopJob
    <3> QED
      BY <3>4, <3>5
  <2> QED
    BY <2>4, <2>5
<1>12. CASE Popped
  <2>1. /\ at = "popped" /\ Stays /\ at' \in {"done", "level"}
        /\ local' = [local EXCEPT !.got = local.got \o reply]
    BY <1>12 DEF Popped, Goes
  <2>2. /\ Unpopped = 0 /\ reply \in Seq(Pairs) /\ Len(reply) \in Nat
        /\ Answers(reply, Len(local.got)) /\ AtRest /\ frame.reg = "rx"
    BY <1>b, <1>1, <2>1, PoppedAll
  <2>3. /\ local'.level = local.level /\ local'.got = local.got \o reply
        /\ DOMAIN local' = {"level", "got", "strayed"}
    BY <1>1, <2>1
  <2>4. /\ local'.got \in Seq(Pairs) /\ Len(local'.got) = Len(local.got) + Len(reply)
        /\ Answers(local.got, 0)'
    <3>1. /\ local'.got \in Seq(Pairs) /\ Len(local'.got) = Len(local.got) + Len(reply)
          /\ Answers(local'.got, 0)
      BY <1>1, <2>2, <2>3, AnswersConcat
    <3>2. Answers(local.got, 0)' <=> Answers(local'.got, 0)
      BY DEF Answers
    <3> QED
      BY <3>1, <3>2
  <2>5. AtRest' /\ Telling' /\ frame'.reg = "rx"
    BY <1>2, <2>1, <2>2 DEF AtRest, IsAFrame, Telling
  <2>6. Drawn' = Drawn /\ GotCount' = GotCount
    <3>1. Drawn = Len(local.got) + (Len(reply) - 0) /\ GotCount = Len(local.got) + Len(reply)
      BY <2>1, <2>2 DEF Drawn, GotCount
    <3>2. /\ Drawn' = Len(local.got) + Len(reply) + 0
          /\ GotCount' = Len(local.got) + Len(reply) + 0
      BY <2>1, <2>4 DEF Drawn, GotCount
    <3> QED
      BY <1>1, <2>2, <3>1, <3>2
  <2>7. QueueTypes' /\ route' /\ Routed(Drawn)' /\ Counts
    BY <1>6, <2>6
  <2>8. PopJob'
    BY <1>1, <1>3, <1>5, <2>1, <2>3, <2>4, <2>5, <2>7 DEF PopJob
  <2> QED
    BY <2>7, <2>8
<1> QED
  BY <1>b, <1>8, <1>9, <1>10, <1>11, <1>12

-----------------------------------------------------------------------------
\* The words are where they are to be at the start,
LEMMA ChannelInitInv == Init => ChannelInv
<1> SUFFICES ASSUME Init PROVE ChannelInv
  OBVIOUS
<1>1. /\ job \in {"exchange", "pop", "now", "edges"}
      /\ route \in BOOLEAN /\ made = 0 /\ room = [n \in Engines |-> FALSE]
      /\ select = 0 /\ state = "Idle" /\ strobe = NoStrobe /\ strobe.ask = "none"
      /\ frame = [reg |-> "status", writes |-> <<>>, reads |-> 0]
      /\ frame.reg = "status" /\ frame.writes = <<>> /\ frame.reads = 0 /\ reply = <<>>
      /\ Nothing = 0 /\ Stale \in Nat /\ Words \in Nat /\ Depth \in Nat /\ 0 < Depth
  BY QueuesAssumption DEF Init, QueuesInit, NoStrobe, Nothing, Stale
<1>2. AtRest /\ ~Writing
  BY <1>1 DEF AtRest, IsAFrame, Writing
<1>3. Telling
  BY <1>1, <1>2 DEF AtRest, Telling
<1>4. CASE job = "exchange"
  <2>1. /\ ~route /\ at = "load" /\ local = [k |-> 1, sent |-> 0, level |-> 0, got |-> <<>>]
    BY <1>4 DEF Init
  <2>2. /\ tx \in [Engines -> {<<>>, <<Stale>>}] /\ rx \in [Engines -> {<<>>, <<Stale>>}]
        /\ hold \in [Engines -> {Nothing, Stale}]
    BY <2>1 DEF Init, QueuesInit
  <2>3. QueueTypes
    <3>1. <<>> \in Seq(Nat) /\ <<Stale>> \in Seq(Nat)
      BY <1>1
    <3>2. tx \in [Engines -> Seq(Nat)] /\ rx \in [Engines -> Seq(Nat)]
      BY <2>2, <3>1
    <3>3. hold \in [Engines -> Nat]
      BY <1>1, <2>2
    <3> QED
      BY <1>1, <3>2, <3>3 DEF QueueTypes
  <2>4. /\ DOMAIN local = {"k", "sent", "level", "got"} /\ local.k = 1 /\ local.sent = 0
        /\ local.level = 0 /\ local.got = <<>>
    BY <2>1
  <2>5. Loaded = 0
    BY <1>2, <2>4 DEF Loaded
  <2>6. Loading
    BY <1>1, <1>2, <1>3, <2>4, <2>5, LoadWritesAre DEF Loading
  <2>7. ExchangeJob
    BY <1>1, <2>1, <2>4, <2>6 DEF ExchangeJob, Answers
  <2> QED
    BY <1>4, <2>3, <2>7 DEF ChannelInv
<1>5. CASE job = "pop"
  <2>1. /\ route /\ at = "select" /\ local = [level |-> PopAsks, got |-> <<>>, strayed |-> FALSE]
    BY <1>5 DEF Init
  <2>2. /\ tx = [n \in Engines |-> <<>>] /\ rx = [n \in Engines |-> <<>>]
        /\ hold = [n \in Engines |-> Nothing]
    BY <2>1 DEF Init, QueuesInit
  <2>3. QueueTypes
    BY <1>1, <2>2 DEF QueueTypes
  <2>4. /\ DOMAIN local = {"level", "got", "strayed"} /\ local.level \in Nat /\ local.got = <<>>
    BY <2>1, HostPortAssumption
  <2>5. Drawn = 0
    BY <2>1, <2>4 DEF Drawn
  <2>6. Routed(0)
    <3>1. /\ tx[1] = <<>> /\ rx[1] = <<>> /\ hold[0] = 0 /\ hold[1] = 0 /\ ~room[0] /\ ~room[1]
      BY <1>1, <2>2 DEF Engines
    <3>2. Line(<<>>, 0, <<>>, 0, 0) /\ made - Carried(hold[0]) = 0
      BY <1>1, <3>1 DEF Line, Run, Carried
    <3> QED
      BY <1>1, <3>1, <3>2 DEF Routed
  <2>7. PopJob
    <3>1. Routed(Drawn) /\ 0 \in Engines
      BY <2>5, <2>6 DEF Engines
    <3> QED
      BY <1>1, <1>2, <2>1, <2>4, <3>1 DEF PopJob, Answers
  <2> QED
    BY <1>5, <2>3, <2>7 DEF ChannelInv
<1> QED
  BY <1>1, <1>4, <1>5 DEF ChannelInv

\* Every step of a job that exchanges words keeps to the counts.
LEMMA ChannelSteps ==
  ASSUME ChannelInv, Next
  PROVE  ChannelInv' /\ UNCHANGED job /\ (job \in {"exchange", "pop"} => Counts)
<1>1. UNCHANGED job
  BY NextDoes
<1>2. CASE job = "exchange"
  <2>1. QueueTypes /\ ExchangeJob
    BY <1>2 DEF ChannelInv
  <2>2. QueueTypes' /\ ExchangeJob' /\ Counts
    <3>1. CASE at = "load"
      BY <1>2, <2>1, <3>1, ExchangeLoad
    <3>2. CASE at # "load" /\ (Quiet \/ Byte)
      BY <1>2, <2>1, <3>2, ExchangeBytes
    <3>3. CASE at # "load" /\ Program
      BY <1>2, <2>1, <3>3, ExchangeProgram
    <3> QED
      BY <3>1, <3>2, <3>3 DEF Next, Host
  <2> QED
    BY <1>1, <1>2, <2>2 DEF ChannelInv
<1>3. CASE job = "pop"
  <2>1. QueueTypes /\ PopJob
    BY <1>3 DEF ChannelInv
  <2>2. QueueTypes' /\ PopJob' /\ Counts
    <3>1. CASE Quiet \/ Byte
      BY <1>3, <2>1, <3>1, PopBytes
    <3>2. CASE Program
      BY <1>3, <2>1, <3>2, PopProgram
    <3> QED
      BY <3>1, <3>2 DEF Next, Host
  <2> QED
    BY <1>1, <1>3, <2>2 DEF ChannelInv
<1>4. CASE job \notin {"exchange", "pop"}
  BY <1>1, <1>4 DEF ChannelInv
<1> QED
  BY <1>2, <1>3, <1>4

\* and stay so, step by step.
LEMMA ChannelStepInv == ChannelInv /\ [Next]_vars => ChannelInv'
<1> SUFFICES ASSUME ChannelInv, [Next]_vars PROVE ChannelInv'
  OBVIOUS
<1>1. CASE Next
  BY <1>1, ChannelSteps
<1>2. CASE UNCHANGED vars
  <2>1. UNCHANGED <<tx, rx, hold, room, halted, route, made, select, state, word, strobe,
                    frame, high, reply, job, at, local>>
    BY <1>2 DEF vars, queueVars, portVars, hostVars
  <2>2. /\ UNCHANGED <<IsAFrame, AtRest, Telling, Unpopped, Unwritten, Writing, Source,
                       IsLatched, TheWord, OneWordReads>>
    BY <2>1 DEF IsAFrame, AtRest, Telling, Unpopped, Unwritten, Writing, Source,
       IsLatched, TheWord, OneWordReads
  <2>3. UNCHANGED <<Drawn, PutIn, Loaded, Asking, Popping, Pushing>>
    BY <2>1, <2>2 DEF Drawn, PutIn, Loaded, Asking, Popping, Pushing, Answers
  <2>4. UNCHANGED <<QueueTypes, Loading, ExchangeFlow, Routed(Drawn)>>
    BY <2>1, <2>2, <2>3 DEF QueueTypes, Loading, ExchangeFlow, Routed, Answered, Line, Run
  <2>5. UNCHANGED <<ExchangeJob, PopJob>>
    BY <2>1, <2>2, <2>3, <2>4 DEF ExchangeJob, PopJob, Answers
  <2> QED
    BY <2>1, <2>4, <2>5 DEF ChannelInv
<1> QED
  BY <1>1, <1>2

\* In an exchange, and when one engine feeds another, the queues hold the words
\* put in and not yet popped, in order, and a frame on its way is of them: for
\* every depth of the queues (host_fifo.ml, engines.ml: route; bench.py).
THEOREM ChannelInvariant == Spec => []ChannelInv
<1> QED
  BY ChannelInitInv, ChannelStepInv, PTL DEF Spec

-----------------------------------------------------------------------------
\* The first n words.
Numbers(n) == [i \in 1 .. n |-> i]

\* How many the host has read.
GotSoFar == IF job \in {"exchange", "pop"} THEN GotCount ELSE 0

\* The word after the first n goes on with them.
LEMMA NumbersAppend ==
  ASSUME NEW n \in Nat
  PROVE  Len(Numbers(n)) = n /\ Numbers(n + 1) = Append(Numbers(n), Len(Numbers(n)) + 1)
<1>1. Numbers(n) \in Seq(Nat) /\ Len(Numbers(n)) = n
  BY DEF Numbers
<1>2. Numbers(n + 1) \in Seq(Nat) /\ Len(Numbers(n + 1)) = n + 1
  BY DEF Numbers
<1>3. /\ Append(Numbers(n), n + 1) \in Seq(Nat) /\ Len(Append(Numbers(n), n + 1)) = n + 1
      /\ \A i \in 1 .. n : Append(Numbers(n), n + 1)[i] = Numbers(n)[i]
      /\ Append(Numbers(n), n + 1)[n + 1] = n + 1
  BY <1>1, AppendProperties
<1>4. ASSUME NEW i \in 1 .. n + 1
      PROVE  Numbers(n + 1)[i] = Append(Numbers(n), n + 1)[i]
  <2>1. Numbers(n + 1)[i] = i /\ (i \in 1 .. n => Numbers(n)[i] = i)
    BY DEF Numbers
  <2>2. i \in 1 .. n \/ i = n + 1
    OBVIOUS
  <2> QED
    BY <1>3, <2>1, <2>2
<1>5. Numbers(n + 1) = Append(Numbers(n), n + 1)
  BY <1>2, <1>3, <1>4, SeqEqual
<1> QED
  BY <1>1, <1>5

\* The words the host has are the first ones, each said in two bytes alike.
LEMMA GotTheFirst ==
  ASSUME ChannelInv
  PROVE  GotSoFar \in Nat /\ GotWords = Numbers(GotSoFar)
<1> DEFINE parts == CASE job = "exchange" /\ at = "popped" -> local.got \o reply
                      [] job = "pop" /\ at = "popped" -> local.got \o reply
                      [] job \in {"exchange", "pop"} /\ at # "popped" -> local.got
                      [] OTHER -> <<>>
<1>1. GotWords = [i \in 1 .. Len(parts) |->
                    IF parts[i][1] = parts[i][2] THEN parts[i][1].n ELSE Nothing]
  BY DEF GotWords
<1>2. Len(parts) = GotSoFar /\ GotSoFar \in Nat /\ Answers(parts, 0)
  <2>1. CASE job \in {"exchange", "pop"}
    <3>1. local.got \in Seq(Pairs) /\ Answers(local.got, 0) /\ (at = "popped" => Popping)
      BY <2>1 DEF ChannelInv, ExchangeJob, PopJob
    <3>2. CASE at = "popped"
      <4>1. /\ reply \in Seq(Pairs) /\ Answers(reply, Len(local.got))
            /\ Len(reply) \in Nat /\ Len(local.got) \in Nat
        BY <3>1, <3>2, LenProperties DEF Popping
      <4>2. parts = local.got \o reply
        BY <2>1, <3>2
      <4> HIDE DEF parts
      <4>3. Len(parts) = Len(local.got) + Len(reply) /\ Answers(parts, 0)
        BY <3>1, <4>1, <4>2, AnswersConcat
      <4>4. GotSoFar = Len(local.got) + Len(reply)
        BY <2>1, <3>2 DEF GotSoFar, GotCount
      <4> QED
        BY <4>1, <4>3, <4>4
    <3>3. CASE at # "popped"
      <4>1. parts = local.got /\ Len(local.got) \in Nat
        BY <2>1, <3>1, <3>3, LenProperties
      <4>2. GotSoFar = Len(local.got) + 0
        BY <2>1, <3>3 DEF GotSoFar, GotCount
      <4> HIDE DEF parts
      <4> QED
        BY <3>1, <4>1, <4>2
    <3> QED
      BY <3>2, <3>3
  <2>2. CASE job \notin {"exchange", "pop"}
    <3>1. parts = <<>> /\ GotSoFar = 0
      BY <2>2 DEF GotSoFar
    <3> HIDE DEF parts
    <3> QED
      BY <3>1 DEF Answers
  <2> QED
    BY <2>1, <2>2
<1> HIDE DEF parts
<1>3. ASSUME NEW i \in 1 .. Len(parts)
      PROVE  (IF parts[i][1] = parts[i][2] THEN parts[i][1].n ELSE Nothing) = i
  <2>1. parts[i] = <<Is(0 + i), Is(0 + i)>> /\ 0 + i = i
    BY <1>2 DEF Answers
  <2> QED
    BY <2>1 DEF Is
<1> QED
  BY <1>1, <1>2, <1>3 DEF Numbers

\* No word has been put in or taken out at the start.
LEMMA ChannelInitial ==
  ASSUME Init
  PROVE  C!Init
<1>1. ChannelInv
  BY ChannelInitInv
<1>2. GotWords = Numbers(GotSoFar)
  BY <1>1, GotTheFirst
<1>3. GotSoFar = 0
  <2>1. job \in {"exchange", "pop"} => local.got = <<>> /\ at # "popped"
    BY DEF Init
  <2>2. job \in {"exchange", "pop"} => GotCount = 0 + 0
    BY <2>1 DEF GotCount
  <2> QED
    BY <2>2 DEF GotSoFar
<1>4. GotWords = <<>>
  BY <1>2, <1>3 DEF Numbers
<1>5. SentWords = 0
  <2>1. frame.reg # "tx" /\ made = 0 /\ (job = "exchange" => local.sent = 0)
    BY DEF Init, QueuesInit
  <2>2. job = "exchange" => SentWords = 0 - 0
    BY <2>1 DEF SentWords
  <2> QED
    BY <2>1, <2>2 DEF SentWords
<1>6. (IF job \in {"exchange", "pop"} THEN Words ELSE 0) \in Nat
  BY QueuesAssumption
<1> QED
  BY <1>4, <1>5, <1>6 DEF C!Init

\* Each step is a word put in, a word taken out, both at once, or neither.
LEMMA ChannelStep ==
  ASSUME ChannelInv, [Next]_vars
  PROVE  [C!Next]_(C!vars)
<1> DEFINE total == IF job \in {"exchange", "pop"} THEN Words ELSE 0
<1>1. CASE UNCHANGED vars
  <2>1. UNCHANGED <<made, frame, reply, job, at, local>>
    BY <1>1 DEF vars, queueVars, hostVars
  <2>2. UNCHANGED <<SentWords, GotWords, total>>
    BY <2>1 DEF SentWords, GotWords
  <2> QED
    BY <2>2 DEF C!vars
<1>2. CASE Next
  <2>1. ChannelInv' /\ UNCHANGED job /\ (job \in {"exchange", "pop"} => Counts)
    BY <1>2, ChannelSteps
  <2>2. GotSoFar \in Nat /\ GotWords = Numbers(GotSoFar)
    BY GotTheFirst
  <2>3. GotWords' = Numbers(GotSoFar')
    <3>1. (GotWords = Numbers(GotSoFar))'
      BY <2>1, GotTheFirst, PTL
    <3> QED
      BY <3>1 DEF Numbers
  <2>4. CASE job \notin {"exchange", "pop"}
    <3>1. UNCHANGED <<SentWords, GotSoFar, total>>
      BY <2>1, <2>4 DEF SentWords, GotSoFar
    <3>2. UNCHANGED GotWords
      BY <2>2, <2>3, <3>1
    <3> QED
      BY <3>1, <3>2 DEF C!vars
  <2>5. CASE job \in {"exchange", "pop"}
    <3>1. total = Words /\ total' = Words
      BY <2>1, <2>5
    <3>2. /\ GotSoFar' = GotSoFar \/ (GotSoFar' = GotSoFar + 1 /\ GotSoFar < SentWords)
          /\ SentWords' = SentWords \/ (SentWords' = SentWords + 1 /\ SentWords < Words)
      BY <2>1, <2>5 DEF Counts, GotSoFar
    <3>3. Len(GotWords) = GotSoFar
      BY <2>2, NumbersAppend
    <3>4. GotSoFar' = GotSoFar => UNCHANGED GotWords
      BY <2>2, <2>3
    <3>5. GotSoFar' = GotSoFar + 1 => GotWords' = Append(GotWords, Len(GotWords) + 1)
      BY <2>2, <2>3, NumbersAppend
    <3> QED
      BY <3>1, <3>2, <3>3, <3>4, <3>5 DEF C!Next, C!Put, C!Get, C!Both, C!vars
  <2> QED
    BY <2>4, <2>5
<1> QED
  BY <1>1, <1>2

\* Bench.exchange, and a host popping an engine another one feeds, lose no word,
\* repeat none and keep their order, whatever earlier firmware left in the queues
\* and whenever the engines move them: the part of IsAChannel that says what no
\* step may do, for every depth of the queues and number of words.
THEOREM WordsKeepTheirOrder == Spec => C!Init /\ [][C!Next]_(C!vars)
<1>1. Init => C!Init
  BY ChannelInitial
<1>2. ChannelInv /\ [Next]_vars => [C!Next]_(C!vars)
  BY ChannelStep
<1> QED
  BY <1>1, <1>2, ChannelInvariant, PTL DEF Spec

-----------------------------------------------------------------------------
(***************************************************************************)
(* What a recording's times are worth: they are exact, however long the    *)
(* recording, as long as the Pico's microseconds are right to less than    *)
(* half a wrap between two reads, unless the recording is marked late.     *)
(***************************************************************************)

\* Taking the low bits of two clocks loses nothing of how far apart they are, up to
\* whole wraps.
LEMMA SinceLastIsLow ==
  ASSUME NEW c0 \in Nat, NEW c1 \in Nat
  PROVE  SinceLast(Low(c1), Low(c0)) = (c1 - c0) % Wrap
  BY SMT DEF SinceLast, Low, Wrap

\* Rounding to the nearest wrap finds the wraps there were, if the error is below half.
LEMMA WrapsAreCounted ==
  ASSUME NEW elapsed \in Nat, NEW gap \in Int,
         gap * CyclesPerUs - elapsed < Wrap \div 2,
         elapsed - gap * CyclesPerUs <= Wrap \div 2
  PROVE  /\ Wraps(gap, elapsed % Wrap) = elapsed \div Wrap
         /\ elapsed = (elapsed % Wrap) + (elapsed \div Wrap) * Wrap
         /\ elapsed \div Wrap \in Nat
  BY SMT DEF Wraps, CyclesPerUs, Wrap

\* The clock goes on exactly from one read to the next: of the engine's whole clock c1
\* nothing is lost but what the premise on the Pico's microseconds allows for
\* (learn_record.py, record: clock[k] += low + ...).
THEOREM ClockIsExact ==
  ASSUME NEW c0 \in Nat, NEW c1 \in Nat, c0 <= c1, NEW gap \in Int,
         gap * CyclesPerUs - (c1 - c0) < Wrap \div 2,
         (c1 - c0) - gap * CyclesPerUs <= Wrap \div 2
  PROVE  Extended(c0, Low(c0), Low(c1), gap) = c1
<1> DEFINE elapsed == c1 - c0
<1>1. elapsed \in Nat
  OBVIOUS
<1>2. SinceLast(Low(c1), Low(c0)) = elapsed % Wrap
  BY SinceLastIsLow
<1>3. /\ Wraps(gap, elapsed % Wrap) = elapsed \div Wrap
      /\ elapsed = (elapsed % Wrap) + (elapsed \div Wrap) * Wrap
      /\ elapsed \div Wrap \in Nat
  BY <1>1, WrapsAreCounted
<1>4. Extended(c0, Low(c0), Low(c1), gap)
        = c0 + (elapsed % Wrap)
            + (IF elapsed \div Wrap > 0 THEN (elapsed \div Wrap) * Wrap ELSE 0)
  BY <1>2, <1>3 DEF Extended
<1>5. Extended(c0, Low(c0), Low(c1), gap) = c0 + elapsed
  BY <1>3, <1>4, SMT DEF Wrap
<1> QED
  BY <1>5

\* A stamp less than a wrap old is given the cycle of its edge, whole.
THEOREM StampIsExact ==
  ASSUME NEW edge \in Nat, NEW c1 \in Nat, edge <= c1, c1 - edge < Wrap
  PROVE  TimeOf(c1, Low(c1), Low(edge)) = edge
  BY SMT DEF TimeOf, Low, Wrap

\* Every edge of a drain that is not late is given its cycle.  The edge is one the drain
\* before left: it came after that drain looked for stamps, at most slack cycles before
\* its read of the clock; slack and the error of the microseconds together stay below
\* 17,536 cycles (365 us), what a wrap has over LATE_US.
THEOREM NotLateIsExact ==
  ASSUME NEW c0 \in Nat, NEW c1 \in Nat, c0 <= c1, NEW gap \in Int, ~Late(gap),
         NEW error \in Nat, NEW slack \in Nat, error + slack < Wrap - LateUs * CyclesPerUs,
         gap * CyclesPerUs - (c1 - c0) <= error,
         (c1 - c0) - gap * CyclesPerUs <= error,
         NEW edge \in Nat, edge <= c1, c0 <= edge + slack
  PROVE  TimeOf(Extended(c0, Low(c0), Low(c1), gap), Low(c1), Low(edge)) = edge
<1>1. error < Wrap \div 2
  BY SMT DEF Wrap, LateUs, CyclesPerUs
<1>2. Extended(c0, Low(c0), Low(c1), gap) = c1
  BY <1>1, ClockIsExact, SMT DEF Wrap, CyclesPerUs
<1>3. c1 - edge < Wrap
  BY SMT DEF Late, Wrap, LateUs, CyclesPerUs
<1> QED
  BY <1>2, <1>3, StampIsExact
=============================================================================
