--------------------------- MODULE FrameRxProofs ----------------------------
(***************************************************************************)
(* A frame receiver for every size of memory and word counter: what it     *)
(* lands is its own frame's, in place, and what it reports of a finished   *)
(* frame is so, whatever the host, the other receiver and the memory port  *)
(* do between.                                                             *)
(*                                                                         *)
(* The properties speak of a finished frame.  The invariant says the same  *)
(* of a frame on its way, but for the one word that waits.                 *)
(***************************************************************************)
EXTENDS FrameRx, TLAPS

\* The receiver the host has selected, past the cycle that arms it, on a base
\* that has not moved.
Sound == selected /\ ~arm /\ ~moved

\* The counter follows the words, to its last value, and the word that waits is
\* the last to have come.
Counts ==
  /\ words = IF sent <= WordMax THEN sent ELSE WordMax
  /\ pending => /\ sent >= 1
                /\ value = sent
                /\ index = IF sent - 1 <= WordMax THEN sent - 1 ELSE WordMax

\* The word that waits has not landed, nor any that has not come.
LandsOnce ==
  Sound => \A a \in Addresses :
             landed[a] <= sent /\ (pending => landed[a] # sent)

\* Until a loss every word has landed but the one that waits.
SoFarWhole ==
  Sound /\ ~dropped =>
    \A i \in 1 .. sent : IsAt(i) \/ (pending /\ i = sent)

\* Word i will not land any more.
Lost(i) == ~IsAt(i) /\ (pending /\ i = sent => ~Fits)

LossIsSo == Sound /\ dropped => \E i \in 1 .. sent : Lost(i)

\* A frame that has ended is received no more, and a selected receiver whose
\* frame has ended is armed only if its end was to arm it.
EndsForGood ==
  /\ ended => ~receiving
  /\ selected /\ ~arm /\ ended /\ ~rearm => ~armed

FrameInv ==
  /\ TypeOK
  /\ Counts
  /\ LandsInPlace
  /\ LandsOnce
  /\ SoFarWhole
  /\ LossIsSo
  /\ EndsForGood

-----------------------------------------------------------------------------
\* The assumption on the constants, and the addresses as numbers.
LEMMA Bounds ==
  /\ DataWords \in Nat /\ DataWords > 0
  /\ WordMax \in Nat /\ WordMax >= DataWords
  /\ SentMax \in Nat /\ SentMax > WordMax
  /\ \A a \in Addresses : a \in Nat /\ a < DataWords
BY FrameRxAssumption, SMT DEF Addresses

\* Whatever the host does in a cycle, a receiver that ends it selected and not
\* about to be armed began it selected, and its rearm is as it was.
LEMMA HostStep ==
  ASSUME TypeOK, Next
  PROVE  /\ Cycle
         /\ base' \in Addresses /\ arm' \in BOOLEAN
         /\ rearm' \in BOOLEAN /\ selected' \in BOOLEAN
         /\ selected' /\ ~arm' => selected /\ rearm' = rearm
<1>1. CASE Quiet
  BY <1>1 DEF Quiet, TypeOK
<1>2. CASE Arm
  <2>1. /\ Cycle /\ base' = base
        /\ selected' \in BOOLEAN /\ arm' = selected'
        /\ rearm' \in {FALSE, Rearms}
    BY <1>2 DEF Arm
  <2> QED
    BY <2>1, FrameRxAssumption, Zenon DEF TypeOK
<1>3. CASE BaseWrite
  BY <1>3 DEF BaseWrite, TypeOK
<1> QED
  BY <1>1, <1>2, <1>3 DEF Next

\* What a write of this receiver is to address: base + index, which is in memory.
LEMMA WritesAt ==
  ASSUME TypeOK, NEW may_write \in BOOLEAN, Writes(may_write)
  PROVE  /\ Address \in Addresses
         /\ Address % DataWords = Address
         /\ Address = base + index
<1>1. Address = base + index /\ base \in Nat /\ index \in Nat
  BY Bounds, SMT DEF TypeOK, Address
<1>2. Address < DataWords
  BY DEF Writes, Fits
<1> QED
  BY <1>1, <1>2, Bounds, SMT DEF Addresses

\* Every register keeps to its values.
LEMMA TypeStep ==
  ASSUME TypeOK, Next
  PROVE  TypeOK'
<1>1. Cycle
  BY HostStep
<1>2. PICK may_write \in BOOLEAN : Receives(may_write) /\ Follows(may_write)
  BY <1>1 DEF Cycle, TypeOK
<1>3. /\ line' \in BOOLEAN /\ sfd_seen' \in BOOLEAN
      /\ word_valid' \in BOOLEAN /\ frame_end' \in BOOLEAN
  BY <1>1 DEF Cycle, Decodes, TypeOK
<1>4. /\ armed' \in BOOLEAN /\ receiving' \in BOOLEAN /\ pending' \in BOOLEAN
      /\ dropped' \in BOOLEAN /\ ended' \in BOOLEAN
  BY <1>2 DEF Receives, Armed, Receiving, Pending, Dropped, TypeOK
<1>5. words' \in 0 .. WordMax /\ index' \in 0 .. WordMax
  BY <1>2, Bounds, SMT DEF Receives, Full, TypeOK
<1>6. sent' \in 0 .. SentMax /\ value' \in 0 .. Old
  BY <1>2, Bounds, SMT DEF Follows, Old, TypeOK
<1>7. landed' \in [Addresses -> 0 .. Old]
  <2>1. 0 \in 0 .. Old /\ Old \in 0 .. Old
    BY Bounds, SMT DEF Old
  <2> QED
    BY <1>2, <2>1 DEF Follows, TypeOK
<1>8. moved' \in BOOLEAN
  BY <1>2 DEF Follows
<1> QED
  BY <1>3, <1>4, <1>5, <1>6, <1>7, <1>8, HostStep DEF TypeOK

\* A word taken is counted, and waits as the last to have come.
LEMMA CountsStep ==
  ASSUME TypeOK, Counts, NEW may_write \in BOOLEAN,
         Receives(may_write), Follows(may_write)
  PROVE  Counts'
<1> USE Bounds DEF TypeOK, Counts
<1>1. CASE Restarts
  <2>1. words' = 0 /\ sent' = 0 /\ ~pending'
    BY <1>1 DEF Receives, Follows, Pending
  <2> QED
    BY <2>1, SMT
<1>2. CASE ~Restarts /\ Takes
  <2>1. /\ words' = IF words = WordMax THEN words ELSE words + 1
        /\ index' = words
        /\ sent' = IF sent < SentMax THEN sent + 1 ELSE sent
        /\ value' = sent'
    BY <1>2 DEF Receives, Follows, Full
  <2> QED
    BY <2>1, SMT
<1>3. CASE ~Restarts /\ ~Takes
  <2>1. /\ UNCHANGED <<words, index, sent, value>>
        /\ pending' => pending
    BY <1>3 DEF Receives, Follows, Pending
  <2> QED
    BY <2>1, SMT
<1> QED
  BY <1>1, <1>2, <1>3

-----------------------------------------------------------------------------
(***************************************************************************)
(* What a step does to a frame's words, for a receiver that ends it sound. *)
(***************************************************************************)

\* Such a step restarts the frame, and with it memory, or finds the receiver
\* sound on the same base.
LEMMA SoundStep ==
  ASSUME TypeOK, Next, NEW may_write \in BOOLEAN,
         Receives(may_write), Follows(may_write), Sound'
  PROVE  \/ /\ Restarts
            /\ sent' = 0 /\ ~pending' /\ ~dropped'
            /\ landed' = [a \in Addresses |-> 0]
         \/ ~Restarts /\ Sound /\ base' = base
<1>1. CASE Restarts
  BY <1>1 DEF Receives, Follows, Pending, Dropped
<1>2. CASE ~Restarts
  <2>1. selected /\ ~arm
    BY <1>2, HostStep DEF Sound, Restarts
  <2>2. ~moved /\ base' = base
    BY <1>2 DEF Follows, Sound, TypeOK
  <2> QED
    BY <1>2, <2>1, <2>2 DEF Sound
<1> QED
  BY <1>1, <1>2

\* A selected receiver's memory changes where its own word lands, and nowhere else.
LEMMA LandedStep ==
  ASSUME TypeOK, NEW may_write \in BOOLEAN, Follows(may_write),
         selected, ~Restarts
  PROVE  \A a \in Addresses :
           landed'[a] = IF Writes(may_write) /\ a = base + index
                        THEN value ELSE landed[a]
<1>1. CASE Writes(may_write)
  <2>1. landed' = [landed EXCEPT ![base + index] = value]
    BY <1>1, WritesAt DEF Follows
  <2> QED
    BY <1>1, <2>1, WritesAt DEF TypeOK
<1>2. CASE ~Writes(may_write)
  BY <1>2 DEF Follows, OthersWrites
<1> QED
  BY <1>1, <1>2

\* A word that lands is the last to have come, at its own place.
LEMMA WritesItsWord ==
  ASSUME TypeOK, Counts, NEW may_write \in BOOLEAN, Writes(may_write)
  PROVE  /\ pending /\ value = sent /\ sent >= 1
         /\ base + index = base + sent - 1
         /\ base + sent - 1 \in Addresses
<1>1. base + index \in Addresses /\ pending
  BY WritesAt DEF Writes
<1> QED
  BY <1>1, Bounds, SMT DEF TypeOK, Counts, Addresses

\* A word that lands is the one that waited, at its place.
LEMMA LandsInPlaceStep ==
  ASSUME TypeOK, Counts, LandsInPlace, Next, NEW may_write \in BOOLEAN,
         Receives(may_write), Follows(may_write)
  PROVE  LandsInPlace'
<1> SUFFICES ASSUME Sound', NEW a \in Addresses, landed'[a] # 0
             PROVE  a >= base' /\ landed'[a] = a - base' + 1
  BY DEF LandsInPlace, Sound, Addresses
<1>1. ~Restarts /\ Sound /\ base' = base
  BY SoundStep
<1>2. landed'[a] = IF Writes(may_write) /\ a = base + index
                   THEN value ELSE landed[a]
  BY <1>1, LandedStep DEF Sound
<1>3. CASE Writes(may_write) /\ a = base + index
  BY <1>1, <1>2, <1>3, WritesItsWord, Bounds, SMT DEF TypeOK
<1>4. CASE ~(Writes(may_write) /\ a = base + index)
  BY <1>1, <1>2, <1>4 DEF LandsInPlace, Sound
<1> QED
  BY <1>3, <1>4

\* No word in place has the last number the model tells apart, so a count that has
\* reached it is no landed word's.
LEMMA LandedBelowCap ==
  ASSUME TypeOK, LandsInPlace, Sound, NEW a \in Addresses
  PROVE  landed[a] \in Nat /\ landed[a] < SentMax
<1>1. landed[a] \in Nat /\ a \in Nat /\ base \in Nat /\ a < DataWords
  BY Bounds, SMT DEF TypeOK
<1>2. landed[a] # 0 => landed[a] = a - base + 1
  BY DEF LandsInPlace, Sound
<1> QED
  BY <1>1, <1>2, Bounds, SMT

\* A word that comes has not landed yet.
LEMMA LandsOnceStep ==
  ASSUME TypeOK, Counts, LandsInPlace, LandsOnce, Next,
         NEW may_write \in BOOLEAN, Receives(may_write), Follows(may_write)
  PROVE  LandsOnce'
<1> SUFFICES ASSUME Sound', NEW a \in Addresses
             PROVE  landed'[a] <= sent' /\ (pending' => landed'[a] # sent')
  BY DEF LandsOnce, Addresses
<1>1. CASE Restarts
  BY <1>1, SoundStep
<1>2. CASE ~Restarts
  <2>1. Sound
    BY <1>2, SoundStep
  <2>2. landed'[a] = IF Writes(may_write) /\ a = base + index
                     THEN value ELSE landed[a]
    BY <1>2, <2>1, LandedStep DEF Sound
  <2>3. landed[a] \in Nat /\ landed[a] < SentMax /\ landed[a] <= sent
    BY <2>1, LandedBelowCap DEF LandsOnce
  <2>4. sent \in 0 .. SentMax
    BY DEF TypeOK
  <2>5. Writes(may_write) =>
          value = sent /\ pending /\ base + sent - 1 \in Addresses /\ sent < SentMax
    BY WritesItsWord, Bounds, SMT DEF TypeOK
  <2>6. CASE Takes
    <3>1. sent' = IF sent < SentMax THEN sent + 1 ELSE sent
      BY <1>2, <2>6 DEF Follows
    <3> QED
      BY <2>2, <2>3, <2>4, <2>5, <3>1, Bounds, SMT
  <2>7. CASE ~Takes
    <3>1. sent' = sent /\ (pending' => pending /\ ~Leaves(may_write))
      BY <1>2, <2>7 DEF Follows, Receives, Pending
    <3>2. pending' => ~Writes(may_write)
      BY <3>1 DEF Writes, Leaves
    <3>3. pending => landed[a] # sent
      BY <2>1 DEF LandsOnce
    <3> QED
      BY <2>2, <2>3, <2>5, <3>1, <3>2, <3>3, <2>4, SMT
  <2> QED
    BY <2>6, <2>7
<1> QED
  BY <1>1, <1>2

\* Where word i of the frame belongs is one address, and no other word's.
LEMMA SoFarWholeStep ==
  ASSUME TypeOK, Counts, SoFarWhole, Next,
         NEW may_write \in BOOLEAN, Receives(may_write), Follows(may_write)
  PROVE  SoFarWhole'
<1> SUFFICES ASSUME Sound', ~dropped', NEW i \in 1 .. sent'
             PROVE  IsAt(i)' \/ (pending' /\ i = sent')
  BY DEF SoFarWhole
<1>1. CASE Restarts
  BY <1>1, SoundStep, SMT
<1>2. CASE ~Restarts
  <2>1. Sound /\ base' = base
    BY <1>2, SoundStep
  <2>2. /\ ~dropped
        /\ Leaves(may_write) => Fits
        /\ Takes /\ pending => Leaves(may_write)
    BY <1>2 DEF Receives, Dropped
  <2>3. pending /\ Leaves(may_write) => Writes(may_write)
    BY <2>1, <2>2 DEF Writes, Leaves, Sound
  <2>4. sent \in 0 .. SentMax /\ base \in Nat /\ i \in Nat /\ i >= 1
    BY Bounds, SMT DEF TypeOK
  <2>5. \A a \in Addresses :
          landed'[a] = IF Writes(may_write) /\ a = base + index
                       THEN value ELSE landed[a]
    BY <1>2, <2>1, LandedStep DEF Sound
  <2>6. ASSUME i <= sent, IsAt(i)
        PROVE  IsAt(i)'
    <3>1. base + i - 1 \in Addresses /\ landed[base + i - 1] = i
      BY <2>4, <2>6, Bounds, SMT DEF IsAt, Addresses
    <3>2. Writes(may_write) /\ base + i - 1 = base + index => value = i
      BY <2>4, WritesItsWord, Bounds, SMT
    <3>3. landed'[base + i - 1] = i
      BY <2>5, <3>1, <3>2
    <3> QED
      BY <2>1, <2>6, <3>3 DEF IsAt
  <2>7. ASSUME Writes(may_write), i = sent
        PROVE  IsAt(i)'
    <3>1. value = sent /\ base + index = base + sent - 1 /\ base + sent - 1 \in Addresses
      BY <2>7, WritesItsWord
    <3>2. landed'[base + sent - 1] = sent
      BY <2>5, <2>7, <3>1
    <3> QED
      BY <2>1, <2>7, <3>1, <3>2, Bounds DEF IsAt
  <2>8. i <= sent => IsAt(i) \/ (pending /\ i = sent)
    BY <2>1, <2>2, <2>4, SMT DEF SoFarWhole
  <2>9. CASE Takes
    <3>1. /\ pending'
          /\ sent' = IF sent < SentMax THEN sent + 1 ELSE sent
      BY <1>2, <2>9 DEF Receives, Follows, Pending
    <3>2. i <= sent \/ i = sent'
      BY <2>4, <3>1, SMT
    <3>3. pending => Writes(may_write)
      BY <2>2, <2>3, <2>9
    <3> QED
      BY <2>6, <2>7, <2>8, <3>1, <3>2, <3>3
  <2>10. CASE ~Takes
    <3>1. sent' = sent /\ pending' = (pending /\ ~Leaves(may_write))
      BY <1>2, <2>10 DEF Receives, Follows, Pending, TypeOK
    <3>2. i <= sent
      BY <2>4, <3>1, SMT
    <3> QED
      BY <2>3, <2>6, <2>7, <2>8, <3>1, <3>2
  <2> QED
    BY <2>9, <2>10
<1> QED
  BY <1>1, <1>2

\* A word lost stays lost, and so is one that leaves past the memory's end or that
\* the next one displaces.
LEMMA LossStep ==
  ASSUME TypeOK, Counts, LandsOnce, LossIsSo, Next,
         NEW may_write \in BOOLEAN, Receives(may_write), Follows(may_write)
  PROVE  LossIsSo'
<1> SUFFICES ASSUME Sound', dropped'
             PROVE  \E i \in 1 .. sent' : Lost(i)'
  BY DEF LossIsSo
<1>1. ~Restarts /\ Sound /\ base' = base
  BY SoundStep
<1>2. /\ sent \in 0 .. SentMax /\ base \in Nat /\ index \in Nat
      /\ sent' \in 0 .. SentMax /\ sent' >= sent
  BY <1>1, Bounds, SMT DEF TypeOK, Follows
<1>3. \A a \in Addresses :
        landed'[a] = IF Writes(may_write) /\ a = base + index
                     THEN value ELSE landed[a]
  BY <1>1, LandedStep DEF Sound
<1>4. Takes => sent' = SentMax \/ sent' = sent + 1
  <2>1. Takes => sent' = IF sent < SentMax THEN sent + 1 ELSE sent
    BY <1>1 DEF Follows
  <2> QED
    BY <1>2, <2>1, Bounds, SMT
<1>5. ~Takes => index' = index /\ (pending' => pending /\ ~Leaves(may_write))
  BY <1>1 DEF Receives, Pending
\* Such a word is not where it belongs after the step either.
<1>6. ASSUME NEW i \in 1 .. sent, ~IsAt(i), Writes(may_write) => i # sent
      PROVE  ~IsAt(i)'
  <2>1. CASE base + i - 1 < DataWords
    <3>1. base + i - 1 \in Addresses /\ landed[base + i - 1] # i
      BY <1>2, <1>6, <2>1, Bounds, SMT DEF IsAt, Addresses
    <3>2. Writes(may_write) => base + i - 1 # base + index
      BY <1>2, <1>6, WritesItsWord, SMT
    <3> QED
      BY <1>1, <1>3, <3>1, <3>2 DEF IsAt
  <2>2. CASE ~(base + i - 1 < DataWords)
    BY <1>1, <2>2 DEF IsAt
  <2> QED
    BY <2>1, <2>2
\* The last word the model tells apart belongs past the memory's end.
<1>7. ASSUME NEW i \in 1 .. sent', i = SentMax
      PROVE  ~IsAt(i)'
  BY <1>1, <1>2, <1>7, Bounds, SMT DEF IsAt
<1>8. ASSUME NEW i \in 1 .. sent, Lost(i)
      PROVE  Lost(i)'
  <2>1. ~IsAt(i) /\ (pending /\ i = sent => ~Fits)
    BY <1>8 DEF Lost
  <2>2. ~IsAt(i)'
    BY <1>6, <2>1 DEF Writes
  <2>3. CASE Takes
    <3>1. pending' /\ i = sent' => ~Fits'
      <4> SUFFICES ASSUME i = sent' PROVE ~Fits'
        OBVIOUS
      <4>1. sent = SentMax
        BY <1>1, <1>2, <1>4, <2>3, SMT DEF Follows
      <4>2. words = WordMax
        BY <4>1, Bounds, SMT DEF Counts
      <4>3. index' = WordMax
        BY <1>1, <2>3, <4>2 DEF Receives
      <4> QED
        BY <1>1, <1>2, <4>3, Bounds, SMT DEF Fits, Address
    <3> QED
      BY <2>2, <3>1 DEF Lost
  <2>4. CASE ~Takes
    <3>1. sent' = sent
      BY <1>1, <2>4 DEF Follows
    <3>2. Fits' = Fits
      BY <1>1, <1>5, <2>4 DEF Fits, Address
    <3> QED
      BY <1>5, <2>1, <2>2, <2>4, <3>1, <3>2 DEF Lost
  <2> QED
    BY <2>3, <2>4
<1>9. CASE dropped
  <2>1. PICK i \in 1 .. sent : Lost(i)
    BY <1>1, <1>9 DEF LossIsSo
  <2>2. i \in 1 .. sent'
    BY <1>2, SMT
  <2> QED
    BY <1>8, <2>1, <2>2
\* A word that leaves past the end is lost there and then.
<1>10. CASE Leaves(may_write) /\ ~Fits
  <2>1. pending /\ sent >= 1
    BY <1>10 DEF Leaves, Counts
  <2>2. ~IsAt(sent)
    BY <1>2, <1>10, <2>1, Bounds, SMT DEF IsAt, Fits, Address, Counts
  <2>3. Lost(sent) /\ sent \in 1 .. sent /\ sent \in 1 .. sent'
    BY <1>2, <1>10, <2>1, <2>2, SMT DEF Lost
  <2> QED
    BY <1>8, <2>3
\* A word that the next displaces had not landed.
<1>11. CASE Takes /\ pending /\ ~Leaves(may_write)
  <2>1. sent >= 1 /\ ~Writes(may_write)
    BY <1>11 DEF Counts, Writes, Leaves
  <2>2. PICK i \in 1 .. sent : i = sent
    BY <1>2, <2>1, SMT
  <2>3. i \in 1 .. sent'
    BY <1>2, SMT
  <2>4. ~IsAt(i)
    <3>1. base + i - 1 < DataWords => base + i - 1 \in Addresses
      BY <1>2, <2>2, Bounds, SMT DEF Addresses
    <3> QED
      BY <1>1, <1>11, <2>2, <3>1 DEF IsAt, LandsOnce
  <2>5. ~IsAt(i)'
    BY <1>6, <2>1, <2>4
  <2>6. CASE sent' = sent + 1
    <3>1. i # sent'
      BY <1>2, <2>2, <2>6, SMT
    <3> QED
      BY <2>3, <2>5, <3>1 DEF Lost
  <2>7. CASE sent' = SentMax /\ sent' # sent + 1
    <3>1. sent = SentMax
      BY <1>1, <1>2, <1>11, <2>7, SMT DEF Follows
    <3>2. words = WordMax
      BY <3>1, Bounds, SMT DEF Counts
    <3>3. index' = WordMax
      BY <1>1, <1>11, <3>2 DEF Receives
    <3>4. ~Fits'
      BY <1>1, <1>2, <3>3, Bounds, SMT DEF Fits, Address
    <3> QED
      BY <2>3, <2>5, <3>4 DEF Lost
  <2> QED
    BY <1>4, <1>11, <2>6, <2>7
<1> QED
  BY <1>1, <1>9, <1>10, <1>11 DEF Receives, Dropped

\* An end disarms a receiver, unless it arms it again.
LEMMA EndsForGoodStep ==
  ASSUME TypeOK, EndsForGood, Next,
         NEW may_write \in BOOLEAN, Receives(may_write), Follows(may_write)
  PROVE  EndsForGood'
<1> SUFFICES ASSUME ended'
             PROVE  ~receiving' /\ (selected' /\ ~arm' /\ ~rearm' => ~armed')
  BY DEF EndsForGood
<1>1. ~Restarts /\ (ended \/ Ends)
  BY DEF Receives
<1>2. ~arm /\ ~Begins
  BY <1>1 DEF Restarts
<1>3. ~receiving'
  BY <1>1, <1>2 DEF Receives, Receiving, EndsForGood
<1>4. ASSUME selected', ~arm', ~rearm'
      PROVE  ~armed'
  <2>1. selected /\ ~rearm
    BY <1>4, HostStep
  <2> QED
    BY <1>1, <1>2, <2>1 DEF Receives, Armed, EndsForGood
<1> QED
  BY <1>3, <1>4

-----------------------------------------------------------------------------
\* The invariant holds at reset,
LEMMA InitInv == Init => FrameInv
<1> SUFFICES ASSUME Init PROVE FrameInv
  OBVIOUS
<1>1. TypeOK
  <2>1. 0 \in 0 .. Old /\ 0 \in 0 .. WordMax /\ 0 \in 0 .. SentMax
    BY Bounds, SMT DEF Old
  <2> QED
    BY <2>1 DEF Init, TypeOK
<1>2. Counts
  BY Bounds, SMT DEF Init, Counts
<1>3. LandsInPlace
  BY DEF Init, LandsInPlace
<1>4. LandsOnce
  BY DEF Init, LandsOnce
<1>5. SoFarWhole /\ LossIsSo /\ EndsForGood
  BY SMT DEF Init, SoFarWhole, LossIsSo, EndsForGood
<1> QED
  BY <1>1, <1>2, <1>3, <1>4, <1>5 DEF FrameInv

\* and in every cycle.
LEMMA StepInv == FrameInv /\ [Next]_vars => FrameInv'
<1> SUFFICES ASSUME FrameInv, [Next]_vars PROVE FrameInv'
  OBVIOUS
<1>1. CASE Next
  <2> USE <1>1 DEF FrameInv
  <2>1. PICK may_write \in BOOLEAN : Receives(may_write) /\ Follows(may_write)
    BY HostStep DEF Cycle, TypeOK
  <2> QED
    BY <2>1, TypeStep, CountsStep, LandsInPlaceStep, LandsOnceStep,
       SoFarWholeStep, LossStep, EndsForGoodStep
<1>2. CASE UNCHANGED vars
  BY <1>2 DEF FrameInv, TypeOK, Counts, LandsInPlace, LandsOnce, SoFarWhole,
     LossIsSo, Lost, EndsForGood, Sound, IsAt, Fits, Address,
     vars, decoderVars, receiverVars, hostVars, historyVars
<1> QED
  BY <1>1, <1>2

\* What a frame's receiver holds true, whatever the order of arms, writes of the
\* base, frames and turns at the port (frame_rx.ml, usb_frame_rx.ml).
THEOREM FrameInvariant == Spec => []FrameInv
BY InitInv, StepInv, PTL DEF Spec

\* Every register of a receiver, and every history of its frame, keeps to its
\* values: the word counter stops at its last (frame_rx.ml: full).
THEOREM FrameTypes == Spec => []TypeOK
<1>1. FrameInv => TypeOK
  BY DEF FrameInv
<1> QED
  BY <1>1, FrameInvariant, PTL

\* While a receiver is selected no word lands but of the frame it counts, at its
\* own place (restart, fits, dma_write).
THEOREM FrameInPlace == Spec => []LandsInPlace
<1>1. FrameInv => LandsInPlace
  BY DEF FrameInv
<1> QED
  BY <1>1, FrameInvariant, PTL

\* A finished frame that dropped nothing is in memory whole and its count exact
\* (frame_rx.ml: finished, dropped, words).
THEOREM FrameWhole == Spec => []FinishedIsWhole
<1>1. FrameInv => FinishedIsWhole
  <2> SUFFICES ASSUME FrameInv, Reported, ~dropped, ~moved
               PROVE  words = sent /\ \A i \in 1 .. words : IsAt(i)
    BY DEF FinishedIsWhole
  <2>1. \A i \in 1 .. sent : IsAt(i)
    BY DEF FrameInv, SoFarWhole, Sound, Reported, Finished
  <2>2. sent \in 0 .. SentMax /\ base \in Nat
    BY Bounds DEF FrameInv, TypeOK
  <2>3. sent <= WordMax
    <3>1. sent = 0 \/ base + sent - 1 < DataWords
      BY <2>1, <2>2, Bounds, SMT DEF IsAt
    <3> QED
      BY <2>2, <3>1, Bounds, SMT
  <2>4. words = sent
    BY <2>3 DEF FrameInv, Counts
  <2> QED
    BY <2>1, <2>4
<1> QED
  BY <1>1, FrameInvariant, PTL

\* A frame that says it dropped a word did (frame_rx.ml: dropped).
THEOREM FrameMissing == Spec => []DroppedIsMissing
<1>1. FrameInv => DroppedIsMissing
  BY DEF FrameInv, DroppedIsMissing, LossIsSo, Lost, Sound, Reported, Finished
<1> QED
  BY <1>1, FrameInvariant, PTL

\* A finished frame stays put until a receiver is armed for another one (armed,
\* restart).
THEOREM FrameStays == Spec => StaysPut
<1>1. FrameInv /\ [Next]_vars
        => [Reported /\ ~rearm => Finished' /\ UNCHANGED <<landed, words>>]_vars
  <2> SUFFICES ASSUME FrameInv, Next, Reported, ~rearm
               PROVE  Finished' /\ UNCHANGED <<landed, words>>
    OBVIOUS
  <2>1. PICK may_write \in BOOLEAN : Receives(may_write) /\ Follows(may_write)
    BY HostStep DEF Cycle, TypeOK, FrameInv
  <2>2. ~Restarts /\ ~Takes /\ ~pending /\ ended
    BY DEF FrameInv, EndsForGood, Reported, Finished, Restarts, Begins, Takes
  <2>3. Finished' /\ words' = words
    BY <2>1, <2>2 DEF Receives, Pending, Finished
  <2>4. landed' = landed
    <3>1. landed' = [a \in Addresses |-> landed[a]]
      BY <2>1, <2>2 DEF Follows, Writes, OthersWrites, Reported
    <3> QED
      BY <3>1 DEF FrameInv, TypeOK
  <2> QED
    BY <2>3, <2>4
<1> QED
  BY <1>1, FrameInvariant, PTL DEF Spec, StaysPut
=============================================================================
