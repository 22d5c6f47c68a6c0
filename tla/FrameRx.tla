------------------------------ MODULE FrameRx ------------------------------
(***************************************************************************)
(* A frame receiver's way into the data memory (src/frame_rx.ml for        *)
(* 10BASE-T, src/usb_frame_rx.ml for USB): a frame's words are counted as  *)
(* they arrive, wait one at a time for a cycle the memory's port is free,  *)
(* and land from a base address up.  One step is one clock cycle.          *)
(*                                                                         *)
(* The chip has one of each and one port for both (src/engines.ml): a      *)
(* word leaves either receiver when the port is free, and lands only if    *)
(* the host has that receiver selected.  This is one of the two; the other *)
(* is what it may write while it is the selected one.                      *)
(*                                                                         *)
(* The decoder before it (manchester_rx.ml, usb_rx.ml) is what it may say: *)
(* a frame starts, carries words, and ends, perhaps on a last half word.   *)
(***************************************************************************)
EXTENDS Integers, FiniteSets

CONSTANTS
  DataWords,  \* words of data memory
  WordMax,    \* the word counter's last value
  SentMax,    \* bound: words of a frame the model tells apart
  Rearms,     \* whether a packet's end may arm the receiver again
  BaseMoves   \* whether the host may write frame_base at any time

ASSUME FrameRxAssumption ==
  /\ DataWords \in Nat \ {0}
  /\ WordMax \in Nat /\ WordMax >= DataWords
  /\ SentMax \in Nat /\ SentMax > WordMax
  /\ Rearms \in BOOLEAN /\ BaseMoves \in BOOLEAN

Addresses == 0 .. DataWords - 1
Old == SentMax + 1  \* a word of an earlier frame

VARIABLES
  line,       \* the decoder: a frame is on the line or not
  sfd_seen, word_valid, frame_end,              \* its registered strobes
  armed, receiving, words, pending, index, dropped, ended, \* the receiver
  arm, base, rearm, selected,                   \* Host_port, frame_usb
  sent,       \* history: words of this frame that arrived, up to SentMax
  value,      \* history: which of them waits to land
  landed,     \* history: the word of this frame at each address, 0 for none
  moved       \* history: the base changed since the frame's start

decoderVars == <<line, sfd_seen, word_valid, frame_end>>
receiverVars == <<armed, receiving, words, pending, index, dropped, ended>>
hostVars == <<arm, base, rearm, selected>>
historyVars == <<sent, value, landed, moved>>
vars == <<decoderVars, receiverVars, hostVars, historyVars>>

-----------------------------------------------------------------------------
\* Wires.

Begins == armed /\ sfd_seen

Ends == receiving /\ frame_end

Takes == receiving /\ word_valid

Restarts == arm \/ Begins

\* Mutant: the counter stops one late.
FullLate == words > WordMax

Full == words = WordMax

Address == base + index

\* The memory's end is the frame's end: no address wraps.
Fits == Address < DataWords

Leaves(may_write) == pending /\ may_write

\* Only the selected receiver's word reaches the memory.
Writes(may_write) == pending /\ Fits /\ may_write /\ selected

Finished == ended /\ ~pending

-----------------------------------------------------------------------------
\* Registers.

Init ==
  /\ line = FALSE /\ sfd_seen = FALSE /\ word_valid = FALSE /\ frame_end = FALSE
  /\ armed = FALSE /\ receiving = FALSE /\ words = 0
  /\ pending = FALSE /\ index = 0 /\ dropped = FALSE /\ ended = FALSE
  /\ arm = FALSE /\ base \in Addresses /\ rearm = FALSE
  /\ selected \in BOOLEAN
  /\ sent = 0 /\ value = 0
  /\ landed = [a \in Addresses |-> 0]
  /\ moved = FALSE

\* What the decoder may see in a cycle, a cycle before its strobes say so.
Decodes ==
  \/ /\ UNCHANGED line
     /\ sfd_seen' = FALSE /\ frame_end' = FALSE
     /\ word_valid' \in {FALSE, line}
  \/ /\ ~line /\ line' = TRUE
     /\ sfd_seen' = TRUE /\ frame_end' = FALSE /\ word_valid' = FALSE
  \/ /\ line /\ line' = FALSE
     /\ sfd_seen' = FALSE /\ frame_end' = TRUE /\ word_valid' \in BOOLEAN

\* Mutant: the frame's end does not disarm.
ArmedOnceForAll == arm \/ armed

\* A frame's end disarms, unless a packet's end is to arm again.
Armed == arm \/ (armed /\ (Ends => rearm))

Receiving == ~arm /\ (Begins \/ (receiving /\ ~Ends))

Pending(may_write) ==
  ~Restarts /\ (Takes \/ (pending /\ ~Leaves(may_write)))

\* Mutant: a word that the next one displaces goes unnoticed.
DroppedPastTheEnd(may_write) ==
  ~Restarts /\ (dropped \/ (Leaves(may_write) /\ ~Fits))

\* Mutant: a word that lands as the next arrives counts as lost.
DroppedOnTime(may_write) ==
  /\ ~Restarts
  /\ \/ dropped
     \/ Leaves(may_write) /\ ~Fits
     \/ Takes /\ pending

\* A word was lost past the memory's end, or to the next one.
Dropped(may_write) ==
  /\ ~Restarts
  /\ \/ dropped
     \/ Leaves(may_write) /\ ~Fits
     \/ Takes /\ pending /\ ~Leaves(may_write)

Receives(may_write) ==
  /\ armed' = Armed
  /\ receiving' = Receiving
  /\ words' = IF Restarts THEN 0 ELSE IF Takes /\ ~Full THEN words + 1 ELSE words
  /\ index' = IF Takes THEN words ELSE index
  /\ pending' = Pending(may_write)
  /\ dropped' = Dropped(may_write)
  /\ ended' = (~Restarts /\ (ended \/ Ends))

\* Mutant: the port is each receiver's own.
OthersAtAnyTime == {a \in Addresses : line}

\* What the other receiver writes: while it is the selected one, the most it
\* can, which is everywhere.
OthersWrites == {a \in Addresses : ~selected}

\* sent, value and landed follow each word of the frame from the line to memory.
Follows(may_write) ==
  /\ sent' = IF Restarts THEN 0
             ELSE IF Takes /\ sent < SentMax THEN sent + 1 ELSE sent
  /\ value' = IF Restarts THEN Old
              ELSE IF Takes THEN (IF sent < SentMax THEN sent + 1 ELSE sent) ELSE value
  /\ landed' = IF Restarts THEN [a \in Addresses |-> 0]
               ELSE IF Writes(may_write)
               THEN [landed EXCEPT ![Address % DataWords] = value]
               ELSE [a \in Addresses |-> IF a \in OthersWrites THEN Old ELSE landed[a]]
  /\ moved' = (~Restarts /\ (moved \/ base' # base))

\* A cycle.  The memory's port is free for the receiver in some of them
\* (frame_may_write in engines.ml), whatever it holds and whichever is selected.
Cycle ==
  /\ Decodes
  /\ \E may_write \in {~pending, TRUE} :
       Receives(may_write) /\ Follows(may_write)

Quiet == arm' = FALSE /\ UNCHANGED <<base, rearm, selected>> /\ Cycle

\* frame_control selects a receiver at once and arms it a cycle later: this
\* one, or the other.  The driver (arm_frame, arm_usb) always asks for both.
Arm ==
  /\ selected' \in BOOLEAN
  /\ arm' = selected'
  /\ rearm' \in {FALSE, Rearms}
  /\ UNCHANGED base
  /\ Cycle

\* frame_base.
BaseWrite ==
  /\ BaseMoves
  /\ base' \in Addresses
  /\ arm' = FALSE
  /\ UNCHANGED <<rearm, selected>>
  /\ Cycle

Next == Quiet \/ Arm \/ BaseWrite

Spec == Init /\ [][Next]_vars

-----------------------------------------------------------------------------
(***************************************************************************)
(* Properties.                                                             *)
(***************************************************************************)

TypeOK ==
  /\ line \in BOOLEAN /\ sfd_seen \in BOOLEAN
  /\ word_valid \in BOOLEAN /\ frame_end \in BOOLEAN
  /\ armed \in BOOLEAN /\ receiving \in BOOLEAN
  /\ words \in 0 .. WordMax /\ index \in 0 .. WordMax
  /\ pending \in BOOLEAN /\ dropped \in BOOLEAN /\ ended \in BOOLEAN
  /\ arm \in BOOLEAN /\ base \in Addresses /\ rearm \in BOOLEAN
  /\ selected \in BOOLEAN
  /\ sent \in 0 .. SentMax /\ value \in 0 .. Old
  /\ landed \in [Addresses -> 0 .. Old]
  /\ moved \in BOOLEAN

\* Word i of this frame is where the frame's base puts it.
IsAt(i) == base + i - 1 < DataWords /\ landed[base + i - 1] = i

\* The host reads the status of the receiver it has selected, which it armed
\* as it selected it.
Reported == selected /\ ~arm /\ Finished

\* A finished frame that dropped nothing is in memory whole, in order from its
\* base, and its count is exact, whatever either receiver did before the host
\* came back to this one (frame_rx.ml: finished, dropped, words; engines.ml:
\* dma_write).
FinishedIsWhole ==
  Reported /\ ~dropped /\ ~moved =>
    words = sent /\ \A i \in 1 .. words : IsAt(i)

\* A frame that says it dropped a word did (frame_rx.ml: dropped).
DroppedIsMissing ==
  Reported /\ dropped /\ ~moved => \E i \in 1 .. sent : ~IsAt(i)

\* While a receiver is selected no word lands but of the frame it counts, at
\* its own place: neither one left from the frame before, nor one past the
\* memory's end, nor one of the other receiver's (restart, fits, dma_write).
LandsInPlace ==
  selected /\ ~arm /\ ~moved =>
    \A a \in Addresses : landed[a] # 0 => a >= base /\ landed[a] = a - base + 1

\* A finished frame stays put until a receiver is armed for another one
\* (armed, restart): neither a later frame nor a late word touches it.
StaysPut ==
  [][Reported /\ ~rearm => Finished' /\ UNCHANGED <<landed, words>>]_vars
=============================================================================
