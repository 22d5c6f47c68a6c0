----------------------------- MODULE EdgeStamps -----------------------------
(***************************************************************************)
(* The queue of edge times (src/edge_stamps.ml): an edge on a watched pin  *)
(* is queued with the chosen engine's time and the pads; a full queue      *)
(* loses it, and says so until the queue is emptied.                       *)
(*                                                                         *)
(* An edge stands for its time and pads: it is the n-th the watch saw, on  *)
(* a pin of one half of the mask, timed by one engine.  The halves are the *)
(* host's two registers, each of which empties the queue.                  *)
(***************************************************************************)
EXTENDS Integers, Sequences

CONSTANTS
  StampDepth,  \* the queue's places
  EdgesMax     \* bound: edges one watch sees

ASSUME EdgeStampsAssumption == StampDepth \in Nat \ {0} /\ EdgesMax \in Nat

Halves == {"lo", "hi"}
Masks == SUBSET Halves
Stamps == [n : 1 .. EdgesMax, half : Halves, engine : {0, 1}]

VARIABLES
  stamps,   \* the queue
  lost,     \* sticky
  mask, timer,  \* stamp_mask, stamp_engine
  edges     \* history: watched edges since the queue was last emptied

stampVars == <<stamps, lost, mask, timer, edges>>

StampsFull(pop) == Len(stamps) = StampDepth /\ ~pop

StampsInit ==
  /\ stamps = <<>> /\ lost = FALSE
  /\ mask = {} /\ timer = 0
  /\ edges = 0

\* A cycle, in which pins of `halves` move, and the host pops, or writes half
\* of the mask (and, with the high half, the engine), which empties the queue.
StampsCycle(halves, pop, flush) ==
  LET moved == halves \cap mask # {}
      full == StampsFull(pop)
      edge == [n |-> edges + 1, half |-> CHOOSE h \in halves \cap mask : TRUE,
               engine |-> timer]
      left == IF pop /\ stamps # <<>> THEN Tail(stamps) ELSE stamps
  IN /\ stamps' = IF flush THEN <<>>
                  ELSE IF moved /\ ~full THEN Append(left, edge) ELSE left
     /\ lost' = (~flush /\ (lost \/ (moved /\ full)))
     /\ edges' = IF flush THEN 0 ELSE IF moved THEN edges + 1 ELSE edges
=============================================================================
