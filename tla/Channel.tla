------------------------------ MODULE Channel ------------------------------
(***************************************************************************)
(* What a host may count on from an engine that answers every word with    *)
(* one, through two queues, a serial link and perhaps another engine: a    *)
(* channel that keeps words in order and loses and repeats none.           *)
(***************************************************************************)
EXTENDS Naturals, Sequences

VARIABLES
  total,  \* how many words are to be sent
  sent,   \* words put in so far: the first is 1
  got     \* the words that came out

vars == <<total, sent, got>>

Init == total \in Nat /\ sent = 0 /\ got = <<>>

Put ==
  /\ sent < total
  /\ sent' = sent + 1
  /\ UNCHANGED <<total, got>>

Get ==
  /\ Len(got) < sent
  /\ got' = Append(got, Len(got) + 1)
  /\ UNCHANGED <<total, sent>>

Both ==
  /\ sent < total /\ Len(got) < sent
  /\ sent' = sent + 1
  /\ got' = Append(got, Len(got) + 1)
  /\ UNCHANGED total

Next == Put \/ Get \/ Both

Spec == Init /\ [][Next]_vars /\ WF_vars(Put \/ Both) /\ WF_vars(Get \/ Both)
=============================================================================
