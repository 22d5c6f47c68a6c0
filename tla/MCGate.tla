------------------------------- MODULE MCGate -------------------------------
(***************************************************************************)
(* The gate for TLC.  The control words a host has a use for: each bit     *)
(* alone, and the pairs in which one bit's effect meets another's.         *)
(***************************************************************************)
EXTENDS Gate

Alone == {{"start"}, {"check"}, {"stop"}, {"start_all"}}
Pairs == {{"start", "check"}, {"start", "stop"}, {"check", "start_all"}}
AllControlWords == Alone \cup Pairs
StartsAndChecks == {{"start"}, {"check"}, {"start", "check"}, {"start_all"}}
StartCheckOrAll == {{"start"}, {"check"}, {"start_all"}}
StartOrCheck == {{"start"}, {"check"}}
=============================================================================
