----------------------------- MODULE MCHostPort -----------------------------
(* The host port with a host that watches a few sets of pins. *)
EXTENDS HostPort

FewWatches ==
  {[mask |-> Halves, engine |-> 0], [mask |-> {"lo"}, engine |-> 1],
   [mask |-> {"hi"}, engine |-> 1]}
=============================================================================
