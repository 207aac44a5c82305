----------------------------- MODULE MCPollers -----------------------------
(* Each listener serves a scale set of its own. *)
EXTENDS Pollers

OwnSets == [l \in Listeners |-> l]
=============================================================================
