---------------------------- MODULE NewestWins ----------------------------
(***************************************************************************)
(* What the snapshot recorder of cmd/arc-ui/main.go promises the rest of   *)
(* the program, with its slot, its wakeups and its lock abstracted away.   *)
(*                                                                         *)
(* The fleet is observed at increasing instants.  The history is written   *)
(* in the order of observation: an observation may be skipped when a newer *)
(* one takes its place, it is never written after a newer one, and as long *)
(* as the recorder is not stopped the history catches up with the newest.  *)
(***************************************************************************)
EXTENDS Naturals

VARIABLES
  newest,   \* instant of the newest observation handed to the recorder
  written,  \* instant of the last observation whose write was attempted
  stopped   \* the recorder's worker has returned

vars == <<newest, written, stopped>>

TypeOK ==
  /\ newest \in Nat
  /\ written \in 0 .. newest
  /\ stopped \in BOOLEAN

Init ==
  /\ newest = 0
  /\ written = 0
  /\ stopped = FALSE

\* A later observation of the fleet is handed over.
Observe ==
  /\ newest' > newest
  /\ newest' \in Nat
  /\ UNCHANGED <<written, stopped>>

\* The worker writes an observation that is not older than the last one.
Write ==
  /\ ~stopped
  /\ written' \in written .. newest
  /\ UNCHANGED <<newest, stopped>>

Stop ==
  /\ stopped' = TRUE
  /\ UNCHANGED <<newest, written>>

Next == Observe \/ Write \/ Stop

\* The history moves towards the newest observation.
CatchUp == Write /\ written' # written

Spec == Init /\ [][Next]_vars /\ WF_vars(CatchUp)
=============================================================================
