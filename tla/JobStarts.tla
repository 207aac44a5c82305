----------------------------- MODULE JobStarts -----------------------------
(***************************************************************************)
(* internal/k8s/jobstart.go and its use by BuildSnapshot: since when a     *)
(* runner has had its job.  Nothing in the cluster records it, so the      *)
(* program remembers when it first saw the runner with one.                *)
(*                                                                         *)
(* The cluster changes, the informer's view of it follows, and a snapshot  *)
(* is built from the view.  Building observes every runner in view and     *)
(* then forgets the runners that are not, unless the view is degraded.     *)
(* A runner is its UID, which is never used again.                         *)
(***************************************************************************)
EXTENDS Naturals

CONSTANTS
  Runners,  \* UIDs of runners
  TTL,      \* watchFailureTTL
  MaxAt     \* bound on the clock

ASSUME TTLAssumption == TTL \in Nat
ASSUME MaxAtAssumption == MaxAt \in Nat \ {0}

VARIABLES
  clock,
  cluster,  \* what each runner is in the cluster
  born,     \* when its pod started
  began,    \* when it got its job
  view,     \* what each runner is in the collector's map
  synced,   \* the informer has delivered its initial list
  age,      \* ticks since the runners' watch failed, at most TTL + 1
  pending,  \* the failure has an entry in the watchFailures map
  dirty,    \* the cached snapshot is out of date
  starts,   \* the tracker's map; 0 is no entry
  shown,    \* the start in the snapshot built last; 0 is none
  booted    \* when the process started

clusterVars == <<clock, cluster, born, began>>
viewVars    == <<view, synced, age, pending, dirty>>
vars        == <<clusterVars, viewVars, starts, shown, booted>>

Instants == 0 .. MaxAt
Phases   == {"absent", "idle", "busy", "gone"}

TypeOK ==
  /\ clock \in Instants
  /\ cluster \in [Runners -> Phases]
  /\ born \in [Runners -> Instants]
  /\ began \in [Runners -> Instants]
  /\ view \in [Runners -> Phases]
  /\ synced \in BOOLEAN
  /\ age \in 0 .. TTL + 1
  /\ pending \in BOOLEAN
  /\ dirty \in BOOLEAN
  /\ starts \in [Runners -> Instants]
  /\ shown \in [Runners -> Instants]
  /\ booted \in Instants

Init ==
  /\ clock = 1
  /\ cluster = [u \in Runners |-> "absent"]
  /\ born = [u \in Runners |-> 0]
  /\ began = [u \in Runners |-> 0]
  /\ view = [u \in Runners |-> "absent"]
  /\ synced = FALSE
  /\ age = TTL + 1
  /\ pending = FALSE
  /\ dirty = TRUE
  /\ starts = [u \in Runners |-> 0]
  /\ shown = [u \in Runners |-> 0]
  /\ booted = 1

---------------------------------------------------------------------------
(* The cluster *)

Become(u, phase) == cluster' = [cluster EXCEPT ![u] = phase]

Create(u) ==
  /\ cluster[u] = "absent"
  /\ Become(u, "idle")
  /\ born' = [born EXCEPT ![u] = clock]
  /\ UNCHANGED <<clock, began, viewVars, starts, shown, booted>>

TakeJob(u) ==
  /\ cluster[u] = "idle"
  /\ Become(u, "busy")
  /\ began' = [began EXCEPT ![u] = clock]
  /\ UNCHANGED <<clock, born, viewVars, starts, shown, booted>>

Delete(u) ==
  /\ cluster[u] \in {"idle", "busy"}
  /\ Become(u, "gone")
  /\ UNCHANGED <<clock, born, began, viewVars, starts, shown, booted>>

Tick ==
  /\ clock < MaxAt
  /\ clock' = clock + 1
  /\ UNCHANGED <<cluster, born, began, viewVars, starts, shown, booted>>

---------------------------------------------------------------------------
(* The informer and its handlers *)

\* A runner is delivered as it is now, steps in between left out.  Deletions
\* come after the initial list.
Apply(u) ==
  /\ view[u] # cluster[u]
  /\ cluster[u] = "gone" => synced
  /\ view' = [view EXCEPT ![u] = cluster[u]]
  /\ dirty' = TRUE
  /\ UNCHANGED <<clusterVars, synced, age, pending, starts, shown, booted>>

\* The initial list was delivered.
Sync ==
  /\ ~synced
  /\ \A u \in Runners : cluster[u] \in {"idle", "busy"} => view[u] # "absent"
  /\ synced' = TRUE
  /\ UNCHANGED <<clusterVars, view, age, pending, dirty, starts, shown, booted>>

WatchFails ==
  /\ age > TTL
  /\ age' = 0
  /\ pending' = TRUE
  /\ dirty' = TRUE
  /\ UNCHANGED <<clusterVars, view, synced, starts, shown, booted>>

Age ==
  /\ age <= TTL
  /\ age' = age + 1
  /\ UNCHANGED <<clusterVars, view, synced, pending, dirty, starts, shown, booted>>

---------------------------------------------------------------------------
(* BuildSnapshot *)

\* The runners' cache may lack some of them.
Degraded == age <= TTL \/ ~synced

\* Bug: every snapshot is the first sighting.
ObservedAnew(u) == IF view[u] = "busy" THEN clock ELSE 0

\* Bug: the pod's start is preferred to the sighting.
ObservedFromPod(u) ==
  CASE view[u] = "busy" -> born[u]
    [] view[u] = "idle" -> 0
    [] OTHER            -> starts[u]

\* Observe: the first sighting with a job sticks, and a runner in view that has
\* none is forgotten.
Observed(u) ==
  CASE view[u] = "busy" -> IF starts[u] # 0 THEN starts[u] ELSE clock
    [] view[u] = "idle" -> 0
    [] OTHER            -> starts[u]

\* Bug: only a runner without a job is forgotten.
RetainedAll(u) == Observed(u)

\* Retain, gated: runners that are not in view are forgotten.
Retained(u) ==
  IF ~Degraded /\ view[u] \in {"absent", "gone"} THEN 0 ELSE Observed(u)

\* Snapshot, unless the cached one is handed out.  The pod's start stands in for
\* a sighting only where there is no tracker, and the collector has one.
Build ==
  /\ dirty \/ pending
  /\ starts' = [u \in Runners |-> Retained(u)]
  /\ shown' = [u \in Runners |-> IF view[u] = "busy" THEN Observed(u) ELSE 0]
  /\ dirty' = FALSE
  /\ pending' = (pending /\ age <= TTL)
  /\ UNCHANGED <<clusterVars, view, synced, age, booted>>

\* The process ends, and a new one starts with nothing in memory.
Restart ==
  /\ view' = [u \in Runners |-> "absent"]
  /\ synced' = FALSE
  /\ age' = TTL + 1
  /\ pending' = FALSE
  /\ dirty' = TRUE
  /\ starts' = [u \in Runners |-> 0]
  /\ shown' = [u \in Runners |-> 0]
  /\ booted' = clock
  /\ UNCHANGED clusterVars

---------------------------------------------------------------------------
Next ==
  \/ \E u \in Runners : Create(u) \/ TakeJob(u) \/ Delete(u) \/ Apply(u)
  \/ Tick \/ Sync \/ WatchFails \/ Age \/ Build \/ Restart

\* The informer delivers, time passes, and snapshots are taken: by the recorder
\* after a change and by every page.
Fairness ==
  /\ \A u \in Runners : WF_vars(Apply(u))
  /\ WF_vars(Sync) /\ WF_vars(Age) /\ WF_vars(Build)

Spec == Init /\ [][Next]_vars /\ Fairness

---------------------------------------------------------------------------
(* Properties *)

\* A running job never looks as if it had just started again: the start shown
\* stays the same for as long as one process shows the job, through failing
\* watches and incomplete lists (snapshot.go:200-206).
StartsStick ==
  [][\A u \in Runners :
       shown[u] # 0 /\ shown'[u] # shown[u] =>
         shown'[u] = 0 /\ (view[u] # "busy" \/ view'[u] = "absent")]_shown

\* No job is shown older than it is, and a job that began under the eyes of the
\* process is entered in the tracker (snapshot.go:238-243).
StartsAreSightings ==
  \A u \in Runners :
    /\ starts[u] # 0 => began[u] # 0 /\ began[u] <= starts[u] /\ booted <= starts[u]
    /\ view[u] = "busy" /\ ~dirty => starts[u] # 0 /\ shown[u] = starts[u]

\* The tracker does not leak: once watches stop failing, a runner that is gone
\* loses its entry, however it went and whatever kept the sweep from running
\* meanwhile (snapshot.go:208-210).
EntriesGo ==
  <>[](age > TTL) => \A u \in Runners : cluster[u] = "gone" ~> starts[u] = 0

\* What snapshot.go:239-243 says of restarts: a job that was running before
\* is shown as old as its pod, and not as brand new.
RestartsKeepTheAge ==
  \A u \in Runners :
    shown[u] # 0 /\ began[u] < booted => shown[u] = born[u]
=============================================================================
