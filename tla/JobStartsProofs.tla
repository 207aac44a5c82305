-------------------------- MODULE JobStartsProofs --------------------------
(***************************************************************************)
(* Theorems about JobStarts, for any runners, watch-failure TTL and        *)
(* horizon.                                                                *)
(*                                                                         *)
(* Held ties what the process believes to the cluster: a runner that is in *)
(* view with a job, or has an entry in the tracker, took a job before now  *)
(* and takes no other one.                                                 *)
(***************************************************************************)
EXTENDS JobStarts, TLAPS

Held ==
  /\ 0 < clock /\ booted <= clock
  /\ \A u \in Runners :
       /\ began[u] <= clock
       /\ cluster[u] = "busy" => began[u] # 0
       /\ view[u] = "busy" => cluster[u] \in {"busy", "gone"} /\ began[u] # 0
       /\ starts[u] # 0 => cluster[u] \in {"busy", "gone"}
       /\ shown[u] # 0 => shown[u] = starts[u]

\* Every variable keeps its type.
THEOREM StartsTypeCorrect == Spec => []TypeOK
<1>1. Init => TypeOK
  <2>1. 0 \in Instants /\ 1 \in Instants /\ TTL + 1 \in 0 .. TTL + 1
    BY MaxAtAssumption, TTLAssumption DEF Instants
  <2> QED
    BY <2>1 DEF Init, TypeOK, Phases
<1>2. TypeOK /\ [Next]_vars => TypeOK'
  <2> SUFFICES ASSUME TypeOK, [Next]_vars
               PROVE  TypeOK'
    OBVIOUS
  <2> USE DEF TypeOK
  <2>1. ASSUME NEW u \in Runners, Create(u) \/ TakeJob(u) \/ Delete(u) \/ Apply(u)
        PROVE  TypeOK'
    <3>1. CASE Create(u)
      BY <3>1 DEF Create, Become, Phases, viewVars
    <3>2. CASE TakeJob(u)
      BY <3>2 DEF TakeJob, Become, Phases, viewVars
    <3>3. CASE Delete(u)
      BY <3>3 DEF Delete, Become, Phases, viewVars
    <3>4. CASE Apply(u)
      BY <3>4 DEF Apply, clusterVars
    <3> QED
      BY <2>1, <3>1, <3>2, <3>3, <3>4
  <2>2. CASE Tick
    BY <2>2, MaxAtAssumption DEF Tick, Instants, viewVars
  <2>3. CASE Sync
    BY <2>3 DEF Sync, clusterVars
  <2>4. CASE WatchFails
    BY <2>4, TTLAssumption DEF WatchFails, clusterVars
  <2>5. CASE Age
    BY <2>5, TTLAssumption DEF Age, clusterVars
  <2>6. CASE Build
    <3>1. \A u \in Runners : Observed(u) \in Instants /\ Retained(u) \in Instants
      BY MaxAtAssumption DEF Observed, Retained, Instants
    <3>2. 0 \in Instants
      BY MaxAtAssumption DEF Instants
    <3>3. starts' \in [Runners -> Instants] /\ shown' \in [Runners -> Instants]
      BY <2>6, <3>1, <3>2 DEF Build
    <3>4. UNCHANGED <<clock, cluster, born, began, view, synced, age, booted>>
      BY <2>6 DEF Build, clusterVars
    <3>5. dirty' \in BOOLEAN /\ pending' \in BOOLEAN
      BY <2>6 DEF Build
    <3> QED
      BY <3>3, <3>4, <3>5
  <2>7. CASE Restart
    <3>1. 0 \in Instants /\ TTL + 1 \in 0 .. TTL + 1
      BY MaxAtAssumption, TTLAssumption DEF Instants
    <3> QED
      BY <2>7, <3>1 DEF Restart, Phases, clusterVars
  <2>8. CASE UNCHANGED vars
    BY <2>8 DEF vars, clusterVars, viewVars
  <2> QED
    BY <2>1, <2>2, <2>3, <2>4, <2>5, <2>6, <2>7, <2>8 DEF Next
<1> QED
  BY <1>1, <1>2, PTL DEF Spec

\* What an observation makes of a runner, and what is left of it by the sweep.
LEMMA Observation ==
  ASSUME NEW u \in Runners
  PROVE  /\ Retained(u) \in {0, Observed(u)}
         /\ view[u] = "busy" => Retained(u) = Observed(u)
         /\ view[u] = "busy" => Observed(u) = IF starts[u] # 0 THEN starts[u] ELSE clock
         /\ view[u] # "busy" => Observed(u) \in {0, starts[u]}
BY DEF Retained, Observed

\* A job has one start, and only its runner's own.
LEMMA HeldInvariant == Spec => [](Held /\ StartsAreSightings)
<1>1. Init => Held /\ StartsAreSightings
  BY DEF Init, Held, StartsAreSightings
<1>2. TypeOK /\ Held /\ StartsAreSightings /\ [Next]_vars
        => Held' /\ StartsAreSightings'
  <2> SUFFICES ASSUME TypeOK, Held, StartsAreSightings, [Next]_vars
               PROVE  Held' /\ StartsAreSightings'
    OBVIOUS
  <2>0. /\ clock \in Nat /\ booted \in Nat
        /\ \A u \in Runners : began[u] \in Nat /\ starts[u] \in Nat
    BY MaxAtAssumption DEF TypeOK, Instants
  <2>1. ASSUME NEW u \in Runners, Create(u)
        PROVE  Held' /\ StartsAreSightings'
    BY <2>1 DEF Create, Become, Held, StartsAreSightings, TypeOK, viewVars
  <2>2. ASSUME NEW u \in Runners, TakeJob(u)
        PROVE  Held' /\ StartsAreSightings'
    BY <2>0, <2>2 DEF TakeJob, Become, Held, StartsAreSightings, TypeOK, viewVars
  <2>3. ASSUME NEW u \in Runners, Delete(u)
        PROVE  Held' /\ StartsAreSightings'
    BY <2>3 DEF Delete, Become, Held, StartsAreSightings, TypeOK, viewVars
  <2>4. ASSUME NEW u \in Runners, Apply(u)
        PROVE  Held' /\ StartsAreSightings'
    BY <2>4 DEF Apply, Held, StartsAreSightings, TypeOK, clusterVars
  <2>5. CASE Tick
    BY <2>0, <2>5 DEF Tick, Held, StartsAreSightings, viewVars
  <2>6. CASE Sync \/ WatchFails \/ Age
    BY <2>6 DEF Sync, WatchFails, Age, Held, StartsAreSightings, clusterVars
  <2>7. CASE Build
    <3>1. /\ UNCHANGED <<clock, cluster, began, view, booted>>
          /\ \A u \in Runners :
               /\ starts'[u] = Retained(u)
               /\ shown'[u] = IF view[u] = "busy" THEN Observed(u) ELSE 0
      BY <2>7 DEF Build, clusterVars
    <3> SUFFICES ASSUME NEW u \in Runners
                 PROVE  /\ starts'[u] # 0 =>
                             /\ cluster[u] \in {"busy", "gone"}
                             /\ began[u] # 0 /\ began[u] <= starts'[u] /\ booted <= starts'[u]
                        /\ shown'[u] # 0 => shown'[u] = starts'[u]
                        /\ view[u] = "busy" => starts'[u] # 0 /\ shown'[u] = starts'[u]
      BY <3>1 DEF Held, StartsAreSightings
    <3> QED
      BY <2>0, <3>1, Observation DEF Held, StartsAreSightings
  <2>8. CASE Restart
    BY <2>0, <2>8 DEF Restart, Held, StartsAreSightings, clusterVars
  <2>9. CASE UNCHANGED vars
    BY <2>9 DEF vars, clusterVars, viewVars, Held, StartsAreSightings
  <2> QED
    BY <2>1, <2>2, <2>3, <2>4, <2>5, <2>6, <2>7, <2>8, <2>9 DEF Next
<1> QED
  BY <1>1, <1>2, StartsTypeCorrect, PTL DEF Spec

\* No entry is older than the job of its runner or than the process, and a job
\* in view has one as soon as a snapshot shows it.
THEOREM EntriesAreSightings == Spec => []StartsAreSightings
BY HeldInvariant, PTL

\* A running job keeps the start it was first shown with.
THEOREM ShownStartsStick == Spec => StartsStick
<1>1. Held /\ [Next]_vars =>
        [\A u \in Runners :
           shown[u] # 0 /\ shown'[u] # shown[u] =>
             shown'[u] = 0 /\ (view[u] # "busy" \/ view'[u] = "absent")]_shown
  <2> SUFFICES ASSUME Held, [Next]_vars, NEW u \in Runners, shown' # shown,
                      shown[u] # 0, shown'[u] # shown[u]
               PROVE  shown'[u] = 0 /\ (view[u] # "busy" \/ view'[u] = "absent")
    OBVIOUS
  <2>1. CASE Build
    <3>1. shown'[u] = IF view[u] = "busy" THEN Observed(u) ELSE 0
      BY <2>1 DEF Build
    <3> QED
      BY <3>1, Observation DEF Held
  <2>2. CASE Restart
    BY <2>2 DEF Restart
  <2> QED
    BY <2>1, <2>2
       DEF Next, Create, TakeJob, Delete, Apply, Tick, Sync, WatchFails, Age,
           vars, clusterVars, viewVars
<1> QED
  BY <1>1, HeldInvariant, PTL DEF Spec, StartsStick
============================================================================
