-------------------------- MODULE CollectorProofs --------------------------
(***************************************************************************)
(* Theorems about Collector, for any writers, any watched sources, any     *)
(* expiry time and any number of changes.  CacheSound is the inductive     *)
(* invariant they rest on: a cache that may be used was built from what is *)
(* there now, and a source that is still broken has an entry, which keeps  *)
(* the cache from being used until a build has dropped it.                 *)
(***************************************************************************)
EXTENDS Collector, TLAPS

CacheSound ==
  /\ \A s \in Watched : age[s] <= TTL => s \in failures
  /\ CacheUsable => cached = [version |-> version, broken |-> {}]

\* Types, the bounds on the clock and the versions included.
THEOREM CollectorTypeCorrect == Spec => []TypeOK
<1>1. Init => TypeOK
  <2>1. 0 \in Versions /\ TTL + 1 \in 0 .. TTL + 1
    BY TTLAssumption, MaxVersionAssumption DEF TTLAssumption, MaxVersionAssumption, Versions
  <2>2. Init => age \in [Watched -> 0 .. TTL + 1] /\ touching \in [Writers -> BOOLEAN]
    BY <2>1 DEF Init
  <2>3. Init => cached \in Snapshots
    BY <2>1 DEF Init, Snapshots
  <2> QED
    BY <2>1, <2>2, <2>3 DEF Init, TypeOK
<1>2. TypeOK /\ [Next]_vars => TypeOK'
  <2> SUFFICES ASSUME TypeOK, [Next]_vars
               PROVE  TypeOK'
    OBVIOUS
  <2> USE DEF TypeOK, stateVars, bootVars, notifyVars, subVars
  <2>1. Served \in Snapshots /\ Alive \subseteq Watched
    BY DEF Served, Snapshots, Alive
  <2>2. Snapshot => dirty' \in BOOLEAN /\ cached' \in Snapshots /\ failures' \subseteq Watched
    BY <2>1 DEF Snapshot
  <2>3. CASE Render
    BY <2>2, <2>3 DEF Render
  <2>4. ASSUME NEW w \in Writers, Apply(w)
        PROVE  TypeOK'
    BY <2>4 DEF Apply, Versions
  <2>5. ASSUME NEW w \in Writers, NEW v \in {"available", "failing"}, SetSource(w, v)
        PROVE  TypeOK'
    <3>1. version' \in Versions
      BY <2>5, MaxVersionAssumption DEF MaxVersionAssumption, SetSource, Versions
    <3>2. verdict' \in {"unknown", "available", "failing"} /\ dirty' \in BOOLEAN
      BY <2>5 DEF SetSource
    <3>3. touching' \in [Writers -> BOOLEAN]
      BY <2>5 DEF SetSource
    <3> QED
      BY <2>5, <3>1, <3>2, <3>3 DEF SetSource
  <2>6. ASSUME NEW w \in Writers, NEW s \in Watched, NoteWatchFailure(w, s)
        PROVE  TypeOK'
    <3>1. version' \in Versions /\ 0 \in 0 .. TTL + 1
      BY <2>6, MaxVersionAssumption, TTLAssumption
      DEF MaxVersionAssumption, TTLAssumption, NoteWatchFailure, Versions
    <3> QED
      BY <2>6, <3>1 DEF NoteWatchFailure
  <2>7. CASE Tick
    <3>1. \A s \in Watched : age[s] <= TTL => age[s] + 1 \in 0 .. TTL + 1
      BY TTLAssumption DEF TTLAssumption
    <3> QED
      BY <2>7, <3>1 DEF Tick
  <2>8. CASE Deliver
    BY <2>1, <2>2, <2>8 DEF Deliver, Snapshots
  <2>9. CASE \E w \in Writers : Touch(w)
    BY <2>9 DEF Touch
  <2>10. CASE List
    BY <2>10 DEF List
  <2>11. CASE StartSynced \/ StartDegraded
    <3>1. synced' \in BOOLEAN
      BY <2>11 DEF StartSynced, StartDegraded
    <3>2. Launch
      BY <2>11 DEF StartSynced, StartDegraded
    <3> QED
      BY <3>1, <3>2 DEF Launch
  <2>12. CASE OnChange
    BY <2>12 DEF OnChange
  <2>13. CASE Fire
    BY <2>13 DEF Fire
  <2>14. CASE Rearm
    BY <2>14 DEF Rearm
  <2>15. CASE TakeToken \/ StopNotifier
    BY <2>15 DEF TakeToken, StopNotifier
  <2>16. CASE Cancel
    BY <2>16 DEF Cancel
  <2>17. CASE Unsubscribe
    BY <2>17 DEF Unsubscribe
  <2>18. CASE UNCHANGED vars
    BY <2>18 DEF vars
  <2> QED
    BY <2>3, <2>4, <2>5, <2>6, <2>7, <2>8, <2>9, <2>10, <2>13, <2>18, <2>12,
       <2>15, <2>11, <2>14, <2>16, <2>17 DEF Next
<1> QED
  BY <1>1, <1>2, PTL DEF Spec

\* The cache, the dirty mark and the map of failures agree.
LEMMA CacheInvariant == Spec => []CacheSound
<1>1. Init => CacheSound
  <2>1. ~(TTL + 1 <= TTL)
    BY TTLAssumption DEF TTLAssumption
  <2> QED
    BY <2>1 DEF Init, CacheSound, CacheUsable
<1>2. TypeOK /\ CacheSound /\ [Next]_vars => CacheSound'
  <2> SUFFICES ASSUME TypeOK, CacheSound, [Next]_vars
               PROVE  CacheSound'
    OBVIOUS
  <2> USE DEF TypeOK, CacheSound, CacheUsable, stateVars, bootVars, notifyVars, subVars
  <2>1. Snapshot /\ UNCHANGED <<version, age>> => CacheSound'
    BY DEF Snapshot, Served, Alive
  <2>2. CASE Render \/ Deliver
    BY <2>1, <2>2 DEF Render, Deliver
  <2>3. ASSUME NEW w \in Writers, Apply(w) \/ Touch(w)
        PROVE  CacheSound'
    BY <2>3 DEF Apply, Touch
  <2>4. ASSUME NEW w \in Writers, NEW v \in {"available", "failing"}, SetSource(w, v)
        PROVE  CacheSound'
    BY <2>4 DEF SetSource
  <2>5. ASSUME NEW w \in Writers, NEW s \in Watched, NoteWatchFailure(w, s)
        PROVE  CacheSound'
    BY <2>5 DEF NoteWatchFailure
  <2>6. CASE Tick
    <3>1. \A s \in Watched : age'[s] <= TTL => age[s] <= TTL
      BY <2>6, TTLAssumption DEF TTLAssumption, Tick
    <3> QED
      BY <2>6, <3>1 DEF Tick
  <2>7. CASE List \/ StartSynced \/ StartDegraded \/ OnChange
    BY <2>7 DEF List, StartSynced, StartDegraded, Launch, OnChange
  <2>8. CASE TakeToken \/ Fire \/ Rearm \/ Cancel \/ StopNotifier \/ Unsubscribe
    BY <2>8 DEF TakeToken, Fire, Rearm, Cancel, StopNotifier, Unsubscribe
  <2>9. CASE UNCHANGED vars
    BY <2>9 DEF vars
  <2> QED
    BY <2>2, <2>3, <2>4, <2>5, <2>6, <2>7, <2>8, <2>9 DEF Next
<1> QED
  BY <1>1, <1>2, CollectorTypeCorrect, PTL DEF Spec

\* The cached snapshot is never served once it is out of date, whether a writer
\* or the clock made it so.
THEOREM SnapshotsAreCurrent == Spec => []ServedIsTheTruth
<1>1. TypeOK /\ CacheSound => ServedIsTheTruth
  <2> SUFFICES ASSUME TypeOK, CacheSound
               PROVE  ServedIsTheTruth
    OBVIOUS
  <2> DEFINE Broken == {s \in Watched : age[s] <= TTL}
  <2>1. Broken = {s \in failures : age[s] <= TTL}
    BY DEF TypeOK, CacheSound
  <2>2. CASE CacheUsable
    BY <2>1, <2>2 DEF CacheSound, ServedIsTheTruth, Served, CacheUsable
  <2>3. CASE ~CacheUsable
    BY <2>1, <2>3 DEF ServedIsTheTruth, Served, Alive
  <2> QED
    BY <2>2, <2>3
<1> QED
  BY <1>1, CollectorTypeCorrect, CacheInvariant, PTL

\* The one-place channel and the debounce lose no change: until the subscriber
\* has seen it, something is left to bring it there.
THEOREM NoChangeIsLost == Spec => []ChangesAreOnTheirWay
<1>1. Init => ChangesAreOnTheirWay
  BY DEF Init, ChangesAreOnTheirWay
<1>2. TypeOK /\ ServedIsTheTruth /\ ChangesAreOnTheirWay /\ [Next]_vars => ChangesAreOnTheirWay'
  <2> SUFFICES ASSUME TypeOK, ServedIsTheTruth, ChangesAreOnTheirWay, [Next]_vars
               PROVE  ChangesAreOnTheirWay'
    OBVIOUS
  <2> USE DEF TypeOK, Versions, ChangesAreOnTheirWay, stateVars, bootVars, notifyVars, subVars
  <2>1. CASE Deliver
    <3>1. delivered' = version'
      BY <2>1 DEF Deliver, ServedIsTheTruth
    <3> QED
      BY <2>1, <3>1 DEF Deliver
  <2>2. CASE Render \/ Tick
    BY <2>2 DEF Render, Tick
  <2>3. ASSUME NEW w \in Writers, Apply(w)
        PROVE  ChangesAreOnTheirWay'
    BY <2>3 DEF Apply
  <2>4. ASSUME NEW w \in Writers, NEW v \in {"available", "failing"}, SetSource(w, v)
        PROVE  ChangesAreOnTheirWay'
    BY <2>4 DEF SetSource
  <2>5. ASSUME NEW w \in Writers, NEW s \in Watched, NoteWatchFailure(w, s)
        PROVE  ChangesAreOnTheirWay'
    BY <2>5 DEF NoteWatchFailure
  <2>6. ASSUME NEW w \in Writers, Touch(w)
        PROVE  ChangesAreOnTheirWay'
    BY <2>6 DEF Touch
  <2>7. CASE List \/ StartSynced \/ StartDegraded
    BY <2>7 DEF List, StartSynced, StartDegraded, Launch
  <2>8. CASE OnChange
    BY <2>8 DEF OnChange
  <2>9. CASE TakeToken \/ Fire \/ Rearm
    BY <2>9 DEF TakeToken, Fire, Rearm
  <2>10. CASE Cancel \/ StopNotifier \/ Unsubscribe
    BY <2>10 DEF Cancel, StopNotifier, Unsubscribe
  <2>11. CASE UNCHANGED vars
    BY <2>11 DEF vars
  <2> QED
    BY <2>1, <2>2, <2>3, <2>4, <2>5, <2>6, <2>7, <2>9, <2>10, <2>11, <2>8 DEF Next
<1> QED
  BY <1>1, <1>2, CollectorTypeCorrect, SnapshotsAreCurrent, PTL DEF Spec

\* The subscriber's snapshots never go back in time, so its consecutive ones
\* can be diffed.
THEOREM DeliveriesGoForward == Spec => DeliveredInOrder
<1> DEFINE NotAhead == delivered <= version
<1>1. Init => NotAhead
  BY DEF Init
<1>2. TypeOK /\ ServedIsTheTruth /\ NotAhead /\ [Next]_vars
      => NotAhead' /\ [delivered' >= delivered]_delivered
  <2> SUFFICES ASSUME TypeOK, ServedIsTheTruth, NotAhead, [Next]_vars
               PROVE  NotAhead' /\ [delivered' >= delivered]_delivered
    OBVIOUS
  <2> USE DEF TypeOK, Versions, stateVars, bootVars, notifyVars, subVars
  <2>1. CASE Deliver
    BY <2>1 DEF Deliver, ServedIsTheTruth
  <2>2. CASE UNCHANGED <<version, delivered>>
    BY <2>2
  <2>3. ASSUME NEW w \in Writers, Apply(w)
        PROVE  NotAhead' /\ UNCHANGED delivered
    BY <2>3 DEF Apply
  <2>4. ASSUME NEW w \in Writers, NEW v \in {"available", "failing"}, SetSource(w, v)
        PROVE  NotAhead' /\ UNCHANGED delivered
    BY <2>4 DEF SetSource
  <2>5. ASSUME NEW w \in Writers, NEW s \in Watched, NoteWatchFailure(w, s)
        PROVE  NotAhead' /\ UNCHANGED delivered
    BY <2>5 DEF NoteWatchFailure
  <2>6. Render \/ Tick \/ List \/ StartSynced \/ StartDegraded \/ OnChange
        => UNCHANGED <<version, delivered>>
    BY DEF Render, Tick, List, StartSynced, StartDegraded, Launch, OnChange
  <2>7. (\E w \in Writers : Touch(w)) \/ TakeToken \/ Fire \/ Rearm \/ Cancel
        \/ StopNotifier \/ Unsubscribe \/ UNCHANGED vars
        => UNCHANGED <<version, delivered>>
    BY DEF Touch, TakeToken, Fire, Rearm, Cancel, StopNotifier, Unsubscribe, vars
  <2> QED
    BY <2>1, <2>2, <2>3, <2>4, <2>5, <2>6, <2>7 DEF Next
<1> QED
  BY <1>1, <1>2, CollectorTypeCorrect, SnapshotsAreCurrent, PTL DEF Spec, DeliveredInOrder
=============================================================================
