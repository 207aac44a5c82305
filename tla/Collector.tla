----------------------------- MODULE Collector -----------------------------
(***************************************************************************)
(* internal/k8s/collector.go: the collector's state, its cached snapshot   *)
(* and the debounced notifications that the fleet changed.                 *)
(*                                                                         *)
(* Writers are the goroutines that change what a snapshot shows: informer  *)
(* handlers, the metrics and listener pollers, the recorder's worker.      *)
(* Each changes the state under the mutex, marks the cache dirty, and      *)
(* after the mutex posts a token on a channel of capacity one ("touch").   *)
(* The notifier takes the token, waits out the debounce window and calls   *)
(* the subscriber, whose first act is to take a snapshot.  What a snapshot *)
(* shows is a version number, counting the changes, and the sources whose  *)
(* watch failed; a snapshot can be taken at any moment by a page request.  *)
(***************************************************************************)
EXTENDS Naturals

CONSTANTS
  Writers,     \* goroutines that change the collector's state
  Watched,     \* data sources that watches report on
  TTL,         \* watchFailureTTL, in ticks of the clock
  MaxVersion   \* bound on the number of changes

ASSUME TTLAssumption == TTL \in Nat
ASSUME MaxVersionAssumption == MaxVersion \in Nat

VARIABLES
  boot,        \* Start waits for the informers' caches, then returns
  listed,      \* every informer's cache holds its initial list
  synced,      \* what HasSynced tells the readiness probe
  version,     \* the changes made to what a snapshot shows
  verdict,     \* verdict on the history store's source
  age,         \* ticks since each watched source last failed, at most TTL + 1
  failures,    \* sources with an entry in the watchFailures map
  dirty,       \* the cached snapshot is out of date
  cached,      \* the snapshot built last
  touching,    \* writers between the mutex and their touch
  token,       \* the notify channel holds its token
  notifier,    \* where the notifier is in its loop
  registered,  \* the subscriber is in the map
  calling,     \* the notifier copied the map with the subscriber in it
  base,        \* version when the subscriber registered
  delivered,   \* version of the last snapshot the subscriber took
  cancelled    \* SIGTERM has cancelled the context

bootVars     == <<boot, listed, synced>>
stateVars    == <<version, verdict, age, failures, dirty, cached>>
notifyVars   == <<touching, token, notifier, calling>>
subVars      == <<registered, base, delivered>>
vars         == <<bootVars, stateVars, notifyVars, subVars, cancelled>>

Versions == 0 .. MaxVersion
Snapshots == [version : Versions, broken : SUBSET Watched]

TypeOK ==
  /\ boot \in {"syncing", "running"}
  /\ listed \in BOOLEAN
  /\ synced \in BOOLEAN
  /\ version \in Versions
  /\ verdict \in {"unknown", "available", "failing"}
  /\ age \in [Watched -> 0 .. TTL + 1]
  /\ failures \subseteq Watched
  /\ dirty \in BOOLEAN
  /\ cached \in Snapshots
  /\ touching \in [Writers -> BOOLEAN]
  /\ token \in BOOLEAN
  /\ notifier \in {"off", "wait", "debounce", "fire", "called"}
  /\ registered \in BOOLEAN
  /\ calling \in BOOLEAN
  /\ base \in Versions
  /\ delivered \in Versions
  /\ cancelled \in BOOLEAN

Init ==
  /\ boot = "syncing"
  /\ listed = FALSE
  /\ synced = FALSE
  /\ version = 0
  /\ verdict = "unknown"
  /\ age = [s \in Watched |-> TTL + 1]
  /\ failures = {}
  /\ dirty = TRUE
  /\ cached = [version |-> 0, broken |-> {}]
  /\ touching = [w \in Writers |-> FALSE]
  /\ token = FALSE
  /\ notifier = "off"
  /\ registered = FALSE
  /\ calling = FALSE
  /\ base = 0
  /\ delivered = 0
  /\ cancelled = FALSE

---------------------------------------------------------------------------
(* Snapshots *)

\* Bug: an entry in watchFailures does not keep the cache from being used.
CacheIsClean == ~dirty

\* Snapshot may hand out the cached build: nothing changed, and no entry is
\* waiting for the clock to expire it.
CacheUsable == ~dirty /\ failures = {}

\* The entries a build finds still alive.
Alive == {s \in failures : age[s] <= TTL}

\* What Snapshot returns.
Served ==
  IF CacheUsable THEN cached ELSE [version |-> version, broken |-> Alive]

\* Bug: the snapshot built is handed out and not kept.
SnapshotUncached ==
  IF CacheUsable
    THEN UNCHANGED <<dirty, cached, failures>>
    ELSE /\ failures' = Alive
         /\ dirty' = FALSE
         /\ UNCHANGED cached

\* What a call of Snapshot does to the collector: unless the cache is usable
\* the snapshot is rebuilt, and expired watch failures are dropped from the map.
Snapshot ==
  IF CacheUsable
    THEN UNCHANGED <<dirty, cached, failures>>
    ELSE /\ cached' = Served
         /\ failures' = Alive
         /\ dirty' = FALSE

\* A page or a stream is rendered.
Render ==
  /\ Snapshot
  /\ UNCHANGED <<bootVars, version, verdict, age, notifyVars, subVars, cancelled>>

---------------------------------------------------------------------------
(* Writers *)

\* Bug: the change is not announced.
ApplySilently(w) ==
  /\ ~touching[w]
  /\ version' \in {version, version + 1} \cap Versions
  /\ dirty' = TRUE
  /\ UNCHANGED <<bootVars, verdict, age, failures, cached, notifyVars, subVars, cancelled>>

\* applyCustomResource, applyPod, SetUsage, SetQueueDepth; an object that does
\* not decode leaves the maps as they were and is announced all the same.
Apply(w) ==
  /\ ~touching[w]
  /\ version' \in {version, version + 1} \cap Versions
  /\ dirty' = TRUE
  /\ touching' = [touching EXCEPT ![w] = TRUE]
  /\ UNCHANGED <<bootVars, verdict, age, failures, cached, token, notifier, calling,
                 subVars, cancelled>>

\* Bug: every report is news.
SetSourceLoudly(w, v) ==
  /\ ~touching[w]
  /\ verdict' = v
  /\ version' = IF v # verdict THEN version + 1 ELSE version
  /\ version' \in Versions
  /\ dirty' = TRUE
  /\ touching' = [touching EXCEPT ![w] = TRUE]
  /\ UNCHANGED <<bootVars, age, failures, cached, token, notifier, calling,
                 subVars, cancelled>>

\* SetSource: only a change of verdict is news.
SetSource(w, v) ==
  /\ ~touching[w]
  /\ verdict' = v
  /\ IF v # verdict
       THEN /\ version < MaxVersion
            /\ version' = version + 1
            /\ dirty' = TRUE
            /\ touching' = [touching EXCEPT ![w] = TRUE]
       ELSE UNCHANGED <<version, dirty, touching>>
  /\ UNCHANGED <<bootVars, age, failures, cached, token, notifier, calling,
                 subVars, cancelled>>

\* noteWatchFailure, for any resource of the source.
NoteWatchFailure(w, s) ==
  /\ ~touching[w]
  /\ version < MaxVersion
  /\ version' = version + 1
  /\ age' = [age EXCEPT ![s] = 0]
  /\ failures' = failures \cup {s}
  /\ dirty' = TRUE
  /\ touching' = [touching EXCEPT ![w] = TRUE]
  /\ UNCHANGED <<bootVars, verdict, cached, token, notifier, calling, subVars, cancelled>>

\* Bug: the channel has no buffer, so only a waiting notifier is reached.
TouchUnbuffered(w) ==
  /\ touching[w]
  /\ touching' = [touching EXCEPT ![w] = FALSE]
  /\ token' = (token \/ notifier = "wait")
  /\ UNCHANGED <<bootVars, stateVars, notifier, calling, subVars, cancelled>>

\* touch: a non-blocking send of the token.
Touch(w) ==
  /\ touching[w]
  /\ touching' = [touching EXCEPT ![w] = FALSE]
  /\ token' = TRUE
  /\ UNCHANGED <<bootVars, stateVars, notifier, calling, subVars, cancelled>>

Tick ==
  /\ \E s \in Watched : age[s] <= TTL
  /\ age' = [s \in Watched |-> IF age[s] <= TTL THEN age[s] + 1 ELSE age[s]]
  /\ UNCHANGED <<bootVars, version, verdict, failures, dirty, cached, notifyVars,
                 subVars, cancelled>>

---------------------------------------------------------------------------
(* Start, and the notifier *)

\* The last informer delivers its initial list.
List ==
  /\ ~listed
  /\ listed' = TRUE
  /\ UNCHANGED <<boot, synced, stateVars, notifyVars, subVars, cancelled>>

\* Start launches the notifier, touches and returns.
Launch ==
  /\ boot = "syncing"
  /\ boot' = "running"
  /\ notifier' = "wait"
  /\ token' = TRUE
  /\ UNCHANGED <<listed, stateVars, touching, calling, subVars, cancelled>>

\* WaitForCacheSync sees the caches complete.
StartSynced == listed /\ synced' = TRUE /\ Launch

\* WaitForCacheSync runs into cacheSyncTimeout: Start serves what it has.
StartDegraded == synced' = FALSE /\ Launch

\* run() subscribes some time after Start returned.
OnChange ==
  /\ boot = "running"
  /\ ~registered
  /\ ~cancelled
  /\ registered' = TRUE
  /\ base' = version
  /\ UNCHANGED <<bootVars, stateVars, notifyVars, delivered, cancelled>>

TakeToken ==
  /\ notifier = "wait"
  /\ token
  /\ token' = FALSE
  /\ notifier' = "debounce"
  /\ UNCHANGED <<bootVars, stateVars, touching, calling, subVars, cancelled>>

\* The debounce timer fires and the subscribers are copied.
Fire ==
  /\ notifier = "debounce"
  /\ notifier' = "fire"
  /\ calling' = registered
  /\ UNCHANGED <<bootVars, stateVars, touching, token, subVars, cancelled>>

\* The subscriber's callback takes its snapshot.
Deliver ==
  /\ notifier = "fire"
  /\ calling
  /\ Snapshot
  /\ delivered' = Served.version
  /\ notifier' = "called"
  /\ UNCHANGED <<bootVars, version, verdict, age, touching, token, calling,
                 registered, base, cancelled>>

\* The callbacks have returned, or there was none.
Rearm ==
  /\ notifier \in {"fire", "called"}
  /\ notifier = "fire" => ~calling
  /\ notifier' = "wait"
  /\ calling' = FALSE
  /\ UNCHANGED <<bootVars, stateVars, touching, token, subVars, cancelled>>

\* SIGTERM.  The notifier looks at the context in both of its waits, and run()
\* unsubscribes as it returns.
Cancel ==
  /\ boot = "running"
  /\ ~cancelled
  /\ cancelled' = TRUE
  /\ UNCHANGED <<bootVars, stateVars, notifyVars, subVars>>

StopNotifier ==
  /\ cancelled
  /\ notifier \in {"wait", "debounce"}
  /\ notifier' = "off"
  /\ UNCHANGED <<bootVars, stateVars, touching, token, calling, subVars, cancelled>>

Unsubscribe ==
  /\ cancelled
  /\ registered
  /\ registered' = FALSE
  /\ UNCHANGED <<bootVars, stateVars, notifyVars, base, delivered, cancelled>>

---------------------------------------------------------------------------
Next ==
  \/ \E w \in Writers :
       \/ Apply(w) \/ Touch(w)
       \/ \E v \in {"available", "failing"} : SetSource(w, v)
       \/ \E s \in Watched : NoteWatchFailure(w, s)
  \/ Render \/ Tick
  \/ List \/ StartSynced \/ StartDegraded \/ OnChange
  \/ TakeToken \/ Fire \/ Deliver \/ Rearm
  \/ Cancel \/ StopNotifier \/ Unsubscribe

\* Goroutines that can run are run, the debounce timer fires, the API server
\* answers its lists.  Nobody need change the fleet, render or cancel.
Fairness ==
  /\ \A w \in Writers : WF_vars(Touch(w))
  /\ WF_vars(List) /\ WF_vars(StartSynced) /\ WF_vars(StartDegraded)
  /\ WF_vars(TakeToken) /\ WF_vars(Fire) /\ WF_vars(Deliver) /\ WF_vars(Rearm)

Spec == Init /\ [][Next]_vars /\ Fairness

---------------------------------------------------------------------------
(* Properties *)

\* Whoever asks gets the fleet as it is, cached or not: every change, and a
\* source shown broken for TTL after its last watch failure and not longer,
\* though nothing but the clock marks the end of that time
\* (collector.go:198-216, 238-252).
ServedIsTheTruth ==
  Served = [version |-> version, broken |-> {s \in Watched : age[s] <= TTL}]

\* A change the subscriber has not seen is on its way to it: a writer about to
\* touch, the token, or a callback that has yet to take its snapshot
\* (collector.go:451-458, 460-488).
ChangesAreOnTheirWay ==
  registered /\ ~cancelled /\ version > base /\ version > delivered =>
    \/ token \/ notifier = "debounce"
    \/ \E w \in Writers : touching[w]
    \/ notifier = "fire" /\ calling

\* Every change made while the subscriber is registered reaches it, or a later
\* one does, until the program is stopped.
EveryChangeIsDelivered ==
  \A n \in 1 .. MaxVersion :
    registered /\ base < n /\ version >= n ~> delivered >= n \/ cancelled

\* The subscriber is never handed an older fleet than the one before, which
\* the recorder relies on when it diffs consecutive snapshots
\* (cmd/arc-ui/main.go:321-338).
DeliveredInOrder == [][delivered' >= delivered]_delivered

\* What chart/README.md:129 and collector.go:190 say of /readyz: it reports
\* that the informers are synced.  Once they are, readiness follows.
ReadyOnceListed == listed ~> synced
=============================================================================
