----------------------------- MODULE Pipeline -----------------------------
(***************************************************************************)
(* The wiring of run() in cmd/arc-ui/main.go: a change of the fleet goes   *)
(* from the Collector to the Recorder, which writes it and ticks the Hub,  *)
(* whose subscribers render the collector's snapshot again.                *)
(*                                                                         *)
(* Two loops close over this path.  The recorder reports the outcome of    *)
(* each write to the collector, as the verdict on one of its sources, and  *)
(* a change of that verdict is itself a change to be recorded.  And every  *)
(* tick makes each subscriber rebuild the snapshot the recorder will get.  *)
(*                                                                         *)
(* An action here is one step of one goroutine: the steps of the           *)
(* components it consists of, taken together.  An instant of the Recorder  *)
(* is a version of the Collector plus one, as its 0 means "none".  The     *)
(* program does not stop and no stream leaves; Recorder, Hub and LiveView  *)
(* have those steps.                                                       *)
(***************************************************************************)
EXTENDS Naturals, Sequences

CONSTANTS
  Subscribers,  \* streams
  Cap,          \* capacity of a subscriber's channel
  MaxFleet      \* bound on the changes made by the cluster

VARIABLES
  boot, listed, synced, version, age, failures, dirty, cached, touching, token,
  notifier, registered, calling, base, delivered,
  clock, callerPc, held, pending, wake, workerPc, snap, tried, succeeded, seen,
  ticked, deadline, aborted, store,
  verdict,     \* of the collector and of the recorder
  cancelled,   \* of both as well
  subs, stage, buf, locked, todo, seq, asOf,
  disk,        \* whether the history store's writes work
  shown        \* version each subscriber rendered last

\* The verdict changes at most three times: it is settled by the first write,
\* and the disk fills up and is cleaned at most once.
MaxVersion == MaxFleet + 3

C == INSTANCE Collector WITH
  Writers <- {"cluster", "worker"}, Watched <- {}, TTL <- 0
R == INSTANCE Recorder WITH
  Callers <- {"notifier"}, Serialised <- TRUE, MaxAt <- MaxVersion + 1
H == INSTANCE Hub WITH MaxSeq <- MaxVersion + 2

collectorVars == <<boot, listed, synced, version, age, failures, dirty, cached, touching,
                   token, notifier, registered, calling, base, delivered>>
recorderVars  == <<clock, callerPc, held, pending, wake, workerPc, snap, tried,
                   succeeded, seen, ticked, deadline, aborted, store>>
hubVars       == <<subs, stage, buf, locked, todo, seq, asOf>>
vars          == <<collectorVars, recorderVars, hubVars, verdict, cancelled, disk, shown>>

CollectorOnly == UNCHANGED <<recorderVars, hubVars, disk, shown>>
RecorderOnly  == UNCHANGED <<collectorVars, hubVars, disk, shown>>
HubOnly       == UNCHANGED <<collectorVars, recorderVars, verdict, cancelled, disk>>

Init ==
  /\ C!Init
  /\ R!Init
  /\ H!Init
  /\ disk = "good"
  /\ shown = [s \in Subscribers |-> 0]

---------------------------------------------------------------------------
(* The collector's goroutines *)

ClusterChanges ==
  /\ version < MaxFleet
  /\ C!Apply("cluster")
  /\ version' = version + 1
  /\ CollectorOnly

Touch(w) == C!Touch(w) /\ CollectorOnly

\* Whether Start saw the caches complete makes no difference on this path.
Start == (C!List \/ C!StartSynced \/ C!OnChange) /\ CollectorOnly

Debounce == (C!TakeToken \/ C!Fire) /\ CollectorOnly

NobodyToCall == notifier = "fire" /\ C!Rearm /\ CollectorOnly

\* The callback of run() takes a snapshot for the recorder ...
Deliver ==
  /\ C!Deliver
  /\ R!Observe("notifier")
  /\ clock' = C!Served.version + 1
  /\ UNCHANGED <<hubVars, disk, shown>>

\* ... parks it in the slot ...
Publish == R!Publish("notifier") /\ RecorderOnly

\* ... posts the token and returns to the notifier.
Signal ==
  /\ R!Signal("notifier")
  /\ C!Rearm
  /\ UNCHANGED <<hubVars, disk, shown>>

---------------------------------------------------------------------------
(* The recorder's worker *)

Claim == (R!Wake \/ R!Take) /\ RecorderOnly

Record ==
  /\ R!Record
  /\ succeeded' = (disk # "full")
  /\ RecorderOnly

\* Bug: only failures are reported.
ReportFailures ==
  \/ /\ ~succeeded
     /\ R!Report
     /\ C!SetSource("worker", "failing")
     /\ UNCHANGED <<hubVars, disk, shown>>
  \/ /\ succeeded
     /\ workerPc = "report"
     /\ workerPc' = "broadcast"
     /\ UNCHANGED <<collectorVars, hubVars, clock, callerPc, held, pending, wake, snap,
                    tried, succeeded, seen, ticked, deadline, aborted, store, verdict,
                    cancelled, disk, shown>>

\* onResult: the outcome becomes the verdict on the collector's source.
Report ==
  /\ R!Report
  /\ C!SetSource("worker", IF succeeded THEN "available" ELSE "failing")
  /\ UNCHANGED <<hubVars, disk, shown>>

\* The worker enters the hub's Broadcast once its touch is done.
Broadcast ==
  /\ workerPc = "broadcast"
  /\ ~touching["worker"]
  /\ H!Broadcast
  /\ HubOnly
  /\ UNCHANGED shown

Send(s) == H!Send(s) /\ HubOnly /\ UNCHANGED shown

\* Broadcast returns and the worker goes on.
Unlock ==
  /\ H!Unlock
  /\ R!Broadcast
  /\ UNCHANGED <<collectorVars, disk, shown>>

---------------------------------------------------------------------------
(* Streams *)

\* The collector's snapshot is rendered for a subscriber.
RenderFor(s) ==
  /\ C!Snapshot
  /\ shown' = [shown EXCEPT ![s] = C!Served.version]
  /\ UNCHANGED <<boot, listed, synced, version, age, touching, token, notifier,
                 registered, calling, base, delivered, recorderVars, verdict,
                 cancelled, disk>>

Subscribe(s) == H!Subscribe(s) /\ RenderFor(s)

Receive(s) == H!Receive(s) /\ RenderFor(s)

---------------------------------------------------------------------------
(* The disk *)

DiskFills ==
  /\ disk = "good"
  /\ disk' = "full"
  /\ UNCHANGED <<collectorVars, recorderVars, hubVars, verdict, cancelled, shown>>

DiskIsCleaned ==
  /\ disk = "full"
  /\ disk' = "cleaned"
  /\ UNCHANGED <<collectorVars, recorderVars, hubVars, verdict, cancelled, shown>>

---------------------------------------------------------------------------
Notifier == Debounce \/ NobodyToCall \/ Deliver \/ Publish \/ Signal
Worker   == Claim \/ Record \/ Report \/ Touch("worker") \/ Broadcast \/ Unlock

Next ==
  \/ ClusterChanges \/ Touch("cluster") \/ Start
  \/ Notifier
  \/ Worker \/ \E s \in Subscribers : Send(s)
  \/ \E s \in Subscribers : Subscribe(s) \/ Receive(s)
  \/ DiskFills \/ DiskIsCleaned

\* Every goroutine that can run is run; the cluster, the disk and
\* the streams do as they like.
Fairness ==
  /\ WF_vars(Start) /\ WF_vars(Touch("cluster"))
  /\ WF_vars(Notifier) /\ WF_vars(Worker)
  /\ \A s \in Subscribers : WF_vars(Send(s)) /\ WF_vars(Receive(s))

Spec == Init /\ [][Next]_vars /\ Fairness

---------------------------------------------------------------------------
(* Properties *)

\* Every change made after run() subscribed is rendered by every stream,
\* with the store working or not: a broken store does not freeze the
\* dashboard (main.go:216-218, 414-416).
EveryChangeIsShown ==
  \A s \in Subscribers : \A n \in 1 .. MaxVersion :
    registered /\ base < n /\ version >= n /\ stage[s] = "open"
      ~> shown[s] >= n

\* A cluster that stops changing leaves the program at rest: the recorder's
\* reports do not keep the recorder busy, even if every write fails
\* (collector.go:410-414).
ComesToRest ==
  <>[](workerPc = "wait" /\ notifier = "wait" /\ ~token)

\* The verdict that stays on the health strip is the true one: it follows the
\* disk both ways once something is written (main.go:339-342).
StripTellsTheTruth ==
  \A d \in {"full", "cleaned"} :
    disk = d /\ registered /\ base < version /\ version > delivered
      ~> disk # d \/ verdict = (IF d = "full" THEN "failing" ELSE "available")
=============================================================================
