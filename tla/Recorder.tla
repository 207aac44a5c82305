----------------------------- MODULE Recorder -----------------------------
(***************************************************************************)
(* The snapshotRecorder of cmd/arc-ui/main.go and the end of run(), which  *)
(* joins it before the store is closed.                                    *)
(*                                                                         *)
(* A caller (the collector's notifier goroutine) observes the fleet and    *)
(* calls enqueue: it parks the snapshot in a one-place slot under the      *)
(* mutex, then posts a token on a channel of capacity one.  A single       *)
(* worker takes the token, claims the slot, writes the snapshot to the     *)
(* store, reports the outcome and ticks the hub.  A snapshot is the        *)
(* instant it was observed at; 0 stands for "no snapshot".                 *)
(***************************************************************************)
EXTENDS Naturals

CONSTANTS
  Callers,     \* calls of enqueue that may be under way
  Serialised,  \* one call at a time: they come from the collector's notifier
  MaxAt        \* bound on the instants at which the fleet is observed

ASSUME SerialisedAssumption == Serialised \in BOOLEAN
ASSUME MaxAtAssumption == MaxAt \in Nat

VARIABLES
  clock,      \* instant of the newest observation of the fleet
  callerPc,   \* where each caller is in observe-and-enqueue
  held,       \* the snapshot each caller is handing over
  pending,    \* the slot: the snapshot waiting for the worker
  wake,       \* the wakeup channel holds its token
  workerPc,   \* where the worker is in its loop
  snap,       \* the snapshot the worker claimed last
  tried,      \* the last snapshot whose write was attempted
  succeeded,  \* that attempt succeeded
  seen,       \* the newest snapshot whose write was ever attempted
  verdict,    \* what the store's row of the health strip says
  ticked,     \* the instant carried by the last hub tick
  cancelled,  \* SIGTERM has cancelled the context
  deadline,   \* the shutdown deadline has passed
  aborted,    \* the server failed on its own, and run() returned at once
  store       \* "open" until run() returns and closes the database

callerVars == <<clock, callerPc, held>>
slotVars   == <<pending, wake>>
workerVars == <<workerPc, snap, tried, succeeded, seen, verdict, ticked>>
runVars    == <<cancelled, deadline, aborted, store>>
vars       == <<callerVars, slotVars, workerVars, runVars>>

Instants == 0 .. MaxAt

TypeOK ==
  /\ clock \in Instants
  /\ callerPc \in [Callers -> {"idle", "publish", "signal"}]
  /\ held \in [Callers -> Instants]
  /\ pending \in Instants
  /\ wake \in BOOLEAN
  /\ workerPc \in {"wait", "take", "record", "report", "broadcast", "stopped"}
  /\ snap \in Instants
  /\ tried \in Instants
  /\ succeeded \in BOOLEAN
  /\ seen \in Instants
  /\ verdict \in {"unknown", "available", "failing"}
  /\ ticked \in Instants
  /\ cancelled \in BOOLEAN
  /\ deadline \in BOOLEAN
  /\ aborted \in BOOLEAN
  /\ store \in {"open", "closed"}

Init ==
  /\ clock = 0
  /\ callerPc = [c \in Callers |-> "idle"]
  /\ held = [c \in Callers |-> 0]
  /\ pending = 0
  /\ wake = FALSE
  /\ workerPc = "wait"
  /\ snap = 0
  /\ tried = 0
  /\ succeeded = FALSE
  /\ seen = 0
  /\ verdict = "unknown"
  /\ ticked = 0
  /\ cancelled = FALSE
  /\ deadline = FALSE
  /\ aborted = FALSE
  /\ store = "open"

---------------------------------------------------------------------------
(* The callers *)

\* Bug: each callback detaches a goroutine of its own.
ObserveDetached(c) ==
  /\ callerPc[c] = "idle"
  /\ clock' \in (clock .. MaxAt) \ {0}
  /\ held' = [held EXCEPT ![c] = clock']
  /\ callerPc' = [callerPc EXCEPT ![c] = "publish"]
  /\ UNCHANGED <<slotVars, workerVars, runVars>>

\* The callback of run() starts: collector.Snapshot() returns a fresh build or,
\* when nothing changed since, the cached one with the instant it was built at.
\* The notifier calls its subscribers one after the other, so in the program
\* no other call is under way.
Observe(c) ==
  /\ callerPc[c] = "idle"
  /\ Serialised => \A d \in Callers : callerPc[d] = "idle"
  /\ clock' \in (clock .. MaxAt) \ {0}
  /\ held' = [held EXCEPT ![c] = clock']
  /\ callerPc' = [callerPc EXCEPT ![c] = "publish"]
  /\ UNCHANGED <<slotVars, workerVars, runVars>>

\* enqueue, under the mutex: the newer of the two snapshots stays pending.
Publish(c) ==
  /\ callerPc[c] = "publish"
  /\ pending' = IF pending = 0 \/ held[c] >= pending THEN held[c] ELSE pending
  /\ callerPc' = [callerPc EXCEPT ![c] = "signal"]
  /\ UNCHANGED <<clock, held, wake, workerVars, runVars>>

\* Bug: the token is posted only to an idle worker.
SignalIdleWorker(c) ==
  /\ callerPc[c] = "signal"
  /\ wake' = (wake \/ workerPc = "wait")
  /\ callerPc' = [callerPc EXCEPT ![c] = "idle"]
  /\ UNCHANGED <<clock, held, pending, workerVars, runVars>>

\* enqueue, after the mutex: a non-blocking send of the token.
Signal(c) ==
  /\ callerPc[c] = "signal"
  /\ wake' = TRUE
  /\ callerPc' = [callerPc EXCEPT ![c] = "idle"]
  /\ UNCHANGED <<clock, held, pending, workerVars, runVars>>

---------------------------------------------------------------------------
(* The worker *)

\* A select with both cases ready picks either, so a cancelled worker may
\* still take a token.
Wake ==
  /\ workerPc = "wait"
  /\ wake
  /\ wake' = FALSE
  /\ workerPc' = "take"
  /\ UNCHANGED <<callerVars, pending, snap, tried, succeeded, seen, verdict, ticked, runVars>>

\* Bug: the worker drains its wakeups before it looks at the context.
HaltWhenDrained ==
  /\ workerPc = "wait"
  /\ cancelled
  /\ ~wake
  /\ workerPc' = "stopped"
  /\ UNCHANGED <<callerVars, slotVars, snap, tried, succeeded, seen, verdict, ticked, runVars>>

Halt ==
  /\ workerPc = "wait"
  /\ cancelled
  /\ workerPc' = "stopped"
  /\ UNCHANGED <<callerVars, slotVars, snap, tried, succeeded, seen, verdict, ticked, runVars>>

\* take: claims the slot, or goes back to waiting when the token outlived it.
Take ==
  /\ workerPc = "take"
  /\ IF pending = 0
       THEN workerPc' = "wait" /\ UNCHANGED snap
       ELSE workerPc' = "record" /\ snap' = pending
  /\ pending' = 0
  /\ UNCHANGED <<callerVars, wake, tried, succeeded, seen, verdict, ticked, runVars>>

\* The outcomes a write may have: a cancelled context or a closed database
\* fails it, and an open one may fail on its own.
Outcomes == IF store = "closed" THEN {FALSE} ELSE BOOLEAN

\* record(ctx, snap), then the test of ctx.Err() that decides whether its
\* outcome is reported.
Record ==
  /\ workerPc = "record"
  /\ tried' = snap
  /\ succeeded' \in Outcomes
  /\ seen' = IF snap > seen THEN snap ELSE seen
  /\ workerPc' = IF cancelled THEN "broadcast" ELSE "report"
  /\ UNCHANGED <<callerVars, slotVars, snap, verdict, ticked, runVars>>

\* onResult: the store's verdict follows every attempt, nil error included.
Report ==
  /\ workerPc = "report"
  /\ verdict' = IF succeeded THEN "available" ELSE "failing"
  /\ workerPc' = "broadcast"
  /\ UNCHANGED <<callerVars, slotVars, snap, tried, succeeded, seen, ticked, runVars>>

Broadcast ==
  /\ workerPc = "broadcast"
  /\ ticked' = snap
  /\ workerPc' = "wait"
  /\ UNCHANGED <<callerVars, slotVars, snap, tried, succeeded, seen, verdict, runVars>>

---------------------------------------------------------------------------
(* The end of run() *)

Cancel ==
  /\ ~cancelled
  /\ cancelled' = TRUE
  /\ UNCHANGED <<callerVars, slotVars, workerVars, deadline, aborted, store>>

\* shutdownCtx starts only once ctx is cancelled.
Expire ==
  /\ cancelled
  /\ ~deadline
  /\ store = "open"
  /\ deadline' = TRUE
  /\ UNCHANGED <<callerVars, slotVars, workerVars, cancelled, aborted, store>>

\* Bug: run() returns without joining the worker.
CloseAtOnce ==
  /\ cancelled
  /\ store = "open"
  /\ store' = "closed"
  /\ UNCHANGED <<callerVars, slotVars, workerVars, cancelled, deadline, aborted>>

\* run() joins the worker or gives up at the deadline; its deferred db.Close
\* runs as it returns.
Close ==
  /\ cancelled
  /\ store = "open"
  /\ workerPc = "stopped" \/ deadline
  /\ store' = "closed"
  /\ UNCHANGED <<callerVars, slotVars, workerVars, cancelled, deadline, aborted>>

\* The server fails, and run() takes its error: it returns without a join, and
\* db.Close runs before the deferred stop cancels the context.  A select with
\* both cases ready may take the error of a program that is cancelled.
Abort ==
  /\ store = "open"
  /\ ~deadline
  /\ aborted' = TRUE
  /\ store' = "closed"
  /\ UNCHANGED <<callerVars, slotVars, workerVars, cancelled, deadline>>

---------------------------------------------------------------------------
Worker == Wake \/ Halt \/ Take \/ Record \/ Report \/ Broadcast

Next ==
  \/ \E c \in Callers : Observe(c) \/ Publish(c) \/ Signal(c)
  \/ Worker
  \/ Cancel \/ Expire \/ Close \/ Abort

\* A goroutine that can run is eventually run.  No fairness on Observe (the
\* fleet may stop changing), on Cancel (nobody may stop the program), on Abort
\* (the server may work) or on Expire (a join in time needs no deadline).  Halt is strong: the select of
\* a cancelled worker cannot choose the other case for ever.
Fairness ==
  /\ \A c \in Callers : WF_vars(Publish(c)) /\ WF_vars(Signal(c))
  /\ WF_vars(Wake) /\ WF_vars(Take) /\ WF_vars(Record)
  /\ WF_vars(Report) /\ WF_vars(Broadcast)
  /\ SF_vars(Halt)
  /\ WF_vars(Close)

Spec == Init /\ [][Next]_vars /\ Fairness

---------------------------------------------------------------------------
(* Properties *)

\* A snapshot in the slot has a token, or a caller about to post one, or a
\* worker about to claim it: the collapse of a burst into one token
\* (main.go:350-352, 427-429) never strands the last snapshot.
NoLostWakeup ==
  pending # 0 /\ workerPc # "stopped" =>
    wake \/ workerPc = "take" \/ \E c \in Callers : callerPc[c] = "signal"

\* Serialised callers: snapshots reach the store in the order they were
\* observed, whatever the writes cost, because RecordSnapshot diffs each one
\* against the one before it (main.go:321-338).
RecordedInOrder == [][tried' >= tried]_tried

\* The health strip says what the last write did, so a store that recovers is
\* not blamed until restart, and one that fails is not shown healthy
\* (main.go:339-342).
VerdictFollowsTheWrite ==
  ~cancelled /\ tried # 0 /\ workerPc \in {"wait", "take"} =>
    verdict = IF succeeded THEN "available" ELSE "failing"

\* Browsers are ticked for every snapshot the worker is done with, after its
\* write and whether or not that succeeded (main.go:412-416).
TickFollowsTheWrite ==
  /\ workerPc \in {"wait", "take", "stopped"} => ticked = tried
  /\ workerPc = "broadcast" => snap = tried

\* The database outlives the worker's writes: it is closed under a worker
\* that has not stopped only when the shutdown deadline ran out, or when the
\* server failed on its own (main.go:282-284, 297-305).
ClosedAfterTheWorker ==
  store = "closed" /\ ~deadline /\ ~aborted => workerPc = "stopped"

\* A cancelled program returns from run(): the join cannot hang.
ShutdownEnds == cancelled ~> store = "closed"

---------------------------------------------------------------------------
\* The newest snapshot handed over: the pending one, else the last claimed.
handedOver == IF pending # 0 THEN pending ELSE snap

\* With serialised callers the recorder implements NewestWins: an observation
\* counts as handed over when its caller publishes it.
History == INSTANCE NewestWins WITH
  newest <- handedOver, written <- tried, stopped <- (workerPc = "stopped")

\* The recorder's slot, token and lock keep the promise of NewestWins, its
\* liveness included (main.go:321-335).
HistorySpec == History!Spec
=============================================================================
