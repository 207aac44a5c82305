------------------------------- MODULE Store -------------------------------
(***************************************************************************)
(* internal/store/record.go: RecordSnapshot, which derives the history of  *)
(* jobs, churn and failures from the difference between two snapshots.     *)
(*                                                                         *)
(* A snapshot is a frame, what is seen of each runner, and the instant it  *)
(* was observed at.  The store remembers the last frame it committed; what *)
(* it derives is written in one transaction, which commits or fails whole. *)
(* A restart forgets the frame and keeps the tables.                       *)
(*                                                                         *)
(* A job is its run id and name.  A runner's CPU reading is one core, so   *)
(* its integrated cost is a number of instants.  All instants fall into    *)
(* one bucket of the job's usage chart.                                    *)
(***************************************************************************)
EXTENDS Naturals

CONSTANTS
  Runners,  \* runner names
  Jobs,     \* jobs they may hold
  NoJob,    \* a runner without a job
  MaxGap,   \* maxIntegrationGap
  MaxAt     \* bound on the instants at which the fleet is observed

ASSUME NoJobAssumption == NoJob \notin Jobs
ASSUME MaxGapAssumption == MaxGap \in Nat
ASSUME MaxAtAssumption == MaxAt \in Nat

VARIABLES
  clock,       \* instant of the newest snapshot; 0 before the first
  fleet,       \* its frame
  prevAt,      \* instant of the snapshot committed last by this process, or 0
  prev,        \* its frame
  rows,        \* the job_observations table, with its job_samples
  created,     \* runners with a "created" row among the churn events
  terminated,  \* runners with a "terminated" row
  failures,    \* the runner_failures table
  lost         \* history: runners an ended process watched, and whose end
               \* no later process has recorded

tables == <<rows, created, terminated, failures>>
vars   == <<clock, fleet, prevAt, prev, tables, lost>>

Instants == 0 .. MaxAt

\* "ailing": the pod shows a failure reason; "failed": it or its runner failed.
Seen   == [job : Jobs \cup {NoJob}, health : {"well", "ailing", "failed"}]
Gone   == [job |-> NoJob, health |-> "gone"]
Frames == [Runners -> Seen \cup {Gone}]
Empty  == [r \in Runners |-> Gone]

\* Every reading folded into a job's bucket counts, up to one more than there
\* are instants.
MaxFolds == MaxAt + 1

Row == [status : {"none", "open", "closed"}, finished : Instants, ok : BOOLEAN,
        cost : Instants, folds : 0 .. MaxFolds]

NoRow == [status |-> "none", finished |-> 0, ok |-> FALSE, cost |-> 0, folds |-> 0]

TypeOK ==
  /\ clock \in Instants
  /\ fleet \in Frames
  /\ prevAt \in Instants
  /\ prev \in Frames
  /\ rows \in [Runners -> [Jobs -> Row]]
  /\ created \subseteq Runners
  /\ terminated \subseteq Runners
  /\ failures \in [Runners -> {"none", "mild", "severe"}]
  /\ lost \subseteq Runners

Init ==
  /\ clock = 0
  /\ fleet = Empty
  /\ prevAt = 0
  /\ prev = Empty
  /\ rows = [r \in Runners |-> [j \in Jobs |-> NoRow]]
  /\ created = {}
  /\ terminated = {}
  /\ failures = [r \in Runners |-> "none"]
  /\ lost = {}

---------------------------------------------------------------------------
(* What a snapshot says of a runner *)

Present(frame) == {r \in Runners : frame[r] # Gone}

Holds(frame, r, j) == frame[r].job = j

\* runnerState of internal/k8s/snapshot.go, as far as the store tells states
\* apart: a runner with a job is busy, whatever became of its pod.
StateOf(seen) ==
  CASE seen.job # NoJob        -> "busy"
    [] seen.job = NoJob /\ seen.health = "failed" -> "failed"
    [] OTHER                   -> "other"

---------------------------------------------------------------------------
(* What a snapshot adds to the tables *)

\* The interval to integrate over.  A replay has none, nor has a first snapshot.
Dt == IF prevAt # 0 /\ clock - prevAt <= MaxGap THEN clock - prevAt ELSE 0

\* Bug: the job a runner leaves is billed the interval too.
BilledTo(r, j) == Holds(fleet, r, j) \/ Holds(prev, r, j)

\* The interval goes to the job the runner holds now, if the runner was seen
\* by the snapshot before.
Billed(r, j) == Holds(fleet, r, j)

Increment(r) == IF prev[r] = Gone THEN 0 ELSE Dt

\* Bug: the upsert opens the row again.
UpsertReopening(r, j) ==
  IF Billed(r, j)
    THEN [rows[r][j] EXCEPT !.status = "open", !.cost = @ + Increment(r)]
    ELSE rows[r][j]

\* The job upsert: it inserts an open row, or adds to the cost of the row that
\* is there and leaves its completion alone.
Upsert(r, j) ==
  IF Billed(r, j)
    THEN [rows[r][j] EXCEPT !.status = IF @ = "none" THEN "open" ELSE @,
                            !.cost = @ + Increment(r)]
    ELSE rows[r][j]

\* writeJobSamples: the reading is folded into the bucket of the job held now,
\* if its row is open.
Sampled(r, j) ==
  LET row == Upsert(r, j) IN
  IF Holds(fleet, r, j) /\ row.status = "open" /\ row.folds < MaxFolds
    THEN [row EXCEPT !.folds = @ + 1]
    ELSE row

\* The runner went away with a job: whatever row of its is open is finished.
Vanished(r) == prev[r].job # NoJob /\ fleet[r] = Gone

\* Bug: a runner finishes its job by going away and in no other way.
SwitchedNever(r, j) == FALSE

\* The runner moved off this job.
Switched(r, j) == Holds(prev, r, j) /\ fleet[r] # Gone /\ ~Holds(fleet, r, j)

\* The completion passes.
Finished(r, j) ==
  LET row == Sampled(r, j) IN
  IF (Vanished(r) \/ Switched(r, j)) /\ row.status = "open"
    THEN [row EXCEPT !.status = "closed", !.finished = clock,
                     !.ok = StateOf(prev[r]) # "failed"]
    ELSE row

\* The failure upsert, in which severity only goes up.
Failure(r) ==
  CASE fleet[r].health \notin {"ailing", "failed"} -> failures[r]
    [] StateOf(fleet[r]) = "failed"                -> "severe"
    [] OTHER -> IF failures[r] = "none" THEN "mild" ELSE failures[r]

---------------------------------------------------------------------------
(* Actions *)

\* The collector builds a snapshot.  The store may never see it, when a newer
\* one replaces it in the recorder.
Observe(frame) ==
  /\ clock < MaxAt
  /\ clock' = clock + 1
  /\ fleet' = frame
  /\ UNCHANGED <<prevAt, prev, tables, lost>>

\* RecordSnapshot, whose transaction commits.  It may be handed the snapshot it
\* recorded last: the collector serves it until something changes.
Record ==
  /\ clock # 0
  /\ rows' = [r \in Runners |-> [j \in Jobs |-> Finished(r, j)]]
  /\ created' = created \cup (Present(fleet) \ Present(prev))
  /\ terminated' = terminated \cup (Present(prev) \ Present(fleet))
  /\ failures' = [r \in Runners |-> Failure(r)]
  /\ lost' = lost \ {r \in Runners : Vanished(r)}
  /\ prev' = fleet
  /\ prevAt' = clock
  /\ UNCHANGED <<clock, fleet>>

\* Bug: the frame is remembered before the transaction commits.
FailAfterAll ==
  /\ clock # 0
  /\ prev' = fleet
  /\ prevAt' = clock
  /\ UNCHANGED <<clock, fleet, tables, lost>>

\* RecordSnapshot, whose transaction fails: it is rolled back, and the frame
\* the next snapshot is compared with stays the same.
Fail ==
  /\ clock # 0
  /\ UNCHANGED vars

\* The process ends, at any point of a transaction, and is started again.
Restart ==
  /\ prev' = Empty
  /\ prevAt' = 0
  /\ lost' = lost \cup Present(prev)
  /\ UNCHANGED <<clock, fleet, tables>>

---------------------------------------------------------------------------
Next == (\E frame \in Frames : Observe(frame)) \/ Record \/ Fail \/ Restart

Spec == Init /\ [][Next]_vars

---------------------------------------------------------------------------
(* Properties *)

\* A job is shown as running only while its runner holds it: no failed write,
\* skipped snapshot or flapping runner loses the one signal that finishes it
\* (record.go:211-213).  A restart may, for a runner that ends meanwhile.
OpenRowsAreHeld ==
  \A r \in Runners \ lost : \A j \in Jobs :
    rows[r][j].status = "open" => Holds(prev, r, j)

\* A runner that was watched and is gone has both its churn events, or "created
\* far above terminated" would mean nothing (schema/churnevent.go:10-14).
ChurnFollowsTheFleet ==
  /\ Present(prev) \subseteq created
  /\ created \ (Present(prev) \cup lost) \subseteq terminated

\* A finished job stays finished, at the time and with the outcome it finished
\* with (record.go:331-333, 427-431).
FinishedOnce ==
  [][\A r \in Runners, j \in Jobs :
       rows[r][j].status = "closed" =>
         /\ rows'[r][j].status = "closed"
         /\ rows'[r][j].finished = rows[r][j].finished
         /\ rows'[r][j].ok = rows[r][j].ok]_rows

\* An interval is billed once: at a handover to one of the two jobs, on a replay
\* to none, and never over a gap too long (record.go:50-53, 122-129).
IntervalBilledOnce ==
  [][\A r \in Runners, j \in Jobs :
       rows'[r][j].cost # rows[r][j].cost =>
         /\ prevAt # 0
         /\ prevAt' - prevAt <= MaxGap
         /\ rows'[r][j].cost = rows[r][j].cost + (prevAt' - prevAt)
         /\ \A k \in Jobs \ {j} : rows'[r][k].cost = rows[r][k].cost]_rows

\* A job its runner holds in two recorded snapshots is billed for all of the
\* time between them, also when writes in between failed.
TimeHeldIsBilled ==
  [][\A r \in Runners, j \in Jobs :
       Holds(prev, r, j) /\ Holds(prev', r, j) /\ prevAt' - prevAt <= MaxGap =>
         rows'[r][j].cost = rows[r][j].cost + (prevAt' - prevAt)]_<<prev, prevAt>>

\* A failure that did happen is not downgraded by a later, better look of the
\* pod (record.go:383-386).
FailuresOnlyWorsen ==
  [][\A r \in Runners :
       /\ failures[r] = "severe" => failures'[r] = "severe"
       /\ failures[r] = "mild" => failures'[r] # "none"]_failures

\* What record.go:227-230 says of outcomes, and store_test.go:811 sets up: a
\* job whose runner was seen failed before it vanished is recorded as failed.
FailedJobsAreRecorded ==
  [][\A r \in Runners, j \in Jobs :
       Vanished(r) /\ Holds(prev, r, j) /\ prev[r].health = "failed"
         /\ rows[r][j].status = "open" /\ rows'[r][j].status = "closed"
         => ~rows'[r][j].ok]_rows
=============================================================================
