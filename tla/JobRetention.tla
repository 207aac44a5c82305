---------------------------- MODULE JobRetention ----------------------------
(***************************************************************************)
(* internal/store/compact.go, the job tables: how job_observations and the *)
(* job_samples behind them expire, while RecordSnapshot goes on writing.   *)
(*                                                                         *)
(* applyRetention executes five statements on these tables, one after the  *)
(* other, all with cutoffs relative to the instant at which the run began. *)
(* Samples refer to their job by its row's id and nothing else, so a       *)
(* sample whose row is gone can neither be found nor expire with it.       *)
(***************************************************************************)
EXTENDS Naturals

CONSTANTS
  Jobs,
  Window,        \* Retention.Scope5m, which the job rows borrow; 0 is "keep"
  SampleWindow,  \* Retention.JobSamples; 0 is "keep"
  Bucket,        \* the width of a job sample
  MaxRuntime,    \* maxJobRuntime
  MaxAt          \* bound on the clock

ASSUME WindowAssumption == Window \in Nat /\ SampleWindow \in Nat
ASSUME BucketAssumption == Bucket \in Nat \ {0}
ASSUME MaxRuntimeAssumption == MaxRuntime \in Nat
ASSUME MaxAtAssumption == MaxAt \in Nat

VARIABLES
  clock,
  phase,    \* whether each job waits, is held by a runner, or is over
  began,    \* when the runner that holds it got it; 0 when none does
  rows,     \* its row
  samples,  \* the buckets it has samples in, each by the instant it begins
  watched,  \* jobs in the frame this process recorded last
  step,     \* the statement that comes next; 0 when no run is under way
  now,      \* the instant of the run; 0 when none is under way
  swept     \* history: the instant of the run that was completed last, until the
            \* next one begins

tables == <<rows, samples>>
vars   == <<clock, phase, began, tables, watched, step, now, swept>>

Instants == 0 .. MaxAt

Row   == [status : {"none", "open", "closed"}, started : Instants, finished : Instants]
NoRow == [status |-> "none", started |-> 0, finished |-> 0]

TypeOK ==
  /\ clock \in Instants
  /\ phase \in [Jobs -> {"waiting", "held", "over"}]
  /\ began \in [Jobs -> Instants]
  /\ rows \in [Jobs -> Row]
  /\ samples \in [Jobs -> SUBSET Instants]
  /\ watched \subseteq Jobs
  /\ step \in 0 .. 5
  /\ now \in Instants
  /\ swept \in Instants

Init ==
  /\ clock = 0
  /\ phase = [j \in Jobs |-> "waiting"]
  /\ began = [j \in Jobs |-> 0]
  /\ rows = [j \in Jobs |-> NoRow]
  /\ samples = [j \in Jobs |-> {}]
  /\ watched = {}
  /\ step = 0
  /\ now = 0
  /\ swept = 0

Held == {j \in Jobs : phase[j] = "held"}

---------------------------------------------------------------------------
(* Time and the fleet *)

\* GitHub ends a job that has run for MaxRuntime.
Tick ==
  /\ clock < MaxAt
  /\ \A j \in Held : clock < began[j] + MaxRuntime
  /\ clock' = clock + 1
  /\ UNCHANGED <<phase, began, tables, watched, step, now, swept>>

Start(j) ==
  /\ phase[j] = "waiting"
  /\ phase' = [phase EXCEPT ![j] = "held"]
  /\ began' = [began EXCEPT ![j] = clock]
  /\ UNCHANGED <<clock, tables, watched, step, now, swept>>

End(j) ==
  /\ phase[j] = "held"
  /\ phase' = [phase EXCEPT ![j] = "over"]
  /\ began' = [began EXCEPT ![j] = 0]
  /\ UNCHANGED <<clock, tables, watched, step, now, swept>>

---------------------------------------------------------------------------
(* RecordSnapshot *)

\* The row of a job after a snapshot: inserted when its runner is seen with it
\* and it has none, closed when the runner is not, and was before.  What it
\* started at is when the runner was first sighted with it.
RowAfter(j, seen, sighted) ==
  CASE j \in seen /\ rows[j].status = "none" ->
         [status |-> "open", started |-> sighted[j], finished |-> 0]
    [] j \in watched \ seen /\ rows[j].status = "open" ->
         [rows[j] EXCEPT !.status = "closed", !.finished = clock]
    [] OTHER -> rows[j]

\* Bug: a reading is kept with any row of its job, open or not.
MeasuredAnyway(j, seen, sighted) == j \in seen

\* A reading is kept with an open row only.
Measured(j, seen, sighted) == j \in seen /\ RowAfter(j, seen, sighted).status = "open"

\* floorTo, for the samples: the readings of one bucket are folded into one row.
BucketOf(at) == at - (at % Bucket)

\* A snapshot is recorded.  It shows the jobs some runner holds, but those whose
\* runner it misses.
Record(seen, sighted) ==
  /\ seen \subseteq Held
  /\ \A j \in seen : began[j] <= sighted[j] /\ sighted[j] <= clock
  /\ rows' = [j \in Jobs |-> RowAfter(j, seen, sighted)]
  /\ samples' = [j \in Jobs |-> IF Measured(j, seen, sighted) THEN samples[j] \cup {BucketOf(clock)}
                                ELSE samples[j]]
  /\ watched' = seen
  /\ UNCHANGED <<clock, phase, began, step, now, swept>>

---------------------------------------------------------------------------
(* applyRetention *)

\* An instant less a retention, which in the program is never before 1970.
Before(x, retention) == IF x >= retention THEN x - retention ELSE 0

\* Bug: a finished job ages from its start.
ExpiringFinishedByStart(j) ==
  rows[j].status = "closed" /\ rows[j].started < Before(now, Window)

ExpiringFinished(j) ==
  rows[j].status = "closed" /\ rows[j].finished < Before(now, Window)

\* Its completion was lost; it will not be closed any more.
ExpiringAbandoned(j) ==
  rows[j].status = "open" /\ rows[j].started < Before(now, Window + MaxRuntime)

Begin ==
  /\ step = 0
  /\ step' = 1
  /\ now' = clock
  /\ swept' = 0
  /\ UNCHANGED <<clock, phase, began, tables, watched>>

\* The samples of the jobs, and the rows of the jobs, that a statement deletes.
DropSamples(expiring) ==
  /\ samples' = [j \in Jobs |-> IF Window # 0 /\ j \in expiring THEN {} ELSE samples[j]]
  /\ UNCHANGED rows

DropRows(expiring) ==
  /\ rows' = [j \in Jobs |-> IF Window # 0 /\ j \in expiring THEN NoRow ELSE rows[j]]
  /\ UNCHANGED samples

Advance == step' = step + 1 /\ UNCHANGED <<clock, phase, began, watched, now, swept>>

\* Samples past their own window.
SweepSamples ==
  /\ step = 1
  /\ samples' = [j \in Jobs |-> IF SampleWindow = 0 THEN samples[j]
                                ELSE {s \in samples[j] : s >= Before(now, SampleWindow)}]
  /\ UNCHANGED rows
  /\ Advance

SweepSamplesOfFinished ==
  /\ step = 2
  /\ DropSamples({j \in Jobs : ExpiringFinished(j)})
  /\ Advance

SweepSamplesOfAbandoned ==
  /\ step = 3
  /\ DropSamples({j \in Jobs : ExpiringAbandoned(j)})
  /\ Advance

SweepFinished ==
  /\ step = 4
  /\ DropRows({j \in Jobs : ExpiringFinished(j)})
  /\ Advance

\* Bug: jobs without a completion are nobody's business.
SweepAbandonedNever ==
  /\ step = 5
  /\ UNCHANGED tables
  /\ step' = 0
  /\ swept' = now
  /\ now' = 0
  /\ UNCHANGED <<clock, phase, began, watched>>

SweepAbandoned ==
  /\ step = 5
  /\ DropRows({j \in Jobs : ExpiringAbandoned(j)})
  /\ step' = 0
  /\ swept' = now
  /\ now' = 0
  /\ UNCHANGED <<clock, phase, began, watched>>

\* A statement fails, and the run with it.
Fail ==
  /\ step # 0
  /\ step' = 0
  /\ now' = 0
  /\ UNCHANGED <<clock, phase, began, tables, watched, swept>>

\* The process ends and is started again.
Restart ==
  /\ step' = 0
  /\ now' = 0
  /\ watched' = {}
  /\ UNCHANGED <<clock, phase, began, tables, swept>>

---------------------------------------------------------------------------
Sweep ==
  \/ SweepSamples \/ SweepSamplesOfFinished \/ SweepSamplesOfAbandoned
  \/ SweepFinished \/ SweepAbandoned

Next ==
  \/ Tick
  \/ \E j \in Jobs : Start(j) \/ End(j)
  \/ \E seen \in SUBSET Jobs, sighted \in [Jobs -> Instants] : Record(seen, sighted)
  \/ Begin \/ Sweep \/ Fail \/ Restart

Spec == Init /\ [][Next]_vars

---------------------------------------------------------------------------
(* Properties *)

\* No sample outlives the row that gives it meaning, whatever is recorded
\* between the two sweeps and wherever a run breaks off (compact.go:222-224).
NoOrphans == \A j \in Jobs : rows[j].status = "none" => samples[j] = {}

\* A row that is swept is history: its job finished a whole window ago, or no
\* runner holds it any more (compact.go:129-136, 249-251).
OnlyHistoryIsSwept ==
  [][\A j \in Jobs :
       rows[j].status # "none" /\ rows'[j].status = "none" =>
         IF rows[j].status = "closed" THEN rows[j].finished + Window < clock
                                      ELSE j \notin Held]_rows

\* Nothing is immortal: after a run that was completed no row is left that it
\* should have expired, that of a job whose completion was lost in a restart
\* included, and no sample whose bucket was over by then (compact.go:263-265).
NothingIsImmortal ==
  \A j \in Jobs :
    /\ Window # 0 /\ rows[j].status = "closed" => rows[j].finished >= Before(swept, Window)
    /\ Window # 0 /\ rows[j].status = "open" =>
         rows[j].started >= Before(swept, Window + MaxRuntime)
    /\ SampleWindow # 0 => \A s \in samples[j] : s + Bucket > Before(swept, SampleWindow)
=============================================================================
