----------------------------- MODULE PagesProofs -----------------------------
(***************************************************************************)
(* Theorems about what pages show: the tables of jobs and the lists made   *)
(* of them, the lane of failures, the fleet, and the events of a runner's  *)
(* pod, for any jobs, windows, retentions, sets, runners, pods and events. *)
(*                                                                         *)
(* Of the tables: Ages relates rows to the jobs they are about and bounds  *)
(* how old a job can be that some runner still holds.  Progress says what  *)
(* each statement of a run leaves for the ones after it, though snapshots  *)
(* are recorded in between: whatever they add is too young for the run.    *)
(* The other parts have an invariant each, where they begin: Recalled and  *)
(* Charts, LaneInv, FleetInv, and RunnerInv.                               *)
(***************************************************************************)
EXTENDS Pages, FiniteSetTheorems, TLAPS

---------------------------------------------------------------------------
(* The tables of jobs *)

Ages ==
  /\ now <= clock
  /\ swept <= clock
  /\ \A j \in Jobs :
       /\ began[j] <= clock
       /\ phase[j] = "held" => clock <= began[j] + MaxRuntime
       /\ phase[j] = "waiting" => rows[j].status = "none"
       /\ rows[j].status # "none" => began[j] <= rows[j].started

Progress ==
  \A j \in Jobs :
    /\ step \in {3, 4} /\ Window # 0 /\ ExpiringFinished(j) => samples[j] = {}
    /\ step \in {4, 5} /\ Window # 0 /\ ExpiringAbandoned(j) => samples[j] = {}
    /\ step \in 2 .. 5 /\ SampleWindow # 0 =>
         \A s \in samples[j] : s + Bucket > Before(now, SampleWindow)
    /\ step = 5 /\ Window # 0 => ~ExpiringFinished(j)

\* The bucket of an instant is not over at that instant, and begins no later.
LEMMA BucketOfInstant ==
  ASSUME NEW at \in Instants
  PROVE  BucketOf(at) \in Instants /\ at < BucketOf(at) + Bucket
<1>1. at \in Nat /\ at <= MaxAt /\ at % Bucket \in 0 .. Bucket - 1 /\ at % Bucket <= at
  BY MaxAtAssumption, BucketAssumption DEF Instants
<1> QED
  BY <1>1, MaxAtAssumption, BucketAssumption DEF BucketOf, Instants

\* The row a snapshot leaves of a job.
LEMMA RowAfterSnapshot ==
  ASSUME TypeOK, NEW seen \in SUBSET Held, NEW sighted \in [Jobs -> Instants], NEW j \in Jobs
  PROVE  /\ RowAfter(j, seen, sighted) \in Row
         /\ \/ RowAfter(j, seen, sighted) = rows[j]
            \/ /\ j \in seen
               /\ rows[j].status = "none"
               /\ RowAfter(j, seen, sighted) = [status |-> "open", started |-> sighted[j], finished |-> 0]
            \/ /\ j \notin seen
               /\ rows[j].status = "open"
               /\ RowAfter(j, seen, sighted) = [status |-> "closed", started |-> rows[j].started,
                                       finished |-> clock]
<1>1. rows[j] \in Row /\ clock \in Instants /\ sighted[j] \in Instants /\ 0 \in Instants
  BY MaxAtAssumption DEF TypeOK, Instants
<1>2. CASE j \in seen /\ rows[j].status = "none"
  BY <1>1, <1>2 DEF RowAfter, Row
<1>3. CASE j \in watched \ seen /\ rows[j].status = "open"
  <2>1. RowAfter(j, seen, sighted) = [rows[j] EXCEPT !.status = "closed", !.finished = clock]
    BY <1>3 DEF RowAfter
  <2> QED
    BY <1>1, <1>3, <2>1 DEF Row
<1>4. CASE ~(j \in seen /\ rows[j].status = "none")
           /\ ~(j \in watched \ seen /\ rows[j].status = "open")
  BY <1>1, <1>4 DEF RowAfter
<1> QED
  BY <1>2, <1>3, <1>4

\* Every variable keeps its type.
THEOREM RetentionTypeCorrect == Spec => []TypeOK
<1>1. Init => TypeOK
  <2>1. 0 \in Instants /\ NoRow \in Row
    BY MaxAtAssumption DEF Instants, NoRow, Row
  <2> QED
    BY <2>1 DEF Init, TypeOK
<1>2. TypeOK /\ [Next]_vars => TypeOK'
  <2> SUFFICES ASSUME TypeOK, [Next]_vars
               PROVE  TypeOK'
    OBVIOUS
  <2> USE DEF TypeOK
  <2>0. NoRow \in Row /\ 0 \in Instants
    BY MaxAtAssumption DEF Instants, NoRow, Row
  <2>1. CASE Tick
    BY <2>1, MaxAtAssumption DEF Tick, Instants, tables
  <2>2. ASSUME NEW j \in Jobs, Start(j) \/ End(j)
        PROVE  TypeOK'
    BY <2>0, <2>2 DEF Start, End, tables
  <2>3. ASSUME NEW seen \in SUBSET Jobs, NEW sighted \in [Jobs -> Instants], Record(seen, sighted)
        PROVE  TypeOK'
    <3>1. \A j \in Jobs : RowAfter(j, seen, sighted) \in Row
      <4> SUFFICES ASSUME NEW j \in Jobs PROVE RowAfter(j, seen, sighted) \in Row
        OBVIOUS
      <4>1. rows[j] \in Row /\ 0 \in Instants
        BY MaxAtAssumption DEF Instants
      <4>2. [rows[j] EXCEPT !.status = "closed", !.finished = clock] \in Row
        BY <4>1 DEF Row
      <4>3. [status |-> "open", started |-> sighted[j], finished |-> 0] \in Row
        BY <4>1 DEF Row
      <4> QED
        BY <4>1, <4>2, <4>3 DEF RowAfter
    <3>2. rows' \in [Jobs -> Row]
      BY <2>3, <3>1 DEF Record
    <3>3. samples' \in [Jobs -> SUBSET Instants]
      BY <2>3, BucketOfInstant DEF Record
    <3> QED
      BY <2>3, <3>2, <3>3 DEF Record
  <2>4. CASE Begin
    BY <2>0, <2>4 DEF Begin, tables
  <2>5. CASE SweepSamples
    BY <2>5 DEF SweepSamples, Advance
  <2>6. CASE SweepSamplesOfFinished
    BY <2>6 DEF SweepSamplesOfFinished, DropSamples, Advance
  <2>7. CASE SweepSamplesOfAbandoned
    BY <2>7 DEF SweepSamplesOfAbandoned, DropSamples, Advance
  <2>8. CASE SweepFinished
    BY <2>0, <2>8 DEF SweepFinished, DropRows, Advance
  <2>9. CASE SweepAbandoned
    BY <2>0, <2>9 DEF SweepAbandoned, DropRows
  <2>10. CASE Fail
    BY <2>0, <2>10 DEF Fail, tables
  <2>11. CASE Restart
    BY <2>0, <2>11 DEF Restart, tables
  <2>12. CASE UNCHANGED vars
    BY <2>12 DEF vars, tables
  <2> QED
    BY <2>1, <2>2, <2>3, <2>4, <2>5, <2>6, <2>7, <2>8, <2>9, <2>10, <2>11, <2>12
       DEF Next, Sweep
<1> QED
  BY <1>1, <1>2, PTL DEF Spec

\* No runner holds a job for longer than MaxRuntime, and a row that is there has
\* the age of its job.
LEMMA AgesInvariant == Spec => []Ages
<1>1. Init => Ages
  BY DEF Init, Ages, NoRow
<1>2. TypeOK /\ TypeOK' /\ Ages /\ [Next]_vars => Ages'
  <2> SUFFICES ASSUME TypeOK, TypeOK', Ages, [Next]_vars
               PROVE  Ages'
    OBVIOUS
  <2>1. clock \in Nat /\ now \in Nat /\ swept \in Nat /\ \A j \in Jobs : began[j] \in Nat
    BY MaxAtAssumption DEF TypeOK, Instants
  <2>2. CASE Tick
    BY <2>1, <2>2, MaxRuntimeAssumption DEF Tick, Ages, Held, tables
  <2>3. ASSUME NEW j \in Jobs, Start(j)
        PROVE  Ages'
    <3> SUFFICES ASSUME NEW k \in Jobs
                 PROVE  /\ began'[k] <= clock'
                        /\ phase'[k] = "held" => clock' <= began'[k] + MaxRuntime
                        /\ phase'[k] = "waiting" => rows'[k].status = "none"
                        /\ rows'[k].status # "none" => began'[k] <= rows'[k].started
      BY <2>3 DEF Start, Ages
    <3>1. CASE k = j
      BY <2>1, <2>3, <3>1, MaxRuntimeAssumption DEF Start, Ages, TypeOK, tables
    <3>2. CASE k # j
      BY <2>3, <3>2 DEF Start, Ages, TypeOK, tables
    <3> QED
      BY <3>1, <3>2
  <2>4. ASSUME NEW j \in Jobs, End(j)
        PROVE  Ages'
    <3> SUFFICES ASSUME NEW k \in Jobs
                 PROVE  /\ began'[k] <= clock'
                        /\ phase'[k] = "held" => clock' <= began'[k] + MaxRuntime
                        /\ phase'[k] = "waiting" => rows'[k].status = "none"
                        /\ rows'[k].status # "none" => began'[k] <= rows'[k].started
      BY <2>4 DEF End, Ages
    <3>1. rows[k].started \in Nat /\ UNCHANGED <<clock, rows>>
      BY <2>4, MaxAtAssumption DEF End, tables, TypeOK, Row, Instants
    <3>2. CASE k = j
      BY <2>1, <2>4, <3>1, <3>2 DEF End, TypeOK
    <3>3. CASE k # j
      BY <2>4, <3>1, <3>3 DEF End, Ages, TypeOK
    <3> QED
      BY <3>2, <3>3
  <2>5. ASSUME NEW seen \in SUBSET Jobs, NEW sighted \in [Jobs -> Instants], Record(seen, sighted)
        PROVE  Ages'
    <3>1. seen \in SUBSET Held /\ \A j \in seen : phase[j] = "held"
      BY <2>5 DEF Record, Held
    <3> SUFFICES ASSUME NEW j \in Jobs
                 PROVE  /\ phase[j] = "waiting" => rows'[j].status = "none"
                        /\ rows'[j].status # "none" => began[j] <= rows'[j].started
      BY <2>5 DEF Record, Ages
    <3>2. rows'[j] = RowAfter(j, seen, sighted)
      BY <2>5 DEF Record
    <3>3. j \in seen => began[j] <= sighted[j]
      BY <2>5 DEF Record
    <3> QED
      BY <3>1, <3>2, <3>3, RowAfterSnapshot DEF Ages
  <2>6. CASE Begin
    BY <2>1, <2>6 DEF Begin, Ages, tables
  <2>7. CASE SweepSamples \/ SweepSamplesOfFinished \/ SweepSamplesOfAbandoned
    BY <2>7 DEF SweepSamples, SweepSamplesOfFinished, SweepSamplesOfAbandoned,
                DropSamples, Advance, Ages
  <2>8. CASE SweepFinished
    BY <2>8 DEF SweepFinished, DropRows, Advance, Ages, NoRow
  <2>9. CASE SweepAbandoned
    BY <2>1, <2>9 DEF SweepAbandoned, DropRows, Ages, NoRow
  <2>10. CASE Fail \/ Restart
    BY <2>1, <2>10 DEF Fail, Restart, Ages, tables
  <2>11. CASE UNCHANGED vars
    BY <2>11 DEF vars, tables, Ages
  <2> QED
    BY <2>2, <2>3, <2>4, <2>5, <2>6, <2>7, <2>8, <2>9, <2>10, <2>11 DEF Next, Sweep
<1> QED
  BY <1>1, <1>2, RetentionTypeCorrect, PTL DEF Spec

\* What a run of the sweeps has seen to stays done until the run is over.
LEMMA ProgressInvariant == Spec => [](Progress /\ NoOrphans)
<1>1. Init => Progress /\ NoOrphans
  BY DEF Init, Progress, NoOrphans, NoRow
<1>2. TypeOK /\ TypeOK' /\ Ages /\ Ages' /\ Progress /\ NoOrphans /\ [Next]_vars
        => Progress' /\ NoOrphans'
  <2> SUFFICES ASSUME TypeOK, TypeOK', Ages, Ages', Progress, NoOrphans, [Next]_vars
               PROVE  Progress' /\ NoOrphans'
    OBVIOUS
  <2>0. /\ clock \in Nat /\ now \in Nat
        /\ Before(now, Window) \in Nat /\ Before(now, Window) <= now
        /\ Before(now, Window + MaxRuntime) \in Nat
        /\ Before(now, Window + MaxRuntime) + MaxRuntime <= now
             \/ Before(now, Window + MaxRuntime) = 0
        /\ Before(now, SampleWindow) \in Nat /\ Before(now, SampleWindow) <= now
    BY MaxAtAssumption, WindowAssumption, MaxRuntimeAssumption DEF TypeOK, Instants, Before
  <2>1. CASE Tick
    BY <2>1 DEF Tick, tables, Progress, NoOrphans, ExpiringFinished, ExpiringAbandoned
  <2>2. ASSUME NEW j \in Jobs, Start(j) \/ End(j)
        PROVE  Progress' /\ NoOrphans'
    BY <2>2 DEF Start, End, tables, Progress, NoOrphans, ExpiringFinished, ExpiringAbandoned
  <2>3. ASSUME NEW seen \in SUBSET Jobs, NEW sighted \in [Jobs -> Instants], Record(seen, sighted)
        PROVE  Progress' /\ NoOrphans'
    <3>1. seen \in SUBSET Held /\ \A j \in seen : phase[j] = "held"
      BY <2>3 DEF Record, Held
    <3> SUFFICES ASSUME NEW j \in Jobs
                 PROVE  /\ step \in {3, 4} /\ Window # 0 /\ ExpiringFinished(j)' => samples'[j] = {}
                        /\ step \in {4, 5} /\ Window # 0 /\ ExpiringAbandoned(j)' => samples'[j] = {}
                        /\ step \in 2 .. 5 /\ SampleWindow # 0 =>
                             \A s \in samples'[j] : s + Bucket > Before(now, SampleWindow)
                        /\ step = 5 /\ Window # 0 => ~ExpiringFinished(j)'
                        /\ rows'[j].status = "none" => samples'[j] = {}
      BY <2>3 DEF Record, Progress, NoOrphans
    <3>2. /\ rows'[j] = RowAfter(j, seen, sighted)
          /\ samples'[j] = IF Measured(j, seen, sighted) THEN samples[j] \cup {BucketOf(clock)} ELSE samples[j]
          /\ now' = now
      BY <2>3 DEF Record
    <3>3. ExpiringFinished(j)' => rows[j] = rows'[j] /\ ExpiringFinished(j) /\ ~Measured(j, seen, sighted)
      BY <2>0, <3>1, <3>2, RowAfterSnapshot DEF ExpiringFinished, Measured, Ages
    <3>4. j \in seen => began[j] + MaxRuntime >= now /\ began[j] \in Nat /\ began[j] <= sighted[j]
      BY <2>0, <2>3, <3>1, MaxAtAssumption, MaxRuntimeAssumption DEF Ages, TypeOK, Instants, Record
    <3>5. ExpiringAbandoned(j)' => rows[j] = rows'[j] /\ ExpiringAbandoned(j) /\ ~Measured(j, seen, sighted)
      <4> SUFFICES ASSUME ExpiringAbandoned(j)'
                   PROVE  rows[j] = rows'[j] /\ ExpiringAbandoned(j) /\ ~Measured(j, seen, sighted)
        OBVIOUS
      <4>0. rows'[j].started \in Nat
        BY MaxAtAssumption DEF TypeOK, Instants, Row
      <4>1. /\ rows'[j].status = "open"
            /\ began[j] <= rows'[j].started
            /\ rows'[j].started < Before(now, Window + MaxRuntime)
        BY <2>3, <3>2 DEF ExpiringAbandoned, Ages, Record
      <4>2. j \notin seen
        BY <2>0, <3>4, <4>1, <4>0, MaxRuntimeAssumption
      <4> QED
        BY <3>1, <3>2, <4>1, <4>2, RowAfterSnapshot DEF ExpiringAbandoned, Measured
    <3>6. Measured(j, seen, sighted) => rows'[j].status = "open"
      BY <3>2 DEF Measured
    <3>8. BucketOf(clock) + Bucket > Before(now, SampleWindow)
      <4>1. BucketOf(clock) \in Nat /\ clock < BucketOf(clock) + Bucket /\ now <= clock
        BY BucketOfInstant, MaxAtAssumption DEF TypeOK, Instants, Ages
      <4> QED
        BY <2>0, <4>1, BucketAssumption
    <3>7. rows'[j].status = "none" => rows[j].status = "none" /\ ~Measured(j, seen, sighted)
      BY <3>1, <3>2, RowAfterSnapshot DEF Measured
    <3> QED
      BY <3>2, <3>3, <3>5, <3>6, <3>7, <3>8 DEF Progress, NoOrphans
  <2>4. CASE Begin
    BY <2>4 DEF Begin, tables, Progress, NoOrphans
  <2>5. CASE SweepSamples
    <3>1. \A j \in Jobs : samples[j] \subseteq Nat /\ samples'[j] \subseteq samples[j]
      BY <2>5, MaxAtAssumption DEF SweepSamples, TypeOK, Instants
    <3>2. ASSUME NEW j \in Jobs, SampleWindow # 0, NEW s \in samples'[j]
          PROVE  s + Bucket > Before(now, SampleWindow)
      BY <2>0, <2>5, <3>1, <3>2, BucketAssumption DEF SweepSamples, TypeOK
    <3> QED
      BY <2>5, <3>1, <3>2 DEF SweepSamples, Advance, Progress, NoOrphans
  <2>6. CASE SweepSamplesOfFinished
    BY <2>6 DEF SweepSamplesOfFinished, DropSamples, Advance, Progress, NoOrphans,
                ExpiringFinished, ExpiringAbandoned
  <2>7. CASE SweepSamplesOfAbandoned
    BY <2>7 DEF SweepSamplesOfAbandoned, DropSamples, Advance, Progress, NoOrphans,
                ExpiringFinished, ExpiringAbandoned
  <2>8. CASE SweepFinished
    BY <2>8 DEF SweepFinished, DropRows, Advance, Progress, NoOrphans, NoRow,
                ExpiringFinished, ExpiringAbandoned
  <2>9. CASE SweepAbandoned
    BY <2>9 DEF SweepAbandoned, DropRows, Progress, NoOrphans, NoRow, ExpiringAbandoned
  <2>10. CASE Fail \/ Restart
    BY <2>10 DEF Fail, Restart, tables, Progress, NoOrphans
  <2>11. CASE UNCHANGED vars
    BY <2>11 DEF vars, tables, Progress, NoOrphans, ExpiringFinished, ExpiringAbandoned
  <2> QED
    BY <2>1, <2>2, <2>3, <2>4, <2>5, <2>6, <2>7, <2>8, <2>9, <2>10, <2>11 DEF Next, Sweep
<1> QED
  BY <1>1, <1>2, RetentionTypeCorrect, AgesInvariant, PTL DEF Spec

\* No sample is left without the row of its job, however recording and sweeping
\* interleave and wherever a run breaks off.
THEOREM SamplesHaveJobs == Spec => []NoOrphans
BY ProgressInvariant, PTL

\* A sweep takes no row whose job is recent or still held by a runner.
THEOREM SweepsTakeHistoryOnly == Spec => OnlyHistoryIsSwept
<1>1. TypeOK /\ Ages /\ [Next]_vars =>
        [\A j \in Jobs :
           rows[j].status # "none" /\ rows'[j].status = "none" =>
             IF rows[j].status = "closed" THEN rows[j].finished + Window < clock
                                          ELSE j \notin Held]_rows
  <2> SUFFICES ASSUME TypeOK, Ages, [Next]_vars, rows' # rows, NEW j \in Jobs,
                      rows[j].status # "none", rows'[j].status = "none"
               PROVE  IF rows[j].status = "closed" THEN rows[j].finished + Window < clock
                                                   ELSE j \notin Held
    OBVIOUS
  <2>1. /\ rows[j] \in Row
        /\ clock \in Nat /\ now \in Nat /\ began[j] \in Nat
        /\ rows[j].finished \in Nat /\ began[j] <= rows[j].started /\ rows[j].started \in Nat
        /\ now <= clock /\ Window \in Nat /\ MaxRuntime \in Nat
    BY MaxAtAssumption, WindowAssumption, MaxRuntimeAssumption DEF TypeOK, Instants, Row, Ages
  <2>2. ASSUME NEW seen \in SUBSET Jobs, NEW sighted \in [Jobs -> Instants], Record(seen, sighted)
        PROVE  FALSE
    <3>1. seen \in SUBSET Held /\ rows'[j] = RowAfter(j, seen, sighted)
      BY <2>2 DEF Record
    <3> QED
      BY <3>1, RowAfterSnapshot
  <2>3. CASE SweepFinished
    <3>1. ExpiringFinished(j)
      BY <2>3 DEF SweepFinished, DropRows, TypeOK
    <3> QED
      BY <2>1, <3>1 DEF ExpiringFinished, Before
  <2>4. CASE SweepAbandoned
    <3>1. ExpiringAbandoned(j)
      BY <2>4 DEF SweepAbandoned, DropRows, TypeOK
    <3>2. rows[j].status = "open" /\ began[j] + MaxRuntime < clock
      BY <2>1, <3>1 DEF ExpiringAbandoned, Before
    <3> QED
      BY <2>1, <3>2 DEF Ages, Held
  <2> QED
    BY <2>2, <2>3, <2>4
       DEF Next, Sweep, Tick, Start, End, Begin, SweepSamples, SweepSamplesOfFinished,
           SweepSamplesOfAbandoned, DropSamples, Fail, Restart, tables, vars
<1> QED
  BY <1>1, RetentionTypeCorrect, AgesInvariant, PTL DEF Spec, OnlyHistoryIsSwept

\* After a run that was completed nothing is left that it should have expired.
THEOREM EverythingExpires == Spec => []NothingIsImmortal
<1>1. Init => NothingIsImmortal
  <2> SUFFICES ASSUME Init, NEW j \in Jobs
               PROVE  rows[j].status = "none" /\ samples[j] = {}
    BY DEF NothingIsImmortal
  <2> QED
    BY DEF Init, NoRow
<1>2. TypeOK /\ TypeOK' /\ Ages /\ Ages' /\ Progress /\ NothingIsImmortal /\ [Next]_vars
        => NothingIsImmortal'
  <2> SUFFICES ASSUME TypeOK, TypeOK', Ages, Ages', Progress, NothingIsImmortal, [Next]_vars
               PROVE  NothingIsImmortal'
    OBVIOUS
  <2>0. /\ clock \in Nat /\ swept \in Nat /\ swept <= clock
        /\ Before(swept, Window) \in Nat /\ Before(swept, Window) <= clock
        /\ Before(swept, Window + MaxRuntime) \in Nat
        /\ Before(swept, Window + MaxRuntime) + MaxRuntime <= clock
             \/ Before(swept, Window + MaxRuntime) = 0
        /\ Before(swept, SampleWindow) \in Nat /\ Before(swept, SampleWindow) <= clock
    BY MaxAtAssumption, WindowAssumption, MaxRuntimeAssumption
       DEF TypeOK, Instants, Before, Ages
  <2>1. ASSUME NEW seen \in SUBSET Jobs, NEW sighted \in [Jobs -> Instants], Record(seen, sighted)
        PROVE  NothingIsImmortal'
    <3>1. seen \in SUBSET Held /\ \A j \in seen : phase[j] = "held"
      BY <2>1 DEF Record, Held
    <3> SUFFICES ASSUME NEW j \in Jobs
                 PROVE  /\ Window # 0 /\ rows'[j].status = "closed" =>
                             rows'[j].finished >= Before(swept, Window)
                        /\ Window # 0 /\ rows'[j].status = "open" =>
                             rows'[j].started >= Before(swept, Window + MaxRuntime)
                        /\ SampleWindow # 0 =>
                             \A s \in samples'[j] : s + Bucket > Before(swept, SampleWindow)
      BY <2>1 DEF Record, NothingIsImmortal
    <3>2. /\ rows'[j] = RowAfter(j, seen, sighted)
          /\ samples'[j] = IF Measured(j, seen, sighted) THEN samples[j] \cup {BucketOf(clock)} ELSE samples[j]
      BY <2>1 DEF Record
    <3>3. j \in seen => /\ began[j] + MaxRuntime >= clock /\ began[j] \in Nat
                        /\ began[j] <= sighted[j] /\ sighted[j] \in Nat
      BY <2>1, <3>1, MaxAtAssumption DEF Ages, TypeOK, Instants, Record
    <3>4. j \in seen => sighted[j] >= Before(swept, Window + MaxRuntime)
      BY <2>0, <3>3, MaxRuntimeAssumption
    <3>5. BucketOf(clock) + Bucket > Before(swept, SampleWindow)
      <4>1. BucketOf(clock) \in Nat /\ clock < BucketOf(clock) + Bucket
        BY BucketOfInstant, MaxAtAssumption DEF TypeOK, Instants
      <4> QED
        BY <2>0, <4>1, BucketAssumption
    <3> QED
      BY <2>0, <3>1, <3>2, <3>4, <3>5, RowAfterSnapshot DEF NothingIsImmortal
  <2>2. CASE SweepSamples \/ SweepSamplesOfFinished \/ SweepSamplesOfAbandoned
    BY <2>2 DEF SweepSamples, SweepSamplesOfFinished, SweepSamplesOfAbandoned, DropSamples,
                Advance, NothingIsImmortal
  <2>3. CASE SweepFinished
    BY <2>3 DEF SweepFinished, DropRows, Advance, NothingIsImmortal, NoRow
  <2>4. CASE SweepAbandoned
    <3>1. \A j \in Jobs : /\ rows[j].finished \in Nat /\ rows[j].started \in Nat
                          /\ Before(now, Window) \in Nat
                          /\ Before(now, Window + MaxRuntime) \in Nat
      BY MaxAtAssumption, WindowAssumption, MaxRuntimeAssumption
         DEF TypeOK, Instants, Row, Before
    <3> QED
      BY <2>4, <3>1 DEF SweepAbandoned, DropRows, NothingIsImmortal, NoRow, Progress,
                        ExpiringFinished, ExpiringAbandoned
  <2>5. CASE Begin
    \* A new run promises nothing yet.
    <3>1. Before(0, Window) = 0 /\ Before(0, Window + MaxRuntime) = 0 /\ Before(0, SampleWindow) = 0
      BY WindowAssumption, MaxRuntimeAssumption DEF Before
    <3>2. \A j \in Jobs : /\ rows[j].finished \in Nat /\ rows[j].started \in Nat
                          /\ \A s \in samples[j] : s + Bucket > 0
      BY MaxAtAssumption, BucketAssumption DEF TypeOK, Instants, Row
    <3> QED
      BY <2>5, <3>1, <3>2 DEF Begin, tables, NothingIsImmortal
  <2> QED
    BY <2>1, <2>2, <2>3, <2>4, <2>5
       DEF Next, Sweep, Tick, Start, End, Fail, Restart, tables, vars, NothingIsImmortal
<1> QED
  BY <1>1, <1>2, RetentionTypeCorrect, AgesInvariant, ProgressInvariant, PTL DEF Spec

---------------------------------------------------------------------------
(* The lists of jobs *)

\* Snapshots of Lists say of a job that has a row that it began now.
Sightings(first) == [j \in Jobs |-> IF j \in DOMAIN first THEN first[j] ELSE clock]

\* A step of the tables that is no snapshot.
Otherwise == Tick \/ Begin \/ Sweep \/ Fail \/ Restart \/ \E j \in Jobs : Start(j) \/ End(j)

\* What a step of Lists is to the tables below.
LEMMA ListsStep ==
  ASSUME [ListsNext]_<<vars, lastReading>>, clock \in Instants
  PROVE  \/ \E seen \in SUBSET Jobs, sighted \in [Jobs -> Instants] : Observe(seen, sighted)
         \/ Otherwise /\ UNCHANGED lastReading
         \/ UNCHANGED <<vars, lastReading>>
<1>1. ASSUME NEW seen \in SUBSET Held,
             NEW first \in [{j \in seen : rows[j].status = "none"} -> Instants],
             Observe(seen, Sightings(first))
      PROVE  \E s \in SUBSET Jobs, sighted \in [Jobs -> Instants] : Observe(s, sighted)
  <2>1. seen \in SUBSET Jobs /\ Sightings(first) \in [Jobs -> Instants]
    BY DEF Held, Sightings
  <2> QED
    BY <1>1, <2>1
<1> QED
  BY <1>1 DEF ListsNext, Otherwise, Sightings

LEMMA ListsImplementRetention == ListsSpec => Spec
<1>1. ListsInit => Init /\ clock \in Instants
  BY MaxAtAssumption DEF ListsInit, Init, Instants
<1>2. clock \in Instants /\ [ListsNext]_<<vars, lastReading>> => [Next]_vars
  BY ListsStep DEF Observe, Otherwise, Next, vars
<1>3. clock \in Instants /\ [Next]_vars => (clock \in Instants)'
  BY MaxAtAssumption
     DEF Next, Tick, Start, End, Record, Begin, Sweep, SweepSamples, SweepSamplesOfFinished,
         SweepSamplesOfAbandoned, SweepFinished, SweepAbandoned, Advance, Fail, Restart, vars, Instants
<1> QED
  BY <1>1, <1>2, <1>3, PTL DEF ListsSpec, Spec

---------------------------------------------------------------------------
\* The row of a job that was measured holds the reading, from when the job was
\* sighted to its end; if it is gone, the reading is past the window.
Recalled(j) ==
  /\ lastReading[j] <= clock
  /\ rows[j].status # "none" =>
       rows[j].started <= lastReading[j] /\ lastReading[j] <= rows[j].started + MaxRuntime
  /\ rows[j].status = "closed" => lastReading[j] <= rows[j].finished
  /\ rows[j].status = "none" /\ lastReading[j] # 0 =>
       Window # 0 /\ lastReading[j] + Window < clock

History == lastReading \in [Jobs -> Nat] /\ \A j \in Jobs : Recalled(j)

\* A snapshot, whatever it shows, keeps the history.
LEMMA ObserveRemembers ==
  ASSUME TypeOK, Ages, History, NEW seen \in SUBSET Jobs, NEW sighted \in [Jobs -> Instants],
         Observe(seen, sighted)
  PROVE  History'
<1>1. /\ seen \in SUBSET Held /\ UNCHANGED <<clock, phase, began>>
      /\ clock \in Nat /\ lastReading' \in [Jobs -> Nat]
  BY MaxAtAssumption DEF Observe, Record, TypeOK, Instants, History
<1> SUFFICES ASSUME NEW j \in Jobs
             PROVE  Recalled(j)'
  BY <1>1 DEF History
<1>2. /\ rows'[j] = RowAfter(j, seen, sighted)
      /\ lastReading'[j] = IF Measured(j, seen, sighted) THEN clock ELSE lastReading[j]
      /\ j \in seen => began[j] <= sighted[j] /\ sighted[j] <= clock
  BY DEF Observe, Record
<1>3. /\ Recalled(j) /\ rows[j] \in Row /\ lastReading[j] \in Nat /\ began[j] \in Nat
      /\ rows[j].started \in Nat /\ rows[j].finished \in Nat /\ sighted[j] \in Nat
      /\ MaxRuntime \in Nat /\ Window \in Nat
  BY MaxAtAssumption, MaxRuntimeAssumption, WindowAssumption DEF History, TypeOK, Instants, Row
<1>4. j \in seen => clock <= began[j] + MaxRuntime
  BY <1>1 DEF Ages, Held
<1>5. CASE Measured(j, seen, sighted)
  <2>1. lastReading'[j] = clock /\ j \in seen /\ rows'[j].status = "open"
    BY <1>2, <1>5 DEF Measured
  <2>2. rows'[j].started \in Nat /\ rows'[j].started <= clock /\ began[j] <= rows'[j].started
    BY <1>1, <1>2, <1>3, <2>1, RowAfterSnapshot DEF Recalled, Ages
  <2> QED
    BY <1>1, <1>3, <1>4, <2>1, <2>2 DEF Recalled
<1>6. CASE ~Measured(j, seen, sighted)
  <2>1. lastReading'[j] = lastReading[j]
    BY <1>2, <1>6
  <2>2. CASE rows'[j] = rows[j]
    BY <1>1, <1>3, <2>1, <2>2 DEF Recalled
  <2>3. CASE rows'[j] # rows[j]
    <3>1. /\ rows[j].status = "open"
          /\ rows'[j] = [status |-> "closed", started |-> rows[j].started, finished |-> clock]
      BY <1>1, <1>2, <1>6, <2>3, RowAfterSnapshot DEF Measured
    <3> QED
      BY <1>1, <1>3, <2>1, <3>1 DEF Recalled
  <2> QED
    BY <2>2, <2>3
<1> QED
  BY <1>5, <1>6

\* So does everything else that happens to the tables.
LEMMA SweepsRemember ==
  ASSUME TypeOK, Ages, History, Otherwise, UNCHANGED lastReading
  PROVE  History'
<1>0. /\ clock \in Nat /\ now \in Nat /\ now <= clock
      /\ Window \in Nat /\ MaxRuntime \in Nat
  BY MaxAtAssumption, WindowAssumption, MaxRuntimeAssumption DEF TypeOK, Ages, Instants
<1> SUFFICES ASSUME NEW j \in Jobs
             PROVE  Recalled(j)'
  BY DEF History
<1>1. /\ Recalled(j) /\ lastReading[j] \in Nat /\ lastReading'[j] = lastReading[j]
      /\ began[j] \in Nat /\ rows[j].started \in Nat /\ rows[j].finished \in Nat
      /\ rows[j].status # "none" => began[j] <= rows[j].started
  BY MaxAtAssumption DEF History, TypeOK, Instants, Row, Ages
<1>2. CASE Tick
  BY <1>0, <1>1, <1>2 DEF Tick, tables, Recalled
<1>3. ASSUME NEW k \in Jobs, Start(k) \/ End(k)
      PROVE  Recalled(j)'
  BY <1>1, <1>3 DEF Start, End, tables, Recalled
<1>4. CASE Begin \/ SweepSamples \/ SweepSamplesOfFinished \/ SweepSamplesOfAbandoned
           \/ Fail \/ Restart
  BY <1>1, <1>4
     DEF Begin, SweepSamples, SweepSamplesOfFinished, SweepSamplesOfAbandoned, DropSamples,
         Advance, Fail, Restart, tables, Recalled
<1>5. CASE SweepFinished
  <2>1. UNCHANGED <<clock, began>>
    BY <1>5 DEF SweepFinished, Advance
  <2>2. \/ rows'[j] = rows[j]
        \/ Window # 0 /\ ExpiringFinished(j) /\ rows'[j] = NoRow
    BY <1>5 DEF SweepFinished, DropRows
  <2>3. ASSUME Window # 0, ExpiringFinished(j), rows'[j] = NoRow
        PROVE  Recalled(j)'
    <3>1. lastReading[j] + Window < clock
      BY <1>0, <1>1, <2>3 DEF ExpiringFinished, Before, Recalled
    <3> QED
      BY <1>0, <1>1, <2>1, <2>3, <3>1 DEF Recalled, NoRow
  <2> QED
    BY <1>1, <2>1, <2>2, <2>3 DEF Recalled
<1>6. CASE SweepAbandoned
  <2>1. UNCHANGED <<clock, began>>
    BY <1>6 DEF SweepAbandoned
  <2>2. \/ rows'[j] = rows[j]
        \/ Window # 0 /\ ExpiringAbandoned(j) /\ rows'[j] = NoRow
    BY <1>6 DEF SweepAbandoned, DropRows
  <2>3. ASSUME Window # 0, ExpiringAbandoned(j), rows'[j] = NoRow
        PROVE  Recalled(j)'
    <3>1. rows[j].started + Window + MaxRuntime < clock
      BY <1>0, <1>1, <2>3 DEF ExpiringAbandoned, Before
    <3>2. lastReading[j] + Window < clock
      BY <1>0, <1>1, <2>3, <3>1 DEF Recalled, ExpiringAbandoned
    <3> QED
      BY <1>0, <1>1, <2>1, <2>3, <3>2 DEF Recalled, NoRow
  <2> QED
    BY <1>1, <2>1, <2>2, <2>3 DEF Recalled
<1> QED
  BY <1>2, <1>3, <1>4, <1>5, <1>6 DEF Otherwise, Sweep

---------------------------------------------------------------------------
\* A job that was measured within a window is in the list of that window,
\* if the window is no longer than jobs are kept.
THEOREM MeasuredJobsAreListed == ListsSpec => []WhoeverRanIsListed
<1>1. ListsInit => History
  BY MaxRuntimeAssumption DEF ListsInit, Init, NoRow, History, Recalled
<1>2. TypeOK /\ Ages /\ History /\ [ListsNext]_<<vars, lastReading>> => History'
  <2> SUFFICES ASSUME TypeOK, Ages, History, [ListsNext]_<<vars, lastReading>>
               PROVE  History'
    OBVIOUS
  <2>1. CASE \E seen \in SUBSET Jobs, sighted \in [Jobs -> Instants] : Observe(seen, sighted)
    BY <2>1, ObserveRemembers
  <2>2. CASE Otherwise /\ UNCHANGED lastReading
    BY <2>2, SweepsRemember
  <2>3. CASE UNCHANGED <<vars, lastReading>>
    BY <2>3 DEF vars, tables, History, Recalled
  <2> QED
    BY <2>1, <2>2, <2>3, ListsStep DEF TypeOK
<1>3. TypeOK /\ Ages /\ History => WhoeverRanIsListed
  <2> SUFFICES ASSUME TypeOK, Ages, History, NEW w \in Asked, NEW j \in Jobs,
                      Window = 0 \/ w.back <= Window,
                      From(w) <= lastReading[j], 0 < lastReading[j], lastReading[j] < clock
               PROVE  j \in JobList(w, {"open", "closed"})
    BY DEF WhoeverRanIsListed
  <2>1. /\ w.back \in Nat /\ Window \in Nat /\ clock \in Nat /\ lastReading[j] \in Nat
        /\ rows[j] \in Row /\ rows[j].started \in Nat /\ rows[j].finished \in Nat
        /\ Recalled(j)
    BY AskedAssumption, WindowAssumption, MaxAtAssumption DEF TypeOK, History, Instants, Row
  <2>2. rows[j].status # "none"
    BY <2>1 DEF Recalled, From, Before
  <2>3. rows[j].started < clock
    BY <2>1, <2>2 DEF Recalled
  <2>4. rows[j].status = "open" \/ rows[j].finished >= From(w)
    BY <2>1, <2>2 DEF Recalled, Row, From, Before
  <2>5. rows[j].status \in {"open", "closed"}
    BY <2>1, <2>2 DEF Row
  <2> QED
    BY <2>2, <2>3, <2>4, <2>5 DEF JobList, Overlaps
<1> QED
  BY <1>1, <1>2, <1>3, ListsImplementRetention, RetentionTypeCorrect, AgesInvariant, PTL DEF ListsSpec

---------------------------------------------------------------------------
(* The pages are of those lists *)

\* What pages do to the tables of jobs is what the jobs' own specification says,
\* so what holds of these holds of the pages.
THEOREM PagesKeepTheTables == PagesSpec => ListsSpec
<1>1. PagesInit => ListsInit
  BY DEF PagesInit
<1>2. [PagesNext]_<<subject, listVars, fleetVars, runnerVars, laneVars>> => [ListsNext]_<<vars, lastReading>>
  BY DEF PagesNext, Alone, listVars
<1> QED
  BY <1>1, <1>2, PTL DEF PagesSpec, ListsSpec

---------------------------------------------------------------------------
(* Counting *)

\* A set of naturals has a least element.
LEMMA LeastNat ==
  ASSUME NEW T \in SUBSET Nat, T # {}
  PROVE  \E x \in T : \A y \in T : x <= y
<1> DEFINE Q == OpToRel(<, Nat)
<1>1. IsWellFoundedOn(Q, Nat)
  BY NatLessThanWellFounded
<1>2. \A x, y \in Nat : y < x => <<y, x>> \in Q
  BY DEF OpToRel
<1> HIDE DEF Q
<1>3. PICK x \in T : \A y \in T : ~ (<<y, x>> \in Q)
  BY <1>1, WFMin
<1>4. ASSUME NEW y \in T PROVE x <= y
  <2>1. x \in Nat /\ y \in Nat
    OBVIOUS
  <2>2. ~(y < x)
    BY <1>2, <1>3, <2>1
  <2> QED
    BY <2>1, <2>2
<1> QED
  BY <1>4

\* What a sum over a set is, when its terms are the sizes of disjoint sets: there
\* is one way to add them up, and it yields the size of their union.
Some(s) == CHOOSE x \in s : TRUE

SumOfSizes(it, S, A) ==
  it = [s \in SUBSET S |-> IF s = {} THEN 0 ELSE Cardinality(A[Some(s)]) + it[s \ {Some(s)}]]

LEMMA SumsOfSizes ==
  ASSUME NEW S, IsFiniteSet(S), NEW U, IsFiniteSet(U), NEW A \in [S -> SUBSET U],
         \A x, y \in S : x # y => A[x] \cap A[y] = {}
  PROVE  /\ \E it : SumOfSizes(it, S, A)
         /\ \A it : SumOfSizes(it, S, A) => it[S] = Cardinality(UNION {A[x] : x \in S})
<1> DEFINE all(s) == UNION {A[x] : x \in s}
           h == [s \in SUBSET S |-> Cardinality(all(s))]
<1>1. ASSUME NEW s \in SUBSET S, s # {}
      PROVE  h[s] = Cardinality(A[Some(s)]) + h[s \ {Some(s)}]
  <2> DEFINE c == Some(s)
             rest == s \ {c}
  <2>1. c \in s /\ rest \in SUBSET S
    BY <1>1 DEF Some
  <2>2. all(s) = A[c] \cup all(rest) /\ A[c] \cap all(rest) = {}
    BY <2>1
  <2>3. A[c] \in SUBSET U /\ all(rest) \in SUBSET U
    BY <2>1
  <2> HIDE DEF c, rest, all
  <2>4. IsFiniteSet(A[c]) /\ IsFiniteSet(all(rest))
    BY <2>3, FS_Subset
  <2>5. Cardinality(A[c] \cup all(rest)) = Cardinality(A[c]) + Cardinality(all(rest)) - Cardinality(A[c] \cap all(rest))
    BY <2>4, FS_Union
  <2>6. Cardinality(A[c] \cap all(rest)) = 0
    BY <2>2, FS_EmptySet
  <2>7. Cardinality(A[c]) \in Nat /\ Cardinality(all(rest)) \in Nat
    BY <2>4, FS_CardinalityType
  <2>8. Cardinality(all(s)) = Cardinality(A[c]) + Cardinality(all(rest))
    BY <2>2, <2>5, <2>6, <2>7
  <2> QED
    BY <2>1, <2>8 DEF c, rest
<1>2. h[{}] = 0
  <2>1. all({}) = {}
    OBVIOUS
  <2> HIDE DEF all
  <2> QED
    BY <2>1, FS_EmptySet
<1>3. SumOfSizes(h, S, A)
  <2>1. h = [s \in SUBSET S |-> h[s]]
    OBVIOUS
  <2>2. \A s \in SUBSET S : h[s] = IF s = {} THEN 0 ELSE Cardinality(A[Some(s)]) + h[s \ {Some(s)}]
    BY <1>1, <1>2
  <2> HIDE DEF h
  <2> QED
    BY <2>1, <2>2 DEF SumOfSizes
<1>4. ASSUME NEW it, SumOfSizes(it, S, A)
      PROVE  \A s \in SUBSET S : it[s] = h[s]
  <2>0. \A s \in SUBSET S : it[s] = IF s = {} THEN 0 ELSE Cardinality(A[Some(s)]) + it[s \ {Some(s)}]
    <3> DEFINE plus == [s \in SUBSET S |-> IF s = {} THEN 0 ELSE Cardinality(A[Some(s)]) + it[s \ {Some(s)}]]
    <3>1. it = plus
      BY <1>4 DEF SumOfSizes
    <3>2. \A s \in SUBSET S : plus[s] = IF s = {} THEN 0 ELSE Cardinality(A[Some(s)]) + it[s \ {Some(s)}]
      OBVIOUS
    <3> HIDE DEF plus
    <3> QED
      BY <3>1, <3>2
  <2> DEFINE Bad == {n \in Nat : \E s \in SUBSET S : Cardinality(s) = n /\ it[s] # h[s]}
  <2> HIDE DEF h
  <2>1. \A s \in SUBSET S : IsFiniteSet(s) /\ Cardinality(s) \in Nat
    BY FS_Subset, FS_CardinalityType
  <2> SUFFICES ASSUME NEW s0 \in SUBSET S, it[s0] # h[s0] PROVE FALSE
    OBVIOUS
  <2>2. Bad \in SUBSET Nat /\ Cardinality(s0) \in Bad
    BY <2>1
  <2>3. PICK n \in Bad : \A m \in Bad : n <= m
    <3> HIDE DEF Bad
    <3> QED
      BY <2>2, LeastNat
  <2>4. PICK s \in SUBSET S : Cardinality(s) = n /\ it[s] # h[s]
    OBVIOUS
  <2>5. s # {}
    BY <1>2, <2>0, <2>4
  <2> DEFINE rest == s \ {Some(s)}
  <2>6. rest \in SUBSET S /\ Cardinality(rest) = n - 1 /\ Some(s) \in s
    <3>1. Some(s) \in s
      BY <2>5 DEF Some
    <3> QED
      BY <2>1, <2>4, <3>1, FS_RemoveElement
  <2>7. it[rest] = h[rest]
    <3>1. n \in Nat /\ n - 1 \in Nat /\ ~(n <= n - 1)
      BY <2>1, <2>6
    <3>2. n - 1 \notin Bad
      <4> HIDE DEF Bad
      <4> QED
        BY <2>3, <3>1
    <3> HIDE DEF rest
    <3> QED
      BY <2>6, <3>1, <3>2
  <2> QED
    BY <1>1, <2>0, <2>4, <2>5, <2>7
<1> QED
  BY <1>3, <1>4

---------------------------------------------------------------------------
(* The failure lane *)

\* What the lane is made of: a runner that failed, and when.
Failures == [runner : FailingRunners, at : Nat]

OnePerRunner(some) == \A f, g \in some : f.runner = g.runner => f = g

RunnersOf(some) == {f.runner : f \in some}

LanePages ==
  [at : {"idle"}]
    \cup [at : {"looked"}, now : Nat, live : SUBSET Failures]
    \cup [at : {"counted"}, now : Nat, live : SUBSET Failures, counted : SUBSET Failures,
          late : SUBSET FailingRunners]
    \cup [at : {"done"}, live : SUBSET Failures, counted : SUBSET Failures,
          late : SUBSET FailingRunners, items : SUBSET Failures, total : Nat]

\* What was counted is what the store has in the window, but for rows that have
\* changed since.
StillCounted ==
  \A f \in Failures : f.runner \notin page.late => (f \in L!InWindow <=> f \in page.counted)

LaneInv ==
  /\ instant \in Nat
  /\ broken \in [FailingRunners -> Nat]
  /\ failures \in [FailingRunners -> Nat]
  /\ page \in LanePages
  /\ page.at \in {"looked", "counted"} => OnePerRunner(page.live)
  /\ page.at = "counted" => OnePerRunner(page.counted) /\ StillCounted
  /\ L!LaneCountsEachFailure

\* The lane counts as one counts here.
LEMMA LaneCounts ==
  ASSUME NEW S
  PROVE  L!Cardinality(S) = Cardinality(S) /\ L!Max(S) = Max(S) /\ L!Min(S) = Min(S)
BY DEF L!Cardinality, Cardinality, L!Max, Max, L!Min, Min

\* As many failures as runners that failed.
LEMMA CountedByRunner ==
  ASSUME NEW some \in SUBSET Failures
  PROVE  /\ IsFiniteSet(RunnersOf(some)) /\ Cardinality(RunnersOf(some)) \in Nat
         /\ OnePerRunner(some) => IsFiniteSet(some) /\ Cardinality(RunnersOf(some)) = Cardinality(some)
<1>1. RunnersOf(some) \in SUBSET FailingRunners
  BY DEF RunnersOf, Failures
<1>2. IsFiniteSet(RunnersOf(some))
  BY <1>1, LaneAssumption, FS_Subset DEF LaneAssumption
<1>3. Cardinality(RunnersOf(some)) \in Nat
  BY <1>2, FS_CardinalityType
<1>4. ASSUME OnePerRunner(some)
      PROVE  IsFiniteSet(some) /\ Cardinality(RunnersOf(some)) = Cardinality(some)
  <2> DEFINE g == [f \in some |-> f.runner]
             T == RunnersOf(some)
  <2>1. g \in [some -> T] /\ \A x, y \in some : g[x] = g[y] => x = y
    BY <1>4 DEF OnePerRunner, RunnersOf
  <2>2. g \in Injection(some, T)
    BY <2>1 DEF Injection, IsInjective
  <2>3. \A r \in T : \E f \in some : g[f] = r
    BY DEF RunnersOf
  <2>4. g \in Surjection(some, T)
    BY <2>1, <2>3 DEF Surjection
  <2> HIDE DEF g, T
  <2>5. IsFiniteSet(some) /\ (Cardinality(some) = Cardinality(T) <=> g \in Surjection(some, T))
    BY <1>2, <2>2, FS_Injection DEF T
  <2> QED
    BY <2>4, <2>5 DEF T
<1> QED
  BY <1>2, <1>3, <1>4

\* The larger and the smaller of two numbers.
LEMMA OfTwo ==
  ASSUME NEW a \in Nat, NEW b \in Nat
  PROVE  /\ Max({a, b}) = IF a >= b THEN a ELSE b
         /\ Min({a, b}) = IF a <= b THEN a ELSE b
<1>1. \E x \in {a, b} : \A y \in {a, b} : x >= y
  OBVIOUS
<1>2. \E x \in {a, b} : \A y \in {a, b} : x <= y
  OBVIOUS
<1> QED
  BY <1>1, <1>2 DEF Max, Min

\* The newest of a set are of it, and all of it when it fits.
LEMMA NewestOf ==
  ASSUME NEW some \in SUBSET Failures, OnePerRunner(some), NEW chosen \in L!Newest(some)
  PROVE  /\ chosen \in SUBSET some /\ OnePerRunner(chosen)
         /\ Cardinality(some) <= Shown => chosen = some
<1>1. chosen \in SUBSET some /\ Cardinality(chosen) = Min({Shown, Cardinality(some)})
  BY LaneCounts DEF L!Newest
<1>2. OnePerRunner(chosen)
  BY <1>1 DEF OnePerRunner
<1>3. IsFiniteSet(some) /\ Cardinality(some) \in Nat
  BY CountedByRunner, FS_CardinalityType
<1>4. Min({Shown, Cardinality(some)}) = IF Shown <= Cardinality(some) THEN Shown ELSE Cardinality(some)
  BY <1>3, LaneAssumption, OfTwo DEF LaneAssumption
<1>5. ASSUME Cardinality(some) <= Shown PROVE chosen = some
  <2>1. Cardinality(chosen) = Cardinality(some)
    BY <1>1, <1>3, <1>4, <1>5, LaneAssumption DEF LaneAssumption
  <2> QED
    BY <1>1, <1>3, <2>1, FS_Subset
<1> QED
  BY <1>1, <1>2, <1>5

\* The store has one row of a runner.
LEMMA WindowOfStore ==
  ASSUME failures \in [FailingRunners -> Nat]
  PROVE  L!InWindow \in SUBSET Failures /\ OnePerRunner(L!InWindow)
BY DEF L!InWindow, Failures, OnePerRunner

\* What the page shows after the two statements.
LEMMA ShownLane ==
  ASSUME LaneInv, L!Show
  PROVE  LaneInv'
<1>1. page.at = "counted"
  BY DEF L!Show
<1> DEFINE live == page.live
           counted == page.counted
           late == page.late
           inWindow == L!InWindow
<1>2. /\ live \in SUBSET Failures /\ counted \in SUBSET Failures /\ late \in SUBSET FailingRunners
      /\ OnePerRunner(live) /\ OnePerRunner(counted)
  BY <1>1 DEF LaneInv, LanePages
<1>3. \A f \in Failures : f.runner \notin late => (f \in inWindow <=> f \in counted)
  BY <1>1 DEF LaneInv, StillCounted
<1>4. inWindow \in SUBSET Failures /\ OnePerRunner(inWindow)
  BY WindowOfStore DEF LaneInv
<1>5. PICK stored \in L!Newest(inWindow) :
        LET fresh == {f \in live : ~\E g \in stored : L!Same(f, g)}
        IN  \E items \in L!Newest(stored \cup fresh) :
              page' = [at |-> "done", live |-> live, counted |-> counted,
                       late |-> late, items |-> items,
                       total |-> Max({Cardinality(items), Cardinality(counted) + Cardinality(fresh)})]
  BY LaneCounts DEF L!Show
<1> DEFINE fresh == {f \in live : ~\E g \in stored : f.runner = g.runner}
<1>6. PICK items \in L!Newest(stored \cup fresh) :
        page' = [at |-> "done", live |-> live, counted |-> counted,
                 late |-> late, items |-> items,
                 total |-> Max({Cardinality(items), Cardinality(counted) + Cardinality(fresh)})]
  BY <1>5 DEF L!Same
<1>7. instant' = instant /\ broken' = broken /\ failures' = failures
  BY DEF L!Show
<1> HIDE DEF inWindow, live, counted, late
<1>8. stored \in SUBSET Failures /\ stored \subseteq inWindow /\ OnePerRunner(stored)
      /\ (Cardinality(inWindow) <= Shown => stored = inWindow)
  BY <1>4, <1>5, NewestOf
<1>9. /\ fresh \in SUBSET Failures /\ OnePerRunner(fresh) /\ fresh \subseteq live
      /\ OnePerRunner(stored \cup fresh) /\ stored \cup fresh \in SUBSET Failures
  BY <1>2, <1>8 DEF OnePerRunner
<1>10. \A f \in live : f \in fresh \/ f.runner \in RunnersOf(stored)
  BY DEF RunnersOf
<1>11. \A f \in fresh : f.runner \notin RunnersOf(stored)
  BY DEF RunnersOf
<1> HIDE DEF fresh
<1>12. items \in SUBSET (stored \cup fresh) /\ OnePerRunner(items) /\ items \in SUBSET Failures
  BY <1>6, <1>9, NewestOf
<1> DEFINE nItems == Cardinality(items)
           nCounted == Cardinality(counted)
           nFresh == Cardinality(fresh)
           known == RunnersOf(counted) \cup RunnersOf(live)
           total == Max({nItems, nCounted + nFresh})
<1>13. /\ nItems \in Nat /\ nCounted \in Nat /\ nFresh \in Nat
       /\ nCounted = Cardinality(RunnersOf(counted)) /\ nFresh = Cardinality(RunnersOf(fresh))
       /\ IsFiniteSet(RunnersOf(counted)) /\ IsFiniteSet(RunnersOf(fresh)) /\ IsFiniteSet(RunnersOf(live))
  BY <1>2, <1>9, <1>12, CountedByRunner
<1>14. total = IF nItems >= nCounted + nFresh THEN nItems ELSE nCounted + nFresh
  <2> HIDE DEF nItems, nCounted, nFresh
  <2> QED
    BY <1>13, OfTwo DEF nItems, nCounted, nFresh
<1>15. total \in Nat /\ total >= nItems /\ total >= nCounted + nFresh
  BY <1>13, <1>14
<1>16. RunnersOf(fresh) \subseteq RunnersOf(live) /\ RunnersOf(live) \subseteq RunnersOf(fresh) \cup RunnersOf(stored)
  BY <1>9, <1>10 DEF RunnersOf
<1>17. RunnersOf(stored) \subseteq RunnersOf(counted) \cup late
  BY <1>3, <1>8 DEF RunnersOf
<1>18. IsFiniteSet(late) /\ Cardinality(late) \in Nat
  BY <1>2, LaneAssumption, FS_Subset, FS_CardinalityType DEF LaneAssumption
<1> DEFINE both == RunnersOf(counted) \cup RunnersOf(fresh)
<1>19. IsFiniteSet(both) /\ Cardinality(both) \in Nat
       /\ Cardinality(both) = nCounted + nFresh - Cardinality(RunnersOf(counted) \cap RunnersOf(fresh))
  <2>1. IsFiniteSet(both) /\ Cardinality(both) = Cardinality(RunnersOf(counted)) + Cardinality(RunnersOf(fresh))
                                                   - Cardinality(RunnersOf(counted) \cap RunnersOf(fresh))
    BY <1>13, FS_Union
  <2>2. Cardinality(both) \in Nat
    BY <2>1, FS_CardinalityType
  <2> QED
    BY <1>13, <2>1, <2>2
<1>20. Cardinality(RunnersOf(counted) \cap RunnersOf(fresh)) \in Nat
  BY <1>13, FS_Intersection, FS_CardinalityType
<1>21. IsFiniteSet(known) /\ Cardinality(known) \in Nat
  BY <1>13, FS_Union, FS_CardinalityType
<1>22. Cardinality(known) <= total + Cardinality(late)
  <2>1. known \in SUBSET (both \cup late)
    BY <1>16, <1>17
  <2> HIDE DEF both, known
  <2>2. IsFiniteSet(both \cup late) /\ Cardinality(both \cup late) = Cardinality(both) + Cardinality(late) - Cardinality(both \cap late)
    BY <1>18, <1>19, FS_Union
  <2>3. Cardinality(both \cap late) \in Nat /\ Cardinality(both \cup late) \in Nat
    BY <1>19, <2>2, FS_Intersection, FS_CardinalityType
  <2>4. Cardinality(known) <= Cardinality(both \cup late)
    BY <2>1, <2>2, FS_Subset
  <2> HIDE DEF total, nCounted, nFresh, nItems
  <2> QED
    BY <1>13, <1>15, <1>18, <1>19, <1>20, <1>21, <2>2, <2>3, <2>4
<1>23. ASSUME late = {}, nCounted <= Shown PROVE total = Cardinality(known)
  <2>1. inWindow = counted
    BY <1>2, <1>3, <1>4, <1>23
  <2>2. stored = counted
    BY <1>8, <1>23, <2>1
  <2>3. known = both /\ RunnersOf(counted) \cap RunnersOf(fresh) = {}
    <3>1. RunnersOf(counted) \cap RunnersOf(fresh) = {}
      BY <1>11, <2>2 DEF RunnersOf
    <3> QED
      BY <1>16, <2>2, <3>1
  <2>4. Cardinality(known) = nCounted + nFresh
    <3>1. Cardinality(RunnersOf(counted) \cap RunnersOf(fresh)) = 0
      BY <2>3, FS_EmptySet
    <3> HIDE DEF known, both, nCounted, nFresh
    <3> QED
      BY <1>13, <1>19, <2>3, <3>1
  <2>5. nItems <= nCounted + nFresh
    <3>1. IsFiniteSet(stored \cup fresh) /\ Cardinality(stored \cup fresh) = nCounted + nFresh - Cardinality(stored \cap fresh)
      BY <1>2, <1>9, <2>2, CountedByRunner, FS_Union
    <3>2. nItems <= Cardinality(stored \cup fresh) /\ Cardinality(stored \cap fresh) \in Nat
          /\ Cardinality(stored \cup fresh) \in Nat
      BY <1>2, <1>9, <1>12, <2>2, <3>1, CountedByRunner, FS_Subset, FS_Intersection, FS_CardinalityType
    <3> HIDE DEF nItems, nCounted, nFresh
    <3> QED
      BY <1>13, <3>1, <3>2
  <2> HIDE DEF total, known, nItems, nCounted, nFresh
  <2> QED
    BY <1>13, <1>14, <2>4, <2>5
<1>24. /\ page'.at = "done" /\ page'.live = live /\ page'.counted = counted /\ page'.late = late
       /\ page'.items = items /\ page'.total = total
  BY <1>6
<1>25. {f.runner : f \in page'.counted \cup page'.live} = known
  BY <1>24 DEF RunnersOf
<1>26. L!LaneCountsEachFailure'
  <2> HIDE DEF total, known, nItems, nCounted, nFresh
  <2> QED
    BY <1>12, <1>22, <1>23, <1>24, <1>25, LaneCounts DEF L!LaneCountsEachFailure, OnePerRunner, nCounted
<1>27. page' \in LanePages
  <2> HIDE DEF total
  <2> QED
    BY <1>2, <1>6, <1>12, <1>15 DEF LanePages, total
<1> QED
  BY <1>7, <1>24, <1>26, <1>27 DEF LaneInv

\* What is in the window of a page.
LEMMA InTheWindow ==
  ASSUME NEW f \in Failures
  PROVE  f \in L!InWindow <=>
           /\ f.at = failures[f.runner] /\ failures[f.runner] # 0
           /\ page.now <= failures[f.runner] + Back /\ failures[f.runner] < page.now
BY DEF L!InWindow, Failures

\* Rows that change between the two statements are those that are late.
LEMMA WrittenLane ==
  ASSUME LaneInv, NEW written \in [FailingRunners -> Nat], L!Write(written)
  PROVE  LaneInv'
<1>1. failures' = written /\ instant' = instant /\ broken' = broken
  BY DEF L!Write
<1>2. CASE page.at # "counted"
  <2>1. page' = page
    BY <1>2 DEF L!Write
  <2> QED
    BY <1>1, <1>2, <2>1 DEF LaneInv, L!LaneCountsEachFailure
<1>3. CASE page.at = "counted"
  <2>1. page' = [page EXCEPT !.late = @ \cup {r \in FailingRunners : written[r] # failures[r]}]
    BY <1>3 DEF L!Write
  <2>2. page \in [at : {"counted"}, now : Nat, live : SUBSET Failures, counted : SUBSET Failures,
                  late : SUBSET FailingRunners]
    BY <1>3 DEF LaneInv, LanePages
  <2>3. /\ page'.at = "counted" /\ page'.now = page.now /\ page'.live = page.live
        /\ page'.counted = page.counted
        /\ page'.late = page.late \cup {r \in FailingRunners : written[r] # failures[r]}
        /\ page' \in LanePages
    BY <2>1, <2>2 DEF LanePages
  <2>4. OnePerRunner(page'.live) /\ OnePerRunner(page'.counted)
    BY <1>3, <2>3 DEF LaneInv
  <2>5. ASSUME NEW f \in Failures, f.runner \notin page'.late
        PROVE  f \in L!InWindow' <=> f \in page'.counted
    <3>1. f.runner \in FailingRunners /\ f.runner \notin page.late /\ failures'[f.runner] = failures[f.runner]
      BY <1>1, <2>3, <2>5 DEF Failures
    <3>2. f \in L!InWindow' <=> f \in L!InWindow
      <4>1. f \in L!InWindow' <=>
              /\ f.at = failures'[f.runner] /\ failures'[f.runner] # 0
              /\ page'.now <= failures'[f.runner] + Back /\ failures'[f.runner] < page'.now
        BY DEF L!InWindow, Failures
      <4> QED
        BY <2>3, <3>1, <4>1, InTheWindow
    <3>3. f \in L!InWindow <=> f \in page.counted
      BY <1>3, <3>1 DEF LaneInv, StillCounted
    <3> QED
      BY <2>3, <3>2, <3>3
  <2>6. StillCounted'
    BY <2>5 DEF StillCounted
  <2>7. L!LaneCountsEachFailure'
    BY <2>3 DEF L!LaneCountsEachFailure
  <2> QED
    BY <1>1, <2>3, <2>4, <2>6, <2>7 DEF LaneInv
<1> QED
  BY <1>2, <1>3

\* A lane of what the snapshot has counts just that.
LEMMA LiveLane ==
  ASSUME LaneInv, L!Fail
  PROVE  LaneInv'
<1>1. /\ page.at \in {"looked", "counted"}
      /\ page' = [at |-> "done", live |-> page.live, counted |-> {}, late |-> {},
                  items |-> page.live, total |-> Cardinality(page.live)]
      /\ instant' = instant /\ broken' = broken /\ failures' = failures
  BY LaneCounts DEF L!Fail
<1>2. page.live \in SUBSET Failures /\ OnePerRunner(page.live)
  BY <1>1 DEF LaneInv, LanePages
<1> DEFINE live == page.live
           total == Cardinality(live)
<1>3. total \in Nat /\ total = Cardinality(RunnersOf(live))
  BY <1>2, CountedByRunner
<1>4. page' \in LanePages
  BY <1>1, <1>2, <1>3 DEF LanePages
<1>5. {f.runner : f \in {} \cup live} = RunnersOf(live)
  BY DEF RunnersOf
<1>6. L!LaneCountsEachFailure'
  <2>1. /\ page'.live = live /\ page'.counted = {} /\ page'.late = {}
        /\ page'.items = live /\ page'.total = total
    BY <1>1
  <2>2. {f.runner : f \in page'.counted \cup page'.live} = RunnersOf(live)
    BY <1>5, <2>1
  <2>3. Cardinality(page'.late) = 0
    BY <2>1, FS_EmptySet
  <2>4. OnePerRunner(page'.items)
    BY <1>2, <2>1
  <2> HIDE DEF total, live
  <2> QED
    BY <1>3, <2>1, <2>2, <2>3, <2>4, LaneCounts DEF L!LaneCountsEachFailure, OnePerRunner
<1> QED
  BY <1>1, <1>4, <1>6 DEF LaneInv

LEMMA LaneInvariant == PagesSpec => []LaneInv
<1>1. PagesInit => LaneInv
  BY DEF PagesInit, L!LaneInit, LaneInv, LanePages, L!LaneCountsEachFailure
<1>2. LaneInv /\ [PagesNext]_<<subject, listVars, fleetVars, runnerVars, laneVars>> => LaneInv'
  <2> SUFFICES ASSUME LaneInv, L!LaneNext \/ UNCHANGED laneVars
               PROVE  LaneInv'
    BY DEF PagesNext
  <2>1. ASSUME NEW r \in FailingRunners, L!Break(r) \/ L!Leave(r)
        PROVE  LaneInv'
    <3>1. broken' \in [FailingRunners -> Nat] /\ UNCHANGED <<instant, failures, page>>
      BY <2>1 DEF LaneInv, L!Break, L!Leave
    <3> QED
      BY <3>1 DEF LaneInv, StillCounted, L!InWindow, L!LaneCountsEachFailure
  <2>2. CASE L!Record
    <3> DEFINE written == [r \in FailingRunners |-> IF failures[r] = 0 THEN broken[r] ELSE failures[r]]
    <3>1. written \in [FailingRunners -> Nat] /\ L!Write(written)
      BY <2>2 DEF L!Record, LaneInv
    <3> HIDE DEF written
    <3> QED
      BY <3>1, WrittenLane
  <2>3. CASE L!Sweep
    <3> DEFINE written == [r \in FailingRunners |->
                             IF failures[r] + Remembered < instant THEN 0 ELSE failures[r]]
    <3>1. written \in [FailingRunners -> Nat] /\ L!Write(written)
      BY <2>3 DEF L!Sweep, LaneInv
    <3> HIDE DEF written
    <3> QED
      BY <3>1, WrittenLane
  <2>4. CASE L!Tick
    <3>1. instant' \in Nat /\ UNCHANGED <<broken, failures, page>>
      BY <2>4 DEF L!Tick, LaneInv
    <3> QED
      BY <3>1 DEF LaneInv, StillCounted, L!InWindow, L!LaneCountsEachFailure
  <2>5. CASE L!Look
    <3>1. L!Live \in SUBSET Failures /\ OnePerRunner(L!Live)
      BY DEF L!Live, LaneInv, Failures, OnePerRunner
    <3>2. PICK live \in L!Newest(L!Live) : page' = [at |-> "looked", now |-> instant, live |-> live]
      BY <2>5 DEF L!Look
    <3>3. live \in SUBSET Failures /\ OnePerRunner(live)
      BY <3>1, NewestOf
    <3>4. page'.at = "looked" /\ page'.live = live /\ page' \in LanePages
      BY <3>2, <3>3 DEF LanePages, LaneInv
    <3>5. L!LaneCountsEachFailure'
      BY <3>4 DEF L!LaneCountsEachFailure
    <3> QED
      BY <2>5, <3>3, <3>4, <3>5 DEF LaneInv, L!Look
  <2>6. CASE L!Count
    <3>1. L!InWindow \in SUBSET Failures /\ OnePerRunner(L!InWindow)
      BY WindowOfStore DEF LaneInv
    <3>2. /\ page.at = "looked"
          /\ page' = [at |-> "counted", now |-> page.now, live |-> page.live,
                      counted |-> L!InWindow, late |-> {}]
          /\ UNCHANGED <<instant, broken, failures>>
      BY <2>6 DEF L!Count
    <3>3. page.now \in Nat /\ page.live \in SUBSET Failures /\ OnePerRunner(page.live)
      BY <3>2 DEF LaneInv, LanePages
    <3> DEFINE counted == L!InWindow
    <3>4. /\ page'.at = "counted" /\ page'.now = page.now /\ page'.live = page.live
          /\ page'.counted = counted
      BY <3>2
    <3>5. page' \in LanePages
      <4> HIDE DEF counted
      <4> QED
        BY <3>1, <3>2, <3>3 DEF LanePages, counted
    <3>6. L!InWindow' = counted
      BY <3>2, <3>4 DEF L!InWindow
    <3>7. StillCounted'
      BY <3>4, <3>6 DEF StillCounted
    <3>8. L!LaneCountsEachFailure'
      BY <3>4 DEF L!LaneCountsEachFailure
    <3> QED
      BY <3>1, <3>2, <3>3, <3>4, <3>5, <3>7, <3>8 DEF LaneInv
  <2>7. CASE UNCHANGED laneVars
    BY <2>7 DEF laneVars, LaneInv, StillCounted, L!InWindow, L!LaneCountsEachFailure
  <2> QED
    BY <2>1, <2>2, <2>3, <2>4, <2>5, <2>6, <2>7, ShownLane, LiveLane DEF L!LaneNext
<1> QED
  BY <1>1, <1>2, PTL DEF PagesSpec

\* The failure lane has each failure once and leaves none out of its count, for
\* any number of failures, rows and ranges (page.go:1012-1023): what the second
\* statement finds is what the first one counted, but for what changed between
\* them.
THEOREM LaneIsComplete == PagesSpec => []LaneCountsEachFailure
<1>1. LaneInv => LaneCountsEachFailure
  BY DEF LaneInv, LaneCountsEachFailure
<1> QED
  BY <1>1, LaneInvariant, PTL

---------------------------------------------------------------------------
(* The fleet page *)

AllSets    == sets \cup seenSets
AllErsets  == ersets \cup seenErsets
AllRunners == runners \cup seenRunners

FleetTyped ==
  /\ created \in Nat
  /\ AllSets \subseteq [uid : 0 .. created, name : Names]
  /\ AllErsets \subseteq [id : Ersets \cap spent, uid : 0 .. created, name : Names, at : 0 .. MaxStamp]
  /\ AllRunners \subseteq [id : FleetRunners, owner : spent, label : {LabelOf[n] : n \in Names},
                           of : Names, state : F!States]

\* UIDs are not given twice, nor are the names of ephemeral sets.
FleetUnique ==
  /\ \A s, x \in AllSets : s.uid = x.uid => s = x
  /\ \A e, x \in AllErsets : e.id = x.id => e = x

\* Whatever descends from a set has its name, in the cluster and in view.
Descent ==
  \A e \in AllErsets :
    /\ \A s \in AllSets : s.uid = e.uid => s.name = e.name
    /\ \A r \in AllRunners : r.owner = e.id => r.of = e.name

\* There is one set of a name at a time.
NamedOnce ==
  /\ \A s, x \in sets : s.name = x.name => s = x
  /\ \A s, x \in seenSets : s.name = x.name => s = x

\* In the cluster, whatever is owned has its owner.
Owned ==
  /\ \A e \in ersets : \E s \in sets : s.uid = e.uid
  /\ \A r \in runners : \E e \in ersets : e.id = r.owner

FleetFinite ==
  /\ IsFiniteSet(sets) /\ IsFiniteSet(ersets) /\ IsFiniteSet(runners)
  /\ IsFiniteSet(seenSets) /\ IsFiniteSet(seenErsets) /\ IsFiniteSet(seenRunners)

FleetInv == FleetTyped /\ FleetUnique /\ Descent /\ NamedOnce /\ Owned /\ FleetFinite

\* What a delivery puts into view is there.
LEMMA Delivered ==
  ASSUME FleetInv,
         \/ \E name \in Names : F!DeliverSet(name)
         \/ \E e \in Ersets : F!DeliverErset(e)
         \/ \E r \in FleetRunners : F!DeliverRunner(r)
  PROVE  FleetInv'
<1>1. /\ UNCHANGED <<sets, ersets, runners, created, spent>>
      /\ seenSets' \subseteq AllSets /\ seenErsets' \subseteq AllErsets /\ seenRunners' \subseteq AllRunners
  BY DEF F!DeliverSet, F!DeliverErset, F!DeliverRunner, F!After, F!Named, F!Keyed, F!cluster,
         AllSets, AllErsets, AllRunners
<1>2. AllSets' \subseteq AllSets /\ AllErsets' \subseteq AllErsets /\ AllRunners' \subseteq AllRunners
  BY <1>1 DEF AllSets, AllErsets, AllRunners
<1>3. FleetTyped' /\ FleetUnique' /\ Descent'
  <2>1. FleetTyped'
    BY <1>1, <1>2 DEF FleetInv, FleetTyped
  <2>2. FleetUnique'
    BY <1>2 DEF FleetInv, FleetUnique
  <2>3. Descent'
    BY <1>2 DEF FleetInv, Descent
  <2> QED
    BY <2>1, <2>2, <2>3
<1>4. Owned'
  BY <1>1 DEF FleetInv, Owned
<1>5. NamedOnce'
  <2>1. CASE seenSets' = seenSets
    BY <1>1, <2>1 DEF FleetInv, NamedOnce
  <2>2. ASSUME NEW name \in Names, F!DeliverSet(name)
        PROVE  NamedOnce'
    <3>1. \A s : s \in seenSets' <=> (s \in seenSets /\ s.name # name) \/ (s \in sets /\ s.name = name)
      BY <2>2 DEF F!DeliverSet, F!After, F!Named
    <3> QED
      BY <1>1, <3>1 DEF FleetInv, NamedOnce
  <2> QED
    BY <2>1, <2>2 DEF F!DeliverErset, F!DeliverRunner
<1>6. FleetFinite'
  <2>1. IsFiniteSet(AllSets) /\ IsFiniteSet(AllErsets) /\ IsFiniteSet(AllRunners)
    BY FS_Union DEF FleetInv, FleetFinite, AllSets, AllErsets, AllRunners
  <2>2. IsFiniteSet(seenSets') /\ IsFiniteSet(seenErsets') /\ IsFiniteSet(seenRunners')
    BY <1>1, <2>1, FS_Subset
  <2> QED
    BY <1>1, <2>2 DEF FleetInv, FleetFinite
<1> QED
  BY <1>3, <1>4, <1>5, <1>6 DEF FleetInv

\* What the controller does keeps descent: an owner goes after what it owns, and a
\* set of an old name has a new UID.
LEMMA Controlled ==
  ASSUME FleetInv, UNCHANGED <<seenSets, seenErsets, seenRunners>>,
         \/ \E name \in Names : F!CreateSet(name)
         \/ \E s \in sets : F!DeleteSet(s) \/ \E e \in Ersets, at \in 0 .. MaxStamp : F!Rollout(s, e, at)
         \/ \E e \in ersets : F!DeleteErset(e) \/ \E r \in FleetRunners : F!StartRunner(e, r)
         \/ \E r \in runners : F!TakeJob(r) \/ F!Reap(r)
  PROVE  FleetInv'
<1> USE DEF AllSets, AllErsets, AllRunners
<1>1. ASSUME NEW name \in Names, F!CreateSet(name)
      PROVE  FleetInv'
  <2> DEFINE new == [uid |-> created + 1, name |-> name]
  <2>1. /\ created' = created + 1 /\ sets' = sets \cup {new}
        /\ UNCHANGED <<ersets, runners, spent>> /\ \A s \in sets : s.name # name
    BY <1>1 DEF F!CreateSet
  <2>2. new.uid = created + 1 /\ new.name = name
    OBVIOUS
  <2>3. created \in Nat /\ \A x \in AllSets \cup AllErsets : x.uid \in Nat /\ x.uid <= created
    BY DEF FleetInv, FleetTyped
  <2>4. \A x \in AllSets \cup AllErsets : x.uid # new.uid
    BY <2>2, <2>3
  <2>5. FleetTyped'
    BY <2>1 DEF FleetInv, FleetTyped
  <2> HIDE DEF new
  <2>6. FleetUnique'
    BY <2>1, <2>4 DEF FleetInv, FleetUnique
  <2>7. Descent'
    BY <2>1, <2>4 DEF FleetInv, Descent
  <2>8. NamedOnce' /\ Owned'
    BY <2>1, <2>2 DEF FleetInv, NamedOnce, Owned
  <2>9. FleetFinite'
    BY <2>1, FS_AddElement DEF FleetInv, FleetFinite
  <2> QED
    BY <2>5, <2>6, <2>7, <2>8, <2>9 DEF FleetInv
<1>2. ASSUME NEW s \in sets, F!DeleteSet(s)
      PROVE  FleetInv'
  <2>1. /\ sets' = sets \ {s} /\ UNCHANGED <<ersets, runners, created, spent>>
        /\ \A e \in ersets : e.uid # s.uid
    BY <1>2 DEF F!DeleteSet
  <2>2. FleetTyped' /\ FleetUnique'
    BY <2>1 DEF FleetInv, FleetTyped, FleetUnique
  <2>3. Descent' /\ NamedOnce' /\ Owned'
    BY <2>1 DEF FleetInv, Descent, NamedOnce, Owned
  <2>4. FleetFinite'
    BY <2>1, FS_RemoveElement DEF FleetInv, FleetFinite
  <2> QED
    BY <2>2, <2>3, <2>4 DEF FleetInv
<1>3. ASSUME NEW s \in sets, NEW e \in Ersets, NEW at \in 0 .. MaxStamp, F!Rollout(s, e, at)
      PROVE  FleetInv'
  <2> DEFINE new == [id |-> e, uid |-> s.uid, name |-> s.name, at |-> at]
  <2>1. /\ ersets' = ersets \cup {new} /\ spent' = spent \cup {e} /\ e \notin spent
        /\ UNCHANGED <<sets, runners, created>>
    BY <1>3 DEF F!Rollout
  <2>2. new.id = e /\ new.uid = s.uid /\ new.name = s.name
    OBVIOUS
  <2>3. s \in [uid : 0 .. created, name : Names]
    BY DEF FleetInv, FleetTyped
  <2>4. (\A x \in AllErsets : x.id # e) /\ (\A r \in AllRunners : r.owner # e)
    BY <2>1 DEF FleetInv, FleetTyped
  <2>5. FleetTyped'
    BY <2>1, <2>3 DEF FleetInv, FleetTyped
  <2> HIDE DEF new
  <2>6. FleetUnique'
    BY <2>1, <2>2, <2>4 DEF FleetInv, FleetUnique
  <2>7. Descent'
    BY <2>1, <2>2, <2>4 DEF FleetInv, FleetUnique, Descent
  <2>8. NamedOnce' /\ Owned'
    BY <2>1, <2>2 DEF FleetInv, NamedOnce, Owned
  <2>9. FleetFinite'
    BY <2>1, FS_AddElement DEF FleetInv, FleetFinite
  <2> QED
    BY <2>5, <2>6, <2>7, <2>8, <2>9 DEF FleetInv
<1>4. ASSUME NEW e \in ersets, F!DeleteErset(e)
      PROVE  FleetInv'
  <2>1. /\ ersets' = ersets \ {e} /\ UNCHANGED <<sets, runners, created, spent>>
        /\ \A r \in runners : r.owner # e.id
    BY <1>4 DEF F!DeleteErset
  <2>2. FleetTyped' /\ FleetUnique'
    BY <2>1 DEF FleetInv, FleetTyped, FleetUnique
  <2>3. Descent' /\ NamedOnce' /\ Owned'
    BY <2>1 DEF FleetInv, Descent, NamedOnce, Owned
  <2>4. FleetFinite'
    BY <2>1, FS_RemoveElement DEF FleetInv, FleetFinite
  <2> QED
    BY <2>2, <2>3, <2>4 DEF FleetInv
<1>5. ASSUME NEW e \in ersets, NEW r \in FleetRunners, F!StartRunner(e, r)
      PROVE  FleetInv'
  <2> DEFINE new == [id |-> r, owner |-> e.id, label |-> LabelOf[e.name], of |-> e.name, state |-> "idle"]
  <2>1. /\ runners' = runners \cup {new} /\ spent' = spent \cup {r}
        /\ UNCHANGED <<sets, ersets, created>>
    BY <1>5 DEF F!StartRunner
  <2>2. new.owner = e.id /\ new.of = e.name
    OBVIOUS
  <2>3. e.id \in spent /\ e.name \in Names /\ LabelOf[e.name] \in {LabelOf[n] : n \in Names}
    BY DEF FleetInv, FleetTyped
  <2>4. FleetTyped'
    BY <2>1, <2>3 DEF FleetInv, FleetTyped, F!States
  <2> HIDE DEF new
  <2>5. FleetUnique' /\ NamedOnce' /\ Owned'
    BY <2>1, <2>2 DEF FleetInv, FleetUnique, NamedOnce, Owned
  <2>6. Descent'
    BY <2>1, <2>2 DEF FleetInv, FleetUnique, Descent
  <2>7. FleetFinite'
    BY <2>1, FS_AddElement DEF FleetInv, FleetFinite
  <2> QED
    BY <2>4, <2>5, <2>6, <2>7 DEF FleetInv
<1>6. ASSUME NEW r \in runners, F!TakeJob(r)
      PROVE  FleetInv'
  <2> DEFINE new == [r EXCEPT !.state = "busy"]
  <2>1. runners' = (runners \ {r}) \cup {new} /\ UNCHANGED <<sets, ersets, created, spent>>
    BY <1>6 DEF F!TakeJob
  <2>2. /\ new.owner = r.owner /\ new.of = r.of
        /\ new \in [id : FleetRunners, owner : spent, label : {LabelOf[n] : n \in Names},
                    of : Names, state : F!States]
    BY DEF FleetInv, FleetTyped, F!States
  <2> HIDE DEF new
  <2>3. FleetTyped' /\ FleetUnique' /\ NamedOnce'
    BY <2>1, <2>2 DEF FleetInv, FleetTyped, FleetUnique, NamedOnce
  <2>4. Descent'
    BY <2>1, <2>2 DEF FleetInv, Descent
  <2>5. Owned'
    BY <2>1, <2>2 DEF FleetInv, Owned
  <2>6. FleetFinite'
    BY <2>1, FS_AddElement, FS_RemoveElement DEF FleetInv, FleetFinite
  <2> QED
    BY <2>3, <2>4, <2>5, <2>6 DEF FleetInv
<1>7. ASSUME NEW r \in runners, F!Reap(r)
      PROVE  FleetInv'
  <2>1. runners' = runners \ {r} /\ UNCHANGED <<sets, ersets, created, spent>>
    BY <1>7 DEF F!Reap
  <2>2. FleetTyped' /\ FleetUnique' /\ Descent' /\ NamedOnce' /\ Owned'
    BY <2>1 DEF FleetInv, FleetTyped, FleetUnique, Descent, NamedOnce, Owned
  <2>3. FleetFinite'
    BY <2>1, FS_RemoveElement DEF FleetInv, FleetFinite
  <2> QED
    BY <2>2, <2>3 DEF FleetInv
<1> QED
  BY <1>1, <1>2, <1>3, <1>4, <1>5, <1>6, <1>7

LEMMA FleetInvariant == PagesSpec => []FleetInv
<1>1. PagesInit => FleetInv
  BY FS_EmptySet
  DEF PagesInit, F!FleetInit, FleetInv, FleetTyped, FleetUnique, Descent, NamedOnce, Owned, FleetFinite,
      AllSets, AllErsets, AllRunners
<1>2. FleetInv /\ [PagesNext]_<<subject, listVars, fleetVars, runnerVars, laneVars>> => FleetInv'
  <2> SUFFICES ASSUME FleetInv, F!FleetNext \/ UNCHANGED fleetVars
               PROVE  FleetInv'
    BY DEF PagesNext
  <2>1. CASE UNCHANGED fleetVars
    BY <2>1
    DEF fleetVars, FleetInv, FleetTyped, FleetUnique, Descent, NamedOnce, Owned, FleetFinite,
        AllSets, AllErsets, AllRunners
  <2>2. CASE F!FleetNext
    <3>1. \/ \E name \in Names : F!DeliverSet(name)
          \/ \E e \in Ersets : F!DeliverErset(e)
          \/ \E r \in FleetRunners : F!DeliverRunner(r)
          \/ /\ UNCHANGED <<seenSets, seenErsets, seenRunners>>
             /\ \/ \E name \in Names : F!CreateSet(name)
                \/ \E s \in sets : F!DeleteSet(s) \/ \E e \in Ersets, at \in 0 .. MaxStamp : F!Rollout(s, e, at)
                \/ \E e \in ersets : F!DeleteErset(e) \/ \E r \in FleetRunners : F!StartRunner(e, r)
                \/ \E r \in runners : F!TakeJob(r) \/ F!Reap(r)
      BY <2>2
      DEF F!FleetNext, F!CreateSet, F!DeleteSet, F!Rollout, F!DeleteErset, F!StartRunner, F!TakeJob, F!Reap, F!views
    <3> QED
      BY <3>1, Delivered, Controlled
  <2> QED
    BY <2>1, <2>2
<1> QED
  BY <1>1, <1>2, PTL DEF PagesSpec

\* The fleet page counts as one counts here.
LEMMA FleetCounts ==
  ASSUME NEW S
  PROVE  F!Cardinality(S) = Cardinality(S)
BY DEF F!Cardinality, Cardinality

\* A runner has the name of its set, or its label while no set in view is its own.
LEMMA NameOfRunner ==
  ASSUME FleetInv, NEW r \in seenRunners
  PROVE  IF F!OwnersOf(r) = {} THEN F!SetNameFor(r) = r.label ELSE F!SetNameFor(r) = r.of
<1>1. ASSUME NEW s \in F!OwnersOf(r) PROVE s.name = r.of
  <2>1. PICK e \in seenErsets : e.id = r.owner /\ s \in F!OwnerOf(e)
    BY <1>1 DEF F!OwnersOf
  <2>2. s \in seenSets /\ (s.uid = e.uid \/ s.name = e.name)
    BY <2>1 DEF F!OwnerOf
  <2>3. r.of = e.name /\ s.name = e.name
    BY <2>1, <2>2 DEF FleetInv, Descent, AllSets, AllErsets, AllRunners
  <2> QED
    BY <2>3
<1>2. CASE F!OwnersOf(r) = {}
  BY <1>2 DEF F!SetNameFor
<1>3. CASE F!OwnersOf(r) # {}
  <2> DEFINE s == CHOOSE x \in F!OwnersOf(r) : TRUE
  <2>1. F!SetNameFor(r) = s.name
    BY <1>3 DEF F!SetNameFor
  <2>2. s \in F!OwnersOf(r)
    BY <1>3
  <2> QED
    BY <1>1, <1>3, <2>1, <2>2
<1> QED
  BY <1>2, <1>3

\* A finite set of naturals has a greatest element.
LEMMA GreatestNat ==
  ASSUME NEW T \in SUBSET Nat, IsFiniteSet(T), T # {}
  PROVE  \E x \in T : \A y \in T : y <= x
<1> DEFINE Top(S) == \E x \in S : \A y \in S : y <= x
           Bad == {n \in Nat : \E S \in SUBSET T : S # {} /\ Cardinality(S) = n /\ ~Top(S)}
<1>1. \A S \in SUBSET T : IsFiniteSet(S) /\ Cardinality(S) \in Nat
  BY FS_Subset, FS_CardinalityType
<1> SUFFICES ASSUME ~Top(T) PROVE FALSE
  OBVIOUS
<1>2. Bad \in SUBSET Nat /\ Cardinality(T) \in Bad
  BY <1>1
<1>3. PICK n \in Bad : \A m \in Bad : n <= m
  <2> HIDE DEF Bad
  <2> QED
    BY <1>2, LeastNat
<1>4. PICK S \in SUBSET T : S # {} /\ Cardinality(S) = n /\ ~Top(S)
  OBVIOUS
<1>5. PICK c \in S : TRUE
  BY <1>4
<1> DEFINE rest == S \ {c}
<1>6. rest \in SUBSET T /\ Cardinality(rest) = n - 1 /\ n \in Nat /\ n - 1 \in Nat
  <2>1. rest \in SUBSET T /\ n \in Nat
    OBVIOUS
  <2>2. Cardinality(rest) = n - 1
    BY <1>1, <1>4, <1>5, FS_RemoveElement
  <2> QED
    BY <1>1, <2>1, <2>2
<1>7. Top(rest) \/ rest = {}
  <2>1. n - 1 \notin Bad
    <3>1. ~(n <= n - 1)
      BY <1>6
    <3> HIDE DEF Bad
    <3> QED
      BY <1>3, <3>1
  <2> HIDE DEF rest, Top
  <2> QED
    BY <1>6, <2>1
<1>8. Top(S)
  <2>1. CASE rest = {}
    <3>1. S = {c} /\ c \in Nat
      BY <1>5, <2>1
    <3> QED
      BY <3>1
  <2>2. CASE Top(rest)
    <3>1. PICK x \in rest : \A y \in rest : y <= x
      BY <2>2
    <3>2. CASE c <= x
      BY <3>1, <3>2
    <3>3. CASE ~(c <= x)
      <4>1. \A y \in S : y <= c
        BY <1>5, <3>1, <3>3
      <4> QED
        BY <1>5, <4>1
    <3> QED
      BY <3>2, <3>3
  <2> QED
    BY <1>7, <2>1, <2>2
<1> QED
  BY <1>4, <1>8

\* Of some ephemeral sets one is the newest: names tell apart those of one stamp.
LEMMA NewestErset ==
  ASSUME FleetInv, NEW some \in SUBSET AllErsets, some # {}
  PROVE  \E e \in some : \A other \in some \ {e} : F!NewerThan(e, other)
<1>1. IsFiniteSet(some)
  BY FS_Union, FS_Subset DEF FleetInv, FleetFinite, AllErsets
<1>2. \A e \in some : e.at \in Nat /\ e.id \in Nat
  <2> SUFFICES ASSUME NEW e \in some PROVE e.at \in Nat /\ e.id \in Nat
    OBVIOUS
  <2>1. e \in [id : Ersets \cap spent, uid : 0 .. created, name : Names, at : 0 .. MaxStamp]
    BY DEF FleetInv, FleetTyped
  <2>2. e.id \in Ersets /\ e.at \in 0 .. MaxStamp
    BY <2>1
  <2>3. e.at \in Nat
    BY <2>2, FleetAssumption
  <2>4. e.id \in Nat
    BY <2>2, FleetAssumption
  <2> QED
    BY <2>3, <2>4
<1> DEFINE stamps == {e.at : e \in some}
<1>3. IsFiniteSet(stamps) /\ stamps \in SUBSET Nat /\ stamps # {}
  <2>1. [e \in some |-> e.at] \in Surjection(some, stamps)
    BY DEF Surjection
  <2>2. IsFiniteSet(stamps)
    <3> HIDE DEF stamps
    <3> QED
      BY <1>1, <2>1, FS_Surjection
  <2> QED
    BY <1>2, <2>2
<1>4. PICK at \in stamps : \A y \in stamps : y <= at
  <2> HIDE DEF stamps
  <2> QED
    BY <1>3, GreatestNat
<1> DEFINE last == {e \in some : e.at = at}
           names == {e.id : e \in last}
<1>5. IsFiniteSet(last) /\ last # {}
  BY <1>1, <1>4, FS_Subset
<1>6. IsFiniteSet(names) /\ names \in SUBSET Nat /\ names # {}
  <2>1. [e \in last |-> e.id] \in Surjection(last, names)
    BY DEF Surjection
  <2>2. IsFiniteSet(names)
    <3> HIDE DEF names, last
    <3> QED
      BY <1>5, <2>1, FS_Surjection
  <2> QED
    BY <1>2, <1>5, <2>2
<1>7. PICK id \in names : \A y \in names : y <= id
  <2> HIDE DEF names
  <2> QED
    BY <1>6, GreatestNat
<1>8. PICK e \in last : e.id = id
  OBVIOUS
<1>9. ASSUME NEW other \in some \ {e} PROVE F!NewerThan(e, other)
  <2>1. other.id # e.id
    BY <1>8, <1>9 DEF FleetInv, FleetUnique
  <2>2. other.at <= e.at /\ (other.at = e.at => other.id <= e.id)
    BY <1>4, <1>7, <1>8
  <2> QED
    BY <1>2, <1>8, <2>1, <2>2 DEF F!NewerThan
<1> QED
  BY <1>8, <1>9

\* A page's rows and tiles are of the same runners: each runner of a row is of that
\* row alone, so that sizes of rows add up to that of what they make together.
LEMMA TotalsOfRows ==
  ASSUME FleetInv
  PROVE  F!RowsAreTheTotals
<1> SUFFICES ASSUME NEW f \in F!Filters
             PROVE  LET rows_ == F!GroupBySet(f)
                        all == F!Totals(f)
                        Sum(Of(_)) == F!MapThenSumSet(Of, DOMAIN rows_)
                    IN  /\ Sum(LAMBDA s : rows_[s].requested) = all.requested
                        /\ Sum(LAMBDA s : rows_[s].capacity) = all.capacity
                        /\ Sum(LAMBDA s : rows_[s].runners) = all.requested
                        /\ \A state \in F!States :
                             Sum(LAMBDA s : rows_[s].inState[state]) <= all.inState[state]
  BY DEF F!RowsAreTheTotals
<1> DEFINE D == {s \in seenSets : F!MatchesSet(f, s)}
           chosen == F!Selected(f)
           Of(s) == {r \in chosen : F!SetNameFor(r) = s.name}
           table == F!GroupBySet(f)
           total == F!Totals(f)
<1>1. /\ IsFiniteSet(D) /\ IsFiniteSet(chosen) /\ chosen \subseteq seenRunners
      /\ \A s, x \in D : s.name = x.name => s = x
  <2>1. D \subseteq seenSets /\ chosen \subseteq seenRunners
    BY DEF F!Selected
  <2> QED
    BY <2>1, FS_Subset DEF FleetInv, FleetFinite, NamedOnce
<1>2. /\ table = [s \in D |-> F!Aggregate(Of(s), {s})]
      /\ total = F!Aggregate(chosen, D)
  BY DEF F!GroupBySet, F!Totals
<1>3. DOMAIN table = D
  BY <1>2
<1>4. ASSUME NEW s \in D
      PROVE  /\ table[s].runners = Cardinality(Of(s))
             /\ table[s].requested = Cardinality(Of(s))
             /\ table[s].capacity = Cardinality({s})
             /\ \A state \in F!States :
                  table[s].inState[state] = Cardinality({r \in Of(s) : r.state = state})
  <2>1. table[s] = F!Aggregate(Of(s), {s})
    BY <1>2
  <2>2. {r \in Of(s) : \E x \in {s} : x.name = F!SetNameFor(r)} = Of(s)
    OBVIOUS
  <2> HIDE DEF table, Of
  <2> QED
    BY <2>1, <2>2, FleetCounts DEF F!Aggregate
<1>5. /\ total.requested = Cardinality(UNION {Of(s) : s \in D})
      /\ total.capacity = Cardinality(D)
      /\ \A state \in F!States :
           total.inState[state] = Cardinality({r \in chosen : r.state = state})
  <2>1. {r \in chosen : \E s \in D : s.name = F!SetNameFor(r)} = UNION {Of(s) : s \in D}
    OBVIOUS
  <2> HIDE DEF total, chosen, D, Of
  <2> QED
    BY <1>2, <2>1, FleetCounts DEF F!Aggregate
<1> DEFINE members == [s \in D |-> Of(s)]
<1>6. /\ members \in [D -> SUBSET chosen]
      /\ \A s, x \in D : s # x => members[s] \cap members[x] = {}
      /\ UNION {members[s] : s \in D} = UNION {Of(s) : s \in D}
  BY <1>1
<1> HIDE DEF table, total, chosen, Of, D
<1>7. F!MapThenSumSet(LAMBDA s : table[s].requested, D) = Cardinality(UNION {Of(s) : s \in D})
  <2> DEFINE Rec(it) ==
        it = [s \in SUBSET D |->
                IF s = {} THEN 0
                ELSE table[CHOOSE x \in s : TRUE].requested + it[s \ {CHOOSE x \in s : TRUE}]]
  <2>1. F!MapThenSumSet(LAMBDA s : table[s].requested, D) = (CHOOSE it : Rec(it))[D]
    BY DEF F!MapThenSumSet, F!MapThenFoldSet
  <2>2. ASSUME NEW it PROVE Rec(it) <=> SumOfSizes(it, D, members)
    <3>1. \A s \in SUBSET D : s # {} => (CHOOSE x \in s : TRUE) \in D
      OBVIOUS
    <3>2. \A x \in D : table[x].requested = Cardinality(members[x])
      BY <1>4
    <3> HIDE DEF members
    <3> QED
      BY <3>1, <3>2 DEF SumOfSizes, Some
  <2> HIDE DEF members
  <2> HIDE DEF Rec
  <2>3. /\ \E it : SumOfSizes(it, D, members)
        /\ \A it : SumOfSizes(it, D, members) => it[D] = Cardinality(UNION {members[s] : s \in D})
    BY <1>1, <1>6, SumsOfSizes
  <2>4. Rec(CHOOSE it : Rec(it))
    BY <2>2, <2>3
  <2> QED
    BY <2>1, <2>2, <2>3, <2>4, <1>6
<1>8. F!MapThenSumSet(LAMBDA s : table[s].runners, D) = Cardinality(UNION {Of(s) : s \in D})
  <2> DEFINE Rec(it) ==
        it = [s \in SUBSET D |->
                IF s = {} THEN 0
                ELSE table[CHOOSE x \in s : TRUE].runners + it[s \ {CHOOSE x \in s : TRUE}]]
  <2>1. F!MapThenSumSet(LAMBDA s : table[s].runners, D) = (CHOOSE it : Rec(it))[D]
    BY DEF F!MapThenSumSet, F!MapThenFoldSet
  <2>2. ASSUME NEW it PROVE Rec(it) <=> SumOfSizes(it, D, members)
    <3>1. \A s \in SUBSET D : s # {} => (CHOOSE x \in s : TRUE) \in D
      OBVIOUS
    <3>2. \A x \in D : table[x].runners = Cardinality(members[x])
      BY <1>4
    <3> HIDE DEF members
    <3> QED
      BY <3>1, <3>2 DEF SumOfSizes, Some
  <2> HIDE DEF members
  <2> HIDE DEF Rec
  <2>3. /\ \E it : SumOfSizes(it, D, members)
        /\ \A it : SumOfSizes(it, D, members) => it[D] = Cardinality(UNION {members[s] : s \in D})
    BY <1>1, <1>6, SumsOfSizes
  <2>4. Rec(CHOOSE it : Rec(it))
    BY <2>2, <2>3
  <2> QED
    BY <2>1, <2>2, <2>3, <2>4, <1>6
<1>9. F!MapThenSumSet(LAMBDA s : table[s].capacity, D) = Cardinality(D)
  <2> DEFINE single == [s \in D |-> {s}]
  <2>0. /\ single \in [D -> SUBSET D] /\ \A s, x \in D : s # x => single[s] \cap single[x] = {}
        /\ UNION {single[s] : s \in D} = D
    OBVIOUS
  <2> DEFINE Rec(it) ==
        it = [s \in SUBSET D |->
                IF s = {} THEN 0
                ELSE table[CHOOSE x \in s : TRUE].capacity + it[s \ {CHOOSE x \in s : TRUE}]]
  <2>1. F!MapThenSumSet(LAMBDA s : table[s].capacity, D) = (CHOOSE it : Rec(it))[D]
    BY DEF F!MapThenSumSet, F!MapThenFoldSet
  <2>2. ASSUME NEW it PROVE Rec(it) <=> SumOfSizes(it, D, single)
    <3>1. \A s \in SUBSET D : s # {} => (CHOOSE x \in s : TRUE) \in D
      OBVIOUS
    <3>2. \A x \in D : table[x].capacity = Cardinality(single[x])
      BY <1>4
    <3> HIDE DEF single
    <3> QED
      BY <3>1, <3>2 DEF SumOfSizes, Some
  <2> HIDE DEF single
  <2> HIDE DEF Rec
  <2>3. /\ \E it : SumOfSizes(it, D, single)
        /\ \A it : SumOfSizes(it, D, single) => it[D] = Cardinality(UNION {single[s] : s \in D})
    BY <1>1, <2>0, SumsOfSizes
  <2>4. Rec(CHOOSE it : Rec(it))
    BY <2>2, <2>3
  <2> QED
    BY <2>1, <2>2, <2>3, <2>4, <2>0
<1>10. ASSUME NEW state \in F!States
       PROVE  F!MapThenSumSet(LAMBDA s : table[s].inState[state], D) = Cardinality({r \in UNION {Of(s) : s \in D} : r.state = state})
  <2> DEFINE inIt == [s \in D |-> {r \in Of(s) : r.state = state}]
  <2>0. /\ inIt \in [D -> SUBSET chosen] /\ \A s, x \in D : s # x => inIt[s] \cap inIt[x] = {}
        /\ UNION {inIt[s] : s \in D} = {r \in UNION {Of(s) : s \in D} : r.state = state}
    BY <1>6
  <2> DEFINE Rec(it) ==
        it = [s \in SUBSET D |->
                IF s = {} THEN 0
                ELSE table[CHOOSE x \in s : TRUE].inState[state] + it[s \ {CHOOSE x \in s : TRUE}]]
  <2>1. F!MapThenSumSet(LAMBDA s : table[s].inState[state], D) = (CHOOSE it : Rec(it))[D]
    BY DEF F!MapThenSumSet, F!MapThenFoldSet
  <2>2. ASSUME NEW it PROVE Rec(it) <=> SumOfSizes(it, D, inIt)
    <3>1. \A s \in SUBSET D : s # {} => (CHOOSE x \in s : TRUE) \in D
      OBVIOUS
    <3>2. \A x \in D : table[x].inState[state] = Cardinality(inIt[x])
      BY <1>4
    <3> HIDE DEF inIt
    <3> QED
      BY <3>1, <3>2 DEF SumOfSizes, Some
  <2> HIDE DEF inIt
  <2> HIDE DEF Rec
  <2>3. /\ \E it : SumOfSizes(it, D, inIt)
        /\ \A it : SumOfSizes(it, D, inIt) => it[D] = Cardinality(UNION {inIt[s] : s \in D})
    BY <1>1, <2>0, SumsOfSizes
  <2>4. Rec(CHOOSE it : Rec(it))
    BY <2>2, <2>3
  <2> QED
    BY <2>1, <2>2, <2>3, <2>4, <2>0
<1>11. ASSUME NEW state \in F!States
       PROVE  Cardinality({r \in UNION {Of(s) : s \in D} : r.state = state})
                <= Cardinality({r \in chosen : r.state = state})
  <2>1. {r \in UNION {Of(s) : s \in D} : r.state = state} \subseteq {r \in chosen : r.state = state}
    BY <1>6
  <2>2. IsFiniteSet({r \in chosen : r.state = state})
    BY <1>1, FS_Subset
  <2> QED
    BY <2>1, <2>2, FS_Subset
<1>12. \A state \in F!States :
         F!MapThenSumSet(LAMBDA s : table[s].inState[state], D) <= total.inState[state]
  BY <1>5, <1>10, <1>11
<1>13. /\ F!MapThenSumSet(LAMBDA s : table[s].requested, DOMAIN table) = total.requested
       /\ F!MapThenSumSet(LAMBDA s : table[s].capacity, DOMAIN table) = total.capacity
       /\ F!MapThenSumSet(LAMBDA s : table[s].runners, DOMAIN table) = total.requested
       /\ \A state \in F!States :
            F!MapThenSumSet(LAMBDA s : table[s].inState[state], DOMAIN table) <= total.inState[state]
  BY <1>3, <1>5, <1>7, <1>8, <1>9, <1>12
<1> QED
  BY <1>13 DEF table, total

\* What became of each kind is settled at boot, and the probe's verdict is green
\* only if an informer was started for every kind.
Booted ==
  /\ access.informer \in [F!Kinds -> F!Access]
  /\ access.available => \A kind \in F!Kinds : access.informer[kind] # "dropped"

LEMMA BootDecides == PagesSpec => []Booted
<1>1. PagesInit => Booted
  <2> SUFFICES ASSUME F!Boot PROVE Booted
    BY DEF PagesInit, F!FleetInit
  <2>1. PICK found \in SUBSET F!Kinds :
          \E denied \in SUBSET (found \X F!Verbs), refusing \in SUBSET F!Kinds :
            access = [available |-> F!ProbePasses(found, denied),
                      informer |-> [kind \in F!Kinds |->
                                      IF kind \notin F!Usable(found, denied) THEN "dropped"
                                      ELSE IF kind \in refusing THEN "refused" ELSE "watched"]]
    BY DEF F!Boot
  <2>2. PICK denied \in SUBSET (found \X F!Verbs), refusing \in SUBSET F!Kinds :
          access = [available |-> F!ProbePasses(found, denied),
                    informer |-> [kind \in F!Kinds |->
                                    IF kind \notin F!Usable(found, denied) THEN "dropped"
                                    ELSE IF kind \in refusing THEN "refused" ELSE "watched"]]
    BY <2>1
  <2>3. F!ProbePasses(found, denied) => F!Usable(found, denied) = F!Kinds
    BY DEF F!ProbePasses, F!Usable
  <2>4. access.available => \A kind \in F!Kinds : access.informer[kind] # "dropped"
    BY <2>2, <2>3
  <2> QED
    BY <2>2, <2>4 DEF Booted, F!Access
<1>2. Booted /\ [PagesNext]_<<subject, listVars, fleetVars, runnerVars, laneVars>> => Booted'
  <2>1. F!FleetNext => UNCHANGED access
    BY DEF F!FleetNext, F!CreateSet, F!DeleteSet, F!Rollout, F!DeleteErset, F!StartRunner, F!TakeJob,
           F!Reap, F!DeliverSet, F!DeliverErset, F!DeliverRunner
  <2> QED
    BY <2>1 DEF PagesNext, fleetVars, Booted
<1> QED
  BY <1>1, <1>2, PTL DEF PagesSpec

\* Under a green strip every informer is answered, so that those that have caught
\* up show the cluster.
InView == seenSets = sets /\ seenErsets = ersets /\ seenRunners = runners

LEMMA GreenInView ==
  ASSUME Booted, F!Green, F!Current
  PROVE  InView
BY DEF Booted, F!Green, F!Current, F!Watched, F!Kinds, F!Access, InView

\* In view as in the cluster, the set that owns an ephemeral set is that of its
\* owner's UID, and each runner is in the row of the set it descends from.
LEMMA OwnersInView ==
  ASSUME FleetInv, InView
  PROVE  /\ \A e \in ersets : F!OwnerOf(e) = {s \in sets : s.uid = e.uid}
         /\ \A r \in runners : /\ F!SetNameFor(r) = r.of
                               /\ \E s \in sets : s.name = r.of
                               /\ \A s \in sets : s.name = r.of
                                    <=> \E e \in ersets : e.uid = s.uid /\ e.id = r.owner
<1> USE DEF InView, AllSets, AllErsets, AllRunners
<1>1. ASSUME NEW e \in ersets
      PROVE  F!OwnerOf(e) = {s \in sets : s.uid = e.uid}
  <2>1. {s \in seenSets : s.uid = e.uid} # {}
    BY DEF FleetInv, Owned
  <2> QED
    BY <2>1 DEF F!OwnerOf
<1>2. ASSUME NEW r \in runners
      PROVE  /\ F!SetNameFor(r) = r.of
             /\ \E s \in sets : s.name = r.of
             /\ \A s \in sets : s.name = r.of <=> \E e \in ersets : e.uid = s.uid /\ e.id = r.owner
  <2>1. PICK e \in ersets : e.id = r.owner
    BY DEF FleetInv, Owned
  <2>2. PICK s \in sets : s.uid = e.uid
    BY DEF FleetInv, Owned
  <2>3. s.name = e.name /\ e.name = r.of
    BY <2>1, <2>2 DEF FleetInv, Descent
  <2>4. F!OwnersOf(r) # {}
    BY <1>1, <2>1, <2>2 DEF F!OwnersOf
  <2>5. F!SetNameFor(r) = r.of
    BY <2>4, NameOfRunner
  <2>6. ASSUME NEW x \in sets, NEW d \in ersets, d.uid = x.uid, d.id = r.owner
        PROVE  x.name = r.of
    BY <2>6 DEF FleetInv, Descent
  <2>7. ASSUME NEW x \in sets, x.name = r.of
        PROVE  x = s
    BY <2>3, <2>7 DEF FleetInv, NamedOnce
  <2> QED
    BY <2>1, <2>2, <2>3, <2>5, <2>6, <2>7
<1> QED
  BY <1>1, <1>2

LEMMA GreenFleet ==
  ASSUME FleetInv, Booted
  PROVE  F!GreenIsTheFleet
<1> DEFINE any == [set |-> F!AnyValue, state |-> F!AnyValue]
           table == F!GroupBySet(any)
           Mine(s) == {e \in ersets : e.uid = s.uid}
<1> SUFFICES ASSUME InView
             PROVE  /\ DOMAIN table = sets
                    /\ F!Totals(any).requested = F!Cardinality(runners)
                    /\ \A s \in sets :
                         /\ table[s].runners =
                              F!Cardinality({r \in runners : \E e \in Mine(s) : e.id = r.owner})
                         /\ F!Counting(s) \subseteq Mine(s)
                         /\ Mine(s) # {} => F!Counting(s) # {}
                         /\ \A e \in F!Counting(s), other \in Mine(s) : other.at <= e.at
  BY GreenInView DEF F!GreenIsTheFleet
<1>1. seenSets = sets /\ seenErsets = ersets /\ seenRunners = runners
  BY DEF InView
<1>2. /\ F!Selected(any) = runners
      /\ {s \in seenSets : F!MatchesSet(any, s)} = sets
  BY <1>1 DEF F!Selected, F!Match, F!MatchesSet
<1>3. /\ F!Totals(any) = F!Aggregate(runners, sets)
      /\ table = [s \in sets |-> F!Aggregate({r \in runners : F!SetNameFor(r) = s.name}, {s})]
  BY <1>2 DEF F!GroupBySet, F!Totals
<1> HIDE DEF any, table
<1>4. F!Totals(any).requested = F!Cardinality(runners)
  <2>1. {r \in runners : \E s \in sets : s.name = F!SetNameFor(r)} = runners
    BY OwnersInView
  <2>2. F!Totals(any).requested = F!Cardinality({r \in runners : \E s \in sets : s.name = F!SetNameFor(r)})
    BY <1>3 DEF F!Aggregate
  <2> QED
    BY <2>1, <2>2
<1>5. ASSUME NEW s \in sets
      PROVE  /\ table[s].runners =
                  F!Cardinality({r \in runners : \E e \in Mine(s) : e.id = r.owner})
             /\ F!Counting(s) \subseteq Mine(s)
             /\ Mine(s) # {} => F!Counting(s) # {}
             /\ \A e \in F!Counting(s), other \in Mine(s) : other.at <= e.at
  <2>1. table[s].runners = F!Cardinality({r \in runners : F!SetNameFor(r) = s.name})
    BY <1>3 DEF F!Aggregate
  <2>2. {r \in runners : F!SetNameFor(r) = s.name} = {r \in runners : \E e \in Mine(s) : e.id = r.owner}
    BY OwnersInView
  <2>3. {e \in seenErsets : s \in F!OwnerOf(e)} = Mine(s)
    BY <1>1, OwnersInView
  <2> HIDE DEF Mine
  <2>4. F!Counting(s) = {e \in Mine(s) : \A other \in Mine(s) \ {e} : F!NewerThan(e, other)}
    BY <2>3 DEF F!Counting
  <2>5. Mine(s) \in SUBSET AllErsets
    BY DEF Mine, AllErsets
  <2>6. Mine(s) # {} => F!Counting(s) # {}
    BY <2>4, <2>5, NewestErset
  <2>7. ASSUME NEW e \in F!Counting(s), NEW other \in Mine(s)
        PROVE  other.at <= e.at
    <3>1. e \in Mine(s) /\ (other = e \/ F!NewerThan(e, other))
      BY <2>4
    <3>2. e.at \in 0 .. MaxStamp /\ other.at \in 0 .. MaxStamp
      BY <2>5, <3>1 DEF FleetInv, FleetTyped
    <3>3. e.at \in Nat /\ other.at \in Nat
      BY <3>2, FleetAssumption
    <3> QED
      BY <3>1, <3>3 DEF F!NewerThan
  <2> QED
    BY <2>1, <2>2, <2>4, <2>6, <2>7
<1>6. DOMAIN table = sets
  BY <1>3
<1> QED
  BY <1>4, <1>5, <1>6

\* Whatever the order of rollouts, deletions and deliveries, the fleet page's table
\* has no runner under a foreign set, adds up to the tiles whatever the filter, and
\* is the fleet when the strip is green and the informers have caught up
\* (snapshot.go:478-482, 544-545, aggregate.go:127-129, filter.go:64-66).
THEOREM FleetPageAddsUp == PagesSpec => []FleetAddsUp
<1>1. FleetInv /\ Booted => FleetAddsUp
  <2> SUFFICES ASSUME FleetInv, Booted PROVE F!NoForeignRunners
    BY TotalsOfRows, GreenFleet DEF FleetAddsUp
  <2> QED
    BY NameOfRunner DEF F!NoForeignRunners
<1> QED
  BY <1>1, FleetInvariant, BootDecides, PTL

---------------------------------------------------------------------------
(* The story that the panels of the job history tell *)

\* A number lies in one multiple of a width.
LEMMA Division ==
  ASSUME NEW x \in Nat, NEW w \in Nat \ {0}
  PROVE  \E q \in Nat : /\ q = x \div w /\ x - (x % w) = w * q
                        /\ w * q \in Nat /\ w * q <= x /\ x < w * q + w
<1>1. ASSUME NEW q \in Int, NEW r \in Int, q = x \div w, r = x % w
      PROVE  x = w * q + r /\ r >= 0 /\ r < w
  BY <1>1
<1> DEFINE q == x \div w
           r == x % w
<1>2. q \in Int /\ r \in Int
  OBVIOUS
<1>3. x = w * q + r /\ r >= 0 /\ r < w
  BY <1>1, <1>2
<1>4. x - (x % w) = w * q /\ q = x \div w
  BY <1>2, <1>3
<1> HIDE DEF q, r
<1>5. w * q > -w
  BY <1>2, <1>3
<1>6. q \in Nat
  BY <1>2, <1>5
<1>7. w * q \in Nat
  BY <1>6
<1> QED
  BY <1>2, <1>3, <1>4, <1>6, <1>7

\* Of two multiples one is a whole width below the other, or they are the same.
LEMMA Apart ==
  ASSUME NEW w \in Nat \ {0}, NEW a \in Nat, NEW b \in Nat, w * a < w * b
  PROVE  w * a + w <= w * b /\ a < b
<1>1. a < b
  OBVIOUS
<1> QED
  BY <1>1

\* A later instant has a later bucket; it begins no later than the earlier instant
\* only if both are in one.
LEMMA BucketsInOrder ==
  ASSUME NEW early \in Instants, NEW late \in Instants, early <= late
  PROVE  early <= BucketOf(late) \/ BucketOf(late) = BucketOf(early)
<1> DEFINE b == Bucket
<1>0. early \in Nat /\ late \in Nat /\ b \in Nat \ {0}
  BY MaxAtAssumption, BucketAssumption DEF Instants
<1>1. PICK p \in Nat : /\ BucketOf(early) = b * p /\ b * p \in Nat
                       /\ b * p <= early /\ early < b * p + b
  BY <1>0, Division DEF BucketOf
<1>2. PICK q \in Nat : /\ BucketOf(late) = b * q /\ b * q \in Nat
                       /\ b * q <= late /\ late < b * q + b
  BY <1>0, Division DEF BucketOf
<1> HIDE DEF b
<1>3. CASE b * p < b * q
  <2>1. b * p + b <= b * q
    BY <1>0, <1>3, Apart
  <2> QED
    BY <1>0, <1>1, <1>2, <2>1
<1>4. CASE b * q < b * p
  <2>1. b * q + b <= b * p
    BY <1>0, <1>4, Apart
  <2> QED
    BY <1>0, <1>1, <1>2, <2>1
<1> QED
  BY <1>1, <1>2, <1>3, <1>4

\* A job's samples are of its own time, the first rounded to its bucket.
Charted(j) ==
  rows[j].status # "none" =>
    /\ rows[j].started <= clock
    /\ rows[j].status = "closed" => rows[j].started <= rows[j].finished /\ rows[j].finished <= clock
    /\ \A s \in samples[j] :
         s <= Last(j) /\ (rows[j].started <= s \/ s = BucketOf(rows[j].started))

Charts == \A j \in Jobs : Charted(j)

LEMMA ChartsInvariant == Spec => []Charts
<1>1. Init => Charts
  BY DEF Init, NoRow, Charts, Charted
<1>2. TypeOK /\ NoOrphans /\ Charts /\ [Next]_vars => Charts'
  <2> SUFFICES ASSUME TypeOK, NoOrphans, Charts, [Next]_vars, NEW j \in Jobs
               PROVE  Charted(j)'
    BY DEF Charts
  <2>1. /\ Charted(j) /\ clock \in Nat /\ clock \in Instants /\ rows[j] \in Row
        /\ rows[j].started \in Nat /\ rows[j].started \in Instants /\ rows[j].finished \in Nat
        /\ samples[j] \in SUBSET Nat
    BY MaxAtAssumption DEF Charts, TypeOK, Instants, Row
  <2>2. ASSUME NEW seen \in SUBSET Jobs, NEW sighted \in [Jobs -> Instants], Record(seen, sighted)
        PROVE  Charted(j)'
    <3>1. /\ rows'[j] = RowAfter(j, seen, sighted)
          /\ samples'[j] = IF Measured(j, seen, sighted) THEN samples[j] \cup {BucketOf(clock)}
                           ELSE samples[j]
          /\ clock' = clock
          /\ j \in seen => sighted[j] <= clock
      BY <2>2 DEF Record
    <3>2. sighted[j] \in Nat /\ sighted[j] \in Instants
      BY MaxAtAssumption DEF Instants
    <3>3. /\ BucketOf(clock) \in Nat /\ BucketOf(clock) <= clock
          /\ \A at \in Instants : at <= clock => at <= BucketOf(clock) \/ BucketOf(clock) = BucketOf(at)
      <4>1. BucketOf(clock) \in Nat /\ BucketOf(clock) <= clock
        <5>1. PICK q \in Nat : /\ clock - (clock % Bucket) = Bucket * q
                               /\ Bucket * q \in Nat /\ Bucket * q <= clock
          BY <2>1, BucketAssumption, Division
        <5> QED
          BY <5>1 DEF BucketOf
      <4> QED
        BY <2>1, <4>1, BucketsInOrder
    <3>4. CASE Measured(j, seen, sighted)
      <4>1. rows'[j].status = "open" /\ samples'[j] = samples[j] \cup {BucketOf(clock)}
        BY <3>1, <3>4 DEF Measured
      <4>2. CASE rows[j].status = "none"
        <5>1. samples[j] = {}
          BY <4>2 DEF NoOrphans
        <5>2. rows'[j].started = sighted[j] /\ sighted[j] <= clock
          BY <3>1, <3>4, <4>1, <4>2, RowAfterSnapshot, <2>2 DEF Record, Measured
        <5> QED
          BY <3>1, <3>2, <3>3, <4>1, <5>1, <5>2 DEF Charted, Last
      <4>3. CASE rows[j].status # "none"
        <5>1. rows'[j] = rows[j]
          BY <2>2, <3>1, <3>4, <4>1, <4>3, RowAfterSnapshot DEF Record, Measured
        <5> QED
          BY <2>1, <3>1, <3>3, <4>1, <4>3, <5>1 DEF Charted, Last
      <4> QED
        BY <4>2, <4>3
    <3>5. CASE ~Measured(j, seen, sighted)
      <4>1. samples'[j] = samples[j]
        BY <3>1, <3>5
      <4>2. CASE rows'[j] = rows[j]
        BY <2>1, <3>1, <4>1, <4>2 DEF Charted, Last
      <4>3. CASE rows'[j] # rows[j]
        <5>1. /\ rows[j].status = "open"
              /\ rows'[j] = [status |-> "closed", started |-> rows[j].started, finished |-> clock]
          BY <2>2, <3>1, <3>5, <4>3, RowAfterSnapshot DEF Record, Measured
        <5> QED
          BY <2>1, <3>1, <4>1, <5>1 DEF Charted, Last
      <4> QED
        BY <4>2, <4>3
    <3> QED
      BY <3>4, <3>5
  <2>3. CASE Tick
    BY <2>1, <2>3 DEF Tick, tables, Charted, Last
  <2>4. CASE Sweep
    <3>1. /\ clock' = clock
          /\ samples'[j] \subseteq samples[j]
          /\ rows'[j] = rows[j] \/ rows'[j] = NoRow
      BY <2>4 DEF Sweep, SweepSamples, SweepSamplesOfFinished, SweepSamplesOfAbandoned, SweepFinished,
                  SweepAbandoned, DropSamples, DropRows, Advance
    <3> QED
      BY <2>1, <3>1 DEF Charted, Last, NoRow
  <2>5. CASE UNCHANGED <<clock, rows, samples>>
    BY <2>1, <2>5 DEF Charted, Last
  <2> QED
    BY <2>2, <2>3, <2>4, <2>5 DEF Next, Start, End, Begin, Fail, Restart, tables, vars
<1> QED
  BY <1>1, <1>2, RetentionTypeCorrect, SamplesHaveJobs, PTL DEF Spec

\* All that is kept of a job is on its chart, but for the bucket it started in.
LEMMA ChartOfJob ==
  ASSUME TypeOK, Charts
  PROVE  ChartShowsTheJob
<1> SUFFICES ASSUME NEW j \in Jobs, rows[j].status # "none", NEW s \in samples[j] \ JobSeries(j)
             PROVE  s = BucketOf(rows[j].started) /\ s # rows[j].started
  BY DEF ChartShowsTheJob
<1>1. /\ s \in Nat /\ clock \in Nat /\ rows[j].started \in Nat /\ rows[j].finished \in Nat
      /\ Charted(j)
  BY MaxAtAssumption DEF Charts, TypeOK, Instants, Row
<1> QED
  BY <1>1 DEF Charted, JobSeries, PageEnd, Last

\* The newest of some numbers.
LEMMA MaxIsGreatest ==
  ASSUME NEW T \in SUBSET Nat, IsFiniteSet(T), T # {}
  PROVE  Max(T) \in T /\ \A x \in T : x <= Max(T)
<1>1. \E x \in T : \A y \in T : x >= y
  <2>1. PICK x \in T : \A y \in T : y <= x
    BY GreatestNat
  <2> QED
    BY <2>1
<1>2. Max(T) \in T /\ \A y \in T : Max(T) >= y
  BY <1>1 DEF Max
<1> QED
  BY <1>2

\* The grid of a window covers it: it has the bucket of every instant in the window.
LEMMA GridCovers ==
  ASSUME clock \in Nat, NEW w \in Asked
  PROVE  /\ From(w) \in Nat /\ Width(w) \in Nat \ {0} /\ IsFiniteSet(Grid(w))
         /\ \A at \in Nat : From(w) <= at /\ at < clock => at - (at % Width(w)) \in Grid(w)
<1> DEFINE from == From(w)
           width == Width(w)
           start == from - (from % width)
           n == (clock - start + width - 1) \div width - 1
<1>1. w.back \in Nat /\ w.points \in Nat \ {0}
  BY AskedAssumption
<1>2. from \in Nat /\ from <= clock
  BY <1>1 DEF From, Before
<1> HIDE DEF from
<1>3. width \in Nat \ {0}
  <2>1. clock - from + w.points - 1 \in Nat
    BY <1>1, <1>2
  <2>2. (clock - from + w.points - 1) \div w.points \in Nat
    BY <1>1, <2>1, Division
  <2> QED
    BY <2>2 DEF Width, from
<1> HIDE DEF width
<1>4. PICK p \in Nat : /\ start = width * p /\ width * p \in Nat
                       /\ width * p <= from /\ from < width * p + width
  BY <1>2, <1>3, Division
<1>5. Grid(w) = {start + i * width : i \in 0 .. n}
  BY DEF Grid, from, width
<1> HIDE DEF start
<1>6. n \in Int
  <2>1. clock - start + width - 1 \in Nat
    BY <1>2, <1>3, <1>4
  <2>2. (clock - start + width - 1) \div width \in Nat
    BY <1>3, <2>1, Division
  <2> QED
    BY <2>2
<1>7. IsFiniteSet(Grid(w))
  <2> DEFINE g == [i \in 0 .. n |-> start + i * width]
  <2>1. g \in Surjection(0 .. n, Grid(w))
    BY <1>5 DEF Surjection
  <2> HIDE DEF n, g
  <2>2. IsFiniteSet(0 .. n)
    BY <1>6, FS_Interval
  <2> QED
    BY <2>1, <2>2, FS_Surjection
<1>8. ASSUME NEW at \in Nat, from <= at, at < clock
      PROVE  at - (at % width) \in Grid(w)
  <2>1. PICK q \in Nat : /\ at - (at % width) = width * q /\ width * q \in Nat
                         /\ width * q <= at /\ at < width * q + width
    BY <1>3, Division
  <2>2. p <= q
    <3>1. CASE width * q < width * p
      <4>1. width * q + width <= width * p
        BY <1>3, <3>1, Apart
      <4> QED
        BY <1>2, <1>3, <1>4, <1>8, <2>1, <4>1
    <3>2. CASE ~(width * q < width * p)
      <4>1. width * p <= width * q
        BY <1>4, <2>1, <3>2
      <4> QED
        BY <1>3, <4>1
    <3> QED
      BY <3>1, <3>2
  <2>3. q - p \in Nat /\ start + (q - p) * width = width * q
    BY <1>3, <1>4, <2>2
  <2>4. q - p <= n
    <3> DEFINE span == clock - start + width - 1
    <3>1. span \in Nat /\ n = (span \div width) - 1
      BY <1>2, <1>3, <1>4
    <3>2. PICK m \in Nat : m = span \div width /\ span < width * m + width
      BY <1>3, <3>1, Division
    <3>3. width * (q - p) = width * q - width * p
      BY <1>3
    <3>4. width * (q - p) + width <= span
      BY <1>2, <1>3, <1>4, <1>8, <2>1, <3>3
    <3>5. width * (q - p) < width * m
      <4>1. width * (q - p) \in Nat /\ width * m \in Nat
        BY <1>3, <2>3
      <4> QED
        BY <1>3, <3>1, <3>2, <3>4, <4>1
    <3>6. q - p < m
      BY <1>3, <2>3, <3>5, Apart
    <3> QED
      BY <2>3, <3>1, <3>2, <3>6
  <2>5. q - p \in 0 .. n
    BY <1>6, <2>3, <2>4
  <2> HIDE DEF n
  <2> QED
    BY <1>5, <2>1, <2>3, <2>5
<1> QED
  BY <1>2, <1>3, <1>7, <1>8 DEF from, width

\* The lists of a window agree: its chart and its runs divide what it lists.
LEMMA ListsTellTheSame ==
  ASSUME TypeOK, Charts
  PROVE  ListsAgree
<1> SUFFICES ASSUME NEW w \in Asked
             PROVE  LET listed == JobList(w, {"open", "closed"})
                        over   == {j \in JobList(w, {"closed"}) : rows[j].finished < clock}
                        chart  == Throughput(w)
                        runs   == Facets(w)
                    IN  /\ MapThenSumSet(LAMBDA b : chart[b], DOMAIN chart) = Cardinality(over)
                        /\ MapThenSumSet(LAMBDA r : WorkflowRun(w, r).jobs, runs) = Cardinality(listed)
                        /\ \A r \in runs : \A end \in WorkflowRun(w, r).finished :
                             \A j \in listed :
                               RunOf[j] = r => rows[j].status = "closed" /\ rows[j].finished <= end
  BY DEF ListsAgree
<1> DEFINE listed == JobList(w, {"open", "closed"})
           over   == {j \in JobList(w, {"closed"}) : rows[j].finished < clock}
           chart  == Throughput(w)
           D      == Grid(w)
           runs   == Facets(w)
           ofRun(r) == {j \in listed : RunOf[j] = r}
           inBucket(b) == {j \in Jobs : /\ rows[j].status = "closed"
                                        /\ From(w) <= rows[j].finished /\ rows[j].finished < clock
                                        /\ rows[j].finished - (rows[j].finished % Width(w)) = b}
<1>1. /\ clock \in Nat /\ IsFiniteSet(Jobs) /\ listed \in SUBSET Jobs /\ over \in SUBSET Jobs
      /\ \A j \in Jobs : /\ rows[j].started \in Nat /\ rows[j].finished \in Nat /\ Charted(j)
                         /\ rows[j].status \in {"none", "open", "closed"}
  BY MaxAtAssumption, JobsAssumption DEF Charts, TypeOK, Instants, Row, JobList
<1>2. /\ From(w) \in Nat /\ IsFiniteSet(D)
      /\ \A at \in Nat : From(w) <= at /\ at < clock => at - (at % Width(w)) \in D
  BY <1>1, GridCovers
<1>3. chart = [b \in D |-> Cardinality(inBucket(b))]
  <2> DEFINE ended == {j \in Jobs : /\ rows[j].status = "closed"
                                    /\ From(w) <= rows[j].finished /\ rows[j].finished < clock}
             part(b) == {j \in ended : rows[j].finished - (rows[j].finished % Width(w)) = b}
  <2>1. chart = [b \in D |-> Cardinality(part(b))]
    BY DEF Throughput
  <2>2. \A b \in D : part(b) = inBucket(b)
    OBVIOUS
  <2> HIDE DEF D, part, inBucket
  <2> QED
    BY <2>1, <2>2
<1>4. UNION {inBucket(b) : b \in D} = over
  <2>1. over = {j \in Jobs : /\ rows[j].status = "closed"
                             /\ From(w) <= rows[j].finished /\ rows[j].finished < clock}
    BY <1>1, <1>2 DEF JobList, Overlaps, Charted
  <2> HIDE DEF D, over
  <2> QED
    BY <1>1, <1>2, <2>1
<1>5. /\ runs = {RunOf[j] : j \in listed}
      /\ UNION {ofRun(r) : r \in runs} = listed /\ IsFiniteSet(runs) /\ IsFiniteSet(listed)
  <2>1. runs = {RunOf[j] : j \in listed}
    BY DEF Facets
  <2>2. IsFiniteSet(listed)
    BY <1>1, FS_Subset
  <2>3. [j \in listed |-> RunOf[j]] \in Surjection(listed, runs)
    BY <2>1 DEF Surjection
  <2> HIDE DEF listed, runs
  <2>4. IsFiniteSet(runs)
    BY <2>2, <2>3, FS_Surjection
  <2> QED
    BY <2>1, <2>2, <2>4
<1>6. \A r \in runs : WorkflowRun(w, r).jobs = Cardinality(ofRun(r))
  BY DEF WorkflowRun
<1> HIDE DEF listed, over, chart, D, runs, inBucket, ofRun
<1>7. MapThenSumSet(LAMBDA b : chart[b], D) = Cardinality(over)
  <2> DEFINE sets_ == [b \in D |-> inBucket(b)]
             Rec(it) ==
               it = [s \in SUBSET D |->
                       IF s = {} THEN 0
                       ELSE chart[CHOOSE x \in s : TRUE] + it[s \ {CHOOSE x \in s : TRUE}]]
  <2>1. MapThenSumSet(LAMBDA b : chart[b], D) = (CHOOSE it : Rec(it))[D]
    BY DEF MapThenSumSet, MapThenFoldSet
  <2>2. /\ sets_ \in [D -> SUBSET Jobs]
        /\ \A b, c \in D : b # c => sets_[b] \cap sets_[c] = {}
        /\ UNION {sets_[b] : b \in D} = over
    <3>1. sets_ \in [D -> SUBSET Jobs] /\ \A b, c \in D : b # c => sets_[b] \cap sets_[c] = {}
      BY DEF inBucket
    <3>2. UNION {sets_[b] : b \in D} = over
      BY <1>4
    <3> QED
      BY <3>1, <3>2
  <2>3. ASSUME NEW it PROVE Rec(it) <=> SumOfSizes(it, D, sets_)
    <3>1. \A s \in SUBSET D : s # {} => (CHOOSE x \in s : TRUE) \in D
      OBVIOUS
    <3>2. \A x \in D : chart[x] = Cardinality(sets_[x])
      BY <1>3
    <3> HIDE DEF sets_
    <3> QED
      BY <3>1, <3>2 DEF SumOfSizes, Some
  <2> HIDE DEF sets_, Rec
  <2>4. /\ \E it : SumOfSizes(it, D, sets_)
        /\ \A it : SumOfSizes(it, D, sets_) => it[D] = Cardinality(UNION {sets_[b] : b \in D})
    <3>1. IsFiniteSet(D) /\ IsFiniteSet(Jobs)
      BY <1>1, <1>2
    <3>2. /\ sets_ \in [D -> SUBSET Jobs]
          /\ \A b, c \in D : b # c => sets_[b] \cap sets_[c] = {}
      BY <2>2
    <3> QED
      BY <3>1, <3>2, SumsOfSizes
  <2>5. Rec(CHOOSE it : Rec(it))
    BY <2>3, <2>4
  <2> QED
    BY <2>1, <2>2, <2>3, <2>4, <2>5
<1>8. MapThenSumSet(LAMBDA b : WorkflowRun(w, b).jobs, runs) = Cardinality(listed)
  <2> DEFINE sets_ == [b \in runs |-> ofRun(b)]
             Rec(it) ==
               it = [s \in SUBSET runs |->
                       IF s = {} THEN 0
                       ELSE WorkflowRun(w, CHOOSE x \in s : TRUE).jobs + it[s \ {CHOOSE x \in s : TRUE}]]
  <2>1. MapThenSumSet(LAMBDA b : WorkflowRun(w, b).jobs, runs) = (CHOOSE it : Rec(it))[runs]
    BY DEF MapThenSumSet, MapThenFoldSet
  <2>2. /\ sets_ \in [runs -> SUBSET listed]
        /\ \A b, c \in runs : b # c => sets_[b] \cap sets_[c] = {}
        /\ UNION {sets_[b] : b \in runs} = listed
    <3>1. sets_ \in [runs -> SUBSET listed] /\ \A b, c \in runs : b # c => sets_[b] \cap sets_[c] = {}
      BY DEF ofRun
    <3>2. UNION {sets_[b] : b \in runs} = listed
      BY <1>5
    <3> QED
      BY <3>1, <3>2
  <2>3. ASSUME NEW it PROVE Rec(it) <=> SumOfSizes(it, runs, sets_)
    <3>1. \A s \in SUBSET runs : s # {} => (CHOOSE x \in s : TRUE) \in runs
      OBVIOUS
    <3>2. \A x \in runs : WorkflowRun(w, x).jobs = Cardinality(sets_[x])
      BY <1>6
    <3> HIDE DEF sets_
    <3> QED
      BY <3>1, <3>2 DEF SumOfSizes, Some
  <2> HIDE DEF sets_, Rec
  <2>4. /\ \E it : SumOfSizes(it, runs, sets_)
        /\ \A it : SumOfSizes(it, runs, sets_) => it[runs] = Cardinality(UNION {sets_[b] : b \in runs})
    <3>1. IsFiniteSet(runs) /\ IsFiniteSet(listed)
      BY <1>5
    <3>2. /\ sets_ \in [runs -> SUBSET listed]
          /\ \A b, c \in runs : b # c => sets_[b] \cap sets_[c] = {}
      BY <2>2
    <3> QED
      BY <3>1, <3>2, SumsOfSizes
  <2>5. Rec(CHOOSE it : Rec(it))
    BY <2>3, <2>4
  <2> QED
    BY <2>1, <2>2, <2>3, <2>4, <2>5
<1>9. ASSUME NEW r \in runs, NEW end \in WorkflowRun(w, r).finished, NEW j \in listed, RunOf[j] = r
      PROVE  rows[j].status = "closed" /\ rows[j].finished <= end
  <2> DEFINE members == ofRun(r)
             ends == {rows[k].finished : k \in members}
  <2>1. /\ \A k \in members : rows[k].status # "open"
        /\ end = Max(ends)
    BY <1>9 DEF WorkflowRun, ofRun, listed
  <2>2. j \in members /\ members \subseteq listed
    BY <1>9 DEF ofRun
  <2>3. rows[j].status \in {"open", "closed"}
    BY DEF listed, JobList
  <2>4. rows[j].finished <= end
    <3>1. ends \in SUBSET Nat /\ rows[j].finished \in ends
      BY <1>1, <2>2
    <3>2. IsFiniteSet(ends)
      <4>1. IsFiniteSet(members)
        BY <1>5, <2>2, FS_Subset
      <4>2. [k \in members |-> rows[k].finished] \in Surjection(members, ends)
        BY DEF Surjection
      <4> HIDE DEF members, ends
      <4> QED
        BY <4>1, <4>2, FS_Surjection
    <3> HIDE DEF ends
    <3> QED
      BY <2>1, <3>1, <3>2, MaxIsGreatest
  <2> QED
    BY <2>1, <2>2, <2>3, <2>4
<1>10. DOMAIN chart = D
  BY <1>3
<1>11. /\ MapThenSumSet(LAMBDA b : chart[b], DOMAIN chart) = Cardinality(over)
       /\ MapThenSumSet(LAMBDA r : WorkflowRun(w, r).jobs, runs) = Cardinality(listed)
       /\ \A r \in runs : \A end \in WorkflowRun(w, r).finished :
            \A j \in listed : RunOf[j] = r => rows[j].status = "closed" /\ rows[j].finished <= end
  BY <1>7, <1>8, <1>9, <1>10
<1> QED
  BY <1>11 DEF listed, over, chart, runs

\* Whatever is recorded and swept meanwhile, a window's chart counts each job that
\* finished in it once, its runs have the jobs of its list and end with the last of
\* them, and a job's own chart has all that is kept of it
\* (query.go:142-145, 651-655, page.go:1286-1296).
THEOREM HistoryIsOneStory == ListsSpec => []HistoryAgrees
<1>1. TypeOK /\ Charts => HistoryAgrees
  BY ChartOfJob, ListsTellTheSame DEF HistoryAgrees
<1> QED
  BY <1>1, ListsImplementRetention, RetentionTypeCorrect, ChartsInvariant, PTL

---------------------------------------------------------------------------
(* The panel of a runner *)

Events == [pod : Nat, id : Nat, at : Nat]

\* What the panel takes of the events that were read: the selection that
\* newestEvents makes of all of them at once.
Latest(chosen, read) ==
  /\ chosen \subseteq read
  /\ Cardinality(chosen) = Min({Keep, Cardinality(read)})
  /\ \A e \in chosen, other \in read \ chosen : R!Precedes(e, other)

\* A list, or the part of it that was read: of one pod if it was looked up by its
\* UID, what was read emitted first before what was not.
OfPod(uid, listed) == uid # 0 => \A e \in listed : e.pod = uid

Ordered(listed, left) == \A e \in listed \ left, rest \in left : e.id < rest.id

Sound(uid, chosen, listed, left) ==
  /\ listed \in SUBSET Events /\ IsFiniteSet(listed) /\ left \subseteq listed
  /\ OfPod(uid, listed) /\ Ordered(listed, left) /\ Latest(chosen, listed \ left)

Answers == [events : SUBSET Events, listed : SUBSET Events, unread : SUBSET Events]

ViewerStates ==
  {R!Idle}
    \cup [at : {"listing"}, uid : Nat, listed : SUBSET Events, left : SUBSET Events,
          kept : SUBSET Events, page : Nat]
    \cup [at : {"handed"}, uid : Nat, answer : Answers]

SoundAnswer(uid, answer) == Sound(uid, answer.events, answer.listed, answer.unread)

SoundViewer(w) ==
  /\ w.at = "listing" => Sound(w.uid, w.kept, w.listed, w.left)
  /\ w.at = "handed" => SoundAnswer(w.uid, w.answer)

RunnerInv ==
  /\ pods \in Nat /\ seenPod \in Nat
  /\ log \in SUBSET Events /\ IsFiniteSet(log)
  /\ DOMAIN cache \subseteq Nat
  /\ \A k \in DOMAIN cache : cache[k] \in Answers /\ SoundAnswer(k, cache[k])
  /\ viewer \in [Viewers -> ViewerStates]
  /\ \A v \in Viewers : SoundViewer(viewer[v])

\* The panel counts as one counts here.
LEMMA PanelCounts ==
  ASSUME NEW S
  PROVE  R!Cardinality(S) = Cardinality(S) /\ R!Min(S) = Min(S)
BY DEF R!Cardinality, Cardinality, R!Min, Min

\* As many are taken as there is room for.
LEMMA SizeOfLatest ==
  ASSUME NEW read, IsFiniteSet(read), NEW chosen, Latest(chosen, read)
  PROVE  /\ IsFiniteSet(chosen) /\ Cardinality(read) \in Nat /\ Cardinality(chosen) \in Nat
         /\ Cardinality(chosen) = IF Keep <= Cardinality(read) THEN Keep ELSE Cardinality(read)
         /\ Cardinality(read) <= Keep => chosen = read
<1>1. IsFiniteSet(chosen) /\ Cardinality(read) \in Nat /\ Cardinality(chosen) \in Nat
  BY FS_Subset, FS_CardinalityType DEF Latest
<1>2. Cardinality(chosen) = IF Keep <= Cardinality(read) THEN Keep ELSE Cardinality(read)
  BY <1>1, PanelAssumption, OfTwo DEF Latest
<1>3. ASSUME Cardinality(read) <= Keep PROVE chosen = read
  <2>1. Cardinality(chosen) = Cardinality(read)
    BY <1>1, <1>2, <1>3, PanelAssumption
  <2> QED
    BY <2>1, FS_Subset DEF Latest
<1> QED
  BY <1>1, <1>2, <1>3

\* The newest still win across every page: what is kept of what was kept and of a
\* page is what would have been kept of all at once.
LEMMA NewestWinAcrossPages ==
  ASSUME NEW read \in SUBSET Events, IsFiniteSet(read), NEW some \in SUBSET Events, IsFiniteSet(some),
         NEW kept, Latest(kept, read), NEW chosen \in R!Newest(kept \cup some)
  PROVE  Latest(chosen, read \cup some)
<1> DEFINE pool == kept \cup some
           all == read \cup some
<1>1. Latest(chosen, pool)
  BY PanelCounts DEF R!Newest, Latest
<1>2. /\ kept \subseteq read /\ pool \subseteq all /\ chosen \subseteq pool
      /\ IsFiniteSet(all) /\ IsFiniteSet(pool) /\ IsFiniteSet(kept)
  <2>1. kept \subseteq read /\ chosen \subseteq pool
    BY <1>1 DEF Latest
  <2>2. IsFiniteSet(kept)
    BY <2>1, FS_Subset
  <2> QED
    BY <2>1, <2>2, FS_Union
<1>3. CASE Cardinality(read) <= Keep
  <2>1. pool = all
    BY <1>3, SizeOfLatest
  <2> QED
    BY <1>1, <2>1
<1>4. CASE ~(Cardinality(read) <= Keep)
  <2> HIDE DEF pool, all
  <2>1. Cardinality(kept) = Keep /\ Keep \in Nat
    BY <1>4, SizeOfLatest, PanelAssumption, FS_CardinalityType
  <2>2. Cardinality(pool) \in Nat /\ Keep <= Cardinality(pool)
    <3>1. kept \subseteq pool
      BY DEF pool
    <3> QED
      BY <1>2, <2>1, <3>1, FS_Subset, FS_CardinalityType
  <2>3. Cardinality(all) \in Nat /\ Keep <= Cardinality(all)
    BY <1>2, <2>1, <2>2, FS_Subset, FS_CardinalityType
  <2>4. Cardinality(chosen) = Keep /\ IsFiniteSet(chosen)
    BY <1>1, <1>2, <2>2, SizeOfLatest
  <2>5. Min({Keep, Cardinality(all)}) = Keep
    BY <2>1, <2>3, OfTwo
  <2>6. ASSUME NEW e \in chosen, NEW other \in all \ chosen
        PROVE  R!Precedes(e, other)
    <3>1. CASE other \in pool
      BY <1>1, <2>6, <3>1 DEF Latest
    <3>2. CASE other \notin pool
      <4>1. other \in read \ kept
        BY <2>6, <3>2 DEF pool, all
      <4>2. CASE e \in kept
        BY <4>1, <4>2 DEF Latest
      <4>3. CASE e \notin kept
        <5>1. PICK k \in kept : k \notin chosen
          <6>1. CASE kept \subseteq chosen
            <7>1. kept = chosen
              BY <2>1, <2>4, <6>1, FS_Subset
            <7> QED
              BY <4>3, <2>6, <7>1
          <6> QED
            BY <6>1
        <5>2. R!Precedes(e, k)
          BY <1>1, <5>1 DEF Latest, pool
        <5>3. R!Precedes(k, other)
          BY <4>1, <5>1 DEF Latest
        <5>4. e \in Events /\ k \in Events /\ other \in Events
          BY <1>2, <4>1, <5>1, <2>6 DEF pool
        <5>5. e.at \in Nat /\ k.at \in Nat /\ other.at \in Nat /\ e.id \in Nat /\ k.id \in Nat /\ other.id \in Nat
          BY <5>4 DEF Events
        <5> QED
          BY <5>2, <5>3, <5>5 DEF R!Precedes
      <4> QED
        BY <4>2, <4>3
    <3> QED
      BY <3>1, <3>2
  <2>7. chosen \subseteq all
    BY <1>2
  <2> QED
    BY <2>4, <2>5, <2>6, <2>7 DEF Latest, all
<1> QED
  BY <1>3, <1>4

\* Nothing is a sound answer, and so is the beginning of a list.
LEMMA NothingRead ==
  ASSUME NEW listed \in SUBSET Events, IsFiniteSet(listed), NEW uid, OfPod(uid, listed)
  PROVE  Sound(uid, {}, listed, listed)
<1>1. listed \ listed = {}
  OBVIOUS
<1>2. Cardinality({}) = 0
  BY FS_EmptySet
<1>3. Min({Keep, 0}) = 0
  BY PanelAssumption, OfTwo
<1> QED
  BY <1>1, <1>2, <1>3 DEF Sound, Ordered, Latest

\* A page keeps what is read a sound part of the list.
LEMMA PageIsSound ==
  ASSUME NEW w, Sound(w.uid, w.kept, w.listed, w.left),
         NEW some, some \subseteq w.left, \A e \in some, rest \in w.left \ some : e.id < rest.id,
         NEW chosen \in R!Newest(w.kept \cup some)
  PROVE  Sound(w.uid, chosen, w.listed, w.left \ some) /\ chosen \in SUBSET Events
<1>1. /\ w.listed \in SUBSET Events /\ IsFiniteSet(w.listed) /\ w.left \subseteq w.listed
      /\ OfPod(w.uid, w.listed) /\ Ordered(w.listed, w.left) /\ Latest(w.kept, w.listed \ w.left)
  BY DEF Sound
<1>2. /\ some \in SUBSET Events /\ w.listed \ w.left \in SUBSET Events
      /\ IsFiniteSet(some) /\ IsFiniteSet(w.listed \ w.left)
      /\ (w.listed \ w.left) \cup some = w.listed \ (w.left \ some)
  BY <1>1, FS_Subset
<1>3. Latest(chosen, w.listed \ (w.left \ some))
  BY <1>1, <1>2, NewestWinAcrossPages
<1>4. Ordered(w.listed, w.left \ some)
  BY <1>1 DEF Ordered
<1> QED
  BY <1>1, <1>3, <1>4 DEF Sound, Latest

\* What is handed to a page leaves the rest of the invariant alone.
LEMMA Handed ==
  ASSUME RunnerInv, NEW v \in Viewers, NEW uid \in Nat, NEW answer \in Answers, SoundAnswer(uid, answer),
         R!Hand(v, uid, answer)
  PROVE  viewer' \in [Viewers -> ViewerStates] /\ \A x \in Viewers : SoundViewer(viewer'[x])
<1> DEFINE w == [at |-> "handed", uid |-> uid, answer |-> answer]
<1>1. viewer' = [viewer EXCEPT ![v] = w]
  BY DEF R!Hand
<1>2. w.at = "handed" /\ w.uid = uid /\ w.answer = answer /\ w \in ViewerStates
  BY DEF ViewerStates
<1> HIDE DEF w
<1>3. SoundViewer(w)
  BY <1>2 DEF SoundViewer
<1> QED
  BY <1>1, <1>2, <1>3 DEF RunnerInv

\* The cluster, its informer, and entries that expire.
LEMMA ClusterKeepsPanels ==
  ASSUME RunnerInv,
         \/ R!CreatePod \/ R!DeletePod \/ R!DeliverPod
         \/ \E at \in 0 .. MaxStamp : R!Emit(at) \/ \E e \in log : R!Repeat(e, at)
         \/ \E k \in DOMAIN cache : R!Evict(k)
  PROVE  RunnerInv'
<1>1. CASE R!CreatePod \/ R!DeletePod \/ R!DeliverPod
  BY <1>1 DEF R!CreatePod, R!DeletePod, R!DeliverPod, RunnerInv
<1>2. ASSUME NEW at \in 0 .. MaxStamp, R!Emit(at)
      PROVE  RunnerInv'
  <2> DEFINE new == [pod |-> pods, id |-> R!Cardinality(log) + 1, at |-> at]
  <2>1. log' = log \cup {new} /\ UNCHANGED <<pods, there, seenPod, cache, viewer>>
    BY <1>2 DEF R!Emit
  <2>2. new \in Events
    <3>1. at \in Nat
      BY FleetAssumption
    <3>2. R!Cardinality(log) \in Nat
      BY PanelCounts, FS_CardinalityType DEF RunnerInv
    <3> QED
      BY <3>1, <3>2 DEF Events, RunnerInv
  <2> HIDE DEF new
  <2>3. log' \in SUBSET Events /\ IsFiniteSet(log')
    BY <2>1, <2>2, FS_AddElement DEF RunnerInv
  <2> QED
    BY <2>1, <2>3 DEF RunnerInv
<1>3. ASSUME NEW at \in 0 .. MaxStamp, NEW e \in log, R!Repeat(e, at)
      PROVE  RunnerInv'
  <2> DEFINE new == [e EXCEPT !.at = at]
  <2>1. log' = (log \ {e}) \cup {new} /\ UNCHANGED <<pods, there, seenPod, cache, viewer>>
    BY <1>3 DEF R!Repeat
  <2>2. new \in Events
    <3>1. at \in Nat
      BY FleetAssumption
    <3>2. e \in Events
      BY DEF RunnerInv
    <3> QED
      BY <3>1, <3>2 DEF Events
  <2> HIDE DEF new
  <2>3. log' \in SUBSET Events /\ IsFiniteSet(log')
    BY <2>1, <2>2, FS_AddElement, FS_RemoveElement DEF RunnerInv
  <2> QED
    BY <2>1, <2>3 DEF RunnerInv
<1>4. ASSUME NEW k \in DOMAIN cache, R!Evict(k)
      PROVE  RunnerInv'
  <2>1. /\ cache' = [other \in DOMAIN cache \ {k} |-> cache[other]]
        /\ UNCHANGED <<pods, there, log, seenPod, viewer>>
    BY <1>4 DEF R!Evict
  <2>2. DOMAIN cache' \subseteq DOMAIN cache /\ \A x \in DOMAIN cache' : cache'[x] = cache[x]
    BY <2>1
  <2> QED
    BY <2>1, <2>2 DEF RunnerInv
<1> QED
  BY <1>1, <1>2, <1>3, <1>4

\* A viewer hits the cache, begins a list, or has a request refused.
LEMMA LookupsKeepPanels ==
  ASSUME RunnerInv, NEW v \in Viewers, R!Hit(v) \/ R!BeginList(v) \/ R!ListFails(v)
  PROVE  RunnerInv'
<1>1. CASE R!Hit(v)
  <2>1. /\ seenPod \in DOMAIN cache /\ R!Hand(v, seenPod, cache[seenPod])
        /\ UNCHANGED <<pods, there, log, seenPod, cache>>
    BY <1>1 DEF R!Hit, R!Cached, R!Key
  <2>2. cache[seenPod] \in Answers /\ SoundAnswer(seenPod, cache[seenPod]) /\ seenPod \in Nat
    BY <2>1 DEF RunnerInv
  <2>3. viewer' \in [Viewers -> ViewerStates] /\ \A x \in Viewers : SoundViewer(viewer'[x])
    BY <2>1, <2>2, Handed
  <2> QED
    BY <2>1, <2>3 DEF RunnerInv
<1>2. CASE R!BeginList(v)
  <2> DEFINE listed == R!Matches(seenPod)
             w == R!Reading(seenPod, listed, listed, {}, 0)
  <2>1. viewer' = [viewer EXCEPT ![v] = w] /\ UNCHANGED <<pods, there, log, seenPod, cache>>
    BY <1>2 DEF R!BeginList
  <2>2. listed \in SUBSET Events /\ IsFiniteSet(listed) /\ OfPod(seenPod, listed)
    BY FS_Subset DEF R!Matches, RunnerInv, OfPod
  <2> HIDE DEF listed
  <2>3. Sound(seenPod, {}, listed, listed)
    BY <2>2, NothingRead
  <2>4. w \in ViewerStates
    BY <2>2 DEF R!Reading, ViewerStates, RunnerInv
  <2>5. SoundViewer(w)
    BY <2>3 DEF R!Reading, SoundViewer
  <2> HIDE DEF w
  <2>6. viewer' \in [Viewers -> ViewerStates] /\ \A x \in Viewers : SoundViewer(viewer'[x])
    BY <2>1, <2>4, <2>5 DEF RunnerInv
  <2> QED
    BY <2>1, <2>6 DEF RunnerInv
<1>3. CASE R!ListFails(v)
  <2>1. /\ viewer[v].at = "listing" /\ R!Hand(v, viewer[v].uid, R!Nothing)
        /\ UNCHANGED <<pods, there, log, seenPod, cache>>
    BY <1>3 DEF R!ListFails
  <2>2. viewer[v].uid \in Nat
    BY <2>1 DEF RunnerInv, ViewerStates, R!Idle
  <2>3. R!Nothing \in Answers /\ SoundAnswer(viewer[v].uid, R!Nothing)
    <3>1. Sound(viewer[v].uid, {}, {}, {})
      BY NothingRead, FS_EmptySet DEF OfPod
    <3> QED
      BY <3>1 DEF R!Nothing, R!Answer, Answers, SoundAnswer
  <2>4. viewer' \in [Viewers -> ViewerStates] /\ \A x \in Viewers : SoundViewer(viewer'[x])
    BY <2>1, <2>2, <2>3, Handed
  <2> QED
    BY <2>1, <2>4 DEF RunnerInv
<1> QED
  BY <1>1, <1>2, <1>3

\* A page is read, the last one or not.
LEMMA PagesKeepPanels ==
  ASSUME RunnerInv, NEW v \in Viewers, NEW some, R!ReadPage(v, some)
  PROVE  RunnerInv'
<1> DEFINE w == viewer[v]
           left == w.left \ some
<1>1. /\ w.at = "listing" /\ some \subseteq w.left
      /\ \A e \in some, rest \in left : e.id < rest.id
      /\ UNCHANGED <<pods, there, log, seenPod>>
  BY DEF R!ReadPage
<1>2. PICK kept \in R!Newest(w.kept \cup some) :
        \/ LET done == R!Answer(kept, w.listed, left)
           IN  cache' \in R!Added(w.uid, done) /\ R!Hand(v, w.uid, done)
        \/ /\ viewer' = [viewer EXCEPT ![v] = R!Reading(w.uid, w.listed, left, kept, w.page + 1)]
           /\ UNCHANGED cache
  BY DEF R!ReadPage, R!Key
<1>3. /\ w.uid \in Nat /\ w.page \in Nat /\ w.listed \in SUBSET Events /\ w.left \in SUBSET Events
      /\ Sound(w.uid, w.kept, w.listed, w.left)
  BY <1>1 DEF RunnerInv, ViewerStates, SoundViewer, R!Idle
<1>4. Sound(w.uid, kept, w.listed, left) /\ kept \in SUBSET Events /\ left \in SUBSET Events
  <2>1. left \in SUBSET Events
    BY <1>3
  <2>2. Sound(w.uid, kept, w.listed, left) /\ kept \in SUBSET Events
    <3> HIDE DEF w
    <3> QED
      BY <1>1, <1>3, PageIsSound
  <2> QED
    BY <2>1, <2>2
<1> HIDE DEF left
<1>5. ASSUME NEW done, done = R!Answer(kept, w.listed, left),
             cache' \in R!Added(w.uid, done),
             R!Hand(v, w.uid, done)
      PROVE  RunnerInv'
  <2>1. done \in Answers /\ SoundAnswer(w.uid, done)
    BY <1>3, <1>4, <1>5 DEF R!Answer, Answers, SoundAnswer
  <2>2. viewer' \in [Viewers -> ViewerStates] /\ \A x \in Viewers : SoundViewer(viewer'[x])
    BY <1>3, <1>5, <2>1, Handed
  <2>3. /\ DOMAIN cache' \subseteq Nat
        /\ \A k \in DOMAIN cache' : cache'[k] \in Answers /\ SoundAnswer(k, cache'[k])
    <3>1. PICK rest \in SUBSET (DOMAIN cache \ {w.uid}) :
            cache' = [k \in rest \cup {w.uid} |-> IF k = w.uid THEN done ELSE cache[k]]
      BY <1>5 DEF R!Added
    <3> QED
      BY <1>3, <2>1, <3>1 DEF RunnerInv
  <2> QED
    BY <1>1, <2>2, <2>3 DEF RunnerInv
<1>6. ASSUME NEW next, next = R!Reading(w.uid, w.listed, left, kept, w.page + 1),
             viewer' = [viewer EXCEPT ![v] = next], UNCHANGED cache
      PROVE  RunnerInv'
  <2>1. next \in ViewerStates
    BY <1>3, <1>4, <1>6 DEF R!Reading, ViewerStates
  <2>2. SoundViewer(next)
    BY <1>4, <1>6 DEF R!Reading, SoundViewer
  <2>3. viewer' \in [Viewers -> ViewerStates] /\ \A x \in Viewers : SoundViewer(viewer'[x])
    BY <1>6, <2>1, <2>2 DEF RunnerInv
  <2> QED
    BY <1>1, <1>6, <2>3 DEF RunnerInv
<1> QED
  BY <1>2, <1>5, <1>6

LEMMA RunnerInvariant == PagesSpec => []RunnerInv
<1>1. PagesInit => RunnerInv
  BY FS_EmptySet DEF PagesInit, R!RunnerInit, R!Idle, RunnerInv, ViewerStates, SoundViewer
<1>2. RunnerInv /\ [PagesNext]_<<subject, listVars, fleetVars, runnerVars, laneVars>> => RunnerInv'
  <2> SUFFICES ASSUME RunnerInv, R!RunnerNext \/ UNCHANGED runnerVars
               PROVE  RunnerInv'
    BY DEF PagesNext
  <2>1. CASE UNCHANGED runnerVars
    BY <2>1 DEF runnerVars, RunnerInv
  <2>2. CASE R!RunnerNext
    BY <2>2, ClusterKeepsPanels, LookupsKeepPanels, PagesKeepPanels DEF R!RunnerNext
  <2> QED
    BY <2>1, <2>2
<1> QED
  BY <1>1, <1>2, PTL DEF PagesSpec

\* For any page size, budget and room on the panel: the events shown are of the pod
\* that is in view, and of those the pages came to the latest, however they are
\* paged, renewed and cached meanwhile (events.go:46-48, 60-65).
THEOREM PanelsAreOfTheirPods == PagesSpec => []PanelIsThePods
<1>1. RunnerInv => PanelIsThePods
  <2> SUFFICES ASSUME RunnerInv, NEW v \in Viewers, viewer[v].at = "handed"
               PROVE  LET answer == viewer[v].answer
                          read   == answer.listed \ answer.unread
                      IN  /\ seenPod # 0 /\ seenPod = viewer[v].uid =>
                               \A e \in answer.events : e.pod = seenPod
                          /\ answer.events \subseteq read
                          /\ \A e \in answer.events, other \in read \ answer.events : R!Precedes(e, other)
                          /\ R!Cardinality(answer.events) = R!Min({Keep, R!Cardinality(read)})
                          /\ \A e \in read, other \in answer.unread : e.id < other.id
    BY DEF PanelIsThePods, R!PanelIsThePods
  <2>1. SoundAnswer(viewer[v].uid, viewer[v].answer)
    BY DEF RunnerInv, SoundViewer
  <2> QED
    BY <2>1, PanelCounts DEF SoundAnswer, Sound, OfPod, Ordered, Latest
<1> QED
  BY <1>1, RunnerInvariant, PTL
=============================================================================
