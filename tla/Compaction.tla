----------------------------- MODULE Compaction -----------------------------
(***************************************************************************)
(* internal/store/compact.go, the gauge samples: raw rows are rolled up    *)
(* into coarser tiers, and every tier is swept past its retention.         *)
(*                                                                         *)
(* A run of Compact fixes its instant and then executes one statement      *)
(* after the other: the roll-ups, finest tier first, and after them the    *)
(* sweeps.  Snapshots are recorded between the statements; a statement may *)
(* fail, which ends the run, and the process may be restarted, with other  *)
(* retentions.                                                             *)
(*                                                                         *)
(* One series is modelled.  The value of a row is the set of the readings  *)
(* it averages, so that an average made of fewer readings is another one.  *)
(***************************************************************************)
EXTENDS Naturals, FiniteSets

CONSTANTS
  Last,        \* the coarsest tier; tier 0 is the raw one
  Width,       \* width of each tier's buckets
  Retentions,  \* what each tier's retention may be configured to; 0 is "keep"
  MaxLag,      \* from the observation of a snapshot to its commit
  MaxPause,    \* from one run whose roll-ups succeed to the next
  MaxAt        \* bound on the clock

Tiers    == 0 .. Last
Instants == 0 .. MaxAt

ASSUME LastAssumption == Last \in Nat
ASSUME WidthAssumption ==
  /\ Width \in [Tiers -> Nat \ {0}]
  /\ Width[0] = 1
  /\ \A t \in 1 .. Last : Width[t] % Width[t - 1] = 0
ASSUME RetentionsAssumption == Retentions \subseteq [Tiers -> Nat]
ASSUME BoundsAssumption == MaxLag \in Nat /\ MaxPause \in Nat /\ MaxAt \in Nat

\* Of every tier but the coarsest: it keeps its rows until the roll-ups have had
\* the time to see them, and no longer than a coarser one does.  The defaults of
\* the program are such: six hours, then 7, 30 and 400 days, and a minute between
\* runs.  What the theorems say is of such configurations.
WellConfigured ==
  \A k \in Retentions : \A t \in 0 .. Last - 1 :
    k[t] # 0 =>
      /\ k[t] >= MaxLag + MaxPause
      /\ \A u \in 0 .. t : k[u] # 0 /\ k[u] <= k[t]

VARIABLES
  clock,
  keep,      \* the retention of each tier
  rows,      \* the readings each bucket of each tier averages; {} is no row
  recorded,  \* history: every reading that was committed
  newest,    \* the last of them, or 0
  step,      \* the statement of Compact that comes next; 0 when none is running
  now,       \* the instant of the run
  rolled     \* history: the instant of the last run whose roll-ups succeeded

vars == <<clock, keep, rows, recorded, newest, step, now, rolled>>

TypeOK ==
  /\ clock \in Instants
  /\ keep \in Retentions
  /\ rows \in [Tiers -> [Instants -> SUBSET Instants]]
  /\ recorded \subseteq Instants
  /\ newest \in Instants
  /\ step \in 0 .. 2 * Last + 1
  /\ now \in Instants
  /\ rolled \in Instants

Init ==
  /\ clock = 0
  /\ keep \in Retentions
  /\ rows = [t \in Tiers |-> [b \in Instants |-> {}]]
  /\ recorded = {}
  /\ newest = 0
  /\ step = 0
  /\ now = 0
  /\ rolled = 0

---------------------------------------------------------------------------
(* Buckets *)

FloorTo(x, width) == x - (x % width)

\* An instant less a retention, which in the program is never before 1970.
Before(x, retention) == IF x >= retention THEN x - retention ELSE 0

\* Bug: the floor is not aligned to the bucket.
RollupFloorExact(t) == IF keep[t] = 0 THEN 0 ELSE Before(now, keep[t])

\* The oldest source row the roll-up of tier t reads, and the cutoff below
\* which that tier is swept.
RollupFloor(t) ==
  IF keep[t] = 0 THEN 0 ELSE FloorTo(Before(now, keep[t]), Width[t + 1])

\* Below this, rows of tier t are swept.  The coarsest tier feeds nothing.
Cutoff(t) == IF t = Last THEN Before(now, keep[t]) ELSE RollupFloor(t)

\* The end of the last bucket of tier t that is complete.
UpTo(t) == FloorTo(now, Width[t])

\* The buckets of tier t + 1 that its roll-up derives anew.
Bucket(t, b) == {s \in Instants : rows[t][s] # {} /\ FloorTo(s, Width[t + 1]) = b}

---------------------------------------------------------------------------
(* Actions *)

\* A run that pauses for longer than MaxPause is not modelled.
Tick ==
  /\ clock < MaxAt
  /\ clock < rolled + MaxPause
  /\ clock' = clock + 1
  /\ UNCHANGED <<keep, rows, recorded, newest, step, now, rolled>>

\* RecordSnapshot commits the reading of a snapshot, observed not long ago
\* and after the one before it.
Record(at) ==
  /\ at > newest
  /\ at <= clock
  /\ clock <= at + MaxLag
  /\ rows' = [rows EXCEPT ![0][at] = {at}]
  /\ recorded' = recorded \cup {at}
  /\ newest' = at
  /\ UNCHANGED <<clock, keep, step, now, rolled>>

Begin ==
  /\ step = 0
  /\ step' = 1
  /\ now' = clock
  /\ UNCHANGED <<clock, keep, rows, recorded, newest, rolled>>

\* Bug: only what came since the last run is rolled up.
RollupSinceLast(t) ==
  LET sources(b) == {s \in Bucket(t, b) : FloorTo(rolled, Width[t + 1]) <= s /\ s < UpTo(t + 1)} IN
  /\ step = t + 1
  /\ rows' = [rows EXCEPT ![t + 1] =
       [b \in Instants |-> IF sources(b) = {} THEN rows[t + 1][b]
                           ELSE UNION {rows[t][s] : s \in sources(b)}]]
  /\ step' = step + 1
  /\ rolled' = IF t + 1 = Last THEN now ELSE rolled
  /\ UNCHANGED <<clock, keep, recorded, newest, now>>

\* rollup from tier t: each complete bucket that is within the retention of its
\* sources, and has any, is averaged from them, over what was there before.
Rollup(t) ==
  LET sources(b) == {s \in Bucket(t, b) : RollupFloor(t) <= s /\ s < UpTo(t + 1)} IN
  /\ step = t + 1
  /\ rows' = [rows EXCEPT ![t + 1] =
       [b \in Instants |-> IF sources(b) = {} THEN rows[t + 1][b]
                           ELSE UNION {rows[t][s] : s \in sources(b)}]]
  /\ step' = step + 1
  /\ rolled' = IF t + 1 = Last THEN now ELSE rolled
  /\ UNCHANGED <<clock, keep, recorded, newest, now>>

\* applyRetention, one tier.  The statement after the last ends the run.
Sweep(t) ==
  /\ step = Last + 1 + t
  /\ rows' = IF keep[t] = 0 THEN rows
             ELSE [rows EXCEPT ![t] =
               [b \in Instants |-> IF b < Cutoff(t) THEN {} ELSE rows[t][b]]]
  /\ step' = IF t = Last THEN 0 ELSE step + 1
  /\ UNCHANGED <<clock, keep, recorded, newest, now, rolled>>

\* A statement fails, or the process ends; the rest of the run does not happen.
Fail ==
  /\ step # 0
  /\ step' = 0
  /\ UNCHANGED <<clock, keep, rows, recorded, newest, now, rolled>>

\* The process is started again, with retentions of the operator's choice.
Restart ==
  /\ step' = 0
  /\ keep' \in Retentions
  /\ UNCHANGED <<clock, rows, recorded, newest, now, rolled>>

---------------------------------------------------------------------------
Next ==
  \/ Tick
  \/ \E at \in Instants : Record(at)
  \/ Begin
  \/ \E t \in 0 .. Last - 1 : Rollup(t)
  \/ \E t \in Tiers : Sweep(t)
  \/ Fail \/ Restart

Spec == Init /\ [][Next]_vars

---------------------------------------------------------------------------
(* Properties *)

\* History does not drift: an average, once published, never loses one of its
\* readings for as long as it is kept, however often it is derived again and
\* whatever was swept below it (compact.go:24-28).
NoDrift ==
  [][\A t \in 1 .. Last : \A b \in Instants :
       rows'[t][b] = {} \/ rows[t][b] \subseteq rows'[t][b]]_rows

\* A bucket that ended long enough before the last run for its readings to be
\* committed averages all of them and nothing else, in every tier: the late
\* ones found their way into it, by way of the tiers between
\* (compact.go:19-22).
OldAveragesAreExact ==
  \A t \in 1 .. Last : \A b \in Instants :
    b + Width[t] + MaxLag <= rolled =>
      rows[t][b] \in {{}, {at \in recorded : FloorTo(at, Width[t]) = b}}

\* A reading that was recorded is in some tier until the coarsest lets go of
\* it: with roll-ups that come often enough, sweeps remove nothing that has not
\* been rolled up, whether or not a run was cut short (compact.go:20-22).
NothingIsLost ==
  \A at \in recorded :
    \/ \E t \in Tiers : at \in rows[t][FloorTo(at, Width[t])]
    \/ \E k \in Retentions :
         /\ k[Last] # 0
         /\ FloorTo(at, Width[Last]) < Before(clock, k[Last])
=============================================================================
