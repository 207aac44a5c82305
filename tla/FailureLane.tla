---------------------------- MODULE FailureLane ----------------------------
(***************************************************************************)
(* The failure lane of the fleet page: what the snapshot says is broken,   *)
(* merged with what the store remembers.  The page takes a snapshot, then  *)
(* asks the store for a count, then for rows, while runners break and go,  *)
(* snapshots are recorded and old rows are swept.                          *)
(*                                                                         *)
(* A failure is a runner and a reason; here each runner has one reason.  A *)
(* container that is restarted breaks again, later.                        *)
(***************************************************************************)
EXTENDS Naturals, FiniteSets, FiniteSetsExt

CONSTANTS
  Runners,
  Rows,    \* failureLaneRows
  Back,    \* the range of the page
  Kept,    \* retention of failures, no shorter
  MaxAt    \* bound on the clock

VARIABLES
  clock,
  broken,  \* since when each runner has been broken; 0 is not
  failures,\* the store's rows: the time in each runner's; 0 is none
  page     \* what the page is doing, and with what

vars == <<clock, broken, failures, page>>

LaneInit ==
  /\ clock = 1
  /\ broken = [r \in Runners |-> 0]
  /\ failures = [r \in Runners |-> 0]
  /\ page = [at |-> "idle"]

---------------------------------------------------------------------------
(* The fleet and the store *)

Break(r) ==
  /\ broken[r] < clock
  /\ broken' = [broken EXCEPT ![r] = clock]
  /\ UNCHANGED <<clock, failures, page>>

Leave(r) ==
  /\ broken[r] # 0
  /\ broken' = [broken EXCEPT ![r] = 0]
  /\ UNCHANGED <<clock, failures, page>>

\* History: the rows that are written or swept between the two statements of a page.
Write(rows) ==
  /\ rows # failures
  /\ failures' = rows
  /\ page' = IF page.at = "counted"
             THEN [page EXCEPT !.late = @ \cup {r \in Runners : rows[r] # failures[r]}]
             ELSE page
  /\ UNCHANGED <<clock, broken>>

\* A snapshot is recorded: the time of a failure that has a row stays.
Record == Write([r \in Runners |-> IF failures[r] = 0 THEN broken[r] ELSE failures[r]])

Sweep == Write([r \in Runners |-> IF failures[r] + Kept < clock THEN 0 ELSE failures[r]])

Tick ==
  /\ clock < MaxAt
  /\ clock' = clock + 1
  /\ UNCHANGED <<broken, failures, page>>

---------------------------------------------------------------------------
(* The page *)

\* The newest of some failures, as many as there are rows: the sort is stable, so
\* of those of one time any may be left out.
Newest(some) ==
  {chosen \in SUBSET some :
     /\ Cardinality(chosen) = Min({Rows, Cardinality(some)})
     /\ \A f \in chosen, other \in some \ chosen : other.at <= f.at}

\* fleet.Failures, of the snapshot the page was begun with.
Live == {[runner |-> r, at |-> broken[r]] : r \in {x \in Runners : broken[x] # 0}}

Look ==
  /\ page.at \in {"idle", "done"}
  /\ \E live \in Newest(Live) : page' = [at |-> "looked", now |-> clock, live |-> live]
  /\ UNCHANGED <<clock, broken, failures>>

InWindow ==
  {[runner |-> r, at |-> failures[r]] :
     r \in {x \in Runners : /\ failures[x] # 0
                            /\ page.now <= failures[x] + Back /\ failures[x] < page.now}}

\* The count: the first statement of Failures.
Count ==
  /\ page.at = "looked"
  /\ page' = [at |-> "counted", now |-> page.now, live |-> page.live,
              counted |-> InWindow, late |-> {}]
  /\ UNCHANGED <<clock, broken, failures>>

\* Bug: a failure is known by its time as well.
SameByTime(f, g) == f = g

Same(f, g) == f.runner = g.runner

\* The rows, and mergeFailures.
Show ==
  /\ page.at = "counted"
  /\ \E stored \in Newest(InWindow) :
       LET fresh == {f \in page.live : ~\E g \in stored : Same(f, g)}
       IN  \E items \in Newest(stored \cup fresh) :
             page' = [at |-> "done", live |-> page.live, counted |-> page.counted,
                      late |-> page.late, items |-> items,
                      total |-> Max({Cardinality(items),
                                     Cardinality(page.counted) + Cardinality(fresh)})]
  /\ UNCHANGED <<clock, broken, failures>>

\* Either statement fails: the lane has what the snapshot has.
Fail ==
  /\ page.at \in {"looked", "counted"}
  /\ page' = [at |-> "done", live |-> page.live, counted |-> {}, late |-> {},
              items |-> page.live, total |-> Cardinality(page.live)]
  /\ UNCHANGED <<clock, broken, failures>>

LaneNext ==
  \/ Record \/ Sweep \/ Tick \/ Look \/ Count \/ Show \/ Fail
  \/ \E r \in Runners : Break(r) \/ Leave(r)

---------------------------------------------------------------------------
(* Properties *)

\* No failure is in the lane twice, though the store and the snapshot may have it
\* under different times.  The count leaves out no failure that the store had when
\* it was asked or that the snapshot shows, but for rows that change between the
\* two statements; and it is exact when none does and the failures of the window
\* fit into the lane (page.go:1012-1023).
LaneCountsEachFailure ==
  page.at = "done" =>
    LET known == {f.runner : f \in page.counted \cup page.live}
    IN  /\ \A f, g \in page.items : f.runner = g.runner => f = g
        /\ Cardinality(known) <= page.total + Cardinality(page.late)
        /\ page.late = {} /\ Cardinality(page.counted) <= Rows => page.total = Cardinality(known)
=============================================================================
