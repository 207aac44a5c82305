------------------------------- MODULE Lists -------------------------------
(***************************************************************************)
(* internal/store/query.go, the jobs: which of them a window lists, the    *)
(* workflow runs and the dense counts made of them, and a job's own page,  *)
(* over the tables that JobRetention sweeps.                               *)
(*                                                                         *)
(* Each operator is one statement, so it sees one state of the tables.     *)
(* Windows end at the present.  A job's repository, workflow and run id    *)
(* are one thing, its run.                                                 *)
(***************************************************************************)
EXTENDS JobRetention, FiniteSetsExt

CONSTANTS
  RunOf,  \* the workflow run of each job
  Asked   \* windows that are asked for: how far back, and how many points

ASSUME JobsAssumption == IsFiniteSet(Jobs)
ASSUME AskedAssumption == Asked \subseteq [back : Nat \ {0}, points : Nat \ {0}]

VARIABLE lastReading  \* history: the instant of the last reading kept of each job

---------------------------------------------------------------------------
(* Statements *)

From(w) == Before(clock, w.back)

\* Bug: a job is in the window it started in.
OverlapsByStart(w, j) ==
  rows[j].status # "none" /\ From(w) <= rows[j].started /\ rows[j].started < clock

\* jobWindow: the job was running during the window, or is still.
Overlaps(w, j) ==
  /\ rows[j].status # "none" /\ rows[j].started < clock
  /\ rows[j].status = "open" \/ rows[j].finished >= From(w)

\* Jobs, and its total: those of some outcome.
JobList(w, outcomes) == {j \in Jobs : Overlaps(w, j) /\ rows[j].status \in outcomes}

\* JobFacets, and the keys that WorkflowRuns and RepoConsumption group by.
Facets(w) == {RunOf[j] : j \in JobList(w, {"open", "closed"})}

\* A workflow run, aggregated from those of its jobs that the window lists.  It
\* ends with the last of them, once none is running.
WorkflowRun(w, run) ==
  LET members == {j \in JobList(w, {"open", "closed"}) : RunOf[j] = run}
      running == {j \in members : rows[j].status = "open"}
  IN  [jobs     |-> Cardinality(members),
       running  |-> Cardinality(running),
       started  |-> Min({rows[j].started : j \in members}),
       finished |-> IF running = {} THEN {Max({rows[j].finished : j \in members})} ELSE {}]

Width(w) ==
  LET even == (clock - From(w) + w.points - 1) \div w.points IN IF even > 1 THEN even ELSE 1

\* Bug: the number of buckets is rounded down.
GridShort(w) ==
  LET start == From(w) - (From(w) % Width(w))
  IN  {start + i * Width(w) : i \in 0 .. (clock - start) \div Width(w) - 1}

\* The starts of the buckets that cover the window.
Grid(w) ==
  LET width == Width(w)
      start == From(w) - (From(w) % width)
  IN  {start + i * width : i \in 0 .. (clock - start + width - 1) \div width - 1}

\* Jobs by the bucket they finished in; one without any is zero, and a row whose
\* bucket is not on the grid counts nowhere.
Throughput(w) ==
  LET width == Width(w)
      over  == {j \in Jobs : /\ rows[j].status = "closed"
                             /\ From(w) <= rows[j].finished /\ rows[j].finished < clock}
  IN  [b \in Grid(w) |->
         Cardinality({j \in over : rows[j].finished - (rows[j].finished % width) = b})]

Last(j) == IF rows[j].status = "open" THEN clock ELSE rows[j].finished

\* Bug: the window ends with the job.
PageEndShort(j) == Last(j)

\* Windows exclude their end, and the page of a job shows all of it.
PageEnd(j) == Last(j) + 1

\* The chart on a job's page: its samples from its start to its end.
JobSeries(j) == {s \in samples[j] : rows[j].started <= s /\ s < PageEnd(j)}

---------------------------------------------------------------------------
ListsInit == Init /\ lastReading = [j \in Jobs |-> 0]

Observe(seen, sighted) ==
  /\ Record(seen, sighted)
  /\ lastReading' = [j \in Jobs |-> IF Measured(j, seen, sighted) THEN clock
                                    ELSE lastReading[j]]

\* A snapshot says since when a job runs; the row of one that has a row already
\* does not depend on it.
ListsNext ==
  \/ \E seen \in SUBSET Held :
       \E first \in [{j \in seen : rows[j].status = "none"} -> Instants] :
         Observe(seen, [j \in Jobs |-> IF j \in DOMAIN first THEN first[j] ELSE clock])
  \/ /\ Tick \/ Begin \/ Sweep \/ Fail \/ Restart \/ \E j \in Jobs : Start(j) \/ End(j)
     /\ UNCHANGED lastReading

ListsSpec == ListsInit /\ [][ListsNext]_<<vars, lastReading>>

---------------------------------------------------------------------------
(* Properties *)

\* A job that was measured within a window is in the list of that window, if
\* the window is no longer than jobs are kept: however long it has been running,
\* whether its end was seen or lost, and whichever statement a sweep is at
\* (query.go:453-460).
WhoeverRanIsListed ==
  \A w \in Asked, j \in Jobs :
    (Window = 0 \/ w.back <= Window) /\ From(w) <= lastReading[j]
      /\ 0 < lastReading[j] /\ lastReading[j] < clock => j \in JobList(w, {"open", "closed"})

\* The lists of a window agree.  Its chart counts each job that finished in it
\* once, and these are the finished jobs of the list; its runs have the jobs of
\* the list, and one is over when the last of its jobs is, no sooner
\* (query.go:142-145, 651-655).
ListsAgree ==
  \A w \in Asked :
    LET listed == JobList(w, {"open", "closed"})
        over   == {j \in JobList(w, {"closed"}) : rows[j].finished < clock}
        chart  == Throughput(w)
        runs   == Facets(w)
    IN  /\ MapThenSumSet(LAMBDA b : chart[b], DOMAIN chart) = Cardinality(over)
        /\ MapThenSumSet(LAMBDA r : WorkflowRun(w, r).jobs, runs) = Cardinality(listed)
        /\ \A r \in runs : \A end \in WorkflowRun(w, r).finished :
             \A j \in listed : RunOf[j] = r => rows[j].status = "closed" /\ rows[j].finished <= end

\* A job's own chart shows all that is kept of it, but for the bucket it
\* started in, which is as old as the bucket and older than the job
\* (page.go:1286-1296, record.go:505).
ChartShowsTheJob ==
  \A j \in Jobs :
    rows[j].status # "none" =>
      samples[j] \ JobSeries(j) \subseteq {BucketOf(rows[j].started)} \ {rows[j].started}

\* Every panel of the job history tells the same story.
HistoryAgrees == ListsAgree /\ ChartShowsTheJob
=============================================================================
