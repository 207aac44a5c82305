------------------------------- MODULE Pages -------------------------------
(***************************************************************************)
(* What pages show, each made of several readings of a fleet and a history *)
(* that move under it: the lists and charts of jobs, the fleet page's      *)
(* table and failure lane, and the panel of a runner.                      *)
(*                                                                         *)
(* These read different tables and maps, and a page writes none but the    *)
(* cache of pod events.  So what all do is an interleaving of what each    *)
(* could do alone: a behaviour here runs one of them, whichever, and       *)
(* leaves the others where they begin.                                     *)
(***************************************************************************)
EXTENDS Lists

CONSTANTS
  Names, LabelOf, MaxSets, Ersets, MaxStamp, FleetRunners,  \* Overview
  Viewers, MaxPods, MaxEvents, Keep, PageSize, PageBudget,  \* RunnerPage,
  CacheSize,                                                \* and MaxStamp
  FailingRunners, Shown, Back, Remembered, MaxInstant        \* FailureLane

ASSUME FleetAssumption == Ersets \in SUBSET Nat /\ MaxStamp \in Nat
ASSUME LaneAssumption == IsFiniteSet(FailingRunners) /\ Shown \in Nat
ASSUME PanelAssumption == Keep \in Nat

VARIABLES
  subject,  \* what this behaviour is of
  sets, ersets, runners, seenSets, seenErsets, seenRunners, created, spent, access,
  pods, there, log, seenPod, cache, viewer,
  instant, broken, failures, page

F == INSTANCE Overview WITH Runners <- FleetRunners
R == INSTANCE RunnerPage WITH seen <- seenPod
L == INSTANCE FailureLane WITH Runners <- FailingRunners, Rows <- Shown, Kept <- Remembered,
                               MaxAt <- MaxInstant, clock <- instant

listVars   == <<vars, lastReading>>
fleetVars  == <<sets, ersets, runners, seenSets, seenErsets, seenRunners, created, spent, access>>
runnerVars == <<pods, there, log, seenPod, cache, viewer>>
laneVars   == <<instant, broken, failures, page>>

\* The verdicts of the probes matter to the fleet page.
PagesInit ==
  /\ ListsInit /\ F!FleetInit /\ R!RunnerInit /\ L!LaneInit
  /\ subject \in {"jobs", "fleet", "runner", "failures"}
  /\ subject # "fleet" => \A kind \in F!Kinds : F!Watched(kind)

Alone(name) == subject = name /\ UNCHANGED subject

PagesNext ==
  \/ Alone("jobs") /\ ListsNext /\ UNCHANGED <<fleetVars, runnerVars, laneVars>>
  \/ Alone("fleet") /\ F!FleetNext /\ UNCHANGED <<listVars, runnerVars, laneVars>>
  \/ Alone("runner") /\ R!RunnerNext /\ UNCHANGED <<listVars, fleetVars, laneVars>>
  \/ Alone("failures") /\ L!LaneNext /\ UNCHANGED <<listVars, fleetVars, runnerVars>>

PagesSpec == PagesInit /\ [][PagesNext]_<<subject, listVars, fleetVars, runnerVars, laneVars>>

---------------------------------------------------------------------------
(* Properties *)

\* The fleet page's table has every runner under its own set, in numbers that add
\* up to the tiles, and once the informers have caught up under a green strip it
\* is the fleet (snapshot.go:478-482, 544-545, aggregate.go:127-129).
FleetAddsUp ==
  subject = "fleet" => F!NoForeignRunners /\ F!RowsAreTheTotals /\ F!GreenIsTheFleet

\* The panel of a runner has the latest events of its own pod (events.go:46-48).
PanelIsThePods == subject = "runner" => R!PanelIsThePods

\* The failure lane has each failure once and leaves none out of its count
\* (page.go:1012-1023).
LaneCountsEachFailure == subject = "failures" => L!LaneCountsEachFailure
=============================================================================
