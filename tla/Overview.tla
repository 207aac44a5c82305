------------------------------ MODULE Overview ------------------------------
(***************************************************************************)
(* internal/fleet and the fleet page of internal/web: the filter, the      *)
(* totals and the rows of the table, taken from one snapshot of what       *)
(* SnapshotBuilder keeps.  Of the states a runner can be in two are told   *)
(* apart, and of the dimensions of a filter its set and its state.         *)
(***************************************************************************)
EXTENDS SnapshotBuilder

AnyValue == "all"

States == {"idle", "busy"}

Filters == [set : Names \cup {AnyValue}, state : States \cup {AnyValue}]

Match(f, r) ==
  /\ f.set \in {AnyValue, SetNameFor(r)}
  /\ f.state \in {AnyValue, r.state}

MatchesSet(f, s) == f.set \in {AnyValue, s.name}

\* What is true of some runners and sets.  Each set allows one runner more and
\* asks one unit for each of its runners.
Aggregate(rs, ss) ==
  [runners   |-> Cardinality(rs),
   inState   |-> [state \in States |-> Cardinality({r \in rs : r.state = state})],
   capacity  |-> Cardinality(ss),
   requested |-> Cardinality({r \in rs : \E s \in ss : s.name = SetNameFor(r)})]

Selected(f) == {r \in seenRunners : Match(f, r)}

Totals(f) == Aggregate(Selected(f), {s \in seenSets : MatchesSet(f, s)})

GroupBySet(f) ==
  [s \in {s \in seenSets : MatchesSet(f, s)} |->
     Aggregate({r \in Selected(f) : SetNameFor(r) = s.name}, {s})]

---------------------------------------------------------------------------
(* Properties *)

\* The informers that are answered have delivered what there is.
Current ==
  /\ Watched("sets") => seenSets = sets
  /\ Watched("ersets") => seenErsets = ersets
  /\ Watched("runners") => seenRunners = runners

\* A runner is in the row of the set it belongs to, or where its label says while
\* the set or the ephemeral set between them is not in view: sets are recreated
\* under the old name and deliveries overtake one another, yet no runner is in
\* the row of another set (snapshot.go:544-545).
NoForeignRunners ==
  \A r \in seenRunners :
    \/ SetNameFor(r) = r.of
    \/ SetNameFor(r) = r.label /\ OwnersOf(r) = {}

\* The rows and the tiles are of the same runners, whatever the filter
\* (aggregate.go:127-129, filter.go:64-66).
RowsAreTheTotals ==
  \A f \in Filters :
    LET rows == GroupBySet(f)
        all  == Totals(f)
        Sum(Of(_)) == MapThenSumSet(Of, DOMAIN rows)
    IN  /\ Sum(LAMBDA s : rows[s].requested) = all.requested
        /\ Sum(LAMBDA s : rows[s].capacity) = all.capacity
        /\ Sum(LAMBDA s : rows[s].runners) = all.requested
        /\ \A state \in States :
             Sum(LAMBDA s : rows[s].inState[state]) <= all.inState[state]

\* When the strip is green and the informers have caught up, each set has a row
\* with exactly the runners that descend from it, all runners are in a row, and the
\* counts of a set are those of the ephemeral set it rolled out last and none of a
\* set of that name before it (snapshot.go:478-482, 488-491).
GreenIsTheFleet ==
  Green /\ Current =>
    LET rows == GroupBySet([set |-> AnyValue, state |-> AnyValue])
        Mine(s) == {e \in ersets : e.uid = s.uid}
    IN  /\ DOMAIN rows = sets
        /\ Totals([set |-> AnyValue, state |-> AnyValue]).requested = Cardinality(runners)
        /\ \A s \in sets :
             /\ rows[s].runners =
                  Cardinality({r \in runners : \E e \in Mine(s) : e.id = r.owner})
             /\ Counting(s) \subseteq Mine(s)
             /\ Mine(s) # {} => Counting(s) # {}
             /\ \A e \in Counting(s), other \in Mine(s) : other.at <= e.at

FleetAddsUp == NoForeignRunners /\ RowsAreTheTotals /\ GreenIsTheFleet
=============================================================================
