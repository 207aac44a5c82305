---------------------------- MODULE StoreProofs ----------------------------
(***************************************************************************)
(* Theorems about Store, for any runners, jobs, gap and horizon.           *)
(***************************************************************************)
EXTENDS Store, TLAPS

\* What ties the costs to the instants: nothing is billed beyond the last
\* snapshot that was committed, and a process that has committed none
\* remembers no frame.
Accounts ==
  /\ prevAt <= clock
  /\ prevAt = 0 => prev = Empty
  /\ \A r \in Runners, j \in Jobs :
       rows[r][j].cost <= IF prevAt # 0 THEN prevAt ELSE clock

\* The row of a job after RecordSnapshot, all its statements taken together.
LEMMA RowAfterRecord ==
  ASSUME TypeOK, Accounts, Record, NEW r \in Runners, NEW j \in Jobs
  PROVE  /\ rows'[r][j] = Finished(r, j)
         /\ rows'[r][j] \in Row
         /\ rows'[r][j].cost = rows[r][j].cost + (IF Holds(fleet, r, j) THEN Increment(r) ELSE 0)
         /\ rows'[r][j].cost <= clock
         /\ rows[r][j].status = "closed" =>
              /\ rows'[r][j].status = "closed"
              /\ rows'[r][j].finished = rows[r][j].finished
              /\ rows'[r][j].ok = rows[r][j].ok
         /\ rows'[r][j].status = "open" => rows[r][j].status = "open" \/ Holds(fleet, r, j)
         /\ rows'[r][j].status = "open" => ~Vanished(r) /\ ~Switched(r, j)
<1> DEFINE row == rows[r][j]
           cost == row.cost + (IF Holds(fleet, r, j) THEN Increment(r) ELSE 0)
<1>1. rows'[r][j] = Finished(r, j)
  BY DEF Record
<1>2. row \in Row
  BY DEF TypeOK
<1>3. Increment(r) \in Nat /\ row.cost + Increment(r) <= clock
  BY <1>2, MaxAtAssumption, MaxGapAssumption
     DEF Increment, Dt, Accounts, TypeOK, Instants, Row
<1>4. /\ Upsert(r, j) \in [status : {"none", "open", "closed"}, finished : Instants,
                           ok : BOOLEAN, cost : Nat, folds : 0 .. MaxFolds]
      /\ Upsert(r, j).cost = cost
      /\ Upsert(r, j).status = IF Holds(fleet, r, j) /\ row.status = "none"
                                 THEN "open" ELSE row.status
      /\ Upsert(r, j).finished = row.finished
      /\ Upsert(r, j).ok = row.ok
  <2>1. CASE Holds(fleet, r, j)
    <3>1. Upsert(r, j) = [row EXCEPT !.status = IF @ = "none" THEN "open" ELSE @,
                                     !.cost = @ + Increment(r)]
      BY <2>1 DEF Upsert, Billed
    <3>2. row.cost \in Nat /\ row.cost + Increment(r) \in Nat
      BY <1>2, <1>3, MaxAtAssumption DEF Row, Instants
    <3> QED
      BY <1>2, <2>1, <3>1, <3>2 DEF Row
  <2>2. CASE ~Holds(fleet, r, j)
    BY <1>2, <2>2, MaxAtAssumption DEF Upsert, Billed, Row, Instants
  <2> QED
    BY <2>1, <2>2
<1>5. /\ Sampled(r, j) \in [status : {"none", "open", "closed"}, finished : Instants,
                            ok : BOOLEAN, cost : Nat, folds : 0 .. MaxFolds]
      /\ Sampled(r, j).cost = cost
      /\ Sampled(r, j).status = Upsert(r, j).status
      /\ Sampled(r, j).finished = row.finished
      /\ Sampled(r, j).ok = row.ok
  BY <1>4, MaxAtAssumption DEF Sampled, MaxFolds
<1>6. /\ Finished(r, j) \in [status : {"none", "open", "closed"}, finished : Instants,
                             ok : BOOLEAN, cost : Nat, folds : 0 .. MaxFolds]
      /\ Finished(r, j).cost = cost
      /\ Sampled(r, j).status = "closed" => Finished(r, j) = Sampled(r, j)
      /\ Finished(r, j).status = "open" => /\ Sampled(r, j).status = "open"
                                           /\ ~Vanished(r) /\ ~Switched(r, j)
  <2>1. CASE (Vanished(r) \/ Switched(r, j)) /\ Sampled(r, j).status = "open"
    BY <1>5, <2>1 DEF Finished, TypeOK
  <2>2. CASE ~((Vanished(r) \/ Switched(r, j)) /\ Sampled(r, j).status = "open")
    BY <1>5, <2>2 DEF Finished
  <2> QED
    BY <2>1, <2>2
<1>7. cost <= clock /\ cost \in Instants
  BY <1>2, <1>3, MaxAtAssumption
     DEF TypeOK, Row, Instants, Accounts
<1>8. Finished(r, j) \in Row
  BY <1>6, <1>7 DEF Row
<1> QED
  BY <1>1, <1>4, <1>5, <1>6, <1>7, <1>8

\* Every variable keeps its type and the accounts stay balanced.
LEMMA AccountsInvariant == Spec => [](TypeOK /\ Accounts)
<1>1. Init => TypeOK /\ Accounts
  <2> SUFFICES ASSUME Init PROVE TypeOK /\ Accounts
    OBVIOUS
  <2>1. NoRow \in Row
    BY MaxAtAssumption DEF NoRow, Row, Instants, MaxFolds
  <2>2. Empty \in Frames
    BY DEF Empty, Frames
  <2>3. TypeOK
    BY <2>1, <2>2, MaxAtAssumption DEF Init, TypeOK, Instants
  <2>4. Accounts
    BY DEF Init, Accounts, NoRow
  <2> QED
    BY <2>3, <2>4
<1>2. TypeOK /\ Accounts /\ [Next]_vars => (TypeOK /\ Accounts)'
  <2> SUFFICES ASSUME TypeOK, Accounts, [Next]_vars
               PROVE  (TypeOK /\ Accounts)'
    OBVIOUS
  <2> USE DEF Instants
  <2>1. CASE \E frame \in Frames : Observe(frame)
    <3>1. PICK frame \in Frames : Observe(frame)
      BY <2>1
    <3>2. TypeOK'
      BY <3>1, MaxAtAssumption DEF Observe, TypeOK, tables
    <3>3. \A r \in Runners, j \in Jobs : rows[r][j].cost \in Nat
      BY MaxAtAssumption DEF TypeOK, Row
    <3>4. Accounts'
      BY <3>1, <3>3, MaxAtAssumption DEF Observe, TypeOK, Accounts, tables
    <3> QED
      BY <3>2, <3>4
  <2>2. CASE Record
    <3>1. rows' \in [Runners -> [Jobs -> Row]]
      BY <2>2, RowAfterRecord DEF Record
    <3>2. failures' \in [Runners -> {"none", "mild", "severe"}]
      <4>1. \A r \in Runners : Failure(r) \in {"none", "mild", "severe"}
        BY DEF TypeOK, Failure
      <4> QED
        BY <2>2, <4>1 DEF Record
    <3>3. created' \subseteq Runners /\ terminated' \subseteq Runners /\ lost' \subseteq Runners
      BY <2>2 DEF Record, TypeOK, Present
    <3>4. TypeOK'
      BY <2>2, <3>1, <3>2, <3>3 DEF Record, TypeOK
    <3>5. Accounts'
      BY <2>2, RowAfterRecord DEF Record, TypeOK, Accounts
    <3> QED
      BY <3>4, <3>5
  <2>3. CASE Restart
    <3>1. Empty \in Frames
      BY DEF Empty, Frames
    <3>2. TypeOK'
      BY <2>3, <3>1, MaxAtAssumption DEF Restart, TypeOK, tables, Present
    <3>3. \A r \in Runners, j \in Jobs : rows[r][j].cost \in Nat
      BY MaxAtAssumption DEF TypeOK, Row
    <3>4. Accounts'
      BY <2>3, <3>3, MaxAtAssumption DEF Restart, TypeOK, Accounts, tables
    <3> QED
      BY <3>2, <3>4
  <2>4. CASE UNCHANGED vars
    BY <2>4 DEF vars, tables, TypeOK, Accounts
  <2> QED
    BY <2>1, <2>2, <2>3, <2>4 DEF Next, Fail
<1> QED
  BY <1>1, <1>2, PTL DEF Spec

\* The tables, the frames and the instants keep their types; costs in
\* particular never exceed the time that was observed.
THEOREM StoreTypeCorrect == Spec => []TypeOK
  BY AccountsInvariant, PTL

\* No job of a runner that is still watched stays open once the runner has
\* left it, whatever writes failed and whatever snapshots were skipped.
THEOREM CompletionsAreNotLost == Spec => []OpenRowsAreHeld
<1>1. Init => OpenRowsAreHeld
  BY DEF Init, OpenRowsAreHeld, NoRow
<1>2. TypeOK /\ Accounts /\ OpenRowsAreHeld /\ [Next]_vars => OpenRowsAreHeld'
  <2> SUFFICES ASSUME TypeOK, Accounts, OpenRowsAreHeld, [Next]_vars,
                      NEW r \in Runners, r \notin lost', NEW j \in Jobs,
                      rows'[r][j].status = "open"
               PROVE  Holds(prev, r, j)'
    BY DEF OpenRowsAreHeld
  <2>1. CASE \E frame \in Frames : Observe(frame)
    BY <2>1 DEF Observe, OpenRowsAreHeld, Holds, tables
  <2>2. CASE Record
    <3>1. SUFFICES ASSUME ~Holds(fleet, r, j) PROVE FALSE
      BY <2>2 DEF Record, Holds
    <3>2. rows[r][j].status = "open" /\ ~Vanished(r) /\ ~Switched(r, j)
      BY <2>2, <3>1, RowAfterRecord
    <3>3. r \notin lost
      BY <2>2, <3>2 DEF Record
    <3>4. Holds(prev, r, j)
      BY <3>2, <3>3 DEF OpenRowsAreHeld
    <3>5. fleet[r] = Gone
      BY <3>1, <3>2, <3>4 DEF Switched
    <3> QED
      BY <3>2, <3>4, <3>5, NoJobAssumption DEF Vanished, Holds
  <2>3. CASE Restart
    <3>1. r \notin lost /\ prev[r] = Gone
      BY <2>3 DEF Restart, Present
    <3>2. Holds(prev, r, j)
      BY <2>3, <3>1 DEF Restart, tables, OpenRowsAreHeld
    <3> QED
      BY <3>1, <3>2, NoJobAssumption DEF Holds, Gone
  <2>4. CASE UNCHANGED vars
    BY <2>4 DEF vars, tables, OpenRowsAreHeld, Holds
  <2> QED
    BY <2>1, <2>2, <2>3, <2>4 DEF Next, Fail
<1> QED
  BY <1>1, <1>2, AccountsInvariant, PTL DEF Spec

\* The churn events tell the truth about every runner watched to its end.
THEOREM ChurnIsComplete == Spec => []ChurnFollowsTheFleet
<1>1. Init => ChurnFollowsTheFleet
  BY DEF Init, ChurnFollowsTheFleet, Present, Empty
<1>2. TypeOK /\ ChurnFollowsTheFleet /\ [Next]_vars => ChurnFollowsTheFleet'
  <2> SUFFICES ASSUME TypeOK, ChurnFollowsTheFleet, [Next]_vars
               PROVE  ChurnFollowsTheFleet'
    OBVIOUS
  <2>1. CASE \E frame \in Frames : Observe(frame)
    BY <2>1 DEF Observe, ChurnFollowsTheFleet, Present, tables
  <2>2. CASE Record
    <3>1. \A r \in Runners : Vanished(r) => r \in Present(prev)
      BY DEF Vanished, Present, Gone
    <3>2. Present(prev)' = Present(fleet)
      BY <2>2 DEF Record, Present
    <3>3. {r \in Runners : Vanished(r)} \subseteq Present(prev)
      BY <3>1
    <3> QED
      BY <2>2, <3>2, <3>3 DEF Record, ChurnFollowsTheFleet
  <2>3. CASE Restart
    <3>1. Present(prev)' = {}
      BY <2>3 DEF Restart, Present, Empty
    <3> QED
      BY <2>3, <3>1 DEF Restart, ChurnFollowsTheFleet, tables
  <2>4. CASE UNCHANGED vars
    BY <2>4 DEF vars, tables, ChurnFollowsTheFleet, Present
  <2> QED
    BY <2>1, <2>2, <2>3, <2>4 DEF Next, Fail
<1> QED
  BY <1>1, <1>2, StoreTypeCorrect, PTL DEF Spec

\* Nothing the store does afterwards touches the completion of a job.
THEOREM CompletionsAreFinal == Spec => FinishedOnce
<1> DEFINE Final ==
      \A r \in Runners, j \in Jobs :
        rows[r][j].status = "closed" =>
          /\ rows'[r][j].status = "closed"
          /\ rows'[r][j].finished = rows[r][j].finished
          /\ rows'[r][j].ok = rows[r][j].ok
<1>1. TypeOK /\ Accounts /\ [Next]_vars => [Final]_rows
  <2> SUFFICES ASSUME TypeOK, Accounts, [Next]_vars, rows' # rows PROVE Final
    OBVIOUS
  <2>1. Record
    BY DEF Next, Fail, Observe, Restart, vars, tables
  <2> QED
    BY <2>1, RowAfterRecord
<1> QED
  BY <1>1, AccountsInvariant, PTL DEF Spec, FinishedOnce

\* Every second a runner was watched is billed to at most one of its jobs.
THEOREM NothingIsBilledTwice == Spec => IntervalBilledOnce
<1> DEFINE Once ==
      \A r \in Runners, j \in Jobs :
        rows'[r][j].cost # rows[r][j].cost =>
          /\ prevAt # 0
          /\ prevAt' - prevAt <= MaxGap
          /\ rows'[r][j].cost = rows[r][j].cost + (prevAt' - prevAt)
          /\ \A k \in Jobs \ {j} : rows'[r][k].cost = rows[r][k].cost
<1>1. TypeOK /\ Accounts /\ [Next]_vars => [Once]_rows
  <2> SUFFICES ASSUME TypeOK, Accounts, [Next]_vars, rows' # rows,
                      NEW r \in Runners, NEW j \in Jobs,
                      rows'[r][j].cost # rows[r][j].cost
               PROVE  /\ prevAt # 0
                      /\ prevAt' - prevAt <= MaxGap
                      /\ rows'[r][j].cost = rows[r][j].cost + (prevAt' - prevAt)
                      /\ \A k \in Jobs \ {j} : rows'[r][k].cost = rows[r][k].cost
    OBVIOUS
  <2>1. Record
    BY DEF Next, Fail, Observe, Restart, vars, tables
  <2>2. \A k \in Jobs : rows[r][k].cost \in Nat
    BY MaxAtAssumption DEF TypeOK, Row, Instants
  <2>3. \A k \in Jobs : rows'[r][k].cost = rows[r][k].cost
                          + (IF Holds(fleet, r, k) THEN Increment(r) ELSE 0)
    BY <2>1, RowAfterRecord
  <2>4. Holds(fleet, r, j) /\ Increment(r) # 0
    BY <2>2, <2>3
  <2>5. \A k \in Jobs \ {j} : ~Holds(fleet, r, k)
    BY <2>4 DEF Holds
  <2>6. prevAt # 0 /\ clock - prevAt <= MaxGap /\ Increment(r) = clock - prevAt
    BY <2>4 DEF Increment, Dt
  <2>7. prevAt' = clock
    BY <2>1 DEF Record
  <2> QED
    BY <2>2, <2>3, <2>4, <2>5, <2>6, <2>7
<1> QED
  BY <1>1, AccountsInvariant, PTL DEF Spec, IntervalBilledOnce

\* And none of it is dropped for a job that goes on.
THEOREM NothingHeldIsUnbilled == Spec => TimeHeldIsBilled
<1> DEFINE InFull ==
      \A r \in Runners, j \in Jobs :
        Holds(prev, r, j) /\ Holds(prev', r, j) /\ prevAt' - prevAt <= MaxGap =>
          rows'[r][j].cost = rows[r][j].cost + (prevAt' - prevAt)
<1>1. TypeOK /\ Accounts /\ [Next]_vars => [InFull]_<<prev, prevAt>>
  <2> SUFFICES ASSUME TypeOK, Accounts, [Next]_vars, <<prev, prevAt>>' # <<prev, prevAt>>,
                      NEW r \in Runners, NEW j \in Jobs,
                      Holds(prev, r, j), Holds(prev', r, j), prevAt' - prevAt <= MaxGap
               PROVE  rows'[r][j].cost = rows[r][j].cost + (prevAt' - prevAt)
    OBVIOUS
  <2>1. CASE Restart
    BY <2>1, NoJobAssumption DEF Restart, Empty, Gone, Holds
  <2>2. CASE Record
    <3>1. rows'[r][j].cost = rows[r][j].cost + Increment(r)
      BY <2>2, RowAfterRecord DEF Record, Holds
    <3>2. prev[r] # Gone
      BY NoJobAssumption DEF Holds, Gone
    <3>3. prevAt # 0
      BY <3>2 DEF Accounts, Empty
    <3> QED
      BY <2>2, <3>1, <3>2, <3>3 DEF Record, Increment, Dt
  <2> QED
    BY <2>1, <2>2 DEF Next, Fail, Observe, vars
<1> QED
  BY <1>1, AccountsInvariant, PTL DEF Spec, TimeHeldIsBilled

\* A recorded failure never looks better later.
THEOREM FailuresRatchet == Spec => FailuresOnlyWorsen
<1> DEFINE Worse ==
      \A r \in Runners :
        /\ failures[r] = "severe" => failures'[r] = "severe"
        /\ failures[r] = "mild" => failures'[r] # "none"
<1>1. TypeOK /\ [Next]_vars => [Worse]_failures
  <2> SUFFICES ASSUME TypeOK, [Next]_vars, failures' # failures PROVE Worse
    OBVIOUS
  <2>1. Record
    BY DEF Next, Fail, Observe, Restart, vars, tables
  <2>2. \A r \in Runners : failures'[r] = Failure(r)
    BY <2>1 DEF Record
  <2> QED
    BY <2>2 DEF Failure
<1> QED
  BY <1>1, StoreTypeCorrect, PTL DEF Spec, FailuresOnlyWorsen
=============================================================================
