-------------------------- MODULE RecorderProofs --------------------------
(***************************************************************************)
(* Theorems about Recorder, for any callers and any bound on the instants. *)
(*                                                                         *)
(* Three inductive invariants carry them.  NoLostWakeup is inductive on    *)
(* its own.  Attempts relates the worker's place in its loop to what it    *)
(* last tried, reported and ticked.  Handover says, for serialised         *)
(* callers, that at most one call of enqueue is under way, that it carries *)
(* the newest observation, and that what is tried, claimed and pending are *)
(* each no older than the one before: that is why no write is ever older   *)
(* than the one before it.                                                 *)
(***************************************************************************)
EXTENDS Recorder, TLAPS

Busy(c) == callerPc[c] # "idle"

Handover ==
  /\ \A c, d \in Callers : Busy(c) /\ Busy(d) => c = d
  /\ \A c \in Callers : callerPc[c] = "publish" => held[c] = clock
  /\ tried <= snap
  /\ snap <= clock
  /\ pending # 0 => snap <= pending
  /\ pending <= clock

Attempts ==
  /\ workerPc \in {"report", "broadcast"} => snap = tried
  /\ workerPc \in {"wait", "take", "record", "stopped"} => ticked = tried
  /\ ~cancelled /\ tried # 0 /\ workerPc \in {"wait", "take", "record", "broadcast"} =>
       verdict = IF succeeded THEN "available" ELSE "failing"

\* Every variable keeps the type its Go counterpart has.
THEOREM TypeCorrect == Spec => []TypeOK
<1>1. Init => TypeOK
  <2>1. 0 \in Instants
    BY MaxAtAssumption DEF MaxAtAssumption, Instants
  <2> QED
    BY <2>1 DEF Init, TypeOK
<1>2. TypeOK /\ [Next]_vars => TypeOK'
  <2> SUFFICES ASSUME TypeOK, [Next]_vars
               PROVE  TypeOK'
    OBVIOUS
  <2> USE DEF TypeOK, Instants, slotVars, workerVars, runVars, callerVars
  <2>1. ASSUME NEW c \in Callers, Observe(c)
        PROVE  TypeOK'
    BY <2>1 DEF Observe
  <2>2. ASSUME NEW c \in Callers, Publish(c)
        PROVE  TypeOK'
    BY <2>2 DEF Publish
  <2>3. ASSUME NEW c \in Callers, Signal(c)
        PROVE  TypeOK'
    BY <2>3 DEF Signal
  <2>4. CASE Wake
    BY <2>4 DEF Wake
  <2>5. CASE Halt
    BY <2>5 DEF Halt
  <2>6. CASE Take
    BY <2>6, MaxAtAssumption DEF MaxAtAssumption, Take
  <2>7. CASE Record
    <3>1. Outcomes \subseteq BOOLEAN
      BY DEF Outcomes
    <3>2. succeeded' \in BOOLEAN
      BY <2>7, <3>1 DEF Record
    <3> QED
      BY <2>7, <3>2 DEF Record
  <2>8. CASE Report
    BY <2>8 DEF Report
  <2>9. CASE Broadcast
    BY <2>9 DEF Broadcast
  <2>10. CASE Cancel \/ Expire \/ Close \/ Abort
    BY <2>10 DEF Cancel, Expire, Close, Abort
  <2>11. CASE UNCHANGED vars
    BY <2>11 DEF vars
  <2> QED
    BY <2>1, <2>2, <2>3, <2>4, <2>5, <2>6, <2>7, <2>8, <2>9, <2>10, <2>11 DEF Next, Worker
<1> QED
  BY <1>1, <1>2, PTL DEF Spec

\* However many goroutines call enqueue, a parked snapshot always has a wakeup
\* on the way: the worker cannot sleep on a full slot.
THEOREM NoWakeupIsLost == Spec => []NoLostWakeup
<1>1. Init => NoLostWakeup
  BY DEF Init, NoLostWakeup
<1>2. TypeOK /\ NoLostWakeup /\ [Next]_vars => NoLostWakeup'
  <2> SUFFICES ASSUME TypeOK, NoLostWakeup, [Next]_vars
               PROVE  NoLostWakeup'
    OBVIOUS
  <2> USE DEF TypeOK, NoLostWakeup, slotVars, workerVars, runVars, callerVars
  <2>1. ASSUME NEW c \in Callers, Observe(c)
        PROVE  NoLostWakeup'
    \* The caller was idle, so it is not the one about to signal.
    <3>1. \A d \in Callers : callerPc[d] = "signal" => callerPc'[d] = "signal"
      BY <2>1 DEF Observe
    <3> QED
      BY <2>1, <3>1 DEF Observe
  <2>2. ASSUME NEW c \in Callers, Publish(c)
        PROVE  NoLostWakeup'
    BY <2>2 DEF Publish
  <2>3. ASSUME NEW c \in Callers, Signal(c)
        PROVE  NoLostWakeup'
    BY <2>3 DEF Signal
  <2>4. CASE Worker
    BY <2>4 DEF Worker, Wake, Halt, Take, Record, Report, Broadcast
  <2>5. CASE Cancel \/ Expire \/ Close \/ Abort
    BY <2>5 DEF Cancel, Expire, Close, Abort
  <2>6. CASE UNCHANGED vars
    BY <2>6 DEF vars
  <2> QED
    BY <2>1, <2>2, <2>3, <2>4, <2>5, <2>6 DEF Next
<1> QED
  BY <1>1, <1>2, TypeCorrect, PTL DEF Spec

\* The worker's bookkeeping is inductive: between two writes its last attempt
\* has been ticked and, unless the program is stopping, reported.
LEMMA AttemptsInvariant == Spec => []Attempts
<1>1. Init => Attempts
  BY DEF Init, Attempts
<1>2. TypeOK /\ Attempts /\ [Next]_vars => Attempts'
  <2> SUFFICES ASSUME TypeOK, Attempts, [Next]_vars
               PROVE  Attempts'
    OBVIOUS
  <2> USE DEF TypeOK, Attempts, slotVars, workerVars, runVars, callerVars
  <2>1. ASSUME NEW c \in Callers, Observe(c) \/ Publish(c) \/ Signal(c)
        PROVE  Attempts'
    BY <2>1 DEF Observe, Publish, Signal
  <2>2. CASE Wake \/ Halt \/ Take
    BY <2>2 DEF Wake, Halt, Take
  <2>3. CASE Record
    BY <2>3 DEF Record
  <2>4. CASE Report
    BY <2>4 DEF Report
  <2>5. CASE Broadcast
    BY <2>5 DEF Broadcast
  <2>6. CASE Cancel \/ Expire \/ Close \/ Abort
    BY <2>6 DEF Cancel, Expire, Close, Abort
  <2>7. CASE UNCHANGED vars
    BY <2>7 DEF vars
  <2> QED
    BY <2>1, <2>2, <2>3, <2>4, <2>5, <2>6, <2>7 DEF Next, Worker
<1> QED
  BY <1>1, <1>2, TypeCorrect, PTL DEF Spec

\* Between writes the health strip says what the last write did.
THEOREM VerdictIsTruthful == Spec => []VerdictFollowsTheWrite
<1>1. Attempts => VerdictFollowsTheWrite
  BY DEF Attempts, VerdictFollowsTheWrite
<1> QED
  BY <1>1, AttemptsInvariant, PTL

\* No browser is ticked before the write it is told about was attempted, and
\* none is left without the tick of a finished write.
THEOREM TicksFollowWrites == Spec => []TickFollowsTheWrite
<1>1. Attempts => TickFollowsTheWrite
  BY DEF Attempts, TickFollowsTheWrite
<1> QED
  BY <1>1, AttemptsInvariant, PTL

\* The database is closed under a running worker only past the deadline, or
\* with no shutdown at all, when the server failed.
THEOREM StoreOutlivesWorker == Spec => []ClosedAfterTheWorker
<1>1. Init => ClosedAfterTheWorker
  BY DEF Init, ClosedAfterTheWorker
<1>2. ClosedAfterTheWorker /\ [Next]_vars => ClosedAfterTheWorker'
  BY DEF ClosedAfterTheWorker, Next, vars, slotVars, workerVars, runVars, callerVars, Worker,
         Observe, Publish, Signal, Wake, Halt, Take, Record, Report, Broadcast,
         Cancel, Expire, Close, Abort
<1> QED
  BY <1>1, <1>2, PTL DEF Spec

\* Serialised callers hand snapshots over oldest first, and each stage of the
\* handover holds one no older than the stage after it.
LEMMA HandoverInvariant == ASSUME Serialised PROVE Spec => []Handover
<1>1. Init => Handover
  BY DEF Init, Handover, Busy
<1>2. TypeOK /\ Handover /\ [Next]_vars => Handover'
  <2> SUFFICES ASSUME TypeOK, Handover, [Next]_vars
               PROVE  Handover'
    OBVIOUS
  <2> USE Serialised
      DEF TypeOK, Handover, Busy, Instants, slotVars, workerVars, runVars, callerVars
  <2>1. ASSUME NEW c \in Callers, Observe(c)
        PROVE  Handover'
    <3>1. \A d \in Callers \ {c} : ~Busy(d) /\ ~(Busy(d))'
      BY <2>1 DEF Observe
    <3>2. clock <= clock' /\ held'[c] = clock'
      BY <2>1 DEF Observe
    <3> QED
      BY <2>1, <3>1, <3>2 DEF Observe
  <2>2. ASSUME NEW c \in Callers, Publish(c)
        PROVE  Handover'
    <3>1. pending' \in {pending, clock} /\ (pending = 0 => pending' = clock)
      BY <2>2 DEF Publish
    <3>2. \A d \in Callers : callerPc'[d] = "publish" => callerPc[d] = "publish"
      BY <2>2 DEF Publish
    <3>3. \A d \in Callers : callerPc'[d] # "idle" => callerPc[d] # "idle"
      BY <2>2 DEF Publish
    <3> QED
      BY <2>2, <3>1, <3>2, <3>3 DEF Publish
  <2>3. ASSUME NEW c \in Callers, Signal(c)
        PROVE  Handover'
    BY <2>3 DEF Signal
  <2>4. CASE Take
    BY <2>4 DEF Take
  <2>5. CASE Record
    BY <2>5 DEF Record
  <2>6. CASE Wake \/ Halt \/ Report \/ Broadcast \/ Cancel \/ Expire \/ Close \/ Abort
    BY <2>6 DEF Wake, Halt, Report, Broadcast, Cancel, Expire, Close, Abort
  <2>7. CASE UNCHANGED vars
    BY <2>7 DEF vars
  <2> QED
    BY <2>1, <2>2, <2>3, <2>4, <2>5, <2>6, <2>7 DEF Next, Worker
<1> QED
  BY <1>1, <1>2, TypeCorrect, PTL DEF Spec

\* With the callers the program has, no snapshot is written after a newer one.
THEOREM WritesInOrder == ASSUME Serialised PROVE Spec => RecordedInOrder
<1>1. TypeOK /\ Handover /\ [Next]_vars => [tried' >= tried]_tried
  <2> SUFFICES ASSUME TypeOK, Handover, Next
               PROVE  tried' >= tried
    BY DEF vars, workerVars, TypeOK, Instants
  <2>1. CASE Record
    BY <2>1 DEF Record, Handover, TypeOK, Instants
  <2>2. CASE ~Record
    <3>1. tried' = tried
      BY <2>2 DEF Next, Worker, slotVars, workerVars, runVars, callerVars, Observe, Publish,
         Signal, Wake, Halt, Take, Report, Broadcast, Cancel, Expire, Close, Abort
    <3> QED
      BY <3>1 DEF TypeOK, Instants
  <2> QED
    BY <2>1, <2>2
<1> QED
  BY <1>1, TypeCorrect, HandoverInvariant, PTL DEF Spec, RecordedInOrder

\* Every behaviour of the recorder is one NewestWins allows, seen through
\* handedOver: its initial state is NewestWins' and each of its steps is an
\* observation, a write, a stop or invisible.  (That the history also catches
\* up, the fairness of NewestWins, is checked with TLC.)
THEOREM RecorderKeepsNewestWins ==
  ASSUME Serialised
  PROVE  Spec => History!Init /\ [][History!Next]_(History!vars)
<1>1. Init => History!Init
  BY DEF Init, History!Init, handedOver
<1>2. TypeOK /\ Handover /\ [Next]_vars => [History!Next]_(History!vars)
  <2> SUFFICES ASSUME TypeOK, Handover, [Next]_vars
               PROVE  History!Next \/ UNCHANGED History!vars
    OBVIOUS
  <2> USE DEF TypeOK, Instants, handedOver, slotVars, workerVars, runVars, callerVars
  <2>1. ASSUME NEW c \in Callers, Publish(c)
        PROVE  History!Next \/ UNCHANGED History!vars
    <3>1. held[c] = clock
      BY <2>1 DEF Publish, Handover
    <3>2. handedOver' >= handedOver /\ handedOver' \in Nat
      BY <2>1, <3>1 DEF Publish, Handover
    <3>3. UNCHANGED <<tried, workerPc>>
      BY <2>1 DEF Publish
    <3>4. CASE handedOver' = handedOver
      BY <3>3, <3>4 DEF History!vars
    <3>5. CASE handedOver' > handedOver
      BY <3>2, <3>3, <3>5 DEF History!Next, History!Observe
    <3> QED
      BY <3>2, <3>4, <3>5
  <2>2. CASE Take
    <3>1. handedOver' = handedOver
      BY <2>2 DEF Take
    <3>2. UNCHANGED tried /\ workerPc # "stopped" /\ workerPc' # "stopped"
      BY <2>2 DEF Take
    <3> QED
      BY <3>1, <3>2 DEF History!vars
  <2>3. CASE Record
    <3>1. UNCHANGED handedOver /\ workerPc # "stopped" /\ workerPc' # "stopped"
      BY <2>3 DEF Record
    <3>2. tried' \in tried .. handedOver
      BY <2>3 DEF Record, Handover
    <3> QED
      BY <3>1, <3>2 DEF History!Next, History!Write
  <2>4. CASE Halt
    BY <2>4 DEF Halt, History!Next, History!Stop
  <2>5. CASE \/ \E c \in Callers : Observe(c) \/ Signal(c)
             \/ Wake \/ Report \/ Broadcast \/ Cancel \/ Expire \/ Close \/ Abort
             \/ UNCHANGED vars
    BY <2>5 DEF Observe, Signal, Wake, Report, Broadcast, Cancel, Expire, Close, Abort, vars,
                History!vars
  <2> QED
    BY <2>1, <2>2, <2>3, <2>4, <2>5 DEF Next, Worker
<1> QED
  BY <1>1, <1>2, TypeCorrect, HandoverInvariant, PTL DEF Spec
=============================================================================
