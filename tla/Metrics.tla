------------------------------ MODULE Metrics ------------------------------
(***************************************************************************)
(* internal/metrics/metrics.go: the poller that asks metrics-server for    *)
(* the usage of runner pods, namespace by namespace, under one deadline.   *)
(*                                                                         *)
(* One pod stands for those of its namespace; a reading is the poll it was *)
(* taken in.                                                               *)
(***************************************************************************)
EXTENDS Naturals, FiniteSets, Health

CONSTANTS
  Namespaces,  \* the namespaces that are polled
  Errors,      \* what a request may fail with
  MaxPolls     \* bound on the number of polls

VARIABLES
  cancelled,  \* the context of run()
  at,         \* where the poller is
  poll,       \* number of polls begun
  answer,     \* what each namespace answered this poll
  expired,    \* the poll's deadline has passed
  tracker,    \* health.Tracker, and what it logged aloud
  usage,      \* in the collector: the poll each namespace's reading is of, 0 for none
  verdict     \* in the collector: the metrics source

metricsVars == <<cancelled, at, poll, answer, expired, tracker, usage, verdict>>

TypeOK ==
  /\ cancelled \in BOOLEAN
  /\ at \in {"idle", "listing", "publishing", "stopped"}
  /\ poll \in 0 .. MaxPolls
  /\ answer \in [Namespaces -> {"awaited", "runners", "empty", "aborted"} \cup Errors]
  /\ expired \in BOOLEAN
  /\ tracker \in Trackers(Namespaces \X Errors)
  /\ usage \in [Namespaces -> 0 .. MaxPolls]
  /\ verdict \in Verdicts(Namespaces \X Errors)

Init ==
  /\ cancelled = FALSE
  /\ at = "idle"
  /\ poll = 0
  /\ answer = [n \in Namespaces |-> "empty"]
  /\ expired = FALSE
  /\ tracker = NewTracker
  /\ usage = [n \in Namespaces |-> 0]
  /\ verdict = Unset

With(states) == {n \in Namespaces : answer[n] \in states}

Poll ==
  /\ at = "idle"
  /\ poll < MaxPolls
  /\ at' = "listing"
  /\ poll' = poll + 1
  /\ answer' = [n \in Namespaces |-> "awaited"]
  /\ expired' = FALSE
  /\ UNCHANGED <<cancelled, tracker, usage, verdict>>

Goes(n, to) ==
  /\ answer[n] = "awaited"
  /\ answer' = [answer EXCEPT ![n] = to]
  /\ UNCHANGED <<cancelled, at, poll, expired, tracker, usage, verdict>>

\* metrics-server answers, with a runner's usage or with no runner at all.
Answer(n) ==
  /\ ~expired /\ ~cancelled
  /\ Goes(n, "runners") \/ Goes(n, "empty")

\* It answers with an error, or not before the deadline.
Fail(n) == \E e \in Errors : Goes(n, e)

\* The request's context is done and it was not the deadline.
Abort(n) == cancelled /\ ~expired /\ Goes(n, "aborted")

\* One poll does not outlive its interval.
Deadline == at = "listing" /\ With({"awaited"}) # {}

Expire ==
  /\ Deadline
  /\ ~expired
  /\ expired' = TRUE
  /\ UNCHANGED <<cancelled, at, poll, answer, tracker, usage, verdict>>

Broken == With(Errors \cup {"aborted"})

\* The errors joined, each with its namespace.
Reason ==
  [says |-> "failures", ok |-> Cardinality(Namespaces \ Broken), failed |-> Cardinality(Broken),
   named |-> {<<n, answer[n]>> : n \in Broken}]

AllListed == at = "listing" /\ With({"awaited"}) = {}

\* Bug: a poll that was cut short is a failure like any other.
DiscardedNever == FALSE

\* The parent's context is asked, not the poll's own.
Discarded == cancelled

Drop ==
  /\ AllListed
  /\ Broken # {}
  /\ Discarded
  /\ at' = "idle"
  /\ UNCHANGED <<cancelled, poll, answer, expired, tracker, usage, verdict>>

\* The verdict on a poll that failed somewhere.  What the collector has is kept
\* if nothing at all came back.
ReportFailure ==
  /\ AllListed
  /\ Broken # {}
  /\ ~Discarded
  /\ verdict' = [state |-> "down", reason |-> Reason]
  /\ tracker' = Down(tracker, "unavailable", Reason)
  /\ at' = IF With({"runners"}) = {} THEN "idle" ELSE "publishing"
  /\ UNCHANGED <<cancelled, poll, answer, expired, usage>>

ReportSuccess ==
  /\ AllListed
  /\ Broken = {}
  /\ verdict' = [state |-> "up", reason |-> NoReason]
  /\ tracker' = OK(tracker)
  /\ at' = "publishing"
  /\ UNCHANGED <<cancelled, poll, answer, expired, usage>>

\* The map is replaced, and cleared by a success that saw no runner.
Readings == [n \in Namespaces |-> IF answer[n] = "runners" THEN poll ELSE 0]

\* SetUsage follows SetSource.
Publish ==
  /\ at = "publishing"
  /\ usage' = Readings
  /\ at' = "idle"
  /\ UNCHANGED <<cancelled, poll, answer, expired, tracker, verdict>>

Stop ==
  /\ at = "idle"
  /\ cancelled
  /\ at' = "stopped"
  /\ UNCHANGED <<cancelled, poll, answer, expired, tracker, usage, verdict>>

MetricsNext ==
  \/ Poll \/ Expire \/ Drop \/ ReportFailure \/ ReportSuccess \/ Publish \/ Stop
  \/ \E n \in Namespaces : Answer(n) \/ Fail(n) \/ Abort(n)

---------------------------------------------------------------------------
(* Properties *)

\* At rest a reading that is not of the last poll is shown only while the strip
\* says that polling fails, and only if no newer reading came back with the
\* failure (metrics.go:133-157).
UsageIsFresh ==
  at = "idle" /\ ~cancelled =>
    \/ \A n \in Namespaces : usage[n] \in {0, poll}
    \/ verdict.state = "down" /\ With({"runners"}) = {}

\* metrics-server is not accused of the program's end (metrics.go:126-132).
ServerIsNotFramed ==
  [][verdict' # verdict =>
       verdict'.reason.named \subseteq {<<n, answer[n]>> : n \in With(Errors)}]_metricsVars

\* Until the program is ended, the newest loud line is true of the last poll: it
\* names the namespaces that failed, each with its error (metrics.go:125-153).
NewestLineHolds ==
  at \in {"idle", "publishing"} /\ ~cancelled /\ poll > 0 =>
    LET line == Newest(tracker.log) IN
      IF Failing(line) THEN line.reason.named = {<<n, answer[n]>> : n \in Broken} /\ Broken # {}
      ELSE Broken = {}

\* Each change of outcome is announced once, and the newest line of the log is
\* what the strip says and what metrics-server did (health.go:3-9).
PollNewsIsLoud ==
  /\ EachLineIsNews(tracker.log)
  /\ SaysTheSame(tracker.log, verdict)
  /\ NewestLineHolds
=============================================================================
