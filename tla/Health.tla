------------------------------- MODULE Health -------------------------------
(***************************************************************************)
(* internal/health/health.go: the tracker that has a poller log a new      *)
(* outcome aloud and its repetitions quietly; and the verdicts on a source *)
(* that pollers give the collector.                                        *)
(*                                                                         *)
(* The text of a reason is abstracted to what it tells a reader: whether   *)
(* it is the one about an endpoint that is not configured, how many        *)
(* answered and how many failed, and the failures it names, each with its  *)
(* error.  Two texts are equal if and only if they tell the same.          *)
(***************************************************************************)
EXTENDS Naturals, Sequences

NoReason == [says |-> "nothing", ok |-> 0, failed |-> 0, named |-> {}]

Reasons(Failures) ==
  [says : {"nothing", "disabled", "failures"}, ok : Nat, failed : Nat, named : SUBSET Failures]
Lines(Failures) ==
  [msg : {"available", "recovered", "degraded", "unavailable"}, reason : Reasons(Failures)]
Trackers(Failures) ==
  [state : {"unknown", "up", "down"}, reason : Reasons(Failures), log : Seq(Lines(Failures))]
Verdicts(Failures) ==
  [state : {"unset", "up", "down"}, reason : Reasons(Failures)]

\* No verdict was given yet.
Unset == [state |-> "unset", reason |-> NoReason]

\* A tracker, with the lines it logged at info or warn level.
NewTracker == [state |-> "unknown", reason |-> NoReason, log |-> <<>>]

Line(msg, reason) == [msg |-> msg, reason |-> reason]

\* The first outcome is news, whatever it is, and a recovery is, with the reason
\* of the failure that it ends.
OK(h) ==
  CASE h.state = "up" -> h
    [] h.state = "down" ->
         [state |-> "up", reason |-> NoReason, log |-> Append(h.log, Line("recovered", h.reason))]
    [] h.state = "unknown" ->
         [state |-> "up", reason |-> NoReason, log |-> Append(h.log, Line("available", NoReason))]

\* Bug: while a source is down its reason is not looked at.
DownOnce(h, msg, reason) ==
  IF h.state = "down"
  THEN h
  ELSE [state |-> "down", reason |-> reason, log |-> Append(h.log, Line(msg, reason))]

\* Bug: every failure is news.
DownAloud(h, msg, reason) ==
  [state |-> "down", reason |-> reason, log |-> Append(h.log, Line(msg, reason))]

\* Fail says "unavailable" and Degrade "degraded".  The same reason again is no
\* news, another one is; the words they come with are not compared.
Down(h, msg, reason) ==
  IF h.state = "down" /\ h.reason = reason
  THEN h
  ELSE [state |-> "down", reason |-> reason, log |-> Append(h.log, Line(msg, reason))]

---------------------------------------------------------------------------
(* What a log says *)

Failing(line) == line.msg \in {"degraded", "unavailable"}

Newest(log) == log[Len(log)]

\* Each line is news after the one before it: only the first says that a source
\* is available, a recovery ends the failure it names, and a failure is not the
\* one that was announced last.
EachLineIsNews(log) ==
  \A i \in 1 .. Len(log) :
    /\ log[i].msg = "available" => i = 1
    /\ log[i].msg = "recovered" =>
         i > 1 /\ Failing(log[i - 1]) /\ log[i].reason = log[i - 1].reason
    /\ i > 1 /\ Failing(log[i]) /\ Failing(log[i - 1]) => log[i].reason # log[i - 1].reason

\* The newest line is what the strip says.  A source that works in part is up
\* with a reason to the strip, and degraded in the log.
SaysTheSame(log, verdict) ==
  IF verdict.state = "unset" THEN log = <<>>
  ELSE /\ log # <<>>
       /\ LET line == Newest(log) IN
            CASE verdict.state = "down" -> line = Line("unavailable", verdict.reason)
              [] verdict.state = "up" /\ verdict.reason # NoReason ->
                   line = Line("degraded", verdict.reason)
              [] verdict.state = "up" /\ verdict.reason = NoReason -> ~Failing(line)
=============================================================================
