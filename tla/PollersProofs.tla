--------------------------- MODULE PollersProofs ---------------------------
(***************************************************************************)
(* Theorems about the two pollers, for any listeners and namespaces, any   *)
(* number of slots, ticks and polls.                                       *)
(*                                                                         *)
(* Both pollers publish in two steps, and what each shows between and      *)
(* after them follows from what became of its requests: the invariants     *)
(* below say how, for as long as the program was not told to end.          *)
(***************************************************************************)
EXTENDS Pollers, FiniteSetTheorems, SequenceTheorems, TLAPS

\* A request was cut short only if the program is ending, and requests are under
\* way only while the tick, which has something to ask, waits for them.
RequestsMatch ==
  /\ scraper # "scraping" => L!With({"queued", "open"}) = {}
  /\ scraper = "reporting" \/ ~cancelled => L!With({"aborted"}) = {}
  /\ scraper = "scraping" => tick > 0 /\ L!With({"none"}) # Listeners

\* What the collector holds of the queue is the last tick's, or the one's before
\* while a tick is under way.
DepthMatches ==
  ~cancelled =>
    /\ scraper # "stopped"
    /\ scraper = "idle" =>
         /\ known <=> listenerVerdict.state = "up"
         /\ known => /\ L!Shown = L!Answered \X {tick}
                     /\ listenerVerdict.reason.failed = Cardinality(L!Failed)
    /\ scraper = "reporting" =>
         /\ known <=> L!Answered # {}
         /\ known => L!Shown = L!Answered \X {tick}
    /\ scraper = "scraping" /\ known => \A r \in L!Shown : r[2] = tick - 1

\* What a tracker logged aloud and what it remembers are the same story.
LogFits(h) ==
  /\ h.state = "unknown" <=> h.log = <<>>
  /\ h.state = "up" => h.reason = L!NoReason /\ ~L!Failing(L!Newest(h.log))
  /\ h.state = "down" => L!Failing(L!Newest(h.log)) /\ L!Newest(h.log).reason = h.reason
  /\ L!EachLineIsNews(h.log)

ScrapeLogFits == LogFits(scrapeTracker)
PollLogFits == LogFits(pollTracker)

\* What the strip says, or is about to say.
Pending == IF scraper = "reporting" THEN L!Outcome ELSE listenerVerdict

\* The log is a step ahead of the strip while a tick is reported.  That only
\* reasons are compared does no harm: the one of a source that works in part
\* counts somebody who answered, and no other does.
ScrapeTrackerMatches ==
  /\ ScrapeLogFits
  /\ scrapeTracker.state = "down" =>
       (L!Newest(scrapeTracker.log).msg = "degraded" <=> scrapeTracker.reason.ok > 0)
  /\ L!SaysTheSame(scrapeTracker.log, Pending)
  /\ scraper = "idle" /\ ~cancelled /\ tick > 0 => listenerVerdict = L!Outcome

AnswersMatch ==
  /\ poller # "listing" => M!With({"awaited"}) = {}
  /\ ~cancelled => M!With({"aborted"}) = {}

PollTrackerMatches ==
  /\ PollLogFits
  /\ pollTracker.state = "down" => L!Newest(pollTracker.log).msg = "unavailable"
  /\ L!SaysTheSame(pollTracker.log, metricsVerdict)
  /\ poller \in {"idle", "publishing"} /\ ~cancelled /\ poll > 0 =>
       metricsVerdict =
         IF M!Broken = {} THEN [state |-> "up", reason |-> M!NoReason]
         ELSE [state |-> "down", reason |-> M!Reason]

\* A step is one of the scraper, which leaves the poller alone, one of the
\* poller, which leaves the scraper alone, or the end of the program.
LEMMA Steps ==
  ASSUME [Next]_vars
  PROVE  \/ L!ListenerNext /\ UNCHANGED <<cancelled, metricsOnly>>
         \/ M!MetricsNext /\ UNCHANGED <<cancelled, listenerOnly>>
         \/ cancelled' = TRUE /\ UNCHANGED <<listenerOnly, metricsOnly>>
         \/ UNCHANGED <<cancelled, listenerOnly, metricsOnly>>
<1>1. L!ListenerNext => UNCHANGED cancelled
  BY DEF L!ListenerNext, L!TickDisabled, L!Tick, L!Drop, L!PublishNothing, L!Publish, L!Report,
         L!Stop, L!Open, L!Answer, L!Fail, L!Abort, L!Goes, L!PodMoves
<1>2. M!MetricsNext => UNCHANGED cancelled
  BY DEF M!MetricsNext, M!Poll, M!Expire, M!Drop, M!ReportFailure, M!ReportSuccess, M!Publish,
         M!Stop, M!Answer, M!Fail, M!Abort, M!Goes
<1> QED
  BY <1>1, <1>2 DEF Next, Cancel, Scrape, PollServer, Alone, vars

\* Each module counts with a Cardinality of its own.
LEMMA OneCardinality ==
  ASSUME NEW S
  PROVE  L!Cardinality(S) = Cardinality(S) /\ M!Cardinality(S) = Cardinality(S)
BY DEF L!Cardinality, M!Cardinality, Cardinality

---------------------------------------------------------------------------
(* The tracker *)

\* Lines are added to a log, none is changed.
LEMMA LogGrows ==
  ASSUME NEW Failures, NEW log \in Seq(L!Lines(Failures)), NEW line \in L!Lines(Failures)
  PROVE  /\ Append(log, line) \in Seq(L!Lines(Failures))
         /\ Append(log, line) # <<>>
         /\ L!Newest(Append(log, line)) = line
         /\ Len(Append(log, line)) = Len(log) + 1
         /\ \A i \in 1 .. Len(log) : Append(log, line)[i] = log[i]
  BY DEF L!Newest

\* A line that is news after the newest one keeps every line news.
LEMMA NewsIsAdded ==
  ASSUME NEW Failures, NEW log \in Seq(L!Lines(Failures)), NEW line \in L!Lines(Failures),
         L!EachLineIsNews(log),
         line.msg = "available" => log = <<>>,
         line.msg = "recovered" =>
           log # <<>> /\ L!Failing(L!Newest(log)) /\ line.reason = L!Newest(log).reason,
         log # <<>> /\ L!Failing(line) /\ L!Failing(L!Newest(log)) =>
           line.reason # L!Newest(log).reason
  PROVE  L!EachLineIsNews(Append(log, line))
<1> DEFINE new == Append(log, line)
<1>1. /\ Len(log) \in Nat /\ Len(new) = Len(log) + 1
      /\ \A i \in 1 .. Len(log) : new[i] = log[i]
      /\ new[Len(log) + 1] = line
      /\ log = <<>> <=> Len(log) = 0
  OBVIOUS
<1> HIDE DEF new
<1> SUFFICES ASSUME NEW i \in 1 .. Len(log) + 1
             PROVE  /\ new[i].msg = "available" => i = 1
                    /\ new[i].msg = "recovered" =>
                         i > 1 /\ L!Failing(new[i - 1]) /\ new[i].reason = new[i - 1].reason
                    /\ i > 1 /\ L!Failing(new[i]) /\ L!Failing(new[i - 1]) =>
                         new[i].reason # new[i - 1].reason
  BY <1>1 DEF L!EachLineIsNews, new
<1>2. CASE i \in 1 .. Len(log)
  <2>1. new[i] = log[i] /\ (i > 1 => new[i - 1] = log[i - 1])
    BY <1>1, <1>2
  <2> QED
    BY <1>2, <2>1 DEF L!EachLineIsNews
<1>3. CASE i = Len(log) + 1
  <2>1. new[i] = line /\ (i > 1 => new[i - 1] = L!Newest(log))
    BY <1>1, <1>3 DEF L!Newest
  <2> QED
    BY <1>1, <1>3, <2>1
<1> QED
  BY <1>1, <1>2, <1>3

\* A success.
LEMMA OKFits ==
  ASSUME NEW Failures, NEW h \in L!Trackers(Failures), LogFits(h)
  PROVE  /\ L!OK(h) \in L!Trackers(Failures)
         /\ LogFits(L!OK(h))
         /\ L!OK(h).state = "up"
<1>1. /\ h.log \in Seq(L!Lines(Failures)) /\ h.reason \in L!Reasons(Failures)
      /\ h.state \in {"unknown", "up", "down"}
      /\ L!NoReason \in L!Reasons(Failures)
  BY DEF L!Trackers, L!NoReason, L!Reasons
<1>2. CASE h.state = "up"
  BY <1>2 DEF L!OK
<1>3. ASSUME h.state # "up" PROVE
      LET line == IF h.state = "down" THEN L!Line("recovered", h.reason)
                                      ELSE L!Line("available", L!NoReason)
      IN  /\ line \in L!Lines(Failures) /\ ~L!Failing(line)
          /\ L!OK(h) = [state |-> "up", reason |-> L!NoReason, log |-> Append(h.log, line)]
          /\ L!EachLineIsNews(Append(h.log, line))
  <2> DEFINE line == IF h.state = "down" THEN L!Line("recovered", h.reason)
                                         ELSE L!Line("available", L!NoReason)
  <2>1. line \in L!Lines(Failures) /\ ~L!Failing(line)
    BY <1>1 DEF L!Lines, L!Line, L!Failing
  <2>2. L!OK(h) = [state |-> "up", reason |-> L!NoReason, log |-> Append(h.log, line)]
    BY <1>1, <1>3 DEF L!OK
  <2>3. /\ line.msg = "available" => h.log = <<>>
        /\ line.msg = "recovered" =>
             h.log # <<>> /\ L!Failing(L!Newest(h.log)) /\ line.reason = L!Newest(h.log).reason
    BY <1>1, <1>3 DEF LogFits, L!Line
  <2> HIDE DEF line
  <2>4. L!EachLineIsNews(Append(h.log, line))
    BY <1>1, <2>1, <2>3, NewsIsAdded DEF LogFits
  <2> QED
    BY <2>1, <2>2, <2>4 DEF line
<1>4. CASE h.state # "up"
  <2> DEFINE line == IF h.state = "down" THEN L!Line("recovered", h.reason)
                                         ELSE L!Line("available", L!NoReason)
  <2> HIDE DEF line
  <2>1. /\ line \in L!Lines(Failures) /\ ~L!Failing(line)
        /\ L!OK(h) = [state |-> "up", reason |-> L!NoReason, log |-> Append(h.log, line)]
        /\ L!EachLineIsNews(Append(h.log, line))
    BY <1>3, <1>4 DEF line
  <2>2. /\ Append(h.log, line) \in Seq(L!Lines(Failures)) /\ Append(h.log, line) # <<>>
        /\ L!Newest(Append(h.log, line)) = line
    BY <1>1, <2>1, LogGrows
  <2> QED
    BY <1>1, <2>1, <2>2 DEF LogFits, L!Trackers
<1> QED
  BY <1>2, <1>4

\* A failure, which is told again only with another reason.
LEMMA DownFits ==
  ASSUME NEW Failures, NEW h \in L!Trackers(Failures), LogFits(h),
         NEW msg \in {"degraded", "unavailable"}, NEW reason \in L!Reasons(Failures)
  PROVE  LET new == L!Down(h, msg, reason)
         IN  /\ new \in L!Trackers(Failures)
             /\ LogFits(new)
             /\ new.state = "down" /\ new.reason = reason
             /\ L!Newest(new.log) =
                  IF h.state = "down" /\ h.reason = reason THEN L!Newest(h.log)
                  ELSE L!Line(msg, reason)
<1>1. CASE h.state = "down" /\ h.reason = reason
  BY <1>1 DEF L!Down
<1>2. CASE ~(h.state = "down" /\ h.reason = reason)
  <2> DEFINE line == L!Line(msg, reason)
             log == Append(h.log, line)
  <2>1. /\ h.log \in Seq(L!Lines(Failures)) /\ h.state \in {"unknown", "up", "down"}
        /\ line \in L!Lines(Failures) /\ L!Failing(line)
        /\ line.msg = msg /\ line.reason = reason
    BY DEF L!Trackers, L!Lines, L!Line, L!Failing
  <2>2. L!Down(h, msg, reason) = [state |-> "down", reason |-> reason, log |-> log]
    BY <1>2 DEF L!Down
  <2>3. h.log # <<>> /\ L!Failing(L!Newest(h.log)) => reason # L!Newest(h.log).reason
    BY <1>2, <2>1 DEF LogFits
  <2> HIDE DEF line
  <2>4. log \in Seq(L!Lines(Failures)) /\ log # <<>> /\ L!Newest(log) = line
    BY <2>1, LogGrows
  <2>5. L!EachLineIsNews(log)
    BY <2>1, <2>3, NewsIsAdded DEF LogFits
  <2> HIDE DEF log
  <2>6. L!Down(h, msg, reason) \in L!Trackers(Failures)
    BY <2>2, <2>4 DEF L!Trackers
  <2>7. LogFits(L!Down(h, msg, reason))
    BY <2>1, <2>2, <2>4, <2>5 DEF LogFits
  <2> QED
    BY <1>2, <2>2, <2>4, <2>6, <2>7 DEF line
<1> QED
  BY <1>1, <1>2

\* A new tracker has nothing to tell.
LEMMA NewFits ==
  ASSUME NEW Failures
  PROVE  L!NewTracker \in L!Trackers(Failures) /\ LogFits(L!NewTracker)
  BY DEF L!NewTracker, L!Trackers, L!Reasons, L!NoReason, LogFits, L!EachLineIsNews

\* Both pollers have trackers of one kind.
LEMMA OneHealth ==
  /\ M!NoReason = L!NoReason /\ M!Unset = L!Unset /\ M!NewTracker = L!NewTracker
  /\ \A F : M!Reasons(F) = L!Reasons(F) /\ M!Trackers(F) = L!Trackers(F)
             /\ M!Verdicts(F) = L!Verdicts(F)
  /\ \A h : M!OK(h) = L!OK(h)
  /\ \A h, msg, reason : M!Down(h, msg, reason) = L!Down(h, msg, reason)
  /\ \A log : M!EachLineIsNews(log) <=> L!EachLineIsNews(log)
  /\ \A log, v : M!SaysTheSame(log, v) <=> L!SaysTheSame(log, v)
  /\ \A log : M!Newest(log) = L!Newest(log)
  /\ \A line : M!Failing(line) <=> L!Failing(line)
  BY DEF M!NoReason, L!NoReason, M!Unset, L!Unset, M!NewTracker, L!NewTracker, M!Reasons, L!Reasons,
         M!Lines, L!Lines, M!Trackers, L!Trackers, M!Verdicts, L!Verdicts, M!Line, L!Line, M!OK, L!OK,
         M!Down, L!Down, M!EachLineIsNews, L!EachLineIsNews, M!SaysTheSame, L!SaysTheSame,
         M!Newest, L!Newest, M!Failing, L!Failing

---------------------------------------------------------------------------
(* The scraper *)

\* What the collector would be told of a depth: the readings of everybody who
\* answered, each set its own.
LEMMA ShownIsAnswered ==
  ASSUME NEW A \in SUBSET Listeners
  PROVE  LET d == L!QueueDepth(A)
         IN  /\ UNION {d[n] : n \in DOMAIN d} = A \X {tick}
             /\ DOMAIN d \subseteq SetNames
             /\ \A n \in DOMAIN d : d[n] \subseteq A \X {tick}
<1> DEFINE d == L!QueueDepth(A)
<1>1. /\ DOMAIN d = {SetOf[l] : l \in A}
      /\ \A n \in DOMAIN d : d[n] = {l \in A : SetOf[l] = n} \X {tick}
  BY DEF L!QueueDepth, L!Folded
<1>2. \A l \in A : SetOf[l] \in SetNames
  BY SetOfAssumption DEF SetOfAssumption
<1> HIDE DEF d
<1>3. DOMAIN d \subseteq SetNames
  BY <1>1, <1>2
<1>4. \A n \in DOMAIN d : d[n] \subseteq A \X {tick}
  BY <1>1
<1>5. ASSUME NEW r \in A \X {tick}
      PROVE  \E n \in DOMAIN d : r \in d[n]
  <2>1. PICK l \in A : r = <<l, tick>>
    OBVIOUS
  <2>2. SetOf[l] \in DOMAIN d /\ r \in d[SetOf[l]]
    BY <1>1, <2>1
  <2> QED
    BY <2>2
<1>6. UNION {d[n] : n \in DOMAIN d} = A \X {tick}
  BY <1>4, <1>5
<1> QED
  BY <1>3, <1>4, <1>6 DEF d

\* An empty depth shows nothing.
LEMMA NothingIsShown == L!NoDepth = [n \in {} |-> {}] /\ DOMAIN L!NoDepth = {}
  BY DEF L!NoDepth

\* What a reason says is what one may say, unless the program is ending.
LEMMA ReasonTypes ==
  ASSUME L!TypeOK, L!With({"aborted"}) = {}
  PROVE  /\ L!FailureReason \in L!Reasons(Listeners \X Errors)
         /\ L!DisabledReason \in L!Reasons(Listeners \X Errors)
         /\ L!With({"queued", "open"}) = {} => L!Outcome \in L!Verdicts(Listeners \X Errors)
<1>1. IsFiniteSet(L!Answered) /\ IsFiniteSet(L!Failed)
  BY ListenersAssumption, FS_Subset DEF ListenersAssumption, L!Answered, L!Failed, L!With
<1>2. Cardinality(L!Answered) \in Nat /\ Cardinality(L!Failed) \in Nat
  BY <1>1, FS_CardinalityType
<1>3. \A l \in L!Failed : l \in Listeners /\ request[l] \in Errors
  BY DEF L!Failed, L!With
<1>4. {<<l, request[l]>> : l \in L!Named} \in SUBSET (Listeners \X Errors)
  <2>1. \A l \in L!Named : <<l, request[l]>> \in Listeners \X Errors
    BY <1>3 DEF L!Named
  <2> QED
    BY <2>1
<1>5. L!FailureReason \in L!Reasons(Listeners \X Errors)
  BY <1>2, <1>4, OneCardinality DEF L!FailureReason, L!Reasons
<1>6. /\ L!NoReason \in L!Reasons(Listeners \X Errors)
      /\ L!DisabledReason \in L!Reasons(Listeners \X Errors)
  BY DEF L!NoReason, L!DisabledReason, L!Reasons
<1>7. ASSUME L!With({"queued", "open"}) = {}
      PROVE  L!Outcome \in L!Verdicts(Listeners \X Errors)
  <2>1. L!Targets = L!Answered \cup L!Failed
    BY <1>7 DEF L!Targets
  <2>2. \/ L!Outcome = [state |-> "down", reason |-> L!DisabledReason]
        \/ L!Outcome = [state |-> "down", reason |-> L!FailureReason]
        \/ L!Outcome = [state |-> "up", reason |-> L!FailureReason]
        \/ L!Outcome = [state |-> "up", reason |-> L!NoReason]
    BY <2>1 DEF L!Outcome
  <2> QED
    BY <1>5, <1>6, <2>2 DEF L!Verdicts
<1> QED
  BY <1>5, <1>6, <1>7

\* A tick that has something to ask has targets.
LEMMA TargetsAreAsked ==
  ASSUME L!TypeOK, L!With({"none"}) # Listeners
  PROVE  L!Targets # {}
BY DEF L!TypeOK, L!Targets, L!Answered, L!Failed, L!With

\* What the scraper keeps is of its type, and its requests are where it is.
LEMMA ScraperTypeInvariant ==
  Spec => [](L!TypeOK /\ RequestsMatch /\ ScrapeLogFits)
<1>1. Init => L!TypeOK /\ RequestsMatch /\ ScrapeLogFits
  <2> SUFFICES ASSUME L!Init PROVE L!TypeOK /\ RequestsMatch /\ ScrapeLogFits
    BY DEF Init
  <2> USE DEF L!Init
  <2>1. scrapeTracker \in L!Trackers(Listeners \X Errors) /\ ScrapeLogFits
    BY NewFits DEF ScrapeLogFits
  <2>2. listenerVerdict \in L!Verdicts(Listeners \X Errors)
    BY DEF L!Unset, L!NoReason, L!Verdicts, L!Reasons
  <2>3. request \in [Listeners -> {"none", "queued", "open", "answered", "aborted"} \cup Errors]
    OBVIOUS
  <2>4. tick \in 0 .. MaxTicks
    BY BoundsAssumption DEF BoundsAssumption
  <2>5. L!TypeOK
    BY <2>1, <2>2, <2>3, <2>4, NothingIsShown DEF L!TypeOK
  <2> QED
    BY <2>1, <2>5, ErrorsAssumption DEF RequestsMatch, L!With, ErrorsAssumption
<1>2. L!TypeOK /\ RequestsMatch /\ ScrapeLogFits /\ [Next]_vars =>
        L!TypeOK' /\ RequestsMatch' /\ ScrapeLogFits'
  <2> SUFFICES ASSUME L!TypeOK, RequestsMatch, ScrapeLogFits, [Next]_vars
               PROVE  L!TypeOK' /\ RequestsMatch' /\ ScrapeLogFits'
    OBVIOUS
  <2> USE BoundsAssumption, ErrorsAssumption DEF BoundsAssumption, ErrorsAssumption
  <2>0. /\ L!Answered \subseteq Listeners
        /\ tick \in Nat /\ tick <= MaxTicks
        /\ scrapeTracker \in L!Trackers(Listeners \X Errors)
    BY DEF L!Answered, L!With, L!TypeOK
  <2>1. CASE L!TickDisabled
    <3>1. L!DisabledReason \in L!Reasons(Listeners \X Errors)
      BY DEF L!DisabledReason, L!NoReason, L!Reasons
    <3>2. scrapeTracker' \in L!Trackers(Listeners \X Errors) /\ ScrapeLogFits'
      BY <2>0, <2>1, <3>1, DownFits DEF ScrapeLogFits, L!TickDisabled
    <3>3. tick' \in 0 .. MaxTicks /\ tick' > 0
      BY <2>0, <2>1 DEF L!TickDisabled
    <3>4. request' \in [Listeners -> {"none", "queued", "open", "answered", "aborted"} \cup Errors]
      BY <2>1 DEF L!TickDisabled
    <3>5. L!TypeOK'
      BY <2>1, <3>2, <3>3, <3>4, NothingIsShown DEF L!TickDisabled, L!TypeOK
    <3> QED
      BY <2>1, <3>2, <3>3, <3>5 DEF L!TickDisabled, RequestsMatch, L!With
  <2>2. CASE L!Tick
    <3>1. PICK l \in Listeners : l \in L!ListenerTargets
      BY <2>2 DEF L!Tick, L!ListenerTargets, L!TypeOK
    <3>2. request'[l] = "queued"
      BY <2>2, <3>1 DEF L!Tick
    <3>3. tick' \in 0 .. MaxTicks /\ tick' > 0
      BY <2>0, <2>2 DEF L!Tick
    <3>4. request' \in [Listeners -> {"none", "queued", "open", "answered", "aborted"} \cup Errors]
      BY <2>2 DEF L!Tick
    <3>5. L!TypeOK' /\ ScrapeLogFits'
      BY <2>2, <3>3, <3>4 DEF ScrapeLogFits, L!Tick, L!TypeOK, L!sink
    <3>6. \A k \in Listeners : request'[k] # "aborted"
      BY <2>2 DEF L!Tick
    <3> QED
      BY <2>2, <3>2, <3>3, <3>5, <3>6 DEF L!Tick, L!sink, RequestsMatch, L!With
  <2>3. CASE L!Drop
    BY <2>3 DEF ScrapeLogFits, L!Drop, L!AllIn, L!Discarded, L!TypeOK, L!sink, RequestsMatch, L!With
  <2>4. CASE L!PublishNothing
    <3>1. L!FailureReason \in L!Reasons(Listeners \X Errors)
      BY <2>4, ReasonTypes DEF L!PublishNothing, L!Discarded, RequestsMatch
    <3>2. scrapeTracker' \in L!Trackers(Listeners \X Errors) /\ ScrapeLogFits'
      BY <2>0, <2>4, <3>1, DownFits DEF ScrapeLogFits, L!PublishNothing
    <3> QED
      BY <2>4, <3>2, NothingIsShown
         DEF L!PublishNothing, L!AllIn, L!Discarded, L!TypeOK, RequestsMatch, L!With
  <2>5. CASE L!Publish
    <3>1. L!FailureReason \in L!Reasons(Listeners \X Errors)
      BY <2>5, ReasonTypes DEF L!Publish, L!Discarded, RequestsMatch
    <3>2. scrapeTracker' \in L!Trackers(Listeners \X Errors) /\ ScrapeLogFits'
      BY <2>0, <2>5, <3>1, DownFits, OKFits DEF ScrapeLogFits, L!Publish
    <3> QED
      BY <2>0, <2>5, <3>2, ShownIsAnswered
         DEF L!Publish, L!AllIn, L!Discarded, L!TypeOK, RequestsMatch, L!With
  <2>6. CASE L!Report
    <3>1. L!Outcome \in L!Verdicts(Listeners \X Errors)
      BY <2>6, ReasonTypes DEF L!Report, RequestsMatch
    <3> QED
      BY <2>6, <3>1 DEF ScrapeLogFits, L!Report, L!TypeOK, RequestsMatch, L!With
  <2>7. CASE L!Stop
    BY <2>7 DEF ScrapeLogFits, L!Stop, L!TypeOK, L!sink, RequestsMatch, L!With
  <2>8. ASSUME NEW l \in Listeners, L!Open(l) \/ L!Answer(l) \/ L!Fail(l) \/ L!Abort(l)
        PROVE  L!TypeOK' /\ RequestsMatch' /\ ScrapeLogFits'
    BY <2>8 DEF ScrapeLogFits, L!Open, L!Answer, L!Fail, L!Abort, L!Goes, L!TypeOK, L!sink, RequestsMatch, L!With
  <2>9. ASSUME NEW l \in Listeners, L!PodMoves(l)
         PROVE  L!TypeOK' /\ RequestsMatch' /\ ScrapeLogFits'
    BY <2>9 DEF ScrapeLogFits, L!PodMoves, L!TypeOK, L!sink, RequestsMatch, L!With
  <2>10. CASE UNCHANGED listenerOnly /\ (UNCHANGED cancelled \/ cancelled' = TRUE)
    BY <2>10 DEF ScrapeLogFits, listenerOnly, L!TypeOK, RequestsMatch, L!With
  <2> QED
    BY <2>1, <2>2, <2>3, <2>4, <2>5, <2>6, <2>7, <2>8, <2>9, <2>10, Steps DEF L!ListenerNext
<1> QED
  BY <1>1, <1>2, PTL DEF Spec

\* A verdict is down only when nobody answered; only one that is up in part, or
\* down, has a reason, and it counts who answered.
LEMMA OutcomeSays ==
  ASSUME L!TypeOK, L!With({"queued", "open"}) = {}
  PROVE  /\ L!Outcome.state = "down" <=> L!Answered = {}
         /\ L!Outcome.state = "up" <=> L!Answered # {}
         /\ L!Outcome.reason = L!NoReason <=> L!Answered # {} /\ L!Failed = {}
         /\ L!Outcome.reason.failed = Cardinality(L!Failed)
         /\ L!Outcome.reason.ok > 0 => L!Answered # {}
         /\ L!FailureReason.ok > 0 <=> L!Answered # {}
<1>1. L!Targets = L!Answered \cup L!Failed
  BY DEF L!Targets
<1>2. /\ Cardinality(L!Answered) \in Nat
      /\ Cardinality(L!Answered) = 0 <=> L!Answered = {}
      /\ L!Failed = {} => Cardinality(L!Failed) = 0
  <2>1. IsFiniteSet(L!Answered) /\ IsFiniteSet(L!Failed)
    BY ListenersAssumption, FS_Subset DEF ListenersAssumption, L!Answered, L!Failed, L!With
  <2> QED
    BY <2>1, FS_CardinalityType, FS_EmptySet
<1>3. /\ L!FailureReason # L!NoReason /\ L!DisabledReason # L!NoReason
      /\ L!FailureReason.ok = Cardinality(L!Answered)
      /\ L!FailureReason.failed = Cardinality(L!Failed)
      /\ L!DisabledReason.ok = 0 /\ L!DisabledReason.failed = 0
      /\ L!NoReason.ok = 0 /\ L!NoReason.failed = 0
  BY OneCardinality DEF L!FailureReason, L!NoReason, L!DisabledReason
<1>4. CASE L!Answered = {} /\ L!Failed = {}
  BY <1>1, <1>2, <1>3, <1>4 DEF L!Outcome
<1>5. CASE L!Answered = {} /\ L!Failed # {}
  <2>1. L!Outcome = [state |-> "down", reason |-> L!FailureReason]
    BY <1>1, <1>5 DEF L!Outcome
  <2> QED
    BY <1>2, <1>3, <1>5, <2>1
<1>6. CASE L!Answered # {} /\ L!Failed # {}
  <2>1. L!Outcome = [state |-> "up", reason |-> L!FailureReason]
    BY <1>1, <1>6 DEF L!Outcome
  <2> QED
    BY <1>2, <1>3, <1>6, <2>1
<1>7. CASE L!Answered # {} /\ L!Failed = {}
  <2>1. L!Outcome = [state |-> "up", reason |-> L!NoReason]
    BY <1>1, <1>7 DEF L!Outcome
  <2> QED
    BY <1>2, <1>3, <1>7, <2>1
<1> QED
  BY <1>4, <1>5, <1>6, <1>7

\* Until the program is ended the depth in the collector adds up the answers of
\* the last tick that was folded, and of nobody else.
LEMMA DepthInvariant == Spec => []DepthMatches
<1>1. Init => DepthMatches
  BY DEF Init, L!Init, DepthMatches, L!Unset
<1>2. L!TypeOK /\ RequestsMatch /\ DepthMatches /\ [Next]_vars => DepthMatches'
  <2> SUFFICES ASSUME L!TypeOK, RequestsMatch, DepthMatches, [Next]_vars, ~cancelled'
               PROVE  DepthMatches'
    BY DEF DepthMatches
  <2>0. ~cancelled
    BY Steps
  <2>1. tick \in Nat /\ L!Answered \subseteq Listeners
    BY BoundsAssumption DEF BoundsAssumption, L!TypeOK, L!Answered, L!With
  <2>2. CASE L!TickDisabled
    BY <2>2, NothingIsShown DEF L!TickDisabled, DepthMatches, L!Answered, L!With
  <2>3. CASE L!Tick
    <3>1. scraper' = "scraping" /\ tick' = tick + 1 /\ UNCHANGED <<known, depth>>
      BY <2>3 DEF L!Tick, L!sink
    <3>2. known => \A r \in L!Shown : r[2] = tick
      BY <2>0, <2>3 DEF L!Tick, DepthMatches
    <3>3. L!Shown' = L!Shown
      BY <3>1 DEF L!Shown
    <3>4. tick' - 1 = tick
      BY <2>1, <3>1
    <3> QED
      BY <3>1, <3>2, <3>3, <3>4 DEF DepthMatches
  <2>4. CASE L!Drop \/ L!Stop
    BY <2>0, <2>4 DEF L!Drop, L!Discarded, L!Stop
  <2>5. CASE L!PublishNothing
    BY <2>5 DEF L!PublishNothing, DepthMatches, L!Answered, L!With
  <2>6. CASE L!Publish
    <3>1. /\ scraper' = "reporting" /\ known' /\ UNCHANGED <<request, tick>>
          /\ depth' = L!QueueDepth(L!Answered) /\ L!Answered # {}
      BY <2>6 DEF L!Publish
    <3>2. L!Shown' = L!Answered \X {tick}
      BY <2>1, <3>1, ShownIsAnswered DEF L!Shown
    <3>3. L!Answered' = L!Answered
      BY <3>1 DEF L!Answered, L!With
    <3> QED
      BY <3>1, <3>2, <3>3 DEF DepthMatches
  <2>7. CASE L!Report
    <3>1. /\ scraper = "reporting" /\ scraper' = "idle" /\ listenerVerdict' = L!Outcome
          /\ UNCHANGED <<request, tick, known, depth>>
      BY <2>7 DEF L!Report
    <3>2. known <=> L!Answered # {}
      BY <2>0, <3>1 DEF DepthMatches
    <3>3. known => L!Shown = L!Answered \X {tick}
      BY <2>0, <3>1 DEF DepthMatches
    <3>4. /\ listenerVerdict'.state = "up" <=> L!Answered # {}
          /\ listenerVerdict'.reason.failed = Cardinality(L!Failed)
      BY <3>1, OutcomeSays DEF RequestsMatch
    <3>5. L!Answered' = L!Answered /\ L!Failed' = L!Failed /\ L!Shown' = L!Shown
      BY <3>1 DEF L!Answered, L!Failed, L!With, L!Shown
    <3> QED
      BY <3>1, <3>2, <3>3, <3>4, <3>5 DEF DepthMatches
  <2>8. ASSUME NEW l \in Listeners, L!Open(l) \/ L!Answer(l) \/ L!Fail(l) \/ L!Abort(l)
        PROVE  DepthMatches'
    <3>1. scraper = "scraping"
      BY <2>8 DEF L!Open, L!Answer, L!Fail, L!Abort, L!Goes, RequestsMatch, L!With
    <3>2. UNCHANGED <<scraper, tick, known, depth>>
      BY <2>8 DEF L!Open, L!Answer, L!Fail, L!Abort, L!Goes, L!sink
    <3> QED
      BY <2>0, <3>1, <3>2 DEF DepthMatches, L!Shown
  <2>9. CASE UNCHANGED <<scraper, tick, request, known, depth, listenerVerdict>>
    BY <2>0, <2>9 DEF DepthMatches, L!Shown, L!Failed, L!Answered, L!With
  <2>10. ASSUME NEW l \in Listeners, L!PodMoves(l)
         PROVE  DepthMatches'
    BY <2>9, <2>10 DEF L!PodMoves, L!sink
  <2>11. CASE UNCHANGED listenerOnly
    BY <2>9, <2>11 DEF listenerOnly
  <2> QED
    BY <2>2, <2>3, <2>4, <2>5, <2>6, <2>7, <2>8, <2>10, <2>11, Steps DEF L!ListenerNext
<1> QED
  BY <1>1, <1>2, ScraperTypeInvariant, PTL DEF Spec

\* The scraper's log and its strip tell the same story, a step apart.
LEMMA ScrapeTrackerInvariant == Spec => []ScrapeTrackerMatches
<1>1. Init => ScrapeTrackerMatches
  <2> SUFFICES ASSUME L!Init PROVE ScrapeTrackerMatches
    BY DEF Init
  <2>1. /\ scrapeTracker = L!NewTracker /\ listenerVerdict = L!Unset
        /\ scraper = "idle" /\ tick = 0
    BY DEF L!Init
  <2>2. Pending.state = "unset" /\ scrapeTracker.log = <<>> /\ scrapeTracker.state = "unknown"
    BY <2>1 DEF Pending, L!Unset, L!NewTracker
  <2> QED
    BY <2>1, <2>2, NewFits DEF ScrapeLogFits, ScrapeTrackerMatches, L!SaysTheSame
<1>2. /\ L!TypeOK /\ RequestsMatch /\ ScrapeLogFits
      /\ ScrapeLogFits'
      /\ ScrapeTrackerMatches /\ [Next]_vars
      => ScrapeTrackerMatches'
  <2> SUFFICES ASSUME L!TypeOK, RequestsMatch, ScrapeLogFits, ScrapeLogFits',
                      ScrapeTrackerMatches, [Next]_vars
               PROVE  ScrapeTrackerMatches'
    OBVIOUS
  <2> DEFINE h == scrapeTracker
             line == L!Newest(scrapeTracker.log)
  <2>0. /\ h \in L!Trackers(Listeners \X Errors) /\ LogFits(h)
        /\ h.state = "down" => (line.msg = "degraded" <=> h.reason.ok > 0)
        /\ h.state = "down" => line.msg \in {"degraded", "unavailable"} /\ line.reason = h.reason
        /\ h.state = "down" => line = L!Line(line.msg, line.reason)
    <3>1. h \in L!Trackers(Listeners \X Errors) /\ h.log \in Seq(L!Lines(Listeners \X Errors))
      BY DEF L!TypeOK, L!Trackers
    <3>2. h.state = "down" => h.log # <<>> /\ L!Failing(line) /\ line.reason = h.reason
      BY DEF ScrapeLogFits, LogFits
    <3>3. h.log # <<>> => line \in L!Lines(Listeners \X Errors)
      BY <3>1 DEF L!Newest
    <3>4. h.log # <<>> => line = L!Line(line.msg, line.reason)
      BY <3>3 DEF L!Lines, L!Line
    <3> QED
      BY <3>1, <3>2, <3>4 DEF ScrapeTrackerMatches, ScrapeLogFits, L!Failing
  <2>1. ASSUME NEW msg \in {"degraded", "unavailable"},
               NEW reason \in L!Reasons(Listeners \X Errors),
               msg = "degraded" <=> reason.ok > 0,
               scrapeTracker' = L!Down(scrapeTracker, msg, reason)
        PROVE  /\ scrapeTracker'.state = "down" /\ scrapeTracker'.reason = reason
               /\ scrapeTracker'.log # <<>>
               /\ L!Newest(scrapeTracker'.log) = L!Line(msg, reason)
    <3>1. /\ LogFits(scrapeTracker')
          /\ scrapeTracker'.state = "down" /\ scrapeTracker'.reason = reason
          /\ L!Newest(scrapeTracker'.log) =
               IF h.state = "down" /\ h.reason = reason THEN line ELSE L!Line(msg, reason)
      BY <2>0, <2>1, DownFits
    <3>2. h.state = "down" /\ h.reason = reason => line.msg = msg /\ line.reason = reason
      BY <2>0, <2>1
    <3>3. L!Newest(scrapeTracker'.log) = L!Line(msg, reason)
      BY <2>0, <3>1, <3>2
    <3> QED
      BY <3>1, <3>3 DEF LogFits
  <2>2. CASE L!TickDisabled
    <3>1. /\ L!DisabledReason \in L!Reasons(Listeners \X Errors)
          /\ ~(L!DisabledReason.ok > 0)
          /\ scrapeTracker' = L!Down(scrapeTracker, "unavailable", L!DisabledReason)
      BY <2>2 DEF L!TickDisabled, L!DisabledReason, L!NoReason, L!Reasons
    <3>2. /\ scrapeTracker'.state = "down" /\ scrapeTracker'.reason = L!DisabledReason
          /\ scrapeTracker'.log # <<>>
          /\ L!Newest(scrapeTracker'.log) = L!Line("unavailable", L!DisabledReason)
      BY <2>1, <3>1
    <3>3. L!Targets' = {} /\ L!Answered' = {} /\ L!Failed' = {}
      BY <2>2, ErrorsAssumption
         DEF L!TickDisabled, L!Targets, L!Answered, L!Failed, L!With, ErrorsAssumption
    <3>4. Pending' = [state |-> "down", reason |-> L!DisabledReason] /\ scraper' = "reporting"
      BY <2>2, <3>3 DEF L!TickDisabled, Pending, L!Outcome, L!DisabledReason, L!NoReason
    <3> QED
      BY <3>1, <3>2, <3>4 DEF ScrapeTrackerMatches, L!SaysTheSame, L!Line, L!NoReason
  <2>3. CASE L!PublishNothing
    <3>1. /\ L!With({"queued", "open"}) = {} /\ L!With({"aborted"}) = {}
          /\ L!Answered = {} /\ L!Targets # {}
      BY <2>3, TargetsAreAsked DEF L!PublishNothing, L!AllIn, L!Discarded, RequestsMatch
    <3>2. L!Outcome = [state |-> "down", reason |-> L!FailureReason]
      BY <3>1 DEF L!Outcome, L!Targets
    <3>3. Pending' = L!Outcome /\ scraper' = "reporting"
      BY <2>3 DEF L!PublishNothing, Pending, L!Outcome, L!FailureReason, L!Named, L!Targets,
                  L!Answered, L!Failed, L!With
    <3>4. L!FailureReason \in L!Reasons(Listeners \X Errors) /\ ~(L!FailureReason.ok > 0)
      BY <3>1, ReasonTypes, OutcomeSays
    <3>5. /\ scrapeTracker'.state = "down" /\ scrapeTracker'.reason = L!FailureReason
          /\ scrapeTracker'.log # <<>>
          /\ L!Newest(scrapeTracker'.log) = L!Line("unavailable", L!FailureReason)
      BY <2>1, <2>3, <3>4 DEF L!PublishNothing
    <3> QED
      BY <3>2, <3>3, <3>4, <3>5 DEF ScrapeTrackerMatches, L!SaysTheSame, L!Line, L!NoReason
  <2>4. CASE L!Publish
    <3>1. /\ L!With({"queued", "open"}) = {} /\ L!With({"aborted"}) = {}
          /\ L!Answered # {} /\ L!Targets # {}
      BY <2>4, TargetsAreAsked DEF L!Publish, L!AllIn, L!Discarded, RequestsMatch
    <3>2. L!Outcome = [state |-> "up",
                       reason |-> IF L!Failed = {} THEN L!NoReason ELSE L!FailureReason]
      BY <3>1 DEF L!Outcome
    <3>3. Pending' = L!Outcome /\ scraper' = "reporting"
      BY <2>4 DEF L!Publish, Pending, L!Outcome, L!FailureReason, L!Named, L!Targets,
                  L!Answered, L!Failed, L!With
    <3>4. CASE L!Failed = {}
      <4>1. scrapeTracker' = L!OK(scrapeTracker)
        BY <2>4, <3>4 DEF L!Publish
      <4>2. scrapeTracker'.state = "up" /\ LogFits(scrapeTracker')
        BY <2>0, <4>1, OKFits
      <4> QED
        BY <3>2, <3>3, <3>4, <4>2 DEF ScrapeTrackerMatches, ScrapeLogFits, L!SaysTheSame, LogFits, L!NoReason
    <3>5. CASE L!Failed # {}
      <4>1. /\ L!FailureReason \in L!Reasons(Listeners \X Errors) /\ L!FailureReason.ok > 0
            /\ L!FailureReason # L!NoReason
        BY <3>1, ReasonTypes, OutcomeSays DEF L!FailureReason, L!NoReason
      <4>2. /\ scrapeTracker'.state = "down" /\ scrapeTracker'.reason = L!FailureReason
            /\ scrapeTracker'.log # <<>>
            /\ L!Newest(scrapeTracker'.log) = L!Line("degraded", L!FailureReason)
        BY <2>1, <2>4, <3>5, <4>1 DEF L!Publish
      <4> QED
        <5>1. L!SaysTheSame(scrapeTracker'.log, [state |-> "up", reason |-> L!FailureReason])
          BY <4>1, <4>2 DEF L!SaysTheSame
        <5>2. Pending' = [state |-> "up", reason |-> L!FailureReason]
          BY <3>2, <3>3, <3>5
        <5>3. L!SaysTheSame(scrapeTracker.log, Pending)'
          BY <5>1, <5>2 DEF L!SaysTheSame, L!NoReason
        <5> QED
          BY <3>3, <4>1, <4>2, <5>3 DEF ScrapeTrackerMatches, L!Line
    <3> QED
      BY <3>4, <3>5
  <2>5. CASE L!Report
    <3>1. /\ listenerVerdict' = L!Outcome /\ scraper = "reporting" /\ scraper' = "idle"
          /\ UNCHANGED <<request, scrapeTracker, cancelled, tick>>
      BY <2>5 DEF L!Report
    <3>2. L!Outcome' = L!Outcome
      BY <3>1 DEF L!Outcome, L!FailureReason, L!Named, L!Targets, L!Answered, L!Failed, L!With
    <3>3. Pending' = Pending
      BY <3>1 DEF Pending
    <3> QED
      BY <3>1, <3>2, <3>3 DEF ScrapeTrackerMatches
  <2>6. CASE L!Tick \/ L!Drop \/ L!Stop
    <3>1. UNCHANGED <<scrapeTracker, listenerVerdict>> /\ scraper # "reporting"
          /\ scraper' # "reporting" /\ (scraper' = "idle" => cancelled')
      BY <2>6 DEF L!Tick, L!Drop, L!AllIn, L!Discarded, L!Stop, L!sink
    <3> QED
      BY <3>1 DEF ScrapeTrackerMatches, Pending
  <2>7. ASSUME NEW l \in Listeners, L!Open(l) \/ L!Answer(l) \/ L!Fail(l) \/ L!Abort(l)
        PROVE  ScrapeTrackerMatches'
    <3>1. scraper = "scraping"
      BY <2>7 DEF L!Open, L!Answer, L!Fail, L!Abort, L!Goes, RequestsMatch, L!With
    <3>2. UNCHANGED <<scraper, scrapeTracker, listenerVerdict>>
      BY <2>7 DEF L!Open, L!Answer, L!Fail, L!Abort, L!Goes, L!sink
    <3> QED
      BY <3>1, <3>2 DEF ScrapeTrackerMatches, Pending
  <2>8. CASE UNCHANGED <<scraper, tick, request, scrapeTracker, listenerVerdict>>
             /\ (cancelled' = cancelled \/ cancelled' = TRUE)
    <3>1. L!Outcome' = L!Outcome
      BY <2>8 DEF L!Outcome, L!FailureReason, L!Named, L!Targets, L!Answered, L!Failed, L!With
    <3>2. Pending' = Pending
      BY <2>8, <3>1 DEF Pending
    <3> QED
      BY <2>8, <3>1, <3>2 DEF ScrapeTrackerMatches
  <2>9. ASSUME NEW l \in Listeners, L!PodMoves(l)
        PROVE  ScrapeTrackerMatches'
    BY <2>8, <2>9 DEF L!PodMoves, L!sink
  <2>10. CASE UNCHANGED listenerOnly /\ (cancelled' = cancelled \/ cancelled' = TRUE)
    BY <2>8, <2>10 DEF listenerOnly
  <2> QED
    BY <2>2, <2>3, <2>4, <2>5, <2>6, <2>7, <2>9, <2>10, Steps DEF L!ListenerNext
<1> QED
  BY <1>1, <1>2, ScraperTypeInvariant, PTL DEF Spec
---------------------------------------------------------------------------
(* The poller *)

\* What a poll's reason says is what one may say, unless the program is ending.
LEMMA PollReasonTypes ==
  ASSUME M!TypeOK, M!With({"aborted"}) = {}
  PROVE  M!Reason \in L!Reasons(Namespaces \X Errors)
<1>1. Cardinality(M!Broken) \in Nat /\ Cardinality(Namespaces \ M!Broken) \in Nat
  BY NamespacesAssumption, FS_Subset, FS_CardinalityType
     DEF NamespacesAssumption, M!Broken, M!With
<1>2. \A n \in M!Broken : n \in Namespaces /\ answer[n] \in Errors
  BY DEF M!Broken, M!With
<1>3. {<<n, answer[n]>> : n \in M!Broken} \in SUBSET (Namespaces \X Errors)
  BY <1>2
<1> QED
  BY <1>1, <1>3, OneCardinality DEF M!Reason, L!Reasons

\* What the poller keeps is of its type, and its answers are where it is.
LEMMA PollerTypeInvariant == Spec => [](M!TypeOK /\ AnswersMatch /\ PollLogFits)
<1>1. Init => M!TypeOK /\ AnswersMatch /\ PollLogFits
  <2> SUFFICES ASSUME M!Init PROVE M!TypeOK /\ AnswersMatch /\ PollLogFits
    BY DEF Init
  <2> USE DEF M!Init
  <2>1. pollTracker \in M!Trackers(Namespaces \X Errors) /\ PollLogFits
    BY NewFits, OneHealth DEF PollLogFits
  <2>2. metricsVerdict \in M!Verdicts(Namespaces \X Errors)
    BY DEF M!Unset, M!NoReason, M!Verdicts, M!Reasons
  <2>3. answer \in [Namespaces -> {"awaited", "runners", "empty", "aborted"} \cup Errors]
    OBVIOUS
  <2>4. poll \in 0 .. MaxPolls /\ usage \in [Namespaces -> 0 .. MaxPolls]
    BY BoundsAssumption DEF BoundsAssumption
  <2>5. M!TypeOK
    BY <2>1, <2>2, <2>3, <2>4 DEF M!TypeOK
  <2> QED
    BY <2>1, <2>5 DEF AnswersMatch, M!With
<1>2. M!TypeOK /\ AnswersMatch /\ PollLogFits /\ [Next]_vars =>
        M!TypeOK' /\ AnswersMatch' /\ PollLogFits'
  <2> SUFFICES ASSUME M!TypeOK, AnswersMatch, PollLogFits, [Next]_vars
               PROVE  M!TypeOK' /\ AnswersMatch' /\ PollLogFits'
    OBVIOUS
  <2> USE BoundsAssumption, ErrorsAssumption DEF BoundsAssumption, ErrorsAssumption
  <2>0. poll \in 0 .. MaxPolls /\ pollTracker \in M!Trackers(Namespaces \X Errors)
    BY DEF M!TypeOK
  <2>1. /\ pollTracker \in L!Trackers(Namespaces \X Errors)
        /\ \A r : r \in M!Reasons(Namespaces \X Errors) <=> r \in L!Reasons(Namespaces \X Errors)
        /\ \A t : t \in M!Trackers(Namespaces \X Errors) <=> t \in L!Trackers(Namespaces \X Errors)
    BY <2>0, OneHealth
  <2>2. CASE M!Poll
    <3>1. poll' \in 0 .. MaxPolls
      BY <2>0, <2>2 DEF PollLogFits, M!Poll
    <3>2. answer' = [n \in Namespaces |-> "awaited"] /\ expired' = FALSE /\ poller' = "listing"
      BY <2>2 DEF PollLogFits, M!Poll
    <3>3. UNCHANGED <<cancelled, pollTracker, usage, metricsVerdict>>
      BY <2>2 DEF PollLogFits, M!Poll
    <3>4. M!TypeOK'
      BY <3>1, <3>2, <3>3 DEF M!TypeOK
    <3> QED
      BY <3>2, <3>3, <3>4 DEF PollLogFits, AnswersMatch, M!With
  <2>3. CASE M!Expire \/ M!Drop \/ M!Stop
    BY <2>3 DEF PollLogFits, M!Expire, M!Drop, M!AllListed, M!Discarded, M!Stop, M!TypeOK, AnswersMatch, M!With
  <2>4. CASE M!ReportFailure
    <3>1. M!Reason \in L!Reasons(Namespaces \X Errors)
      BY <2>4, PollReasonTypes DEF M!ReportFailure, M!Discarded, AnswersMatch
    <3>2. pollTracker' = L!Down(pollTracker, "unavailable", M!Reason)
      BY <2>4, OneHealth DEF M!ReportFailure
    <3>3. pollTracker' \in M!Trackers(Namespaces \X Errors) /\ PollLogFits'
      BY <2>1, <3>1, <3>2, DownFits DEF PollLogFits
    <3>4. metricsVerdict' \in M!Verdicts(Namespaces \X Errors)
      BY <2>1, <2>4, <3>1 DEF M!ReportFailure, M!Verdicts
    <3> QED
      BY <2>4, <3>3, <3>4 DEF M!ReportFailure, M!AllListed, M!TypeOK, AnswersMatch, M!With
  <2>5. CASE M!ReportSuccess
    <3>1. pollTracker' = L!OK(pollTracker)
      BY <2>5, OneHealth DEF M!ReportSuccess
    <3>2. pollTracker' \in M!Trackers(Namespaces \X Errors) /\ PollLogFits'
      BY <2>1, <3>1, OKFits DEF PollLogFits
    <3>3. metricsVerdict' \in M!Verdicts(Namespaces \X Errors)
      BY <2>5 DEF M!ReportSuccess, M!NoReason, M!Verdicts, M!Reasons
    <3> QED
      BY <2>5, <3>2, <3>3 DEF M!ReportSuccess, M!AllListed, M!TypeOK, AnswersMatch, M!With
  <2>6. CASE M!Publish
    BY <2>0, <2>6 DEF PollLogFits, M!Publish, M!Readings, M!TypeOK, AnswersMatch, M!With
  <2>7. ASSUME NEW n \in Namespaces, M!Answer(n) \/ M!Fail(n) \/ M!Abort(n)
        PROVE  M!TypeOK' /\ AnswersMatch' /\ PollLogFits'
    BY <2>7 DEF PollLogFits, M!Answer, M!Fail, M!Abort, M!Goes, M!TypeOK, AnswersMatch, M!With
  <2>8. CASE UNCHANGED metricsOnly /\ (UNCHANGED cancelled \/ cancelled' = TRUE)
    BY <2>8 DEF PollLogFits, metricsOnly, M!TypeOK, AnswersMatch, M!With
  <2> QED
    BY <2>2, <2>3, <2>4, <2>5, <2>6, <2>7, <2>8, Steps DEF M!MetricsNext
<1> QED
  BY <1>1, <1>2, PTL DEF Spec

\* The poller's log and its strip tell the same story.
LEMMA PollTrackerInvariant == Spec => []PollTrackerMatches
<1>1. Init => PollTrackerMatches
  <2> SUFFICES ASSUME M!Init PROVE PollTrackerMatches
    BY DEF Init
  <2>1. pollTracker = L!NewTracker /\ metricsVerdict = L!Unset /\ poll = 0
    BY OneHealth DEF M!Init
  <2>2. /\ metricsVerdict.state = "unset"
        /\ pollTracker.log = <<>> /\ pollTracker.state = "unknown"
    BY <2>1 DEF L!Unset, L!NewTracker
  <2> QED
    BY <2>1, <2>2, NewFits DEF PollLogFits, PollTrackerMatches, L!SaysTheSame
<1>2. /\ M!TypeOK /\ AnswersMatch /\ PollLogFits /\ PollLogFits'
      /\ PollTrackerMatches /\ [Next]_vars
      => PollTrackerMatches'
  <2> SUFFICES ASSUME M!TypeOK, AnswersMatch, PollLogFits, PollLogFits',
                      PollTrackerMatches, [Next]_vars
               PROVE  PollTrackerMatches'
    OBVIOUS
  <2> DEFINE h == pollTracker
             line == L!Newest(pollTracker.log)
  <2>0. h \in L!Trackers(Namespaces \X Errors)
    BY OneHealth DEF M!TypeOK
  <2>1. h.state = "down" => line = L!Line("unavailable", h.reason)
    <3>1. h.log \in Seq(L!Lines(Namespaces \X Errors))
      BY <2>0 DEF L!Trackers
    <3>2. h.state = "down" => h.log # <<>> /\ line.reason = h.reason /\ line.msg = "unavailable"
      BY DEF PollLogFits, LogFits, PollTrackerMatches
    <3>3. h.log # <<>> => line \in L!Lines(Namespaces \X Errors)
      BY <3>1 DEF L!Newest
    <3> QED
      BY <3>2, <3>3 DEF L!Lines, L!Line
  <2>2. CASE M!ReportFailure
    <3>1. M!Reason \in L!Reasons(Namespaces \X Errors)
      BY <2>2, PollReasonTypes DEF M!ReportFailure, M!Discarded, AnswersMatch
    <3>2. pollTracker' = L!Down(pollTracker, "unavailable", M!Reason)
      BY <2>2, OneHealth DEF M!ReportFailure
    <3>3. /\ LogFits(pollTracker')
          /\ pollTracker'.state = "down"
          /\ L!Newest(pollTracker'.log) = L!Line("unavailable", M!Reason)
      BY <2>0, <2>1, <3>1, <3>2, DownFits DEF PollLogFits
    <3>4. metricsVerdict' = [state |-> "down", reason |-> M!Reason] /\ M!Broken # {}
      BY <2>2 DEF M!ReportFailure
    <3>5. M!Reason' = M!Reason /\ M!Broken' = M!Broken
      BY <2>2 DEF M!ReportFailure, M!Reason, M!Broken, M!With
    <3> QED
      BY <3>3, <3>4, <3>5 DEF PollTrackerMatches, PollLogFits, L!SaysTheSame, L!Line, LogFits
  <2>3. CASE M!ReportSuccess
    <3>1. pollTracker' = L!OK(pollTracker)
      BY <2>3, OneHealth DEF M!ReportSuccess
    <3>2. LogFits(pollTracker') /\ pollTracker'.state = "up"
      BY <2>0, <3>1, OKFits DEF PollLogFits
    <3>3. metricsVerdict' = [state |-> "up", reason |-> L!NoReason] /\ M!Broken' = {}
      BY <2>3, OneHealth DEF M!ReportSuccess, M!Broken, M!With
    <3> QED
      BY <3>2, <3>3, OneHealth DEF PollTrackerMatches, PollLogFits, L!SaysTheSame, LogFits
  <2>4. CASE /\ UNCHANGED <<pollTracker, metricsVerdict>>
             /\ poller' \in {"idle", "publishing"} /\ ~cancelled' =>
                  /\ poller \in {"idle", "publishing"} /\ ~cancelled
                  /\ UNCHANGED <<poll, answer>>
    <3>1. UNCHANGED answer => M!Reason' = M!Reason /\ M!Broken' = M!Broken
      BY DEF M!Reason, M!Broken, M!With
    <3> QED
      BY <2>4, <3>1 DEF PollTrackerMatches
  <2>5. CASE M!Poll \/ M!Expire \/ M!Drop \/ M!Publish \/ M!Stop
    BY <2>4, <2>5
       DEF M!Poll, M!Expire, M!Deadline, M!Drop, M!Discarded, M!Publish, M!Stop
  <2>6. ASSUME NEW n \in Namespaces, M!Answer(n) \/ M!Fail(n) \/ M!Abort(n)
        PROVE  PollTrackerMatches'
    <3>1. poller = "listing"
      BY <2>6 DEF M!Answer, M!Fail, M!Abort, M!Goes, AnswersMatch, M!With
    <3> QED
      BY <2>4, <2>6, <3>1 DEF M!Answer, M!Fail, M!Abort, M!Goes
  <2>7. CASE UNCHANGED metricsOnly /\ (UNCHANGED cancelled \/ cancelled' = TRUE)
    BY <2>4, <2>7 DEF metricsOnly
  <2> QED
    BY <2>2, <2>3, <2>5, <2>6, <2>7, Steps DEF M!MetricsNext
<1> QED
  BY <1>1, <1>2, PollerTypeInvariant, PTL DEF Spec

\* At rest a reading is of the last poll, or polling failed and nothing came back.
LEMMA UsageInvariant == Spec => []M!UsageIsFresh
<1>1. Init => M!UsageIsFresh
  BY DEF Init, M!Init, M!UsageIsFresh
<1>2. AnswersMatch /\ M!UsageIsFresh /\ [Next]_vars => M!UsageIsFresh'
  <2> SUFFICES ASSUME AnswersMatch, M!UsageIsFresh, [Next]_vars, ~cancelled', poller' = "idle"
               PROVE  M!UsageIsFresh'
    BY DEF M!UsageIsFresh
  <2>0. ~cancelled
    BY Steps
  <2>1. CASE M!ReportFailure
    BY <2>1 DEF M!ReportFailure, M!UsageIsFresh, M!With
  <2>2. CASE M!Publish
    BY <2>2 DEF M!Publish, M!Readings, M!UsageIsFresh
  <2>3. CASE M!Poll \/ M!Expire \/ M!Drop \/ M!ReportSuccess \/ M!Stop
    BY <2>0, <2>3 DEF M!Poll, M!Expire, M!Deadline, M!Drop, M!Discarded, M!ReportSuccess, M!Stop
  <2>4. ASSUME NEW n \in Namespaces, M!Answer(n) \/ M!Fail(n) \/ M!Abort(n)
        PROVE  M!UsageIsFresh'
    BY <2>0, <2>4 DEF M!Answer, M!Fail, M!Abort, M!Goes, M!UsageIsFresh, M!With, AnswersMatch
  <2>5. CASE UNCHANGED metricsOnly
    BY <2>0, <2>5 DEF metricsOnly, M!UsageIsFresh, M!With
  <2> QED
    BY <2>1, <2>2, <2>3, <2>4, <2>5, Steps DEF M!MetricsNext
<1> QED
  BY <1>1, <1>2, PollerTypeInvariant, PTL DEF Spec

---------------------------------------------------------------------------
(* Both *)

\* Types, of both pollers.
THEOREM PollersTypeCorrect == Spec => [](L!TypeOK /\ M!TypeOK)
  BY ScraperTypeInvariant, PollerTypeInvariant, PTL

\* Until the program is ended, whatever is shown under a green light is of the
\* last tick or poll, adds up exactly those who answered, and no depth outlives
\* the tick after its own.
THEOREM GreenMeansFresh == Spec => []NothingStaleIsGreen
<1>1. L!TypeOK /\ RequestsMatch /\ DepthMatches => L!DepthIsFresh
  <2> SUFFICES ASSUME L!TypeOK, RequestsMatch, DepthMatches, ~cancelled
               PROVE  L!DepthIsFresh
    BY DEF L!DepthIsFresh
  <2>1. tick \in Nat
    BY BoundsAssumption DEF BoundsAssumption, L!TypeOK
  <2>2. scraper = "idle" =>
          /\ known <=> listenerVerdict.state = "up"
          /\ known => /\ L!Shown = L!Answered \X {tick}
                      /\ listenerVerdict.reason.failed = Cardinality(L!Failed)
    BY DEF DepthMatches
  <2>3. scraper = "idle" /\ known => L!Targets \ {r[1] : r \in L!Shown} = L!Failed
    <3> SUFFICES ASSUME scraper = "idle", known
                 PROVE  L!Targets \ {r[1] : r \in L!Shown} = L!Failed
      OBVIOUS
    <3>1. {r[1] : r \in L!Answered \X {tick}} = L!Answered
      <4>1. ASSUME NEW l \in L!Answered PROVE <<l, tick>> \in L!Answered \X {tick}
        OBVIOUS
      <4>2. ASSUME NEW r \in L!Answered \X {tick} PROVE r[1] \in L!Answered
        OBVIOUS
      <4>3. \A l \in L!Answered : <<l, tick>>[1] = l
        OBVIOUS
      <4> QED
        BY <4>1, <4>2, <4>3
    <3>2. L!Targets = L!Answered \cup L!Failed
      BY DEF RequestsMatch, L!Targets
    <3>3. L!Answered \cap L!Failed = {}
      BY ErrorsAssumption DEF ErrorsAssumption, L!Answered, L!Failed, L!With
    <3> QED
      BY <2>2, <3>1, <3>2, <3>3
  <2>4. known => \A r \in L!Shown : r[2] \in {tick - 1, tick}
    BY DEF DepthMatches, L!TypeOK
  <2>5. known => \A r \in L!Shown : r[2] >= tick - 1
    BY <2>1, <2>4
  <2> QED
    BY <2>2, <2>3, <2>5, OneCardinality DEF L!DepthIsFresh
<1> QED
  BY <1>1, ScraperTypeInvariant, DepthInvariant, UsageInvariant, PTL DEF NothingStaleIsGreen

\* For any number of listeners: no loud line repeats the one before it, a recovery
\* names the failure it ends, and at rest the newest line is what the strip says
\* and true of the last tick's requests, but for failures that are only counted.
THEOREM LogAndStripAgree == Spec => []NewsIsLoud
<1>1. L!TypeOK /\ RequestsMatch /\ ScrapeTrackerMatches => L!ScrapeNewsIsLoud
  <2> SUFFICES ASSUME L!TypeOK, RequestsMatch, ScrapeTrackerMatches
               PROVE  L!ScrapeNewsIsLoud
    OBVIOUS
  <2>1. L!EachLineIsNews(scrapeTracker.log)
    BY DEF ScrapeTrackerMatches, ScrapeLogFits, LogFits
  <2>2. scraper = "idle" => L!SaysTheSame(scrapeTracker.log, listenerVerdict)
    BY DEF ScrapeTrackerMatches, Pending
  <2>3. L!NewestLineHolds
    <3> SUFFICES ASSUME scraper = "idle", ~cancelled, tick > 0
                 PROVE  LET line == L!Newest(scrapeTracker.log) IN
                          /\ L!Failing(line) <=> L!Answered = {} \/ L!Failed # {}
                          /\ L!Failing(line) =>
                               /\ line.msg = "unavailable" <=> L!Answered = {}
                               /\ line.reason.failed = Cardinality(L!Failed)
                               /\ line.reason.named \subseteq {<<l, request[l]>> : l \in L!Failed}
                               /\ \A l \in L!Failed :
                                    \/ <<l, request[l]>> \in line.reason.named
                                    \/ Cardinality({k \in L!Failed : k < l}) >= MaxNamed
      BY OneCardinality DEF L!NewestLineHolds
    <3> DEFINE line == L!Newest(scrapeTracker.log)
    <3>1. listenerVerdict = L!Outcome
      BY DEF ScrapeTrackerMatches
    <3>2. L!With({"queued", "open"}) = {} /\ L!Targets = L!Answered \cup L!Failed
      BY DEF RequestsMatch, L!Targets
    <3>3. L!Answered = {} /\ L!Failed = {} => line = L!Line("unavailable", L!DisabledReason)
      BY <2>2, <3>1, <3>2 DEF L!SaysTheSame, L!Outcome
    <3>4. L!Answered = {} /\ L!Failed # {} => line = L!Line("unavailable", L!FailureReason)
      BY <2>2, <3>1, <3>2 DEF L!SaysTheSame, L!Outcome
    <3>5. L!Answered # {} /\ L!Failed # {} => line = L!Line("degraded", L!FailureReason)
      BY <2>2, <3>1, <3>2 DEF L!SaysTheSame, L!Outcome, L!FailureReason, L!NoReason
    <3>6. L!Answered # {} /\ L!Failed = {} => ~L!Failing(line)
      BY <2>2, <3>1, <3>2 DEF L!SaysTheSame, L!Outcome
    <3>7. \A l \in L!Failed :
            \/ l \in L!Named
            \/ Cardinality({k \in L!Failed : k < l}) >= MaxNamed
      <4> SUFFICES ASSUME NEW l \in L!Failed, l \notin L!Named
                   PROVE  Cardinality({k \in L!Failed : k < l}) >= MaxNamed
        OBVIOUS
      <4> DEFINE before == {k \in L!Failed : k < l}
      <4>1. IsFiniteSet(before)
        BY ListenersAssumption, FS_Subset DEF ListenersAssumption, L!Failed, L!With
      <4>2. Cardinality(before) \in Nat
        BY <4>1, FS_CardinalityType
      <4>3. ~(Cardinality(before) < MaxNamed)
        BY OneCardinality DEF L!Named
      <4> QED
        BY <4>2, <4>3, MaxNamedAssumption DEF MaxNamedAssumption
    <3>8. /\ L!FailureReason.failed = Cardinality(L!Failed)
          /\ L!FailureReason.named = {<<l, request[l]>> : l \in L!Named}
          /\ L!DisabledReason.failed = 0 /\ L!DisabledReason.named = {}
          /\ L!Named \subseteq L!Failed
      BY OneCardinality DEF L!FailureReason, L!DisabledReason, L!NoReason, L!Named
    <3>9. Cardinality({}) = 0
      BY FS_EmptySet
    <3>10. CASE L!Failed = {}
      BY <3>3, <3>6, <3>8, <3>9, <3>10 DEF L!Line, L!Failing
    <3>11. CASE L!Failed # {}
      <4>1. /\ line.reason = L!FailureReason /\ L!Failing(line)
            /\ line.msg = "unavailable" <=> L!Answered = {}
        BY <3>4, <3>5, <3>11 DEF L!Line, L!Failing
      <4>2. line.reason.named \subseteq {<<l, request[l]>> : l \in L!Failed}
        BY <3>8, <4>1
      <4>3. \A l \in L!Failed :
              \/ <<l, request[l]>> \in line.reason.named
              \/ Cardinality({k \in L!Failed : k < l}) >= MaxNamed
        BY <3>7, <3>8, <4>1
      <4> QED
        BY <3>8, <3>11, <4>1, <4>2, <4>3
    <3> QED
      BY <3>10, <3>11
  <2> QED
    BY <2>1, <2>2, <2>3 DEF L!ScrapeNewsIsLoud
<1>2. PollTrackerMatches => M!PollNewsIsLoud
  <2> SUFFICES ASSUME PollTrackerMatches PROVE M!PollNewsIsLoud
    OBVIOUS
  <2>1. M!EachLineIsNews(pollTracker.log) /\ M!SaysTheSame(pollTracker.log, metricsVerdict)
    BY OneHealth DEF PollTrackerMatches, PollLogFits, LogFits
  <2>2. ASSUME poller \in {"idle", "publishing"}, ~cancelled, poll > 0
        PROVE  LET line == M!Newest(pollTracker.log) IN
                 IF M!Failing(line)
                 THEN line.reason.named = {<<n, answer[n]>> : n \in M!Broken} /\ M!Broken # {}
                 ELSE M!Broken = {}
    <3>1. metricsVerdict = IF M!Broken = {} THEN [state |-> "up", reason |-> M!NoReason]
                           ELSE [state |-> "down", reason |-> M!Reason]
      BY <2>2 DEF PollTrackerMatches
    <3>2. M!Broken = {} => ~M!Failing(M!Newest(pollTracker.log))
      BY <2>1, <3>1 DEF M!SaysTheSame
    <3>3. M!Broken # {} => M!Newest(pollTracker.log) = M!Line("unavailable", M!Reason)
      BY <2>1, <3>1 DEF M!SaysTheSame
    <3>4. /\ M!Failing(M!Line("unavailable", M!Reason))
          /\ M!Line("unavailable", M!Reason).reason.named = {<<n, answer[n]>> : n \in M!Broken}
      BY DEF M!Failing, M!Line, M!Reason
    <3> QED
      BY <3>2, <3>3, <3>4
  <2> QED
    BY <2>1, <2>2 DEF M!PollNewsIsLoud, M!NewestLineHolds
<1> QED
  BY <1>1, <1>2, ScraperTypeInvariant, ScrapeTrackerInvariant, PollTrackerInvariant, PTL
     DEF NewsIsLoud

\* A verdict names and counts only those who failed of their own accord.
THEOREM BlameIsDeserved == Spec => NobodyIsFramed
<1>1. L!TypeOK /\ RequestsMatch /\ [Next]_vars =>
        (listenerVerdict' # listenerVerdict =>
           /\ listenerVerdict'.reason.named \subseteq {<<l, request[l]>> : l \in L!With(Errors)}
           /\ listenerVerdict'.reason.failed <= L!Cardinality(L!With(Errors)))
  <2> SUFFICES ASSUME L!TypeOK, RequestsMatch, [Next]_vars, listenerVerdict' # listenerVerdict
               PROVE  /\ listenerVerdict'.reason.named \subseteq
                           {<<l, request[l]>> : l \in L!With(Errors)}
                      /\ listenerVerdict'.reason.failed <= L!Cardinality(L!With(Errors))
    OBVIOUS
  <2>1. L!ListenerNext
    BY Steps DEF listenerOnly, M!MetricsNext
  <2>2. L!Report
    BY <2>1 DEF L!ListenerNext, L!TickDisabled, L!Tick, L!Drop, L!PublishNothing, L!Publish,
                L!Stop, L!Open, L!Answer, L!Fail, L!Abort, L!Goes, L!PodMoves, L!sink
  <2>3. /\ L!With({"aborted"}) = {} /\ L!With({"queued", "open"}) = {}
        /\ listenerVerdict' = L!Outcome
    BY <2>2 DEF L!Report, RequestsMatch
  <2>4. L!Failed = L!With(Errors)
    BY <2>3 DEF L!Failed, L!With
  <2>5. L!Outcome.reason.failed = Cardinality(L!Failed)
    BY <2>3, OutcomeSays
  <2>6. L!Outcome.reason.named \subseteq {<<l, request[l]>> : l \in L!Failed}
    <3>1. /\ L!FailureReason.named \subseteq {<<l, request[l]>> : l \in L!Failed}
          /\ L!DisabledReason.named = {} /\ L!NoReason.named = {}
      BY DEF L!FailureReason, L!DisabledReason, L!NoReason, L!Named
    <3>2. L!Outcome.reason \in {L!FailureReason, L!DisabledReason, L!NoReason}
      <4>1. L!Targets = L!Answered \cup L!Failed
        BY <2>3 DEF L!Targets
      <4> QED
        BY <4>1 DEF L!Outcome
    <3> QED
      BY <3>1, <3>2
  <2>7. Cardinality(L!Failed) \in Nat
    BY ListenersAssumption, FS_Subset, FS_CardinalityType
       DEF ListenersAssumption, L!Failed, L!With
  <2> QED
    BY <2>3, <2>4, <2>5, <2>6, <2>7, OneCardinality
<1>2. AnswersMatch /\ [Next]_vars =>
        (metricsVerdict' # metricsVerdict =>
           metricsVerdict'.reason.named \subseteq {<<n, answer[n]>> : n \in M!With(Errors)})
  <2> SUFFICES ASSUME AnswersMatch, [Next]_vars, metricsVerdict' # metricsVerdict
               PROVE  metricsVerdict'.reason.named \subseteq
                        {<<n, answer[n]>> : n \in M!With(Errors)}
    OBVIOUS
  <2>1. M!MetricsNext
    BY Steps DEF metricsOnly
  <2>2. M!ReportFailure \/ M!ReportSuccess
    BY <2>1 DEF M!MetricsNext, M!Poll, M!Expire, M!Drop, M!Publish, M!Stop, M!Answer, M!Fail,
                M!Abort, M!Goes
  <2>3. CASE M!ReportFailure
    <3>1. M!Broken = M!With(Errors)
      BY <2>3 DEF M!ReportFailure, M!Discarded, M!Broken, AnswersMatch, M!With
    <3>2. metricsVerdict'.reason.named = {<<n, answer[n]>> : n \in M!Broken}
      BY <2>3 DEF M!ReportFailure, M!Reason
    <3> QED
      BY <3>1, <3>2
  <2>4. CASE M!ReportSuccess
    BY <2>4 DEF M!ReportSuccess, M!NoReason
  <2> QED
    BY <2>2, <2>3, <2>4
<1> QED
  BY <1>1, <1>2, ScraperTypeInvariant, PollerTypeInvariant, PTL
     DEF Spec, NobodyIsFramed, L!NoListenerIsFramed, M!ServerIsNotFramed
=============================================================================
