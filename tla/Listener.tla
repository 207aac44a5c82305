------------------------------ MODULE Listener ------------------------------
(***************************************************************************)
(* internal/listener: the scraper that asks every listener pod for its     *)
(* metrics and makes them the queue depth of the scale sets.               *)
(*                                                                         *)
(* Each target of a tick has a goroutine of its own; `slots` bounds those  *)
(* with a request under way.  The tick waits for all, folds the answers    *)
(* and publishes a depth and then a verdict.  A reading is the listener    *)
(* and the tick it was taken in; a depth is the set of the readings it     *)
(* adds up.  A listener is its place in the order of the targets, that of  *)
(* the pods' names.                                                        *)
(***************************************************************************)
EXTENDS Naturals, FiniteSets, Health

CONSTANTS
  Listeners,  \* pods of the controller namespace that serve, or will serve, metrics
  SetNames,   \* names of scale sets
  SetOf,      \* the name of the scale set each listener serves
  MaxScrapes, \* maxConcurrentScrapes
  Errors,     \* what a request may fail with
  MaxNamed,   \* maxNamedFailures
  MaxTicks    \* bound on the number of ticks

VARIABLES
  running,    \* listeners whose pod runs and was not told to go
  cancelled,  \* the context of run()
  at,         \* where the scraper is
  tick,       \* number of ticks begun
  request,    \* what became of each listener's request in this tick
  tracker,    \* health.Tracker, and what it logged aloud
  depth,      \* in the collector: the depth of each set that has one
  known,      \* in the collector: the depths may be shown
  verdict     \* in the collector: the listener source

sink == <<depth, known, verdict>>
listenerVars == <<running, cancelled, at, tick, request, tracker, sink>>

NoDepth == [n \in {} |-> {}]

TypeOK ==
  /\ running \subseteq Listeners
  /\ cancelled \in BOOLEAN
  /\ at \in {"idle", "scraping", "reporting", "stopped"}
  /\ tick \in 0 .. MaxTicks
  /\ request \in [Listeners -> {"none", "queued", "open", "answered", "aborted"} \cup Errors]
  /\ tracker \in Trackers(Listeners \X Errors)
  /\ DOMAIN depth \subseteq SetNames
  /\ \A n \in DOMAIN depth : depth[n] \subseteq Listeners \X (1 .. MaxTicks)
  /\ known \in BOOLEAN
  /\ verdict \in Verdicts(Listeners \X Errors)

Init ==
  /\ running = {}
  /\ cancelled = FALSE
  /\ at = "idle"
  /\ tick = 0
  /\ request = [l \in Listeners |-> "none"]
  /\ tracker = NewTracker
  /\ depth = NoDepth
  /\ known = FALSE
  /\ verdict = Unset

---------------------------------------------------------------------------
(* The cluster *)

\* A listener's pod begins to run, or is told to go.
PodMoves(l) ==
  /\ running' = IF l \in running THEN running \ {l} ELSE running \cup {l}
  /\ UNCHANGED <<cancelled, at, tick, request, tracker, sink>>

\* What the collector answers.
ListenerTargets == running

---------------------------------------------------------------------------
(* A tick *)

With(states) == {l \in Listeners : request[l] \in states}

Answered == With({"answered"})
Failed   == With(Errors \cup {"aborted"})
Targets  == With({"queued", "open"}) \cup Answered \cup Failed

\* A reason names the first failures, in the order of the targets, and counts the
\* rest: those it names are the ones before whom fewer than MaxNamed failed.
Named == {l \in Failed : Cardinality({k \in Failed : k < l}) < MaxNamed}

DisabledReason == [NoReason EXCEPT !.says = "disabled"]

\* A sole target's error is told verbatim, and has its address in it.
FailureReason ==
  [says |-> "failures", ok |-> Cardinality(Answered), failed |-> Cardinality(Failed),
   named |-> {<<l, request[l]>> : l \in Named}]

\* What a finished tick says: nothing to scrape, nobody answered, not all, or all.
Outcome ==
  CASE Targets = {}                  -> [state |-> "down", reason |-> DisabledReason]
    [] Answered = {} /\ Failed # {}  -> [state |-> "down", reason |-> FailureReason]
    [] Answered # {} /\ Failed # {}  -> [state |-> "up", reason |-> FailureReason]
    [] Answered # {} /\ Failed = {}  -> [state |-> "up", reason |-> NoReason]

\* Nothing to scrape: not a fault, and no depth either.
TickDisabled ==
  /\ at = "idle"
  /\ tick < MaxTicks
  /\ ListenerTargets = {}
  /\ tick' = tick + 1
  /\ request' = [l \in Listeners |-> "none"]
  /\ tracker' = Down(tracker, "unavailable", DisabledReason)
  /\ depth' = NoDepth
  /\ known' = FALSE
  /\ at' = "reporting"
  /\ UNCHANGED <<running, cancelled, verdict>>

Tick ==
  /\ at = "idle"
  /\ tick < MaxTicks
  /\ ListenerTargets # {}
  /\ tick' = tick + 1
  /\ request' = [l \in Listeners |-> IF l \in ListenerTargets THEN "queued" ELSE "none"]
  /\ at' = "scraping"
  /\ UNCHANGED <<running, cancelled, tracker, sink>>

\* Bug: only an answer gives its slot back.
SlotsKeptByFailures == Cardinality(With({"open", "aborted"} \cup Errors))

SlotsInUse == Cardinality(With({"open"}))

Goes(l, from, to) ==
  /\ request[l] = from
  /\ request' = [request EXCEPT ![l] = to]
  /\ UNCHANGED <<running, cancelled, at, tick, tracker, sink>>

Open(l) == SlotsInUse < MaxScrapes /\ Goes(l, "queued", "open")

\* A pod that was told to go may still answer.
Answer(l) == Goes(l, "open", "answered")

\* No connection, no answer in time, one that is too long or no exposition.
Fail(l) == \E e \in Errors : Goes(l, "open", e)

\* The request's context is done.
Abort(l) == cancelled /\ Goes(l, "open", "aborted")

\* The answers of a set's listeners, added up.
Folded(answered, n) == {l \in answered : SetOf[l] = n} \X {tick}

\* Bug: what was known of the other sets is kept.
FoldedOnto(answered) ==
  LET sets == {SetOf[l] : l \in answered} IN
    [n \in sets \cup DOMAIN depth |-> IF n \in sets THEN Folded(answered, n) ELSE depth[n]]

\* A set none of whose listeners answered has no depth, which is not a depth of
\* zero.
QueueDepth(answered) == [n \in {SetOf[l] : l \in answered} |-> Folded(answered, n)]

AllIn == at = "scraping" /\ With({"queued", "open"}) = {}

\* A tick that was cut short says nothing of the listeners.
Discarded == cancelled

Drop ==
  /\ AllIn
  /\ Discarded
  /\ at' = "idle"
  /\ UNCHANGED <<running, cancelled, tick, request, tracker, sink>>

\* Nobody answered: back to "unknown".
PublishNothing ==
  /\ AllIn
  /\ ~Discarded
  /\ Answered = {}
  /\ tracker' = Down(tracker, "unavailable", FailureReason)
  /\ depth' = NoDepth
  /\ known' = FALSE
  /\ at' = "reporting"
  /\ UNCHANGED <<running, cancelled, tick, request, verdict>>

\* Somebody did, and the tracker tells all from some.
Publish ==
  /\ AllIn
  /\ ~Discarded
  /\ Answered # {}
  /\ tracker' = IF Failed = {} THEN OK(tracker) ELSE Down(tracker, "degraded", FailureReason)
  /\ depth' = QueueDepth(Answered)
  /\ known' = TRUE
  /\ at' = "reporting"
  /\ UNCHANGED <<running, cancelled, tick, request, verdict>>

\* SetSource follows SetQueueDepth.
Report ==
  /\ at = "reporting"
  /\ verdict' = Outcome
  /\ at' = "idle"
  /\ UNCHANGED <<running, cancelled, tick, request, tracker, depth, known>>

Stop ==
  /\ at = "idle"
  /\ cancelled
  /\ at' = "stopped"
  /\ UNCHANGED <<running, cancelled, tick, request, tracker, sink>>

ListenerNext ==
  \/ TickDisabled \/ Tick \/ Drop \/ PublishNothing \/ Publish \/ Report \/ Stop
  \/ \E l \in Listeners : Open(l) \/ Answer(l) \/ Fail(l) \/ Abort(l) \/ PodMoves(l)

---------------------------------------------------------------------------
(* Properties *)

Shown == UNION {depth[n] : n \in DOMAIN depth}

\* Until the program is ended, a depth that is shown is no older than the tick
\* before the one under way.  At rest it adds up everybody who answered the last
\* tick and nobody else, and the strip says how many it leaves out
\* (listener.go:206-248).
DepthIsFresh ==
  ~cancelled =>
    /\ known => \A r \in Shown : r[2] >= tick - 1
    /\ at = "idle" =>
         /\ known <=> verdict.state = "up"
         /\ known =>
              /\ Shown = Answered \X {tick}
              /\ verdict.reason.failed = Cardinality(Targets \ {r[1] : r \in Shown})

\* Nobody is named or counted who failed only because the program was ending
\* (listener.go:202-204).
NoListenerIsFramed ==
  [][verdict' # verdict =>
       /\ verdict'.reason.named \subseteq {<<l, request[l]>> : l \in With(Errors)}
       /\ verdict'.reason.failed <= Cardinality(With(Errors))]_listenerVars

\* Until the program is ended, the newest loud line is true of the last tick,
\* however long ago it was logged: everybody who fails is named in it with the
\* error of that tick, unless as many as a reason names fail before, and nobody
\* else is named (health.go:40-42, 52-77 and listener.go:328-361).
NewestLineHolds ==
  at = "idle" /\ ~cancelled /\ tick > 0 =>
    LET line == Newest(tracker.log) IN
      /\ Failing(line) <=> Answered = {} \/ Failed # {}
      /\ Failing(line) =>
           /\ line.msg = "unavailable" <=> Answered = {}
           /\ line.reason.failed = Cardinality(Failed)
           /\ line.reason.named \subseteq {<<l, request[l]>> : l \in Failed}
           /\ \A l \in Failed :
                \/ <<l, request[l]>> \in line.reason.named
                \/ Cardinality({k \in Failed : k < l}) >= MaxNamed

\* Each change of outcome is announced once, and after a tick the newest line of
\* the log is what the strip says and what the listeners did (health.go:3-9).
ScrapeNewsIsLoud ==
  /\ EachLineIsNews(tracker.log)
  /\ at = "idle" => SaysTheSame(tracker.log, verdict)
  /\ NewestLineHolds
=============================================================================
