------------------------------ MODULE Pollers ------------------------------
(***************************************************************************)
(* The two pollers as run() in cmd/arc-ui/main.go starts them: each in a   *)
(* goroutine of its own, with one context that ends both.                  *)
(*                                                                         *)
(* They write different parts of the collector and read nothing of each    *)
(* other's, so what both do is an interleaving of what each could do       *)
(* alone.  A behaviour here runs one of them, whichever, and leaves the    *)
(* other where it begins.                                                  *)
(***************************************************************************)
EXTENDS Naturals, FiniteSets

CONSTANTS
  Listeners, SetNames, SetOf, MaxScrapes, MaxTicks, Namespaces, MaxPolls, Errors, MaxNamed

ASSUME ListenersAssumption == Listeners \subseteq Nat /\ IsFiniteSet(Listeners)
ASSUME NamespacesAssumption == IsFiniteSet(Namespaces)
ASSUME ErrorsAssumption ==
  Errors \cap {"none", "queued", "open", "answered", "aborted", "awaited", "runners", "empty"} = {}
ASSUME SetOfAssumption == SetOf \in [Listeners -> SetNames]
ASSUME MaxScrapesAssumption == MaxScrapes \in Nat \ {0}
ASSUME MaxNamedAssumption == MaxNamed \in Nat \ {0}
ASSUME BoundsAssumption == MaxTicks \in Nat /\ MaxPolls \in Nat

VARIABLES
  started,    \* the poller that runs
  cancelled,  \* the context of run()
  running, scraper, tick, request, scrapeTracker, depth, known, listenerVerdict,
  poller, poll, answer, expired, pollTracker, usage, metricsVerdict

L == INSTANCE Listener WITH at <- scraper, tracker <- scrapeTracker,
                            verdict <- listenerVerdict
M == INSTANCE Metrics WITH at <- poller, tracker <- pollTracker, verdict <- metricsVerdict

listenerOnly ==
  <<running, scraper, tick, request, scrapeTracker, depth, known, listenerVerdict>>
metricsOnly == <<poller, poll, answer, expired, pollTracker, usage, metricsVerdict>>
vars == <<started, cancelled, listenerOnly, metricsOnly>>

Init == L!Init /\ M!Init /\ started \in {"scraper", "poller"}

\* SIGTERM, at any moment.
Cancel ==
  /\ ~cancelled
  /\ cancelled' = TRUE
  /\ UNCHANGED <<started, listenerOnly, metricsOnly>>

Alone(name) == started = name /\ UNCHANGED started

Scrape(A) == Alone("scraper") /\ A /\ UNCHANGED metricsOnly

PollServer(A) == Alone("poller") /\ A /\ UNCHANGED listenerOnly

Next == Cancel \/ Scrape(L!ListenerNext) \/ PollServer(M!MetricsNext)

\* The client's timeout ends each request and the deadline each poll: answers
\* may never come.  Tickers fire or not; `select` may prefer a tick to the end
\* for a while, not for ever.
Fairness ==
  /\ \A l \in Listeners : WF_vars(Scrape(L!Open(l))) /\ WF_vars(Scrape(L!Fail(l)))
  /\ WF_vars(Scrape(L!Drop \/ L!PublishNothing \/ L!Publish))
  /\ WF_vars(Scrape(L!Report))
  /\ SF_vars(Scrape(L!Stop))
  /\ WF_vars(PollServer(M!Expire))
  /\ \A n \in Namespaces : WF_vars(PollServer(expired /\ M!Fail(n)))
  /\ WF_vars(PollServer(M!Drop \/ M!ReportFailure \/ M!ReportSuccess))
  /\ WF_vars(PollServer(M!Publish))
  /\ SF_vars(PollServer(M!Stop))

Spec == Init /\ [][Next]_vars /\ Fairness

---------------------------------------------------------------------------
(* Properties *)

\* Until the program is ended nothing stale is shown under a green light, and the
\* depth, which has no time on the screen, is never older than one tick under any
\* light (listener.go:212-222, metrics.go:133-157).
NothingStaleIsGreen == L!DepthIsFresh /\ M!UsageIsFresh

\* Ending the program makes no source look broken, however many requests it
\* cuts short (listener.go:202, metrics.go:126).
NobodyIsFramed == L!NoListenerIsFramed /\ M!ServerIsNotFramed

\* Each change of fortune is logged aloud once: no loud line repeats the one
\* before it, a recovery names the failure that it ends, and the newest line is
\* what the strip says and is true of the last tick or poll, up to the failures
\* that a reason only counts (health.go:3-9, listener.go:54-57).
NewsIsLoud == L!ScrapeNewsIsLoud /\ M!PollNewsIsLoud

\* A listener or a server that never answers holds up its own poller for a
\* bounded time, and SIGTERM ends it (listener.go:41-52, metrics.go:116-122).
TicksEnd ==
  /\ scraper = "scraping" ~> scraper = "idle"
  /\ poller = "listing" ~> poller = "idle"
  /\ cancelled ~> IF started = "scraper" THEN scraper = "stopped" ELSE poller = "stopped"
=============================================================================
