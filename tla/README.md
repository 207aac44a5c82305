# arc-ui in TLA+

A verification project for the Actions Runner Controller dashboard
(`cmd/arc-ui` and `internal/`). It models the parts of the program whose
correctness depends on the order in which things happen: several goroutines, a
transactional store that derives history from the difference of two snapshots,
and browsers that are kept up to date over long-lived streams. TLC checks each
module on small instances. TLAPS proves the main safety results for every value
of the constants.

## 1. The system

`arc-ui` watches runners, runner sets, listeners and pods in a Kubernetes
cluster, keeps what it sees in memory, writes a history of it to SQLite, and
serves pages that stay live. `run()` in `cmd/arc-ui/main.go` wires it all
together.

    API server --informers--> collector --notifier--> recorder --> store (SQLite)
    metrics API --poller----->    |  ^                   |  ^           |
    listeners ----poller----->    |  +----- verdict -----+  |       compactor
                                  |                         v
                                  +---- Snapshot ---- hub ticks ----> streams

| Component | State | Operations | What makes it correct |
|---|---|---|---|
| **collector** `internal/k8s/collector.go` | maps of decoded objects, usage, queue depth, verdicts on sources, watch failures with their times, cached snapshot, dirty flag, subscribers, a token channel | `Start`, `apply*`, `SetUsage`, `SetQueueDepth`, `SetSource`, `noteWatchFailure`, `Snapshot`, `OnChange`, `touch`, `runNotifier` | whoever asks gets the fleet as it is; every change reaches the subscriber; snapshots are delivered in order |
| **snapshot recorder** `cmd/arc-ui/main.go` | one-place slot, token channel, worker | `enqueue`, `take`, `run`, the join at shutdown | no snapshot lost except to a newer one; writes in order; the store is closed after the worker, unless the server failed |
| **hub** `internal/hub/hub.go` | map of buffered channels, sequence number | `Subscribe`, its cancel, `Broadcast` | no send on a closed channel; a dropped tick never leaves a subscriber behind |
| **live streams** `internal/web/stream.go` | registry of cancel functions, per-request loop | `stream`, `Add`, `CloseAll` | no change missed between first render and subscription; nothing leaked; the drain ends |
| **server shutdown** `internal/api/api.go` | readiness, the HTTP server | `Shutdown` and its hook | streams do not hold up a drain |
| **history store, recording** `internal/store/record.go` | last frame and its time in memory; tables of jobs, their samples, churn events, failures, gauges | `RecordSnapshot` | completions, churn and cost are right over failed writes, replays, skipped snapshots, flapping runners and restarts |
| **history store, compaction** `internal/store/compact.go` | the raw, 1-minute and 5-minute tiers; retention | `Compact` | an average is never rewritten from part of its sources; nothing is trimmed before it is rolled up; no orphans |
| **history store, queries** `internal/store/query.go` | none | `Series`, `Churn`, `Throughput`, lists of jobs, runs and failures, a job's chart | the tier holds the window asked for; buckets line up; lists, counts and charts of one window agree |
| **history adapter** `internal/history` | a memo of table counts | one query for each panel | series share an axis |
| **snapshot builder** `internal/k8s/snapshot.go` | none | `BuildSnapshot` | each runner belongs to one set and has one state, over informers that lag |
| **job start tracker** `internal/k8s/jobstart.go` | first sighting per runner and job | `Observe`, `Retain` | a start, once seen, sticks; entries do not leak |
| **metrics and listener pollers** `internal/metrics`, `internal/listener` | last answers, a health tracker | a tick each interval | partial answers are not shown as whole ones |
| **data source probes** `internal/k8s/sources.go` | none | at boot, one for each source | what is not watched is not under a green light |
| **pod events** `internal/k8s/events.go` | a small cache | a list, page by page | the newest events, of this pod and no other |
| **fleet model** `internal/fleet` | none | `Aggregate`, `GroupBySet`, filters, sorts | totals agree with the parts |
| **pages** `internal/web/page.go` | none | a page from one snapshot and several queries | readings of different moments are put together without counting twice or losing any |
| **views, charts** `internal/web/view.go`, `internal/chart` | none | rendering | wording and layout |
| **configuration, logging, telemetry, API types, ent client** | none that changes | read or write once | — |

### What is hard

* *Interleaving.* Informer handlers, two pollers, the notifier, the recorder's
  worker, the compactor and one goroutine per browser share the collector, the
  hub and the store. Two channels of capacity one collapse bursts into a token,
  and one of capacity eight drops ticks; each needs an argument that what is
  dropped is not missed.
* *Feedback.* The outcome of a write becomes a verdict the collector shows,
  which is a change, which is recorded (`collector.go:410-414`).
* *Diffing.* The store derives completions, churn and cost from two consecutive
  frames, so order, replays, failed transactions and restarts all matter.
* *Time.* Watch failures expire with nothing but the clock to say so; intervals
  are integrated only up to a maximal gap.
* *Several readings of one page.* A page takes a snapshot, asks the store for a
  count and then for rows, and looks events up for a pod it saw a moment ago.
  Snapshots are recorded, rows swept and pods replaced between any two of them.
* *Lag.* Four informers deliver what they watch each at its own pace, so a runner
  may be in view before what it belongs to, or after.
* *Shutdown.* SIGTERM may find every goroutine anywhere; the database may not be
  closed under a write, and browsers hold their connections open for ever.

PROJECT.json lists these one by one, as hazards with the line where each bites
and the property that guards it. Hazards without a property say what is missing.

## 2. Modules

| Module | Models | State ↔ code |
|---|---|---|
| `NewestWins` | the promise of the recorder: hand over the newest, write in order, stop | abstract |
| `Recorder` | `snapshotRecorder`, the end of `run()` | `pending`, `wake` are the fields of the struct; `callerPc`, `workerPc` are the places where a goroutine can be interrupted; a snapshot is its instant |
| `Hub` | `hub.go` | `subs` is the map, `buf` the channels, `locked`/`todo` a `Broadcast` under way, `stage` where a cancel is; `asOf` is history |
| `Collector` | cache, watch failures, notifier, `Start` | `version` counts changes; `failures`/`age` is the `watchFailures` map and the clock; `touching` is a writer between the mutex and its `touch`; `notifier`, `calling` are the loop of `runNotifier` and its copy of the subscribers |
| `Pipeline` | the wiring in `run()` | instances of the three modules above; an action is a step of one goroutine and joins the components' actions it consists of |
| `LiveView` | streams, registry, `Shutdown`, as an extension of `Hub` | `phase` is where a handler is, `gone` its context, `entries`/`closed` the registry |
| `Store` | `RecordSnapshot` | `prev`, `prevAt` are the remembered frame; `rows` is the table of jobs and the samples of a job's chart; `created`, `terminated`, `failures` are the other tables; `lost` is history |
| `Compaction` | `rollup` and the sweeps of the sample tiers, statement by statement | `rows` is the table of one series, tier by tier; a row's value is the set of readings it averages; `step` is the statement of `Compact` that comes next, `now` its argument; `recorded`, `rolled` are history |
| `Query` | windows, tiers and points of charts, over `Compaction` | no state; an operator is a function of `query.go`, its points are sets of readings |
| `JobRetention` | the sweeps of jobs and their samples, statement by statement, while `RecordSnapshot` writes | `rows`, `samples` are the two tables; `watched` is the remembered frame; `phase`, `began` are the jobs as GitHub knows them |
| `Lists` | the job lists, facets, workflow runs, dense counts and a job's chart, over `JobRetention` | each operator is one statement of `query.go`; `lastReading` is history |
| `SnapshotBuilder` | who owns what in `snapshot.go`, and the verdicts of `sources.go` | `seenSets`, `seenErsets`, `seenRunners` are the collector's maps; `access` is the boot probe's verdict, and what became of the informer of each kind |
| `Overview` | filter, totals and rows of the fleet page, over `SnapshotBuilder` | no state; an operator is a function of `fleet` |
| `RunnerPage` | `EventsForPod` behind a runner's page | `cache` is the bounded map of entries that expire; `viewer` is a request between its two snapshots, or in the paging loop; `log` is the events there are, each of a pod, with its place in the order of first emission and its date |
| `FailureLane` | `mergeFailures` and the two statements of `Failures` | `failures` is the table; `page` is a request between its readings |
| `Pages` | the pages together | instances of the four above; `subject` says which of them a behaviour is of |
| `JobStarts` | `jobstart.go` and the gate in `BuildSnapshot` | `starts` is the tracker's map; `view`, `synced` the informer's copy of the `cluster`; `age`, `pending` the failure of its watch |
| `Health` | `health.go` | operators on a tracker: its state, its reason, and its `log`, which is the lines it wrote at info or warn level |
| `Listener` | the scraper's tick | `request` is what became of each target, the slots the requests under way; `depth`, `known`, `verdict` is what the collector was told; a reading is its listener and its tick; `Named` is what `namedFailures` spells out |
| `Metrics` | the poller's tick | `answer` is what each namespace said, or the error it failed with, `usage`, `verdict` what the collector was told |
| `Pollers` | how `run()` starts the two and ends them | instances of both; `cancelled` is the one context they share |
| `MCCompaction`, `MCPollers`, `MCPages` | values of constants for TLC | |
| `RecorderProofs`, `LiveViewProofs`, `CollectorProofs`, `PollersProofs`, `StoreProofs`, `CompactionProofs`, `JobStartsProofs`, `PagesProofs` | theorems | `LiveViewProofs` has those about `Hub`, `CompactionProofs` those about `Query`, `PagesProofs` those about `JobRetention`, `Lists` and what else `Pages` joins |

Definitions whose comment begins with "Bug:" are not part of a specification.
Each is the definition below it with a plausible mistake, and shows that the
property it is paired with in PROJECT.json would notice the mistake.

### Abstractions

* A snapshot is a version or an instant in `Collector`, `Recorder` and
  `Pipeline`, where only newer and older matters; in `Store` it is a function
  from runner names to the job and the health that is seen. Two runners of the
  same name in one snapshot are therefore not modelled.
* In `Collector`, `Snapshot` is one step. The code decides under a read lock and
  decides again under the write lock; whatever happens between the two could as
  well have happened before, and the second look sees it.
* `Recorder.Record` is the whole write: the store is a black box there that works
  or fails. `Store.Record` and `Store.Fail` are the two outcomes of its
  transaction; statements inside a transaction are not seen by anybody else.
* In `Store` a runner's CPU reading is one core, so its cost is a number of
  instants; all instants fall into one bucket of a job's chart. Rows of sets,
  gauges and fleet totals are written by plain upserts of the same transaction
  and have no state the model would add.
* `LiveView.Render` is the whole of collecting and patching a page. It may fail
  at any time, which ends the stream.
* In `Listener` an exposition is one reading of one set: parsing, the rounding of
  a depth and the announcement of sets that share a name are left out. The
  collector's listener targets are the pods that run. In `Metrics` one pod stands
  for those of its namespace, and namespaces answer in any order, where the code
  asks one after the other.
* In `Health` the text of a reason is what it tells: that nothing is configured, or
  how many answered and how many failed, and the failures it spells out with their
  errors. Of failing listeners `namedFailures` spells out the first `MaxNamed`, in
  the order of the targets, and counts the rest; of failing namespaces all are
  joined. So two reasons are equal in the model when their texts are. An error is
  one of a small set; one whose text differs each time, by a local port for one,
  is to the tracker another error, and news each time, in the code and in the
  model. Lines at debug level are not in the log.
* `Pollers` runs one of the two in a behaviour, as they share nothing but the end
  of the context; what both do is an interleaving of what each does alone.
* `Query` asks for windows that end at the present, as every page's charts do.
  Series of single runners, which are read from raw rows whatever the resolution,
  are the case of one tier.
* In `Compaction` a row's value is the set of readings that went into it, not a
  number. Two averages of the same readings are equal; that an average of
  averages is the mean only for equal counts (`compact.go:70-73`) is not visible
  here. One series stands for all, as no statement relates two. Runner-scoped
  readings, which are never rolled up, are left out, and so is one of the four
  tiers: three have a first, a middle and a last one.
* `Compaction` assumes that a snapshot is committed within `MaxLag` of its
  observation and that roll-ups succeed at least every `MaxPause`. The code runs
  them every minute (`compactInterval`) against a raw retention of hours; a
  process that is down for longer than that loses what it had not rolled up.
* In `JobRetention` a snapshot is recorded the moment it is taken: its windows
  are days, a commit takes seconds. A job ends within `MaxRuntime` of its
  beginning, which is GitHub's rule and not the program's. Churn events, which
  nothing refers to, expire by one exact cutoff and are not modelled.
* In `Lists` a job's repository, workflow and run id are one thing, so facets,
  `WorkflowRuns` and `RepoConsumption` group by the same key. Windows end at the
  present. The count and the rows of a list are two statements; what may change
  between them is modelled for failures only, where the page adds to the count.
  Search, order and the sums of costs are left out; `Churn` is `Throughput` over
  another table.
* In `SnapshotBuilder` informers deliver current states, key by key, as late as
  they please. Names of sets are used again, names of ephemeral sets and runners
  are not: the controller generates them. A label is its name cut short, so that
  one set's label may be the name of another. A
  verb stands for its reviews in all the namespaces that are watched: one that is
  denied is enough. A kind that a review of permissions could not be made for is
  watched, and may be refused for ever. That no kind was installed and that none
  could be discovered are two texts of one verdict. The health of
  listeners is left out: it is read off one pod.
* In `Overview` a set allows one runner more and asks one unit for each of its
  runners, so that sums can be compared with counts.
* In `RunnerPage` one runner stands for all, as entries of the cache are kept by
  pod. A full cache lets go of any one entry, where the code's takes the one that
  was used longest ago. A list is of one version of the collection, as continue tokens promise, and
  a page is any part of it that is next in order, short and empty pages included.
  Events have dates of the emitters' own, in any order, and some have none, which
  is 0; of one date, those listed first come first. What `newestEvents` keeps is a
  set: its members and their number are what a page's cut could get wrong, the
  order of the lines on the panel is not told.
* In `FailureLane` a failure is its runner: two reasons of one runner are two
  failures to the code and would be two runners here.
* `Pages` runs one part in a behaviour. They read different tables and maps, and
  a page writes nothing but the cache of events, which no other page reads.
* In `JobStarts` a runner is a UID, so a name used again is another runner. The
  informer delivers current states and may leave out those between, keeps its
  objects when a watch fails, as client-go does, and delivers deletions after the
  initial list. The gate in front of `Retain` guards against a view that has lost
  objects; with this informer only an incomplete initial list is such a view.
* In `Collector` SIGTERM arrives after `Start` returned; during `Start` the code
  returns an error and there is nothing more to say.

## 3. Runs

| Run | What it asks | Bounds |
|---|---|---|
| `recorder` | no wakeup lost, joined at shutdown, and only then or when the server fails is the store closed; implements `NewestWins`, order and liveness included | 2 callers, one at a time, 3 instants |
| `collector` | the cache tells the truth, every change is delivered, in order | 2 writers, 1 watched source, TTL 1, 2 changes |
| `collector_ready` | *violated*: readiness follows once the informers are synced | 1 writer, 1 change |
| `pipeline` | every change is shown, the program comes to rest, the strip tells the truth | 1 stream, capacity 1, 1 change of the cluster and 3 of the verdict |
| `live_view` | no send on a closed channel, no stale wait, no stream slips by the drain, nothing leaks, the drain ends | 2 streams, capacity 1, 2 broadcasts |
| `pollers` | nothing stale under a green light, nobody blamed for SIGTERM, each change of outcome is logged aloud once, and truly, ticks end | 2 listeners with 1 slot, a reason that names 1, 2 errors and 3 ticks; 2 namespaces, 2 errors and 3 polls |
| `store` | completions, churn and cost are right | 1 runner, 2 jobs, 4 instants, gap 2 |
| `store_failed_jobs` | *violated*: a job whose runner failed is recorded as failed | 1 runner, 1 job, 3 instants |
| `compaction` | averages do not drift, become exact, nothing is swept before it was rolled up; charts show what is kept, each reading in its place | 3 tiers of widths 1, 2 and 4, three settings of the retentions to restart with, 9 instants, lag 1, pause 2; charts with buckets of 1 to 4 instants |
| `job_retention` | jobs: no orphans, nothing immortal, only history is swept, whoever ran is listed, lists and charts agree. Fleet page: its table adds up and, once informers are current under a green strip, is the fleet; each failure is in the lane once and in its count. Runner page: the latest events of its own pod | jobs: 2, windows 1 and 2, runtime 2, sample buckets of 2, 5 instants, windows asked for of 1 and 3 instants. Fleet: 2 names of sets of which one is the other's label, 2 sets ever, 2 ephemeral sets with 2 stamps, 1 runner. Runner: 2 pods, 3 events with dates 0 and 1, 1 kept, pages of 1, budget 2, a cache of 1 entry, 1 viewer. Failures: 2 runners, 1 row shown, range and retention 2, 4 instants |
| `job_starts` | starts stick, are sightings, and go with their runners | 2 runners, TTL 1, 3 instants |
| `job_starts_restart` | *violated*: after a restart a job is as old as its pod | 1 runner |

*Why the bounds are enough.* The recorder's slot holds one snapshot: with three
one can be written, one be in the worker's hand and one in the slot. The hub's
capacity is reached and exceeded with two broadcasts on a buffer of one; its
code treats subscribers independently, so two show whatever one can do while
the loop is at another. Two listeners and one slot let one wait for a slot,
and one, both or neither fail; a third tick, and a third poll, meet whatever
outcome the two before left behind, a change of fortune and its reverse among
them. With a reason that names one, the second of two failures is only counted, and
may change under the same text; that some answer, one failure is named and one
counted needs three listeners, and is the theorem's. Two changes let one be made at every point of the
delivery of the other. Four instants with a gap of two hold an interval that is
billed, one that is too long, and a runner that leaves a job and comes back;
nothing in `RecordSnapshot` relates two runners. Nine instants let two buckets of
the coarsest tier fill, one of them straddle every retention edge and be derived
again after it; no retention is longer than eight. In `JobRetention` jobs do not
meet, and four instants after its start a job has had its longest run and its
window; samples outlive jobs there, so that a sample left by a sweep stays to be
found; two jobs are the fewest that a list can count wrongly. Two sets let one
be recreated under its name, or be mistaken for the other by its label; the
ephemeral set and the runner of the first may be in view all the while. Two pods and
three events let a page that keeps one event leave out an older one of the same
pod, one that repeats and one of the pod before; a budget of two pages is
exceeded. Each pod's entry has to make room for the next one's. Two failing runners
and one row let a failure be pushed off the page, and each be written or swept
between the statements. The theorems of section 5 hold
without bounds on any of these.

*Deadlock* is not checked where the system may stop: a recorder whose program
has ended, streams that are done, a bounded number of changes used up. `Store`,
`Compaction` and `JobStarts` never stop, as their process may always be
restarted, and are checked for it. `Pages` stops when the objects that may be created
are used up.

## 4. Fairness

Weak fairness on each step a running goroutine takes on its own: Go's scheduler
runs every goroutine that can run, timers fire, a write ends with success or
with failure (SQLite's busy timeout and the context bound it). Strong fairness on
the branch of a `select` that waits for a cancelled context (`Halt`,
`ContextDone`): Go picks among ready cases at random, so it cannot always pick
the other. No fairness on anything the environment decides: changes of the
fleet, failing watches, SIGTERM, the deadline, browsers that come or go, page
requests, heartbeats, restarts. `StartSynced` and `List` are fair: the API server
answers a list in the end. A request to a listener or to
metrics-server ends, for the client's timeout or the poll's deadline sees to it,
but nothing is assumed about answers: the fair step is the failure.

## 5. Proofs

Each theorem is `Spec => []P` or `Spec => [][A]_v` for all constants that satisfy
the ASSUMEs of the module. Every safety property that a passing run checks is
proved, but for the safety half of `HistorySpec`, whose steps are proved. What is
assumed of the constants:

* A bound is a natural number, a channel has room for something
  (`CapAssumption`; the code makes it 8), there is a slot for a request
  (`MaxScrapesAssumption`; the code has 16), and "no job" is not a job.
* The widths of the tiers divide one another, and the raw tier's is an instant
  (`WidthAssumption`): a second, a minute, five minutes and an hour in the code.
* What is counted is finite: jobs (`JobsAssumption`), runners that fail
  (`LaneAssumption`), listeners and namespaces (`ListenersAssumption`,
  `NamespacesAssumption`). The tables and maps of the code are.
* Listeners are numbers, as pods are asked in the order of their names
  (`ListenersAssumption`), a reason names at least one failure
  (`MaxNamedAssumption`; the code names 3), and an error is not one of the words
  the model has for a request under way (`ErrorsAssumption`).
* The generated names of ephemeral sets are compared when their timestamps are
  equal (`newerThan`), so they are numbers here (`FleetAssumption`).
* The theorems about compaction have one hypothesis more, `WellConfigured`: every
  tier but the coarsest is kept for as long as it takes the roll-ups to see it,
  and for no shorter a time than the finer ones. The configuration does not
  check this; its defaults (6 hours, 7, 30 and 400 days, with a roll-up every
  minute) satisfy it, and so does every setting that only lengthens coarser
  tiers. Without it `NoDrift` is false: see section 6. TLC evaluates it for the
  run's settings (`OrderedAssumption`).

The arguments, by module:

* `RecorderProofs`. `NoLostWakeup` is inductive with the types. `RecordedInOrder`
  needs `Handover`, which orders the snapshots on their way: what was tried is
  no newer than what the worker holds, that no newer than what is pending, and
  that no newer than the clock; at most one caller is busy, and what it is about
  to park is the newest there is. The part about callers is where `Serialised`
  enters. `Handover` also gives that each step of the recorder is a step of
  `NewestWins` or a stutter. The verdict and the tick need `Attempts`, which says
  at each place of the worker what its last write was and who knows about it.
* `LiveViewProofs`. Of the hub: `NoSendOnClosed` needs `Mutex`: what a broadcast
  has still to send to is in the map, nothing is left to send when the mutex is
  free, and whoever is in the map is open. `NoTickMissed` follows from it and from
  a buffer having room for at least one tick. `TicksInOrder` needs `Fresh`: ticks
  in a buffer are older than the one being sent. Of the streams:
  `StreamsUseTheHub` shows that each step of `LiveView` is a step of `Hub` or a
  stutter, so all of the above holds beneath the streams. `NoStaleWait` is
  `NoTickMissed` with `RenderedSince`: whoever waits has rendered since it took
  its last tick. `NothingLeaks` follows from `Subscribed`, which says for each
  place in the handler what it holds of the hub, and `NoStreamSlipsBy` from
  `Registered`: a stream with a context of its own has an entry, or is on
  `CloseAll`'s list, or is cancelled.
* `CollectorProofs`. `ServedIsTheTruth` needs `CacheSound`: a usable cache was
  built from the version there is now and from no failure, and a source whose
  failure still counts has its entry in the map, so that a cache without entries
  cannot hide one. `ChangesAreOnTheirWay` and `DeliveredInOrder` rest on it: what
  is delivered is what there is.
* `PollersProofs`. Both pollers publish what they found and their verdict in two
  steps, so what holds after a tick must be said of each place within it.
  `DepthMatches` and `AnswersMatch` tie what is shown to what became of this
  tick's requests; `ScrapeTrackerMatches` and `PollTrackerMatches` say that the
  tracker is a step ahead of the strip while a tick is reported and equal to it
  otherwise. `LogFits` ties the tracker to its log: the newest line is what the
  tracker holds, and each line is news after the one before it. `NewsIsAdded` is
  the lemma on appending one; `OKFits` and `DownFits` say that the tracker's two
  ways to go on keep it, the quiet one because nothing is appended and the
  tracker stays. That the newest line is still true of a tick that logged nothing
  is then what an equal reason means: the same counts, and the same failures named
  with the same errors (`OutcomeSays`). All of it is said as long as the program was not told to end:
  `RequestsMatch` has requests cut short only after that, which is
  `NobodyIsFramed`.
* `StoreProofs`. `RowAfterRecord` says what one `RecordSnapshot` does to one row;
  every theorem uses it. The invariant `Accounts` ties cost to time: no remembered
  frame without its instant, that instant no later than the clock, and no
  job billed beyond it. Without it the bound on `cost` is not inductive. On
  it rest `CompletionsAreNotLost`, `ChurnIsComplete`, `CompletionsAreFinal`,
  `NothingIsBilledTwice`, `NothingHeldIsUnbilled` and `FailuresRatchet`.
* `CompactionProofs`. The lemmas about `FloorTo` come first: a floor is a multiple
  within a width, floors keep the order, and buckets of a width that divides
  another nest (`Nested`, `BucketsNest`). That each width divides all the coarser
  ones is an induction over tiers; it is made by way of a least counterexample
  (`LeastNat`), as no induction theorem can be instantiated here. `Settled` is a
  reading whose bucket has ended long enough before the last roll-up into a tier
  for nothing more to come. `Carried` is the heart: a reading that has settled in
  a tier, or is in the next one, is in the tier or its whole bucket of the next
  tier was swept there, and stays swept. So what a roll-up derives anew has all
  that the row had, which is `NoDrift`; a settled bucket has all of its readings,
  which is `OldAveragesAreExact`; and `Kept`, of the coarsest tier, with the coarsest
  tier that a reading has settled in, gives `NothingIsLost`. Sweeps keep
  `Carried` because the floor of a roll-up is aligned to the next tier's buckets
  (`SweepTakesWholeBuckets`), because retentions are ordered (`FloorsFall`) and
  because a snapshot is not as late as a retention is long. For the charts,
  `ResolutionSpans` and `TierFits` say that a window's buckets are wide enough
  and a multiple of the tier's; `PointsInPlace`, `KeptIsDrawn` and
  `AsManyPoints` are the three parts of `ChartsShowWhatIsKept`.
* `JobStartsProofs`. `Held` says that a runner in view with a job, or with an
  entry, took a job before now and cannot take another one, and that what is
  shown is what the tracker has. `StartsAreSightings` is inductive with it;
  `StartsStick` follows.
* `PagesProofs`, the job tables. `Ages` bounds the jobs some runner holds: none began
  longer than `MaxRuntime` ago, and a row is no older than its job. `Progress`
  says what each of the five statements leaves for those after it: from the
  second on no sample is past its window, from the third on no expiring finished
  job has samples, and so on. Recording between two statements does not spoil it,
  for what it adds or closes is too young for the run, and that is where `Ages`
  enters. `NoOrphans` is inductive with both, `NothingIsImmortal` is what
  `Progress` says after the last statement, and `OnlyHistoryIsSwept` follows from
  `Ages`.
* `PagesProofs`, the lists. Each step of `ListsSpec` is a step of `JobRetention` or a
  stutter, and each of `PagesSpec` one of `ListsSpec` or a stutter, so what is
  proved of the tables holds of the pages. `Recalled` ties a job's last reading
  to its row: while there is a row it began before the reading and ended after
  it, and a row that is gone had its last reading a whole window ago. A sweep of
  finished jobs keeps that because a job's reading is no younger than its end,
  one of abandoned jobs because it is no younger than the start and
  `MaxRuntime`, which is `Ages` again. `WhoeverRanIsListed` follows. `HistoryAgrees`
  is about sums. `SumsOfSizes` says that the sizes of disjoint sets add up to that
  of their union; `MapThenSumSet` is a fold, and the lemma first shows that there
  is one way only to choose the terms of the sum one after the other. With it, the buckets of a
  window's grid divide the finished jobs (`GridCovers`, `Apart`) and its runs
  divide the list. `Charted` bounds a job's samples by its start and end.
* `PagesProofs`, the lane. `LaneInv` says that what was counted is what the store
  has in the window, but for the runners whose rows were changed since
  (`StillCounted`), and that neither the snapshot nor the count has a runner
  twice. When the page is put together, `ShownLane` compares the three readings.
* `PagesProofs`, the fleet. `Descent`: in view or in the cluster, what descends
  from a set has its name, as UIDs and the names of ephemeral sets are not given
  twice (`FleetUnique`). So a runner is in the row of its own set or under its
  label (`NameOfRunner`), and rows are disjoint, so their sizes add up
  (`TotalsOfRows`). A verdict that all is well leaves no
  kind out (`Booted`: each was found and no review of it denied), so when the strip is
  green each informer is answered, what is in view is the cluster (`GreenInView`), and there owners go after what they own
  (`Owned`). `NewestErset` finds the newest rollout: there is one, for names
  break ties.
* `PagesProofs`, the panel. `NewestWinAcrossPages` is the lemma the loop of
  `EventsForPod` rests on: to keep the newest of what was kept and of a page is to
  keep the newest of everything read. `RunnerInv` says that whatever is being
  read, handed on or cached under a UID is a sound part of a list of that UID's
  events. Evictions, repeats and new pods change none of these.

What the proofs changed in the models:

* `DepthIsFresh`, a part of `NothingStaleIsGreen`, was said of the ticks after
  SIGTERM too. A tick that is cut short publishes nothing, so the depth before it
  stays on the screen while the program ends; it is said of a running program
  now, and the run has a third tick.
* `GreenIsTheFleet` did not need its green light: informers that have caught up
  were enough. It now speaks of the informers that are answered, so that it says
  what the strip is for: a kind that is refused, and not watched, makes the strip
  other than green.
* In `Compaction` the order of retentions was a remark about the run's constants; it
  is `WellConfigured` now.
* `RunnerPage` had lists as sequences, sorted and cut with `SelectSeq`, which the
  provers cannot expand. They are sets of events that have their place in the
  listing, and a date where they had none.

Proved and not run: `VerdictFollowsTheWrite`, `TickFollowsTheWrite`,
`RecordedInOrder` (of which `HistorySpec` says more), `NoTickMissed` (of which
`NoStaleWait` is what a stream sees), `TicksInOrder` and `FailuresOnlyWorsen`. Callers of `enqueue` that overlap, for which it is written
although the notifier makes none, are in the theorems and not in the runs: those
without `Serialised` hold for them too. Type correctness is proved where a
module has proofs, and most runs leave it to them.

Only model-checked: every liveness property (`ShutdownEnds`,
`EveryChangeIsDelivered`, `EveryChangeIsShown`, `ComesToRest`,
`StripTellsTheTruth`, `DrainEnds`, `TicksEnd`, `EntriesGo`, and the liveness half
of `HistorySpec`), as the prover has no support for fairness and ENABLED; and with
them all of `Pipeline`, whose properties are of that kind. The three violated
properties are refuted by TLC and have nothing to prove.

## 6. Where code and words disagree

* **Readiness** (`collector_ready`). `Start` asks `WaitForCacheSync` once and keeps
  its answer. If the caches fill after the 60 s boot wait the collector serves them,
  and `/readyz` goes on saying no: `HasSynced` is never set again.
* **Failed jobs** (`store_failed_jobs`). `record.go:227` takes a job's outcome from
  the runner's last state. `runnerState` answers "busy" for every runner with a
  job before it looks at failures, so no snapshot holds a failed runner with a
  job, and no job is ever recorded as failed. The store's own test passes such a
  frame in by hand.
* **Restarts** (`job_starts_restart`). `snapshot.go:239-243` has the pod's start
  stand in for jobs that were running before the process. `Observe` never answers
  zero for a runner with a job, since the collector always has a tracker, so such
  a job starts at the first snapshot after the restart. The test of the fallback
  passes no tracker.

Others were met while modelling and have no run of their own:

* *Replays.* `record.go:32-34` says that recording a snapshot again changes
  nothing but, by its increment, a job's cost. The increment is zero, but
  `writeJobSamples` folds the reading into the job's bucket a second time and
  counts it. The collector hands out the same build until something changes,
  and a touch without a change is enough to have it recorded again.
* *A server that fails.* `main.go:297-299` says that the recorder is joined before the
  store is closed. `run` returns at `main.go:284` without a join when the server
  fails on its own, a port in use for one, and its deferred calls close the store
  before they cancel the worker. `Abort` is that return, and `ClosedAfterTheWorker`
  makes an exception of it. The compactor is joined on neither path.
* *A failed count.* `web/history.go:378` says that `Enabled` is false without a history
  store. `page.go:1206` and `page.go:1244` drop the error of `Stats`, whose value is
  then false as well: a count that fails, on a busy database say, has the two
  tabs of jobs say that nothing is recorded.
* *Late snapshots.* `compact.go:66-68` promises that no partial average is
  published. A bucket is complete for `rollup` once the clock has passed its end;
  a snapshot observed before and committed after has it corrected.
  `OldAveragesAreExact` is what does hold.
* *Order of retentions.* The floor of a roll-up keeps averages from drifting if
  no tier is kept for a shorter time than a finer one, which the configuration
  does not check. With a 1-minute tier that is kept for a shorter time than the
  raw one, rows swept from it are made again from raw rows, as far as those go
  back; a restart with a longer retention then derives a 5-minute average from
  them. `NoDrift` holds where retentions are ordered, whichever of them the
  process is restarted with; give `Retentions` the tables (5, 3, 8) and
  (5, 8, 8), and take `OrderedAssumption` out of the way, to see it fail.
* *Points of a chart.* `history.go:12` of `internal/web` promises at most `Points`
  buckets. Buckets begin at multiples of their width, wherever the window begins,
  so there may be one more; `PointsAreInPlace`, a part of `ChartsShowWhatIsKept`,
  says so.
* *Names shared by namespaces.* `listener.go:231-233` says that a set whose
  listener did not answer is absent from the depths. Two sets of one name in two
  namespaces share an entry, so when one of their listeners answers its depth
  stands for both.
* *Swaps beyond the third.* `health.go:52-54` has a different error be news. A reason
  names three failing listeners and counts the rest (`listener.go:54-57`,
  `listener.go:345-361`), and reasons are compared as texts (`health.go:70`). Of more
  than three failing listeners, one beyond the third may recover while another
  fails, or fail in another way, and log and strip say what they said before.
  `NewsIsLoud` therefore has everybody who fails named with the error of the last
  tick, unless as many as a reason names fail before.
* *Order of reports.* The metrics poller gives its verdict before its readings,
  the scraper its depth before its verdict (`metrics.go:148-157`,
  `listener.go:242-248`). A page in between shows the last poll's readings under
  this poll's light. `NothingStaleIsGreen` is about the time between ticks.
* *The first bucket of a job.* `page.go:1287-1291` says that a job's chart shows all
  of it. Samples carry the instant their bucket begins, the window begins with the
  job, and a job that did not begin with a bucket loses its first point.
  `ChartShowsTheJob` exempts that bucket.
* *The newest failures.* `page.go:1021-1023` takes a live failure that is not among
  the stored rows for one the store has not seen, since "live failures are the
  newest thing there is". A runner that broke before the six newest and is still
  there is in the snapshot, was pushed off the rows, and is counted twice in
  "+n more". A failure recorded between the count and the rows is not counted. So
  `LaneCountsEachFailure` bounds the count from below, but for rows that change in
  between, and is exact only when the window fits the lane.
* *Events of a dead pod.* `events.go:57-59` and `main.go:488-489` pin events to a pod by
  its UID. A pod that is not in view has none, and is looked up by name alone; one
  that was replaced between the snapshot of the lookup and that of the page has its
  events shown with the other. `PanelIsThePods` exempts both.
* *Events backwards.* Two viewers may list one pod's events at the same time, and the
  one that began first finish last: its older list stays in the cache for its
  time. Each panel is a list of some moment, which is what `PanelIsThePods` says.
* *Recreated sets.* `snapshot.go:472-474` resolves owners by UID lest runners go to
  the wrong generation, and by name where the UID is not in view. A rollout of a set that
  was deleted is then its successor's, with its counts, until it is gone;
  `GreenIsTheFleet` holds because sets go after what they own.
* *Sets of one name.* Runners are joined with sets by name
  (`aggregate.go:74`, `aggregate.go:127`): two sets of one name in two namespaces both count the
  runners of both. The model has one namespace.
* *Gaps.* `history.go:387-389` has a metric without a bucket leave a gap; `align` fills
  it with zero, so a panel cannot tell it from an idle one.
* *Alternating disk.* A store that alternates between working and failing changes the
  verdict with each write, which is a change, which is recorded: the loop that
  `SetSource` is meant to end goes on for as long as the disk flaps. `Pipeline` lets
  the disk fail and recover once.
* *Costs of finished jobs.* A runner that flaps back to a finished job adds to its cost
  (`record.go:348`), while its usage chart stays closed. `TimeHeldIsBilled` holds with that
  cost included.
* *Names in the store.* Runners of one name in two namespaces are one runner to the store
  (`record.go:94`), and whichever comes first is recorded.
* *The first touch.* `Start` touches before `run()` registers its callback, so the first
  notification may find nobody to call; what changed before is seen with the
  next change. `EveryChangeIsDelivered` begins with the registration.

## 7. Plan

Done: the recorder, the hub, the collector, their composition, the streams, the
store's recording, compaction and retention, the charts, lists and counts drawn
from it, the pollers, the tracker of starts, ownership in snapshots, and what
the pages put together from several readings; with theorems about all but
`Pipeline`, for every safety property the runs check. Next, in this order:

1. `Pipeline`: each of its steps is a step of the collector, of the recorder and of
   the hub, or leaves them alone, so that their theorems hold of the program as
   it is wired.
2. `Store` and `JobRetention` composed, with frames of several runners.
3. The memo of table counts, and the axis that series share.

### Not modelled

* `internal/store/ent`: generated from the schema, and more than half of the lines of
  the repository. Its state is the database's; `Store`, `Compaction`, `JobRetention`
  and the queries model the statements that the program has it execute.
* `internal/web/view.go`, `internal/web/history.go`, `internal/chart`, `internal/web/assets.go`
  and most of `page.go`: layout, wording, geometry. What a page says in numbers is in
  `Overview`, `Lists`, `RunnerPage` and `FailureLane`.
* `internal/listener/parse.go` but for the fold onto sets: the grammar of an exposition.
* Output that is never read back (`internal/logging`, `internal/telemetry`), the
  environment that is read once (`internal/config`), data types with accessors
  (`internal/arcapi`), the middleware around handlers, and `tools/`.
* Listener health, resources and failure reasons in `snapshot.go`: functions of one
  object each, with no state and nothing to agree with.
