----------------------------- MODULE RunnerPage -----------------------------
(***************************************************************************)
(* internal/k8s/events.go behind the page of one runner: the events of its *)
(* pod are looked up under the UID that a first snapshot has; what is      *)
(* handed to the page is shown with the pod of a second one, taken at any  *)
(* moment after.  Builder.Runner itself only reads.                        *)
(*                                                                         *)
(* The runner's pod fails and is created again under the name it had.  Its *)
(* events stay behind.  An event that repeats is renewed in place: lists   *)
(* come in the order of first emission, the panel wants the latest.        *)
(* Emitters have clocks of their own, and some put no date: that is 0.     *)
(***************************************************************************)
EXTENDS Naturals, FiniteSets, FiniteSetsExt

CONSTANTS
  Viewers,
  MaxPods,     \* bound on pods of the runner, numbered as their UIDs
  MaxEvents,   \* bound on events in all, numbered in the order of first emission
  MaxStamp,    \* bound on dates
  Keep,        \* maxEventsPerPod
  PageSize,    \* eventPageSize
  PageBudget,  \* eventPageBudget
  CacheSize    \* eventCacheSize

VARIABLES
  pods,    \* pods created
  there,   \* the last of them is there
  log,     \* the events there are: of which pod, and of what date
  seen,    \* the pod in the collector's map; 0 is none
  cache,   \* by UID, those that have an entry
  viewer   \* what each viewer is doing: see Answer

vars == <<pods, there, log, seen, cache, viewer>>

Idle == [at |-> "idle"]

RunnerInit ==
  /\ pods = 0 /\ there = FALSE /\ log = {} /\ seen = 0
  /\ cache = <<>>
  /\ viewer = [v \in Viewers |-> Idle]

---------------------------------------------------------------------------
(* The cluster, and the informer of pods *)

CreatePod ==
  /\ ~there /\ pods < MaxPods
  /\ pods' = pods + 1
  /\ there' = TRUE
  /\ UNCHANGED <<log, seen, cache, viewer>>

DeletePod ==
  /\ there
  /\ there' = FALSE
  /\ UNCHANGED <<pods, log, seen, cache, viewer>>

Emit(at) ==
  /\ pods > 0 /\ Cardinality(log) < MaxEvents
  /\ log' = log \cup {[pod |-> pods, id |-> Cardinality(log) + 1, at |-> at]}
  /\ UNCHANGED <<pods, there, seen, cache, viewer>>

Repeat(e, at) ==
  /\ e.pod = pods /\ e.at < at
  /\ log' = (log \ {e}) \cup {[e EXCEPT !.at = at]}
  /\ UNCHANGED <<pods, there, seen, cache, viewer>>

DeliverPod ==
  /\ seen' = IF there THEN pods ELSE 0
  /\ seen' # seen
  /\ UNCHANGED <<pods, there, log, cache, viewer>>

---------------------------------------------------------------------------
(* EventsForPod *)

\* Bug: one entry for all the pods that had this name.
KeyWithoutUID(uid) == 0

Key(uid) == uid

\* The field selector: a pod that is not in view is looked up by its name.
Matches(uid) == {e \in log : uid = 0 \/ e.pod = uid}

\* The sort is stable: events of one date keep the order they are listed in.
Precedes(e, other) == e.at > other.at \/ (e.at = other.at /\ e.id < other.id)

\* newestEvents: the selections of what was read that put nothing before what
\* they leave out.
Newest(read) ==
  {chosen \in SUBSET read :
     /\ Cardinality(chosen) = Min({Keep, Cardinality(read)})
     /\ \A e \in chosen, other \in read \ chosen : Precedes(e, other)}

\* What the panel is handed: the events; as a history, those there were when the
\* list began, and those of them that its pages did not come to.
Answer(events, listed, unread) == [events |-> events, listed |-> listed, unread |-> unread]

Nothing == Answer({}, {}, {})

Cached(uid) == Key(uid) \in DOMAIN cache

Hand(v, uid, answer) ==
  viewer' = [viewer EXCEPT ![v] = [at |-> "handed", uid |-> uid, answer |-> answer]]

\* Handler.events: the first snapshot, and the cache.
Hit(v) ==
  /\ viewer[v].at # "listing" /\ Cached(seen)
  /\ Hand(v, seen, cache[Key(seen)])
  /\ UNCHANGED <<pods, there, log, seen, cache>>

Reading(uid, listed, left, kept, page) ==
  [at |-> "listing", uid |-> uid, listed |-> listed, left |-> left, kept |-> kept, page |-> page]

\* Pages are of one version of the collection, that of the first.
BeginList(v) ==
  /\ viewer[v].at # "listing" /\ ~Cached(seen)
  /\ viewer' = [viewer EXCEPT ![v] = Reading(seen, Matches(seen), Matches(seen), {}, 0)]
  /\ UNCHANGED <<pods, there, log, seen, cache>>

\* The cache with an answer in it.  A full one lets go of the entry that was used
\* longest ago, whichever that is.
Added(key, answer) ==
  LET others == DOMAIN cache \ {key}
      room   == Min({CacheSize - 1, Cardinality(others)})
  IN  {[k \in kept \cup {key} |-> IF k = key THEN answer ELSE cache[k]] :
         kept \in {some \in SUBSET others : Cardinality(some) = room}}

\* A page: some of those left, in the order of first emission.  A page may be
\* short, even empty, with more to come.
ReadPage(v, some) ==
  LET w    == viewer[v]
      left == w.left \ some
  IN  /\ w.at = "listing"
      /\ some \subseteq w.left /\ Cardinality(some) <= PageSize
      /\ \A e \in some, rest \in left : e.id < rest.id
      /\ \E kept \in Newest(w.kept \cup some) :
           IF left = {} \/ w.page + 1 >= PageBudget
           THEN LET done == Answer(kept, w.listed, left)
                IN  cache' \in Added(Key(w.uid), done) /\ Hand(v, w.uid, done)
           ELSE /\ viewer' = [viewer EXCEPT ![v] = Reading(w.uid, w.listed, left, kept, w.page + 1)]
                /\ UNCHANGED cache
      /\ UNCHANGED <<pods, there, log, seen>>

\* A failed request leaves an empty panel, and nothing in the cache.
ListFails(v) ==
  /\ viewer[v].at = "listing"
  /\ Hand(v, viewer[v].uid, Nothing)
  /\ UNCHANGED <<pods, there, log, seen, cache>>

\* The entry is older than eventCacheTTL.
Evict(k) ==
  /\ cache' = [other \in DOMAIN cache \ {k} |-> cache[other]]
  /\ UNCHANGED <<pods, there, log, seen, viewer>>

RunnerNext ==
  \/ CreatePod \/ DeletePod \/ DeliverPod
  \/ \E at \in 0 .. MaxStamp : Emit(at) \/ \E e \in log : Repeat(e, at)
  \/ \E k \in DOMAIN cache : Evict(k)
  \/ \E v \in Viewers : Hit(v) \/ BeginList(v) \/ ListFails(v)
  \/ \E v \in Viewers : viewer[v].at = "listing" /\ \E some \in SUBSET viewer[v].left : ReadPage(v, some)

---------------------------------------------------------------------------
(* Properties *)

\* The panel of a pod has events of that pod and of none that had its name
\* before, whenever the page takes its second snapshot, unless the pod was not in
\* view or another took its place between the two.  Of the events that the pages
\* came to they are the latest, as many as the panel takes, however the pages cut
\* them and whether they were read now or come from the cache; and those the
\* pages did not come to were emitted first after all others (events.go:46-48,
\* 60-65).
PanelIsThePods ==
  \A v \in Viewers : viewer[v].at = "handed" =>
    LET answer == viewer[v].answer
        read   == answer.listed \ answer.unread
    IN  /\ seen # 0 /\ seen = viewer[v].uid => \A e \in answer.events : e.pod = seen
        /\ answer.events \subseteq read
        /\ \A e \in answer.events, other \in read \ answer.events : Precedes(e, other)
        /\ Cardinality(answer.events) = Min({Keep, Cardinality(read)})
        /\ \A e \in read, other \in answer.unread : e.id < other.id
=============================================================================
