-------------------------- MODULE SnapshotBuilder --------------------------
(***************************************************************************)
(* internal/k8s/snapshot.go: to which scale set a runner belongs, and from *)
(* where a set has its counts, over informers that follow the cluster each *)
(* at its own pace.  internal/k8s/sources.go decides at boot which of them *)
(* are started, and what the strip says of that.                           *)
(*                                                                         *)
(* A set owns ephemeral sets, one for each rollout, and these own runners. *)
(* Sets are recreated under the name they had.  The names of ephemeral     *)
(* sets and runners end in random letters and are not used again.          *)
(***************************************************************************)
EXTENDS Naturals, FiniteSets, FiniteSetsExt

CONSTANTS
  Names,     \* of scale sets
  LabelOf,   \* a name as a label has it, cut to 63 characters
  MaxSets,   \* bound on sets ever created
  Ersets,    \* names of ephemeral sets, in alphabetical order: numbers
  MaxStamp,  \* bound on creation stamps, which have the resolution of a second
  Runners    \* names of runners

VARIABLES
  sets, ersets, runners,              \* the objects there are in the cluster
  seenSets, seenErsets, seenRunners,  \* those in the collector's maps
  created,                            \* sets created
  spent,                              \* names used up
  access                              \* what became of the kinds at boot, and the verdict

cluster   == <<sets, ersets, runners, created, spent>>
views     == <<seenSets, seenErsets, seenRunners>>
fleetVars == <<cluster, views, access>>

Kinds == {"sets", "ersets", "runners"}

\* An informer lists and watches.  A verb stands for its reviews in all the
\* namespaces that are watched: one that is denied is enough.
Verbs == {"list", "watch"}

\* No informer is started, or one is and is answered; or refused again and again.
Access == {"dropped", "watched", "refused"}

\* The kinds an informer is started for: those that discovery found and no review
\* denied.  Of a review that could not be made nothing is concluded.
Usable(found, denied) == {kind \in found : \A verb \in Verbs : <<kind, verb>> \notin denied}

\* The verdict.  That no kind at all was found is told before any is reviewed.
ProbePasses(found, denied) ==
  /\ found # {}
  /\ denied = {}
  /\ Kinds \ found = {}

\* Only kinds that were found are reviewed.  An informer is refused whose review
\* could not be made, or whose permission was taken away.
Boot ==
  \E found \in SUBSET Kinds : \E denied \in SUBSET (found \X Verbs), refusing \in SUBSET Kinds :
    access = [available |-> ProbePasses(found, denied),
              informer |-> [kind \in Kinds |->
                              IF kind \notin Usable(found, denied) THEN "dropped"
                              ELSE IF kind \in refusing THEN "refused" ELSE "watched"]]

FleetInit ==
  /\ sets = {} /\ ersets = {} /\ runners = {}
  /\ seenSets = {} /\ seenErsets = {} /\ seenRunners = {}
  /\ created = 0
  /\ spent = {}
  /\ Boot

---------------------------------------------------------------------------
(* Probes *)

Watched(kind) == access.informer[kind] = "watched"

\* What the strip says: the probe's verdict, and the errors of informers that are
\* refused.
Green == access.available /\ \A kind \in Kinds : access.informer[kind] # "refused"

---------------------------------------------------------------------------
(* The controller *)

CreateSet(name) ==
  /\ created < MaxSets
  /\ \A s \in sets : s.name # name
  /\ created' = created + 1
  /\ sets' = sets \cup {[uid |-> created', name |-> name]}
  /\ UNCHANGED <<ersets, runners, spent, views, access>>

\* Stamps do not go back, and several rollouts may have one.
Rollout(s, e, at) ==
  /\ e \notin spent
  /\ \A other \in ersets : other.at <= at
  /\ ersets' = ersets \cup {[id |-> e, uid |-> s.uid, name |-> s.name, at |-> at]}
  /\ spent' = spent \cup {e}
  /\ UNCHANGED <<sets, runners, created, views, access>>

StartRunner(e, r) ==
  /\ r \notin spent
  /\ runners' = runners \cup {[id |-> r, owner |-> e.id, label |-> LabelOf[e.name],
                               of |-> e.name, state |-> "idle"]}
  /\ spent' = spent \cup {r}
  /\ UNCHANGED <<sets, ersets, created, views, access>>

TakeJob(r) ==
  /\ r.state = "idle"
  /\ runners' = (runners \ {r}) \cup {[r EXCEPT !.state = "busy"]}
  /\ UNCHANGED <<sets, ersets, created, spent, views, access>>

Reap(r) ==
  /\ runners' = runners \ {r}
  /\ UNCHANGED <<sets, ersets, created, spent, views, access>>

\* Finalizers: an owner goes after what it owns.
DeleteErset(e) ==
  /\ \A r \in runners : r.owner # e.id
  /\ ersets' = ersets \ {e}
  /\ UNCHANGED <<sets, runners, created, spent, views, access>>

DeleteSet(s) ==
  /\ \A e \in ersets : e.uid # s.uid
  /\ sets' = sets \ {s}
  /\ UNCHANGED <<ersets, runners, created, spent, views, access>>

---------------------------------------------------------------------------
(* Informers *)

Named(objects, name) == {s \in objects : s.name = name}
Keyed(objects, id)   == {x \in objects : x.id = id}

\* A collector's map after what it has under a key was replaced by what there is.
After(map, has, is) == (map \ has) \cup is

DeliverSet(name) ==
  /\ Watched("sets")
  /\ seenSets' = After(seenSets, Named(seenSets, name), Named(sets, name))
  /\ seenSets' # seenSets
  /\ UNCHANGED <<cluster, seenErsets, seenRunners, access>>

DeliverErset(e) ==
  /\ Watched("ersets")
  /\ seenErsets' = After(seenErsets, Keyed(seenErsets, e), Keyed(ersets, e))
  /\ seenErsets' # seenErsets
  /\ UNCHANGED <<cluster, seenSets, seenRunners, access>>

DeliverRunner(r) ==
  /\ Watched("runners")
  /\ seenRunners' = After(seenRunners, Keyed(seenRunners, r), Keyed(runners, r))
  /\ seenRunners' # seenRunners
  /\ UNCHANGED <<cluster, seenSets, seenErsets, access>>

FleetNext ==
  \/ \E name \in Names : CreateSet(name) \/ DeliverSet(name)
  \/ \E s \in sets : DeleteSet(s) \/ \E e \in Ersets, at \in 0 .. MaxStamp : Rollout(s, e, at)
  \/ \E e \in ersets : DeleteErset(e) \/ \E r \in Runners : StartRunner(e, r)
  \/ \E r \in runners : TakeJob(r) \/ Reap(r)
  \/ \E e \in Ersets : DeliverErset(e)
  \/ \E r \in Runners : DeliverRunner(r)

---------------------------------------------------------------------------
(* BuildSnapshot *)

\* The sets in view that own an ephemeral set: that of its owner's UID, or else
\* that of its owner's name.
OwnerOf(e) ==
  LET byUID == {s \in seenSets : s.uid = e.uid}
  IN  IF byUID # {} THEN byUID ELSE {s \in seenSets : s.name = e.name}

NewerThan(a, b) == a.at > b.at \/ (a.at = b.at /\ a.id > b.id)

\* The ephemeral set that a set has its counts from, if there is one in view;
\* the status of the set itself stands in.
Counting(s) ==
  LET owned == {e \in seenErsets : s \in OwnerOf(e)}
  IN  {e \in owned : \A other \in owned \ {e} : NewerThan(e, other)}

\* The sets in view that own the ephemeral set of a runner.
OwnersOf(r) == UNION {OwnerOf(e) : e \in {x \in seenErsets : x.id = r.owner}}

\* Bug: the label will do.
SetNameForLabel(r) == r.label

SetNameFor(r) ==
  IF OwnersOf(r) # {} THEN (CHOOSE s \in OwnersOf(r) : TRUE).name ELSE r.label
===========================================================================
