-------------------------------- MODULE Hub --------------------------------
(***************************************************************************)
(* internal/hub/hub.go: fan-out of "the fleet changed" ticks to the        *)
(* connected browsers.                                                     *)
(*                                                                         *)
(* Each subscriber owns a buffered channel.  Broadcast holds the mutex     *)
(* across its sends, and skips a subscriber whose buffer is full.  A       *)
(* channel is removed from the map under the mutex and closed after it was *)
(* released.  A subscriber stands for one call of Subscribe: a stream that *)
(* reconnects is another subscriber.                                       *)
(***************************************************************************)
EXTENDS Naturals, Sequences

CONSTANTS
  Subscribers,  \* calls of Subscribe
  Cap,          \* capacity of a subscriber's channel; the code makes it 8
  MaxSeq        \* bound on the number of broadcasts

ASSUME CapAssumption == Cap \in Nat \ {0}
ASSUME MaxSeqAssumption == MaxSeq \in Nat

VARIABLES
  subs,    \* the subscribers in the hub's map
  stage,   \* where each subscriber is between Subscribe and the end of cancel
  buf,     \* the ticks in each channel, by sequence number
  locked,  \* Broadcast holds the mutex
  todo,    \* the subscribers its loop has not reached yet
  seq,     \* the hub's sequence number: how often the fleet changed
  asOf     \* value of seq when each subscriber last looked at the fleet

hubVars == <<subs, stage, buf, locked, todo, seq, asOf>>

TypeOK ==
  /\ subs \subseteq Subscribers
  /\ stage \in [Subscribers -> {"new", "open", "deleted", "closed"}]
  /\ buf \in [Subscribers -> Seq(Nat)]
  /\ \A s \in Subscribers : Len(buf[s]) <= Cap
  /\ locked \in BOOLEAN
  /\ todo \subseteq Subscribers
  /\ seq \in 0 .. MaxSeq
  /\ asOf \in [Subscribers -> 0 .. MaxSeq]

Init ==
  /\ subs = {}
  /\ stage = [s \in Subscribers |-> "new"]
  /\ buf = [s \in Subscribers |-> << >>]
  /\ locked = FALSE
  /\ todo = {}
  /\ seq = 0
  /\ asOf = [s \in Subscribers |-> 0]

\* The subscriber looks at the fleet only once it is in the map.
Subscribe(s) ==
  /\ stage[s] = "new"
  /\ ~locked
  /\ subs' = subs \cup {s}
  /\ stage' = [stage EXCEPT ![s] = "open"]
  /\ asOf' = [asOf EXCEPT ![s] = seq]
  /\ UNCHANGED <<buf, locked, todo, seq>>

\* Bug: cancel closes the channel while a broadcast may be sending.
DeleteWithoutLock(s) ==
  /\ stage[s] = "open"
  /\ subs' = subs \ {s}
  /\ stage' = [stage EXCEPT ![s] = "deleted"]
  /\ UNCHANGED <<buf, locked, todo, seq, asOf>>

\* cancel, under the mutex.
Delete(s) ==
  /\ stage[s] = "open"
  /\ ~locked
  /\ subs' = subs \ {s}
  /\ stage' = [stage EXCEPT ![s] = "deleted"]
  /\ UNCHANGED <<buf, locked, todo, seq, asOf>>

\* cancel, after the mutex.
CloseChannel(s) ==
  /\ stage[s] = "deleted"
  /\ stage' = [stage EXCEPT ![s] = "closed"]
  /\ UNCHANGED <<subs, buf, locked, todo, seq, asOf>>

\* Broadcast takes the mutex and numbers its tick.
Broadcast ==
  /\ ~locked
  /\ seq < MaxSeq
  /\ locked' = TRUE
  /\ seq' = seq + 1
  /\ todo' = subs
  /\ UNCHANGED <<subs, stage, buf, asOf>>

\* One non-blocking send of the loop; a full buffer is skipped.
Send(s) ==
  /\ locked
  /\ s \in todo
  /\ todo' = todo \ {s}
  /\ buf' = [buf EXCEPT ![s] = IF Len(@) < Cap THEN Append(@, seq) ELSE @]
  /\ UNCHANGED <<subs, stage, locked, seq, asOf>>

Unlock ==
  /\ locked
  /\ todo = {}
  /\ locked' = FALSE
  /\ UNCHANGED <<subs, stage, buf, todo, seq, asOf>>

\* The subscriber takes a tick and looks at the fleet again.
Receive(s) ==
  /\ stage[s] = "open"
  /\ buf[s] # << >>
  /\ buf' = [buf EXCEPT ![s] = Tail(@)]
  /\ asOf' = [asOf EXCEPT ![s] = seq]
  /\ UNCHANGED <<subs, stage, locked, todo, seq>>

HubNext ==
  \/ \E s \in Subscribers : Subscribe(s) \/ Receive(s) \/ Delete(s) \/ CloseChannel(s)
  \/ Broadcast \/ (\E s \in Subscribers : Send(s)) \/ Unlock

HubSpec == Init /\ [][HubNext]_hubVars

---------------------------------------------------------------------------
(* Properties *)

\* Broadcast never sends on a channel cancel has closed, which would panic the
\* goroutine that records snapshots (hub.go:59-62).
NoSendOnClosed == \A s \in todo : stage[s] # "closed"

\* A dropped tick costs nothing: a subscriber with nothing left to read has
\* looked at the fleet since the last change (hub.go:54-57).
NoTickMissed ==
  \A s \in Subscribers :
    stage[s] = "open" /\ s \notin todo /\ buf[s] = << >> => asOf[s] = seq

\* Each subscriber sees ticks in the order they were sent, so a gap in the
\* sequence is a dropped tick and never a late one (hub.go:15-16).
TicksInOrder ==
  \A s \in Subscribers : \A i, j \in DOMAIN buf[s] : i < j => buf[s][i] < buf[s][j]
=============================================================================
