--------------------------- MODULE LiveViewProofs ---------------------------
(***************************************************************************)
(* Theorems about Hub and about the LiveView that extends it, for any      *)
(* subscribers, any capacity of at least one and any number of broadcasts. *)
(*                                                                         *)
(* The hub's rest on Mutex: the map holds the open channels, and the       *)
(* channels a broadcast has still to reach are in the map and gone when it *)
(* unlocks.  Every step of the live streams is a step of the hub or leaves *)
(* it alone, so what holds of the hub holds beneath them.  Theirs add      *)
(* Subscribed, which ties where a handler is to what it holds, Registered, *)
(* and RenderedSince.                                                      *)
(***************************************************************************)
EXTENDS LiveView, TLAPS

Mutex ==
  /\ ~locked => todo = {}
  /\ todo \subseteq subs
  /\ \A s \in Subscribers : s \in subs <=> stage[s] = "open"

\* Ticks still to be read are older than the one being sent.
Fresh ==
  \A s \in Subscribers : \A i \in DOMAIN buf[s] :
    /\ buf[s][i] <= seq
    /\ s \in todo => buf[s][i] < seq

\* Types, the bound on every buffer included.
THEOREM HubTypeCorrect == HubSpec => []TypeOK
<1>1. Init => TypeOK
  <2>1. << >> \in Seq(Nat) /\ Len(<< >>) <= Cap
    BY CapAssumption DEF CapAssumption
  <2>2. 0 \in 0 .. MaxSeq
    BY MaxSeqAssumption DEF MaxSeqAssumption
  <2> QED
    BY <2>1, <2>2 DEF Init, TypeOK
<1>2. TypeOK /\ [HubNext]_hubVars => TypeOK'
  <2> SUFFICES ASSUME TypeOK, [HubNext]_hubVars
               PROVE  TypeOK'
    OBVIOUS
  <2> USE DEF TypeOK
  <2>1. ASSUME NEW s \in Subscribers, Subscribe(s) \/ Delete(s) \/ CloseChannel(s)
        PROVE  TypeOK'
    BY <2>1 DEF Subscribe, Delete, CloseChannel
  <2>2. ASSUME NEW s \in Subscribers, Receive(s)
        PROVE  TypeOK'
    <3>1. Tail(buf[s]) \in Seq(Nat) /\ Len(Tail(buf[s])) <= Cap
      BY <2>2, CapAssumption DEF CapAssumption, Receive
    <3> QED
      BY <2>2, <3>1 DEF Receive
  <2>3. CASE Broadcast
    BY <2>3, MaxSeqAssumption DEF MaxSeqAssumption, Broadcast
  <2>4. ASSUME NEW s \in Subscribers, Send(s)
        PROVE  TypeOK'
    <3> DEFINE next == IF Len(buf[s]) < Cap THEN Append(buf[s], seq) ELSE buf[s]
    <3>1. next \in Seq(Nat) /\ Len(next) <= Cap
      BY CapAssumption DEF CapAssumption
    <3> HIDE DEF next
    <3>2. buf' = [buf EXCEPT ![s] = next]
      BY <2>4 DEF Send, next
    <3> QED
      BY <2>4, <3>1, <3>2 DEF Send
  <2>5. CASE Unlock \/ UNCHANGED hubVars
    BY <2>5 DEF Unlock, hubVars
  <2> QED
    BY <2>1, <2>2, <2>3, <2>4, <2>5 DEF HubNext
<1> QED
  BY <1>1, <1>2, PTL DEF HubSpec

\* The mutex keeps the map, the open channels and a broadcast's loop in step.
LEMMA MutexInvariant == HubSpec => []Mutex
<1>1. Init => Mutex
  BY DEF Init, Mutex
<1>2. TypeOK /\ Mutex /\ [HubNext]_hubVars => Mutex'
  BY DEF TypeOK, Mutex, HubNext, hubVars, Subscribe, Delete, CloseChannel, Receive,
         Broadcast, Send, Unlock
<1> QED
  BY <1>1, <1>2, HubTypeCorrect, PTL DEF HubSpec

\* A broadcast only ever has open channels left to send to, so it cannot panic
\* on a closed one however cancels and broadcasts interleave.
THEOREM SendsOnlyToOpenChannels == HubSpec => []NoSendOnClosed
<1>1. TypeOK /\ Mutex => NoSendOnClosed
  BY DEF TypeOK, Mutex, NoSendOnClosed
<1> QED
  BY <1>1, HubTypeCorrect, MutexInvariant, PTL

\* A channel something was put into has something to read.
LEMMA AppendNotEmpty ==
  ASSUME NEW q \in Seq(Nat), NEW e \in Nat
  PROVE  Append(q, e) # << >>
OBVIOUS

\* With a buffer of at least one place, a subscriber with nothing left to read
\* has looked at the fleet since the last change: skipping a full buffer loses
\* no news.
THEOREM DroppedTicksCostNothing == HubSpec => []NoTickMissed
<1>1. Init => NoTickMissed
  BY DEF Init, NoTickMissed
<1>2. TypeOK /\ Mutex /\ NoTickMissed /\ [HubNext]_hubVars => NoTickMissed'
  <2> SUFFICES ASSUME TypeOK, Mutex, NoTickMissed, [HubNext]_hubVars
               PROVE  NoTickMissed'
    OBVIOUS
  <2> USE DEF TypeOK, Mutex, NoTickMissed
  <2>1. ASSUME NEW s \in Subscribers, Subscribe(s) \/ Delete(s) \/ CloseChannel(s) \/ Receive(s)
        PROVE  NoTickMissed'
    BY <2>1 DEF Subscribe, Delete, CloseChannel, Receive
  <2>2. CASE Broadcast
    \* Every open channel is now still to be reached.
    BY <2>2 DEF Broadcast
  <2>3. ASSUME NEW s \in Subscribers, Send(s)
        PROVE  NoTickMissed'
    \* The channel just reached has something to read, be it this tick or the
    \* older ones that fill it.
    <3>1. buf'[s] # << >>
      <4>1. CASE Len(buf[s]) < Cap
        <5>1. buf'[s] = Append(buf[s], seq)
          BY <2>3, <4>1 DEF Send
        <5>2. buf[s] \in Seq(Nat) /\ seq \in Nat
          BY MaxSeqAssumption DEF MaxSeqAssumption
        <5> QED
          BY <5>1, <5>2, AppendNotEmpty
      <4>2. CASE ~(Len(buf[s]) < Cap)
        <5>1. buf'[s] = buf[s]
          BY <2>3, <4>2 DEF Send
        <5>2. buf[s] # << >>
          <6> SUFFICES ASSUME buf[s] = << >> PROVE FALSE
            OBVIOUS
          <6>1. Len(buf[s]) = 0
            OBVIOUS
          <6> QED
            BY <4>2, <6>1, CapAssumption DEF CapAssumption
        <5> QED
          BY <5>1, <5>2
      <4> QED
        BY <4>1, <4>2
    <3>2. \A t \in Subscribers \ {s} : buf'[t] = buf[t] /\ (t \in todo' <=> t \in todo)
      BY <2>3 DEF Send
    <3> QED
      BY <2>3, <3>1, <3>2 DEF Send
  <2>4. CASE Unlock \/ UNCHANGED hubVars
    BY <2>4 DEF Unlock, hubVars
  <2> QED
    BY <2>1, <2>2, <2>3, <2>4 DEF HubNext
<1> QED
  BY <1>1, <1>2, HubTypeCorrect, MutexInvariant, PTL DEF HubSpec

\* What a channel holds is older than the tick still to be put behind it, so
\* every channel is read in increasing order.
THEOREM TicksStayInOrder == HubSpec => [](TicksInOrder /\ Fresh)
<1>1. Init => TicksInOrder /\ Fresh
  BY DEF Init, TicksInOrder, Fresh
<1>2. TypeOK /\ Mutex /\ TicksInOrder /\ Fresh /\ [HubNext]_hubVars => TicksInOrder' /\ Fresh'
  <2> SUFFICES ASSUME TypeOK, Mutex, TicksInOrder, Fresh, [HubNext]_hubVars
               PROVE  TicksInOrder' /\ Fresh'
    OBVIOUS
  <2> USE DEF TypeOK, TicksInOrder, Fresh
  <2>1. ASSUME NEW s \in Subscribers, Subscribe(s) \/ Delete(s) \/ CloseChannel(s)
        PROVE  TicksInOrder' /\ Fresh'
    BY <2>1 DEF Subscribe, Delete, CloseChannel
  <2>2. ASSUME NEW s \in Subscribers, Receive(s)
        PROVE  TicksInOrder' /\ Fresh'
    <3>1. /\ \A i \in DOMAIN Tail(buf[s]) : i + 1 \in DOMAIN buf[s] /\ Tail(buf[s])[i] = buf[s][i + 1]
          /\ DOMAIN Tail(buf[s]) \subseteq Nat
      BY <2>2 DEF Receive
    <3>2. buf' = [buf EXCEPT ![s] = Tail(buf[s])] /\ UNCHANGED <<todo, seq>>
      BY <2>2 DEF Receive
    <3> QED
      BY <3>1, <3>2
  <2>3. CASE Broadcast
    <3>1. seq' = seq + 1 /\ UNCHANGED buf
      BY <2>3 DEF Broadcast
    <3>2. \A t \in Subscribers : \A i \in DOMAIN buf[t] : buf[t][i] \in Nat
      OBVIOUS
    <3> QED
      BY <3>1, <3>2
  <2>4. ASSUME NEW s \in Subscribers, Send(s)
        PROVE  TicksInOrder' /\ Fresh'
    <3>1. CASE Len(buf[s]) < Cap
      <4> DEFINE next == Append(buf[s], seq)
      <4>1. /\ DOMAIN next = 1 .. Len(buf[s]) + 1
            /\ \A i \in 1 .. Len(buf[s]) : next[i] = buf[s][i]
            /\ next[Len(buf[s]) + 1] = seq
            /\ DOMAIN buf[s] = 1 .. Len(buf[s])
        OBVIOUS
      <4>2. \A i \in 1 .. Len(buf[s]) : buf[s][i] < seq
        BY <2>4, <4>1 DEF Send
      <4>3. \A i, j \in DOMAIN next : i < j => next[i] < next[j]
        <5> SUFFICES ASSUME NEW i \in DOMAIN next, NEW j \in DOMAIN next, i < j
                     PROVE  next[i] < next[j]
          OBVIOUS
        <5> HIDE DEF next
        <5>1. i \in 1 .. Len(buf[s]) /\ Len(buf[s]) \in Nat
          BY <4>1
        <5>2. CASE j \in 1 .. Len(buf[s])
          BY <4>1, <5>1, <5>2
        <5>3. CASE j = Len(buf[s]) + 1
          BY <4>1, <4>2, <5>1, <5>3
        <5> QED
          BY <4>1, <5>2, <5>3
      <4>4. \A i \in DOMAIN next : next[i] <= seq
        BY <4>1, <4>2
      <4> HIDE DEF next
      <4>5. buf' = [buf EXCEPT ![s] = next] /\ UNCHANGED seq /\ todo' = todo \ {s}
        BY <2>4, <3>1 DEF Send, next
      <4> QED
        BY <4>3, <4>4, <4>5
    <3>2. CASE ~(Len(buf[s]) < Cap)
      <4>1. buf' = buf /\ UNCHANGED seq /\ todo' = todo \ {s}
        BY <2>4, <3>2 DEF Send
      <4> QED
        BY <4>1
    <3> QED
      BY <3>1, <3>2
  <2>5. CASE Unlock \/ UNCHANGED hubVars
    BY <2>5 DEF Unlock, hubVars
  <2> QED
    BY <2>1, <2>2, <2>3, <2>4, <2>5 DEF HubNext
<1> QED
  BY <1>1, <1>2, HubTypeCorrect, MutexInvariant, PTL DEF HubSpec

---------------------------------------------------------------------------
(* The live streams *)

\* The streams use the hub as it is meant to be used: whatever they do is a
\* step of the hub, or none.  All that is proved of the hub holds here.
THEOREM StreamsUseTheHub == Spec => HubSpec
<1>1. LiveInit => Init
  BY DEF LiveInit
<1>2. [Next]_vars => [HubNext]_hubVars
  <2> SUFFICES ASSUME [Next]_vars PROVE [HubNext]_hubVars
    OBVIOUS
  <2>1. ASSUME NEW s \in Streams, Arrive(s) \/ Disconnect(s) \/ CancelStream(s)
        PROVE  UNCHANGED hubVars
    BY <2>1 DEF Arrive, Disconnect, CancelStream
  <2>2. ASSUME NEW s \in Streams,
               Add(s) \/ Render(s) \/ RenderFails(s) \/ HeartbeatFires(s) \/ ContextDone(s) \/ Release(s)
        PROVE  UNCHANGED hubVars
    BY <2>2 DEF Add, Render, RenderFails, HeartbeatFires, ContextDone, Release
  <2>3. ASSUME NEW s \in Streams, SubscribeStream(s) \/ TickArrives(s) \/ Unsubscribe(s) \/ CloseTicks(s)
        PROVE  HubNext
    BY <2>3 DEF SubscribeStream, TickArrives, Unsubscribe, CloseTicks, HubNext, Streams
  <2>4. ASSUME NEW s \in Streams, SendTick(s)
        PROVE  HubNext
    BY <2>4 DEF SendTick, HubNext, Streams
  <2>5. CASE Announce
    BY <2>5 DEF Announce, HubNext
  <2>6. CASE WithdrawReadiness \/ StopAccepting \/ CloseRegistry \/ Drained \/ Cut
    BY <2>6 DEF WithdrawReadiness, StopAccepting, CloseRegistry, Drained, Cut
  <2>7. CASE UNCHANGED vars
    BY <2>7 DEF vars
  <2> QED
    BY <2>1, <2>2, <2>3, <2>4, <2>5, <2>6, <2>7 DEF Next, Handler
<1> QED
  BY <1>1, <1>2, PTL DEF Spec, HubSpec

\* Types, those of the hub beneath included.
THEOREM LiveTypeCorrect == Spec => []LiveTypeOK
<1>1. LiveInit /\ TypeOK => LiveTypeOK
  <2> SUFFICES ASSUME LiveInit, TypeOK PROVE LiveTypeOK
    OBVIOUS
  <2>1. live \in [Streams -> BOOLEAN] /\ gone \in [Streams -> BOOLEAN]
    BY DEF LiveInit
  <2>2. seen \in [Streams -> 0 .. MaxSeq]
    BY MaxSeqAssumption DEF MaxSeqAssumption, LiveInit
  <2> QED
    BY <2>1, <2>2 DEF LiveInit, LiveTypeOK
<1>2. LiveTypeOK /\ TypeOK' /\ [Next]_vars => LiveTypeOK'
  <2> SUFFICES ASSUME LiveTypeOK, TypeOK', [Next]_vars
               PROVE  LiveTypeOK'
    OBVIOUS
  <2> USE DEF LiveTypeOK, Goto, handlers, registry
  <2>1. ASSUME NEW s \in Streams, Arrive(s)
        PROVE  LiveTypeOK'
    <3>1. live' \in [Streams -> BOOLEAN]
      BY <2>1 DEF Arrive
    <3> QED
      BY <2>1, <3>1 DEF Arrive
  <2>2. ASSUME NEW s \in Streams, Add(s) \/ Release(s)
        PROVE  LiveTypeOK'
    <3>1. gone' \in [Streams -> BOOLEAN]
      BY <2>2 DEF Add, Release
    <3>2. phase' \in [Streams -> {"new", "accepted", "subscribe", "render", "wait",
                                  "unsubscribe", "close", "release", "done"}]
      BY <2>2 DEF Add, Release, After
    <3>3. entries' \subseteq Streams /\ UNCHANGED <<live, seen, closed, toCancel, server>>
      BY <2>2 DEF Add, Release
    <3>4. server' \in {"serving", "draining", "closing", "stopped"} /\ toCancel' \subseteq Streams
      BY <3>3
    <3>5. live' \in [Streams -> BOOLEAN] /\ closed' \in BOOLEAN /\ seen' \in [Streams -> 0 .. MaxSeq]
      BY <3>3
    <3> QED
      BY <3>1, <3>2, <3>3, <3>4, <3>5
  <2>3. ASSUME NEW s \in Streams, Render(s) \/ RenderFails(s)
        PROVE  LiveTypeOK'
    <3>1. seq \in 0 .. MaxSeq
      BY DEF TypeOK
    <3>2. seen' \in [Streams -> 0 .. MaxSeq]
      BY <2>3, <3>1 DEF Render, RenderFails
    <3>3. phase' \in [Streams -> {"new", "accepted", "subscribe", "render", "wait",
                                  "unsubscribe", "close", "release", "done"}]
      BY <2>3 DEF Render, RenderFails, After
    <3>4. UNCHANGED <<live, gone, entries, closed, toCancel, server>>
      BY <2>3 DEF Render, RenderFails
    <3> QED
      BY <3>2, <3>3, <3>4
  <2>4. ASSUME NEW s \in Streams,
               SubscribeStream(s) \/ TickArrives(s) \/ HeartbeatFires(s) \/ ContextDone(s)
        PROVE  LiveTypeOK'
    BY <2>4 DEF SubscribeStream, TickArrives, HeartbeatFires, ContextDone, After
  <2>5. ASSUME NEW s \in Streams, Unsubscribe(s) \/ CloseTicks(s) \/ SendTick(s)
        PROVE  LiveTypeOK'
    BY <2>5 DEF Unsubscribe, CloseTicks, SendTick
  <2>6. ASSUME NEW s \in Streams, Disconnect(s) \/ CancelStream(s)
        PROVE  LiveTypeOK'
    <3>1. gone' \in [Streams -> BOOLEAN]
      BY <2>6 DEF Disconnect, CancelStream
    <3> QED
      BY <2>6, <3>1 DEF Disconnect, CancelStream
  <2>7. CASE Announce \/ WithdrawReadiness \/ StopAccepting \/ CloseRegistry \/ Drained
    BY <2>7 DEF Announce, WithdrawReadiness, StopAccepting, CloseRegistry, Drained
  <2>8. CASE Cut
    <3>1. gone' \in [Streams -> BOOLEAN]
      BY <2>8 DEF Cut
    <3> QED
      BY <2>8, <3>1 DEF Cut
  <2>9. CASE UNCHANGED vars
    BY <2>9 DEF vars
  <2> QED
    BY <2>1, <2>2, <2>3, <2>4, <2>5, <2>6, <2>7, <2>8, <2>9 DEF Next, Handler
<1> QED
  BY <1>1, <1>2, StreamsUseTheHub, HubTypeCorrect, PTL DEF Spec

\* What a handler holds of the hub at each point of its way: a live stream has
\* its channel open from its subscription to its cancel, any other never.
Subscribed ==
  \A s \in Streams :
    /\ phase[s] \in {"new", "accepted", "subscribe"} => stage[s] = "new"
    /\ phase[s] = "subscribe" => live[s]
    /\ phase[s] = "render" => stage[s] = IF live[s] THEN "open" ELSE "new"
    /\ phase[s] \in {"wait", "unsubscribe"} => live[s] /\ stage[s] = "open"
    /\ phase[s] = "close" => stage[s] = "deleted"
    /\ phase[s] \in {"release", "done"} => stage[s] \in {"new", "closed"}

\* Whom the registry answers for: every stream with a context of its own has an
\* entry, or is on CloseAll's list, or is cancelled already.
Registered ==
  /\ entries \subseteq Running
  /\ IF closed THEN entries = {} ELSE toCancel = {}
  /\ \A s \in Running :
       phase[s] = "accepted" \/ s \in entries \/ s \in toCancel \/ gone[s]

\* A stream that waits has rendered since it last took a tick.
RenderedSince ==
  \A s \in Streams :
    /\ asOf[s] <= seq
    /\ phase[s] = "wait" => asOf[s] <= seen[s] /\ seen[s] <= seq

\* A handler's place tells what it holds.
LEMMA SubscribedInvariant == Spec => []Subscribed
<1>1. LiveInit => Subscribed
  BY DEF LiveInit, Init, Subscribed, Streams
<1>2. LiveTypeOK /\ Subscribed /\ [Next]_vars => Subscribed'
  <2> SUFFICES ASSUME LiveTypeOK, Subscribed, [Next]_vars
               PROVE  Subscribed'
    OBVIOUS
  <2> USE DEF LiveTypeOK, TypeOK, Subscribed, Goto, Streams, hubVars
  <2>1. ASSUME NEW s \in Streams, Arrive(s)
        PROVE  Subscribed'
    BY <2>1 DEF Arrive
  <2>2. ASSUME NEW s \in Streams, Add(s)
        PROVE  Subscribed'
    BY <2>2 DEF Add, After
  <2>3. ASSUME NEW s \in Streams, SubscribeStream(s)
        PROVE  Subscribed'
    BY <2>3 DEF SubscribeStream, Subscribe, After
  <2>4. ASSUME NEW s \in Streams, Render(s) \/ RenderFails(s)
        PROVE  Subscribed'
    BY <2>4 DEF Render, RenderFails, After
  <2>5. ASSUME NEW s \in Streams, TickArrives(s) \/ HeartbeatFires(s) \/ ContextDone(s)
        PROVE  Subscribed'
    BY <2>5 DEF TickArrives, Receive, HeartbeatFires, ContextDone
  <2>6. ASSUME NEW s \in Streams, Unsubscribe(s)
        PROVE  Subscribed'
    BY <2>6 DEF Unsubscribe, Delete
  <2>7. ASSUME NEW s \in Streams, CloseTicks(s)
        PROVE  Subscribed'
    BY <2>7 DEF CloseTicks, CloseChannel
  <2>8. ASSUME NEW s \in Streams, Release(s)
        PROVE  Subscribed'
    BY <2>8 DEF Release
  <2>9. ASSUME NEW s \in Streams, Disconnect(s) \/ CancelStream(s) \/ SendTick(s)
        PROVE  Subscribed'
    BY <2>9 DEF Disconnect, CancelStream, SendTick, Send, handlers
  <2>10. CASE Announce
    BY <2>10 DEF Announce, Broadcast, Unlock, handlers
  <2>11. CASE WithdrawReadiness \/ StopAccepting \/ CloseRegistry \/ Drained \/ Cut
    BY <2>11 DEF WithdrawReadiness, StopAccepting, CloseRegistry, Drained, Cut, handlers
  <2>12. CASE UNCHANGED vars
    BY <2>12 DEF vars, handlers
  <2> QED
    BY <2>1, <2>2, <2>3, <2>4, <2>5, <2>6, <2>7, <2>8, <2>9, <2>10, <2>11, <2>12 DEF Next, Handler
<1> QED
  BY <1>1, <1>2, LiveTypeCorrect, PTL DEF Spec

\* The registry loses track of no stream, before CloseAll or after.
LEMMA RegisteredInvariant == Spec => []Registered
<1>1. LiveInit => Registered
  BY DEF LiveInit, Registered, Running
<1>2. LiveTypeOK /\ Registered /\ [Next]_vars => Registered'
  <2> SUFFICES ASSUME LiveTypeOK, Registered, [Next]_vars
               PROVE  Registered'
    OBVIOUS
  <2> USE DEF LiveTypeOK, Registered, Running, Goto
  <2>1. ASSUME NEW s \in Streams, Arrive(s)
        PROVE  Registered'
    BY <2>1 DEF Arrive, registry
  <2>2. ASSUME NEW s \in Streams, Add(s)
        PROVE  Registered'
    BY <2>2 DEF Add, After
  <2>3. ASSUME NEW s \in Streams,
               SubscribeStream(s) \/ Render(s) \/ RenderFails(s) \/ TickArrives(s) \/ HeartbeatFires(s)
        PROVE  Registered'
    BY <2>3 DEF SubscribeStream, Render, RenderFails, TickArrives, HeartbeatFires, After, registry
  <2>4. ASSUME NEW s \in Streams, ContextDone(s) \/ Unsubscribe(s) \/ CloseTicks(s)
        PROVE  Registered'
    BY <2>4 DEF ContextDone, Unsubscribe, CloseTicks, registry
  <2>5. ASSUME NEW s \in Streams, Release(s)
        PROVE  Registered'
    BY <2>5 DEF Release
  <2>6. ASSUME NEW s \in Streams, Disconnect(s) \/ SendTick(s)
        PROVE  Registered'
    BY <2>6 DEF Disconnect, SendTick, handlers, registry
  <2>7. ASSUME NEW s \in Streams, CancelStream(s)
        PROVE  Registered'
    BY <2>7 DEF CancelStream
  <2>8. CASE CloseRegistry
    <3>1. entries' = {} /\ toCancel' = entries /\ UNCHANGED <<phase, gone>>
      BY <2>8 DEF CloseRegistry, handlers
    <3>2. \A s \in Running : phase[s] = "accepted" \/ s \in entries \/ gone[s]
      BY <2>8 DEF CloseRegistry
    <3>3. \A s \in Running' : phase'[s] = "accepted" \/ s \in toCancel' \/ gone'[s]
      BY <3>1, <3>2
    <3>4. closed'
      BY <2>8 DEF CloseRegistry
    <3> QED
      BY <3>1, <3>3, <3>4
  <2>9. CASE Cut
    BY <2>9 DEF Cut, registry
  <2>10. CASE Announce \/ WithdrawReadiness \/ StopAccepting \/ Drained
    BY <2>10 DEF Announce, WithdrawReadiness, StopAccepting, Drained, handlers, registry
  <2>11. CASE UNCHANGED vars
    BY <2>11 DEF vars, handlers, registry
  <2> QED
    BY <2>1, <2>2, <2>3, <2>4, <2>5, <2>6, <2>7, <2>8, <2>9, <2>10, <2>11 DEF Next, Handler
<1> QED
  BY <1>1, <1>2, LiveTypeCorrect, PTL DEF Spec

\* A stream renders after it subscribes and after each tick it takes, so what it
\* waits on is no older than the subscription or the tick.
LEMMA RenderedSinceInvariant == Spec => []RenderedSince
<1>1. LiveInit => RenderedSince
  <2> SUFFICES ASSUME LiveInit, NEW s \in Streams
               PROVE  asOf[s] = 0 /\ seq = 0 /\ phase[s] = "new"
    BY DEF RenderedSince
  <2> QED
    BY DEF LiveInit, Init, Streams
<1>2. LiveTypeOK /\ RenderedSince /\ [Next]_vars => RenderedSince'
  <2> SUFFICES ASSUME LiveTypeOK, RenderedSince, [Next]_vars
               PROVE  RenderedSince'
    OBVIOUS
  <2> USE DEF LiveTypeOK, TypeOK, RenderedSince, Goto, Streams, hubVars
  <2>0. seq \in Nat /\ seen \in [Streams -> Nat] /\ asOf \in [Streams -> Nat]
    BY MaxSeqAssumption DEF MaxSeqAssumption
  <2>1. ASSUME NEW s \in Streams, Arrive(s) \/ Add(s) \/ RenderFails(s) \/ HeartbeatFires(s)
        PROVE  RenderedSince'
    BY <2>1 DEF Arrive, Add, RenderFails, HeartbeatFires, After
  <2>2. ASSUME NEW s \in Streams, SubscribeStream(s)
        PROVE  RenderedSince'
    BY <2>0, <2>2 DEF SubscribeStream, Subscribe, After
  <2>3. ASSUME NEW s \in Streams, Render(s)
        PROVE  RenderedSince'
    BY <2>0, <2>3 DEF Render, After
  <2>4. ASSUME NEW s \in Streams, TickArrives(s)
        PROVE  RenderedSince'
    BY <2>0, <2>4 DEF TickArrives, Receive
  <2>5. ASSUME NEW s \in Streams,
               ContextDone(s) \/ Unsubscribe(s) \/ CloseTicks(s) \/ Release(s)
        PROVE  RenderedSince'
    BY <2>5 DEF ContextDone, Unsubscribe, Delete, CloseTicks, CloseChannel, Release
  <2>6. ASSUME NEW s \in Streams, Disconnect(s) \/ CancelStream(s) \/ SendTick(s)
        PROVE  RenderedSince'
    BY <2>6 DEF Disconnect, CancelStream, SendTick, Send, handlers
  <2>7. CASE Announce
    BY <2>0, <2>7 DEF Announce, Broadcast, Unlock, handlers
  <2>8. CASE WithdrawReadiness \/ StopAccepting \/ CloseRegistry \/ Drained \/ Cut
    BY <2>8 DEF WithdrawReadiness, StopAccepting, CloseRegistry, Drained, Cut, handlers
  <2>9. CASE UNCHANGED vars
    BY <2>9 DEF vars, handlers
  <2> QED
    BY <2>1, <2>2, <2>3, <2>4, <2>5, <2>6, <2>7, <2>8, <2>9 DEF Next, Handler
<1> QED
  BY <1>1, <1>2, LiveTypeCorrect, PTL DEF Spec

\* However streams, broadcasts and disconnects interleave, a live stream that
\* waits with no tick to wake it shows the newest fleet.
THEOREM WaitersAreUpToDate == Spec => []NoStaleWait
<1>1. LiveTypeOK /\ Subscribed /\ RenderedSince /\ NoTickMissed => NoStaleWait
  <2> SUFFICES ASSUME LiveTypeOK, Subscribed, RenderedSince, NoTickMissed,
                      NEW s \in Streams, phase[s] = "wait", buf[s] = << >>, s \notin todo
               PROVE  seen[s] = seq
    BY DEF NoStaleWait
  <2>1. stage[s] = "open"
    BY DEF Subscribed
  <2>2. asOf[s] = seq
    BY <2>1 DEF NoTickMissed, Streams
  <2>3. asOf[s] <= seen[s] /\ seen[s] <= seq
    BY DEF RenderedSince
  <2>4. seen[s] \in Nat /\ seq \in Nat
    BY MaxSeqAssumption DEF MaxSeqAssumption, LiveTypeOK, TypeOK
  <2> QED
    BY <2>2, <2>3, <2>4
<1> QED
  BY <1>1, LiveTypeCorrect, SubscribedInvariant, RenderedSinceInvariant, StreamsUseTheHub,
     DroppedTicksCostNothing, PTL

\* No stream outruns the drain: once the registry is closed each running one is
\* cancelled, about to be, or will be refused a live context when it asks.
THEOREM DrainReachesEveryStream == Spec => []NoStreamSlipsBy
<1>1. Registered => NoStreamSlipsBy
  BY DEF Registered, NoStreamSlipsBy
<1> QED
  BY <1>1, RegisteredInvariant, PTL

\* A handler that has returned, by whichever path, has given back its entry, its
\* place in the hub's map and its channel.
THEOREM HandlersLeaveNothing == Spec => []NothingLeaks
<1>1. LiveTypeOK /\ Mutex /\ Subscribed /\ Registered => NothingLeaks
  BY DEF LiveTypeOK, Mutex, Subscribed, Registered, NothingLeaks, Running, Streams
<1> QED
  BY <1>1, LiveTypeCorrect, StreamsUseTheHub, MutexInvariant, SubscribedInvariant,
     RegisteredInvariant, PTL

\* Beneath the streams too, a broadcast only ever has open channels left to
\* send to.
THEOREM StreamsNeverPanicTheHub == Spec => []NoSendOnClosed
  BY StreamsUseTheHub, SendsOnlyToOpenChannels, PTL
=============================================================================
