----------------------------- MODULE LiveView -----------------------------
(***************************************************************************)
(* internal/web/stream.go and the Shutdown of internal/api/api.go: the     *)
(* streams that keep browsers live, the registry that lets the server end  *)
(* them, and the drain.                                                    *)
(*                                                                         *)
(* A stream is one request.  Its handler adds itself to the registry,      *)
(* subscribes to the Hub if the browser asked for live updates, and then   *)
(* renders and waits in turn, until its context is done.  Its deferred     *)
(* calls cancel the subscription and release the registry's entry.         *)
(* Shutdown withdraws readiness, keeps serving for a while, stops          *)
(* accepting, cancels every stream in a goroutine of its own and waits for *)
(* the handlers to return.                                                 *)
(***************************************************************************)
EXTENDS Hub

VARIABLES
  phase,     \* where each handler is
  live,      \* the browser asked for live updates
  gone,      \* the stream's context is done
  seen,      \* the hub's sequence number when the stream last looked at the fleet
  entries,   \* streams with a cancel function in the registry
  closed,    \* the registry hands out cancelled contexts
  toCancel,  \* streams CloseAll has still to cancel
  server     \* "serving", "draining" (not ready), "closing", "stopped"

\* A stream subscribes once at most.
Streams == Subscribers

handlers   == <<phase, live, gone, seen>>
registry   == <<entries, closed, toCancel>>
vars       == <<hubVars, handlers, registry, server>>

LiveTypeOK ==
  /\ TypeOK
  /\ phase \in [Streams -> {"new", "accepted", "subscribe", "render", "wait",
                            "unsubscribe", "close", "release", "done"}]
  /\ live \in [Streams -> BOOLEAN]
  /\ gone \in [Streams -> BOOLEAN]
  /\ seen \in [Streams -> 0 .. MaxSeq]
  /\ entries \subseteq Streams
  /\ closed \in BOOLEAN
  /\ toCancel \subseteq Streams
  /\ server \in {"serving", "draining", "closing", "stopped"}

LiveInit ==
  /\ Init
  /\ phase = [s \in Streams |-> "new"]
  /\ live = [s \in Streams |-> FALSE]
  /\ gone = [s \in Streams |-> FALSE]
  /\ seen = [s \in Streams |-> 0]
  /\ entries = {}
  /\ closed = FALSE
  /\ toCancel = {}
  /\ server = "serving"

Goto(s, p) == phase' = [phase EXCEPT ![s] = p]

Running == {s \in Streams : phase[s] \notin {"new", "done"}}

---------------------------------------------------------------------------
(* A stream's handler *)

\* Requests are accepted until http.Shutdown closes the listener, the drain
\* included.
Arrive(s) ==
  /\ phase[s] = "new"
  /\ server \in {"serving", "draining"}
  /\ live' \in {[live EXCEPT ![s] = b] : b \in BOOLEAN}
  /\ Goto(s, "accepted")
  /\ UNCHANGED <<hubVars, gone, seen, registry, server>>

\* Bug: a live stream subscribes once its first render is out.
AfterRenderFirst(s, p) ==
  CASE p = "accepted"  -> "render"
    [] p = "subscribe" -> "wait"
    [] p = "render"    -> CASE ~live[s] -> "release"
                            [] live[s] /\ stage[s] = "new" -> "subscribe"
                            [] OTHER -> "wait"

\* What follows Add, Subscribe and a render that succeeded: a live stream
\* subscribes before it renders for the first time.
After(s, p) ==
  CASE p = "accepted"  -> IF live[s] THEN "subscribe" ELSE "render"
    [] p = "subscribe" -> "render"
    [] p = "render"    -> IF live[s] THEN "wait" ELSE "release"

\* Bug: the registry takes streams after CloseAll.
AddAnyway(s) ==
  /\ phase[s] = "accepted"
  /\ entries' = entries \cup {s}
  /\ Goto(s, After(s, "accepted"))
  /\ UNCHANGED <<hubVars, live, gone, seen, closed, toCancel, server>>

\* StreamRegistry.Add.
Add(s) ==
  /\ phase[s] = "accepted"
  /\ IF closed
       THEN gone' = [gone EXCEPT ![s] = TRUE] /\ UNCHANGED entries
       ELSE entries' = entries \cup {s} /\ UNCHANGED gone
  /\ Goto(s, After(s, "accepted"))
  /\ UNCHANGED <<hubVars, live, seen, closed, toCancel, server>>

SubscribeStream(s) ==
  /\ phase[s] = "subscribe"
  /\ Subscribe(s)
  /\ Goto(s, After(s, "subscribe"))
  /\ UNCHANGED <<live, gone, seen, registry, server>>

\* A page that was shown: the fleet is looked at, the regions are written.
Render(s) ==
  /\ phase[s] = "render"
  /\ seen' = [seen EXCEPT ![s] = seq]
  /\ Goto(s, After(s, "render"))
  /\ UNCHANGED <<hubVars, live, gone, registry, server>>

\* Bug: a failed render returns without cancelling the subscription.
RenderFailsAbruptly(s) ==
  /\ phase[s] = "render"
  /\ Goto(s, "release")
  /\ UNCHANGED <<hubVars, live, gone, seen, registry, server>>

\* The stream's runner is no longer there, or the browser takes no more: the
\* handler returns, cancelling its subscription if it has one.
RenderFails(s) ==
  /\ phase[s] = "render"
  /\ Goto(s, IF live[s] THEN "unsubscribe" ELSE "release")
  /\ UNCHANGED <<hubVars, live, gone, seen, registry, server>>

\* The select of a waiting stream, whose cases are taken in any order.
TickArrives(s) ==
  /\ phase[s] = "wait"
  /\ Receive(s)
  /\ Goto(s, "render")
  /\ UNCHANGED <<live, gone, seen, registry, server>>

HeartbeatFires(s) ==
  /\ phase[s] = "wait"
  /\ Goto(s, "render")
  /\ UNCHANGED <<hubVars, live, gone, seen, registry, server>>

ContextDone(s) ==
  /\ phase[s] = "wait"
  /\ gone[s]
  /\ Goto(s, "unsubscribe")
  /\ UNCHANGED <<hubVars, live, gone, seen, registry, server>>

\* The deferred calls: the subscription's cancel, then the registry's release.
Unsubscribe(s) ==
  /\ phase[s] = "unsubscribe"
  /\ Delete(s)
  /\ Goto(s, "close")
  /\ UNCHANGED <<live, gone, seen, registry, server>>

CloseTicks(s) ==
  /\ phase[s] = "close"
  /\ CloseChannel(s)
  /\ Goto(s, "release")
  /\ UNCHANGED <<live, gone, seen, registry, server>>

Release(s) ==
  /\ phase[s] = "release"
  /\ entries' = entries \ {s}
  /\ gone' = [gone EXCEPT ![s] = TRUE]
  /\ Goto(s, "done")
  /\ UNCHANGED <<hubVars, live, seen, closed, toCancel, server>>

\* The browser goes away, at any moment of its request.
Disconnect(s) ==
  /\ s \in Running
  /\ ~gone[s]
  /\ gone' = [gone EXCEPT ![s] = TRUE]
  /\ UNCHANGED <<hubVars, phase, live, seen, registry, server>>

---------------------------------------------------------------------------
(* The recorder's broadcasts *)

Announce == (Broadcast \/ Unlock) /\ UNCHANGED <<handlers, registry, server>>

SendTick(s) == Send(s) /\ UNCHANGED <<handlers, registry, server>>

---------------------------------------------------------------------------
(* Shutdown *)

WithdrawReadiness ==
  /\ server = "serving"
  /\ server' = "draining"
  /\ UNCHANGED <<hubVars, handlers, registry>>

\* PreStopDelay is over, or the deadline: http.Shutdown closes the listener.
StopAccepting ==
  /\ server = "draining"
  /\ server' = "closing"
  /\ UNCHANGED <<hubVars, handlers, registry>>

\* Bug: the map is cleared before its cancel functions are copied.
CloseClearedRegistry ==
  /\ server \notin {"serving", "draining"}
  /\ ~closed
  /\ closed' = TRUE
  /\ entries' = {}
  /\ toCancel' = entries'
  /\ UNCHANGED <<hubVars, handlers, server>>

\* CloseAll, in the goroutine of the on-shutdown hook: under the mutex ...
CloseRegistry ==
  /\ server \notin {"serving", "draining"}
  /\ ~closed
  /\ closed' = TRUE
  /\ toCancel' = entries
  /\ entries' = {}
  /\ UNCHANGED <<hubVars, handlers, server>>

\* ... and after it.
CancelStream(s) ==
  /\ s \in toCancel
  /\ toCancel' = toCancel \ {s}
  /\ gone' = [gone EXCEPT ![s] = TRUE]
  /\ UNCHANGED <<hubVars, phase, live, seen, entries, closed, server>>

\* http.Shutdown has seen every handler return.
Drained ==
  /\ server = "closing"
  /\ Running = {}
  /\ server' = "stopped"
  /\ UNCHANGED <<hubVars, handlers, registry>>

\* It ran out of time, and http.Close cuts every connection.
Cut ==
  /\ server = "closing"
  /\ Running # {}
  /\ server' = "stopped"
  /\ gone' = [s \in Streams |-> gone[s] \/ s \in Running]
  /\ UNCHANGED <<hubVars, phase, live, seen, registry>>

---------------------------------------------------------------------------
Handler(s) ==
  \/ Add(s) \/ SubscribeStream(s) \/ Render(s) \/ RenderFails(s)
  \/ TickArrives(s) \/ HeartbeatFires(s) \/ ContextDone(s)
  \/ Unsubscribe(s) \/ CloseTicks(s) \/ Release(s)

Next ==
  \/ \E s \in Streams :
       Arrive(s) \/ Handler(s) \/ Disconnect(s) \/ SendTick(s) \/ CancelStream(s)
  \/ Announce
  \/ WithdrawReadiness \/ StopAccepting \/ CloseRegistry \/ Drained \/ Cut

\* A handler that can go on does, whatever a render comes to; it cannot choose
\* the ticks and heartbeats for ever once its context is done.  Broadcasts end
\* and so does CloseAll.  No fairness on Arrive, Disconnect, HeartbeatFires,
\* WithdrawReadiness, nor on Cut, which is to be the exception.
Fairness ==
  /\ \A s \in Streams :
       /\ WF_vars(Add(s)) /\ WF_vars(SubscribeStream(s)) /\ WF_vars(Render(s) \/ RenderFails(s))
       /\ WF_vars(TickArrives(s)) /\ SF_vars(ContextDone(s))
       /\ WF_vars(Unsubscribe(s)) /\ WF_vars(CloseTicks(s)) /\ WF_vars(Release(s))
       /\ WF_vars(SendTick(s)) /\ WF_vars(CancelStream(s))
  /\ WF_vars(Unlock /\ UNCHANGED <<handlers, registry, server>>)
  /\ WF_vars(StopAccepting) /\ WF_vars(CloseRegistry) /\ WF_vars(Drained)

Spec == LiveInit /\ [][Next]_vars /\ Fairness

---------------------------------------------------------------------------
(* Properties *)

\* A live stream that waits, with no tick to wake it, has rendered the newest
\* fleet: no change falls between its first render and its subscription
\* (stream.go:325-330).
NoStaleWait ==
  \A s \in Streams :
    phase[s] = "wait" /\ buf[s] = << >> /\ s \notin todo => seen[s] = seq

\* Once the registry is closed no running stream has slipped by: it has been
\* cancelled, or CloseAll is about to, or it has yet to ask the registry for
\* its context (stream.go:467-500).
NoStreamSlipsBy ==
  closed => \A s \in Running : gone[s] \/ s \in toCancel \/ phase[s] = "accepted"

\* A handler that has returned leaves nothing behind, on whichever path it
\* returned: no entry, no subscription, no channel still open.
NothingLeaks ==
  \A s \in Streams \ Running :
    s \notin entries /\ s \notin subs /\ stage[s] \in {"new", "closed"}

\* The drain ends without waiting for a browser to leave or the time to run
\* out (api.go:84-87, stream.go:445-450).
DrainEnds == server = "draining" ~> server = "stopped"
=============================================================================
