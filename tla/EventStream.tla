----------------------------- MODULE EventStream -----------------------------
(***************************************************************************)
(* The live event stream of one deployment job across api replicas.  A     *)
(* phone-home is stored, then published with pg_notify; every replica      *)
(* listens on a connection of its own and fans what arrives out to the     *)
(* buffered channels of its subscribers; an SSE handler sends the stored   *)
(* events first, subscribes then, and relays.                              *)
(*                                                                         *)
(* Jobs have separate channels, so one job is enough.  Timers (keep-alive, *)
(* idle limit, reconnect backoff) only decide when a step happens.         *)
(***************************************************************************)
EXTENDS Naturals, Sequences, FiniteSets, SequencesExt

CONSTANTS
    Events,       \* phone-homes of the job
    Replicas,
    Clients,      \* browsers watching the job
    BufferSize,   \* capacity of a subscriber's channel
    Faults        \* may connections break and replicas stop?

ASSUME StreamAssumption ==
    /\ IsFiniteSet(Events)
    /\ BufferSize \in Nat \ {0}
    /\ Faults \in BOOLEAN

VARIABLES
    pub,        \* how far the handler of a phone-home is, and on which replica
    stored,     \* deployment_events
    pos,        \* position of an event in the order of notifications, 0: none
    local,      \* events published past Postgres
    listening,  \* replicas whose LISTEN connection is up
    queue,      \* notifications a replica has not read yet
    client      \* the SSE handler that serves a browser

vars == <<pub, stored, pos, local, listening, queue, client>>

\* An SSE handler: its step, its replica, its channel, the backfill (old) and
\* the live events (new) it has sent; and as history why it was not sent an
\* event: the channel was full (overrun), the event passed between backfill
\* and subscription (gap), the LISTEN connection was down (cut), the backfill
\* could not be read (unread).
Off == [pc |-> "off", at |-> "none", buf |-> <<>>, old |-> {}, new |-> <<>>,
        overrun |-> {}, gap |-> {}, cut |-> {}, unread |-> {}]

PubSteps == {"none", "stored", "retry", "done", "lost"}

TypeOK ==
    /\ \A e \in Events : pub[e].pc \in PubSteps /\ pub[e].at \in Replicas \cup {"none"}
    /\ stored \subseteq Events
    /\ pos \in [Events -> 0..Cardinality(Events)]
    /\ local \subseteq Events
    /\ listening \subseteq Replicas
    /\ \A n \in Replicas : queue[n] \in Seq(Events)
    /\ \A s \in Clients :
          /\ client[s].pc \in {"off", "read", "live"}
          /\ client[s].at \in Replicas \cup {"none"}
          /\ client[s].buf \in Seq(Events) /\ Len(client[s].buf) <= BufferSize
          /\ client[s].new \in Seq(Events)
          /\ UNION {client[s].old, client[s].overrun, client[s].gap, client[s].cut,
                    client[s].unread} \subseteq Events

Init ==
    /\ pub = [e \in Events |-> [pc |-> "none", at |-> "none"]]
    /\ stored = {}
    /\ pos = [e \in Events |-> 0]
    /\ local = {}
    /\ listening = Replicas
    /\ queue = [n \in Replicas |-> <<>>]
    /\ client = [s \in Clients |-> Off]

At(s, n) == client[s].pc # "off" /\ client[s].at = n

-----------------------------------------------------------------------------
(***************************************************************************)
(* The buses.                                                              *)
(***************************************************************************)

\* Mutant: channels take whatever is published.
FanOutUnbounded(n, e) ==
    client' = [s \in Clients |->
        IF ~At(s, n) THEN client[s]
        ELSE IF client[s].pc # "live" THEN [client[s] EXCEPT !.gap = @ \cup {e}]
        ELSE [client[s] EXCEPT !.buf = Append(@, e)]]

\* eventbus.Publish on a replica: every subscriber whose channel has room.
FanOut(n, e) ==
    client' = [s \in Clients |->
        IF ~At(s, n) THEN client[s]
        ELSE IF client[s].pc # "live" THEN [client[s] EXCEPT !.gap = @ \cup {e}]
        ELSE IF Len(client[s].buf) < BufferSize THEN [client[s] EXCEPT !.buf = Append(@, e)]
        ELSE [client[s] EXCEPT !.overrun = @ \cup {e}]]

\* The clients of replicas without a LISTEN connection lose events.
CutOff(down, es) ==
    client' = [s \in Clients |->
        IF \E n \in down : At(s, n) THEN [client[s] EXCEPT !.cut = @ \cup es] ELSE client[s]]

\* pg_notify commits: one order for everybody, but only for the replicas that
\* listen at this moment.
Notify(e) ==
    /\ pos' = [pos EXCEPT ![e] = 1 + Cardinality({f \in Events : pos[f] # 0})]
    /\ queue' = [n \in Replicas |-> IF n \in listening THEN Append(queue[n], e) ELSE queue[n]]

\* AppendDeploymentEvent of the phone-home handler.
AppendDeploymentEvent(e, n) ==
    /\ pub[e].pc = "none"
    /\ pub' = [pub EXCEPT ![e] = [pc |-> "stored", at |-> n]]
    /\ stored' = stored \cup {e}
    /\ UNCHANGED <<pos, local, listening, queue, client>>

\* Mutant: the publisher also delivers to its own replica.
PublishShortCircuit(e) ==
    /\ pub[e].pc = "stored"
    /\ pub' = [pub EXCEPT ![e].pc = "done"]
    /\ Notify(e)
    /\ FanOut(pub[e].at, e)
    /\ UNCHANGED <<stored, local, listening>>

\* Mutant: only the publisher's replica is notified.
PublishHome(e) ==
    /\ pub[e].pc = "stored"
    /\ pub' = [pub EXCEPT ![e].pc = "done"]
    /\ pos' = [pos EXCEPT ![e] = 1 + Cardinality({f \in Events : pos[f] # 0})]
    /\ queue' = [queue EXCEPT ![pub[e].at] = Append(@, e)]
    /\ UNCHANGED <<stored, local, listening, client>>

Publish(e) ==
    /\ pub[e].pc = "stored"
    /\ pub' = [pub EXCEPT ![e].pc = "done"]
    /\ Notify(e)
    /\ CutOff(Replicas \ listening, {e})
    /\ UNCHANGED <<stored, local, listening>>

\* The notify fails, or times out after it was committed.
PublishFails(e) ==
    /\ Faults
    /\ pub[e].pc = "stored"
    /\ pub' = [pub EXCEPT ![e].pc = "retry"]
    /\ \/ Notify(e) /\ CutOff(Replicas \ listening, {e})
       \/ UNCHANGED <<pos, queue, client>>
    /\ UNCHANGED <<stored, local, listening>>

\* The fallback to local delivery.
PublishLocally(e) ==
    /\ pub[e].pc = "retry"
    /\ pub' = [pub EXCEPT ![e].pc = "done"]
    /\ local' = local \cup {e}
    /\ FanOut(pub[e].at, e)
    /\ UNCHANGED <<stored, pos, listening, queue>>

\* Mutant: the listener skips notifications that pile up behind another.
DeliverLast(n) ==
    /\ n \in listening /\ queue[n] # <<>>
    /\ queue' = [queue EXCEPT ![n] = <<>>]
    /\ FanOut(n, Last(queue[n]))
    /\ UNCHANGED <<pub, stored, pos, local, listening>>

\* listenOnce: WaitForNotification, then the local bus.
Deliver(n) ==
    /\ n \in listening /\ queue[n] # <<>>
    /\ queue' = [queue EXCEPT ![n] = Tail(@)]
    /\ FanOut(n, Head(queue[n]))
    /\ UNCHANGED <<pub, stored, pos, local, listening>>

\* The LISTEN connection breaks, and what it had not handed over is lost.
ListenerLost(n) ==
    /\ Faults
    /\ n \in listening
    /\ listening' = listening \ {n}
    /\ queue' = [queue EXCEPT ![n] = <<>>]
    /\ CutOff({n}, ToSet(queue[n]))
    /\ UNCHANGED <<pub, stored, pos, local>>

\* Run: reconnect and LISTEN again.
Listen(n) ==
    /\ n \notin listening
    /\ listening' = listening \cup {n}
    /\ UNCHANGED <<pub, stored, pos, local, queue, client>>

-----------------------------------------------------------------------------
(***************************************************************************)
(* streamJobEvents.                                                        *)
(***************************************************************************)

\* The backfill: the stored events as of one SELECT, whose error is dropped,
\* then "synced".
Backfill(s, n) ==
    /\ client[s].pc = "off"
    /\ \/ client' = [client EXCEPT ![s] = [Off EXCEPT !.pc = "read", !.at = n, !.old = stored]]
       \/ /\ Faults
          /\ client' = [client EXCEPT ![s] = [Off EXCEPT !.pc = "read", !.at = n, !.unread = stored]]
    /\ UNCHANGED <<pub, stored, pos, local, listening, queue>>

Subscribe(s) ==
    /\ client[s].pc = "read"
    /\ client' = [client EXCEPT ![s].pc = "live"]
    /\ UNCHANGED <<pub, stored, pos, local, listening, queue>>

Relay(s) ==
    /\ client[s].pc = "live" /\ client[s].buf # <<>>
    /\ client' = [client EXCEPT ![s].new = Append(@, Head(client[s].buf)),
                                ![s].buf = Tail(@)]
    /\ UNCHANGED <<pub, stored, pos, local, listening, queue>>

\* The browser leaves, a write fails or the stream was idle for five minutes.
Close(s) ==
    /\ client[s].pc # "off"
    /\ client' = [client EXCEPT ![s] = Off]
    /\ UNCHANGED <<pub, stored, pos, local, listening, queue>>

\* A replica stops: its handlers, its channels and its connection are gone.
\* It listens again once it is restarted.
StopReplica(n) ==
    /\ Faults
    /\ listening' = listening \ {n}
    /\ queue' = [queue EXCEPT ![n] = <<>>]
    /\ client' = [s \in Clients |-> IF At(s, n) THEN Off ELSE client[s]]
    /\ pub' = [e \in Events |->
                  IF pub[e].at = n /\ pub[e].pc \in {"stored", "retry"}
                  THEN [pub[e] EXCEPT !.pc = "lost"] ELSE pub[e]]
    /\ UNCHANGED <<stored, pos, local>>

-----------------------------------------------------------------------------
Next ==
    \/ \E e \in Events : \/ \E n \in Replicas : AppendDeploymentEvent(e, n)
                         \/ Publish(e) \/ PublishFails(e) \/ PublishLocally(e)
    \/ \E n \in Replicas : Deliver(n) \/ ListenerLost(n) \/ Listen(n) \/ StopReplica(n)
    \/ \E s \in Clients : \/ \E n \in Replicas : Backfill(s, n)
                          \/ Subscribe(s) \/ Relay(s) \/ Close(s)

Spec == Init /\ [][Next]_vars

\* Started handlers, the listener and the relay loop keep running.
FairSpec ==
    /\ Spec
    /\ \A e \in Events : WF_vars(Publish(e)) /\ WF_vars(PublishLocally(e))
    /\ \A n \in Replicas : WF_vars(Deliver(n))
    /\ \A s \in Clients : WF_vars(Relay(s))

-----------------------------------------------------------------------------
(***************************************************************************)
(* Properties.                                                             *)
(***************************************************************************)

\* pgbus: "all replicas observe one ordering and nothing is delivered twice",
\* as long as the fallback to local delivery is not taken: what a client gets
\* live is in the order of the notifications, without repetition.
OneOrdering ==
    \A s \in Clients : \A i, j \in DOMAIN client[s].new :
        i < j /\ {client[s].new[i], client[s].new[j]} \cap local = {} =>
            pos[client[s].new[i]] < pos[client[s].new[j]]

\* Where an event may still be on its way to a client.
UnderWay(s, e) ==
    \/ pub[e].pc \in {"none", "stored", "retry"}
    \/ \E n \in Replicas : At(s, n) /\ e \in ToSet(queue[n])
    \/ e \in ToSet(client[s].buf)

\* Sent to the client before or after it subscribed.
Sent(s, e) == e \in client[s].old \cup ToSet(client[s].new)

\* Losses the bus documents: a full channel, a broken LISTEN connection, a
\* publisher that died, a fallback on another replica.
Excused(s, e) ==
    \/ e \in client[s].overrun \cup client[s].cut
    \/ pub[e].pc = "lost"
    \/ e \in local /\ pub[e].at # client[s].at

\* Storing before publishing and reading before subscribing leave one hole:
\* a client misses a published event only for a documented reason, because its
\* backfill could not be read, or because the event passed between its backfill
\* and its subscription.
LossesAreKnown ==
    \A s \in Clients : \A e \in Events :
        client[s].pc = "live" =>
            UnderWay(s, e) \/ Sent(s, e) \/ Excused(s, e)
                           \/ e \in client[s].gap \cup client[s].unread

\* streamJobEvents: "The client first gets a backfill of all existing events,
\* then a continuous stream of new events until disconnect".
ContinuousStream ==
    \A s \in Clients : \A e \in Events :
        client[s].pc = "live" => UnderWay(s, e) \/ Sent(s, e) \/ Excused(s, e)

\* A subscriber gets an event stored while it was subscribed, unless the loss
\* is a documented one or the stream ends.
LiveEventsArrive ==
    \A s \in Clients : \A e \in Events :
        (client[s].pc = "live" /\ pub[e].pc = "stored")
            ~> (e \in ToSet(client[s].new) \/ Excused(s, e) \/ client[s].pc = "off")

=============================================================================
