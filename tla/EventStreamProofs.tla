-------------------------- MODULE EventStreamProofs --------------------------
(***************************************************************************)
(* The event stream, for any number of events, replicas and browsers and   *)
(* any channel capacity: what a browser gets live is in the order of the   *)
(* notifications, and every event it misses is accounted for.              *)
(***************************************************************************)
EXTENDS EventStream, FiniteSetTheorems, TLAPS

Publishers == [pc : PubSteps, at : Replicas \cup {"none"}]
Streams == [pc : {"off", "read", "live"}, at : Replicas \cup {"none"},
            buf : Seq(Events), old : SUBSET Events, new : Seq(Events),
            overrun : SUBSET Events, gap : SUBSET Events, cut : SUBSET Events,
            unread : SUBSET Events]

\* Publishers and streams are records of their fields.
Shapes ==
    /\ pub \in [Events -> Publishers]
    /\ stored \subseteq Events /\ local \subseteq Events
    /\ pos \in [Events -> Nat]
    /\ listening \subseteq Replicas
    /\ queue \in [Replicas -> Seq(Events)]
    /\ client \in [Clients -> Streams]

-----------------------------------------------------------------------------
(***************************************************************************)
(* Order.  p is a numbering of the events, L the events whose order nobody *)
(* promises.                                                               *)
(***************************************************************************)

Increasing(q, p, L) ==
    \A i, j \in DOMAIN q : i < j /\ {q[i], q[j]} \cap L = {} => p[q[i]] < p[q[j]]

\* All of a comes before all of b.
Before(a, b, p, L) ==
    \A x \in ToSet(a) \ L : \A y \in ToSet(b) \ L : p[x] < p[y]

Numbered(q, p, L) == \A x \in ToSet(q) \ L : p[x] # 0

Ranked(q, p, L) == Increasing(q, p, L) /\ Numbered(q, p, L)

\* What was sent, what waits in the channel and what waits at the replica form
\* one increasing sequence.
Chain(new, buf, q, p, L) ==
    /\ Ranked(new, p, L) /\ Ranked(buf, p, L) /\ Ranked(q, p, L)
    /\ Before(new, buf, p, L) /\ Before(new, q, p, L) /\ Before(buf, q, p, L)

Notified == {e \in Events : pos[e] # 0}

\* The bus: an event is numbered once, higher than all before it; every queue
\* is in that order; an unknown event was not stored, a known one has a
\* handler.
Bus ==
    /\ \A e \in Events : pos[e] <= Cardinality(Notified)
    /\ \A e \in Events : pub[e].pc \in {"none", "stored"} => pos[e] = 0
    /\ \A e \in Events : e \notin stored => pub[e].pc = "none"
    /\ \A e \in Events : pub[e].pc # "none" => pub[e].at \in Replicas
    /\ \A n \in Replicas : Ranked(queue[n], pos, local)

\* Why event e is no loss of stream s, or a known one: LossesAreKnown.
Known(s, e) ==
    UnderWay(s, e) \/ Sent(s, e) \/ Excused(s, e)
                   \/ e \in client[s].gap \cup client[s].unread

\* An SSE handler that runs, subscribed already or not.
Follows(s) ==
    /\ client[s].pc # "off" => client[s].at \in Replicas
    /\ client[s].pc # "live" => client[s].buf = <<>> /\ client[s].new = <<>>
    /\ Len(client[s].buf) <= BufferSize
    /\ client[s].pc # "off" =>
          Chain(client[s].new, client[s].buf, queue[client[s].at], pos, local)
    /\ client[s].pc # "off" => \A e \in Events : Known(s, e)

IInv ==
    /\ Shapes
    /\ Bus
    /\ \A s \in Clients : Follows(s)

-----------------------------------------------------------------------------
\* What a sequence holds after Append and before Tail.
LEMMA AppendFacts ==
    ASSUME NEW q \in Seq(Events), NEW x \in Events
    PROVE  /\ Append(q, x) \in Seq(Events) /\ Len(Append(q, x)) = Len(q) + 1
           /\ ToSet(Append(q, x)) = ToSet(q) \cup {x}
<1>1. /\ Append(q, x) \in Seq(Events) /\ Len(Append(q, x)) = Len(q) + 1 /\ Len(q) \in Nat
      /\ \A i \in 1..Len(q) : Append(q, x)[i] = q[i]
      /\ Append(q, x)[Len(q) + 1] = x
  OBVIOUS
<1>2. DOMAIN q = 1..Len(q) /\ DOMAIN Append(q, x) = 1..(Len(q) + 1)
  BY <1>1
<1> DEFINE a == Append(q, x)
<1>3. ToSet(a) \subseteq ToSet(q) \cup {x}
  <2> SUFFICES ASSUME NEW i \in 1..(Len(q) + 1) PROVE a[i] \in ToSet(q) \cup {x}
    BY <1>2 DEF ToSet
  <2>1. CASE i \in 1..Len(q)
    BY <1>1, <1>2, <2>1 DEF ToSet
  <2>2. CASE i = Len(q) + 1
    BY <1>1, <2>2
  <2> QED BY <1>1, <2>1, <2>2
<1>4. ToSet(q) \subseteq ToSet(a)
  <2> SUFFICES ASSUME NEW i \in 1..Len(q) PROVE q[i] \in ToSet(a)
    BY <1>2 DEF ToSet
  <2>1. i \in 1..(Len(q) + 1) /\ a[i] = q[i]
    BY <1>1
  <2> QED BY <1>2, <2>1 DEF ToSet
<1>5. x \in ToSet(a)
  <2>1. Len(q) + 1 \in 1..(Len(q) + 1)
    BY <1>1
  <2> QED BY <1>1, <1>2, <2>1 DEF ToSet
<1> QED BY <1>1, <1>3, <1>4, <1>5

\* What a sequence holds without its head.
LEMMA TailFacts ==
    ASSUME NEW q \in Seq(Events), q # <<>>
    PROVE  /\ Head(q) \in Events /\ Tail(q) \in Seq(Events) /\ Len(Tail(q)) = Len(q) - 1
           /\ ToSet(q) = ToSet(Tail(q)) \cup {Head(q)}
<1>1. /\ Len(q) \in Nat \ {0} /\ Head(q) = q[1] /\ Head(q) \in Events
      /\ Tail(q) \in Seq(Events) /\ Len(Tail(q)) = Len(q) - 1
      /\ \A i \in 1..(Len(q) - 1) : Tail(q)[i] = q[i + 1]
  OBVIOUS
<1>2. DOMAIN q = 1..Len(q) /\ DOMAIN Tail(q) = 1..(Len(q) - 1)
  BY <1>1
<1>3. ToSet(q) \subseteq ToSet(Tail(q)) \cup {Head(q)}
  <2> SUFFICES ASSUME NEW i \in 1..Len(q) PROVE q[i] \in ToSet(Tail(q)) \cup {Head(q)}
    BY <1>2 DEF ToSet
  <2>1. CASE i = 1
    BY <1>1, <2>1
  <2>2. CASE i # 1
    <3>1. i - 1 \in 1..(Len(q) - 1) /\ Tail(q)[i - 1] = q[i]
      BY <1>1, <2>2
    <3> QED BY <1>2, <3>1 DEF ToSet
  <2> QED BY <2>1, <2>2
<1>4. ToSet(Tail(q)) \subseteq ToSet(q)
  <2> SUFFICES ASSUME NEW i \in 1..(Len(q) - 1) PROVE Tail(q)[i] \in ToSet(q)
    BY <1>2 DEF ToSet
  <2>1. i + 1 \in 1..Len(q) /\ Tail(q)[i] = q[i + 1]
    BY <1>1
  <2> QED BY <1>2, <2>1 DEF ToSet
<1>5. Head(q) \in ToSet(q)
  BY <1>1, <1>2 DEF ToSet
<1> QED BY <1>1, <1>3, <1>4, <1>5
\* A sequence that grows at its end.
LEMMA RankedAppend ==
    ASSUME NEW q \in Seq(Events), NEW x \in Events, NEW p \in [Events -> Nat], NEW L,
           Ranked(q, p, L),
           x \notin L => p[x] # 0 /\ \A y \in ToSet(q) \ L : p[y] < p[x]
    PROVE  Ranked(Append(q, x), p, L)
<1> DEFINE a == Append(q, x)
<1>1. /\ Len(q) \in Nat /\ DOMAIN q = 1..Len(q) /\ DOMAIN a = 1..(Len(q) + 1)
      /\ \A i \in 1..Len(q) : a[i] = q[i]
      /\ a[Len(q) + 1] = x
  OBVIOUS
<1>2. Numbered(a, p, L)
  BY AppendFacts DEF Ranked, Numbered
<1> HIDE DEF a
<1>3. ASSUME NEW i \in DOMAIN a, NEW j \in DOMAIN a, i < j, {a[i], a[j]} \cap L = {}
      PROVE  p[a[i]] < p[a[j]]
  <2>1. i \in 1..Len(q) /\ a[i] = q[i] /\ q[i] \in ToSet(q)
    BY <1>1, <1>3 DEF ToSet
  <2>2. CASE j = Len(q) + 1
    BY <1>1, <1>3, <2>1, <2>2
  <2>3. CASE j # Len(q) + 1
    <3>1. j \in 1..Len(q) /\ a[j] = q[j]
      BY <1>1, <2>3
    <3> QED BY <1>1, <1>3, <2>1, <3>1 DEF Ranked, Increasing
  <2> QED BY <2>2, <2>3
<1> QED BY <1>2, <1>3 DEF Ranked, Increasing, a

\* A sequence that loses its head, which was before the rest.
LEMMA RankedTail ==
    ASSUME NEW q \in Seq(Events), q # <<>>, NEW p \in [Events -> Nat], NEW L, Ranked(q, p, L)
    PROVE  /\ Ranked(Tail(q), p, L)
           /\ Head(q) \notin L => p[Head(q)] # 0 /\ \A y \in ToSet(Tail(q)) \ L : p[Head(q)] < p[y]
<1> DEFINE t == Tail(q)
<1>1. /\ Len(q) \in Nat \ {0} /\ DOMAIN q = 1..Len(q) /\ DOMAIN t = 1..(Len(q) - 1)
      /\ Head(q) = q[1] /\ \A i \in 1..(Len(q) - 1) : t[i] = q[i + 1]
  OBVIOUS
<1>2. Numbered(t, p, L) /\ (Head(q) \notin L => p[Head(q)] # 0)
  BY TailFacts DEF Ranked, Numbered
<1> HIDE DEF t
<1>3. ASSUME NEW i \in DOMAIN t, NEW j \in DOMAIN t, i < j, {t[i], t[j]} \cap L = {}
      PROVE  p[t[i]] < p[t[j]]
  <2>1. i + 1 \in DOMAIN q /\ j + 1 \in DOMAIN q /\ i + 1 < j + 1 /\ t[i] = q[i + 1] /\ t[j] = q[j + 1]
    BY <1>1, <1>3
  <2> QED BY <1>3, <2>1 DEF Ranked, Increasing
<1>4. ASSUME Head(q) \notin L, NEW y \in ToSet(t) \ L PROVE p[Head(q)] < p[y]
  <2>1. PICK i \in 1..(Len(q) - 1) : t[i] = y
    BY <1>1 DEF ToSet
  <2>2. 1 \in DOMAIN q /\ i + 1 \in DOMAIN q /\ 1 < i + 1 /\ q[i + 1] = y
    BY <1>1, <2>1
  <2>3. {q[1], q[i + 1]} \cap L = {}
    BY <1>1, <1>4, <2>2
  <2>4. p[q[1]] < p[q[i + 1]]
    BY <2>2, <2>3 DEF Ranked, Increasing
  <2> QED BY <1>1, <2>2, <2>4
<1> QED BY <1>2, <1>3, <1>4 DEF Ranked, Increasing, t

\* More events get numbers and fewer have an order: what was in order stays so.
LEMMA RankedKept ==
    ASSUME NEW q \in Seq(Events), NEW p \in [Events -> Nat], NEW r \in [Events -> Nat],
           NEW L, NEW M, L \subseteq M, \A x \in Events : p[x] # 0 => r[x] = p[x],
           Ranked(q, p, L)
    PROVE  Ranked(q, r, M)
<1>1. \A i \in DOMAIN q : q[i] \in Events /\ q[i] \in ToSet(q)
  BY DEF ToSet
<1>2. \A x \in ToSet(q) \ L : x \in Events /\ r[x] = p[x] /\ p[x] # 0
  BY DEF Ranked, Numbered, ToSet
<1>3. Numbered(q, r, M)
  BY <1>2 DEF Numbered
<1>4. Increasing(q, r, M)
  BY <1>1, <1>2 DEF Ranked, Increasing
<1> QED BY <1>3, <1>4 DEF Ranked

\* The same for two sequences, one before the other.
LEMMA BeforeKept ==
    ASSUME NEW a \in Seq(Events), NEW b \in Seq(Events),
           NEW p \in [Events -> Nat], NEW r \in [Events -> Nat],
           NEW L, NEW M, L \subseteq M, \A x \in Events : p[x] # 0 => r[x] = p[x],
           Ranked(a, p, L), Ranked(b, p, L), Before(a, b, p, L)
    PROVE  Before(a, b, r, M)
<1>1. \A x \in ToSet(a) \ L : x \in Events /\ r[x] = p[x]
  BY DEF Ranked, Numbered, ToSet
<1>2. \A x \in ToSet(b) \ L : x \in Events /\ r[x] = p[x]
  BY DEF Ranked, Numbered, ToSet
<1> QED BY <1>1, <1>2 DEF Before

\* A chain stays one when events are numbered or published past Postgres.
LEMMA ChainKept ==
    ASSUME NEW new \in Seq(Events), NEW buf \in Seq(Events), NEW q \in Seq(Events),
           NEW p \in [Events -> Nat], NEW r \in [Events -> Nat],
           NEW L, NEW M, L \subseteq M, \A x \in Events : p[x] # 0 => r[x] = p[x],
           Chain(new, buf, q, p, L)
    PROVE  Chain(new, buf, q, r, M)
<1>1. Ranked(new, p, L) /\ Ranked(buf, p, L) /\ Ranked(q, p, L)
  BY DEF Chain
<1>2. Before(new, buf, p, L) /\ Before(new, q, p, L) /\ Before(buf, q, p, L)
  BY DEF Chain
<1>3. Ranked(new, r, M) /\ Ranked(buf, r, M) /\ Ranked(q, r, M)
  BY <1>1, RankedKept
<1>4. Before(new, buf, r, M) /\ Before(new, q, r, M) /\ Before(buf, q, r, M)
  BY <1>1, <1>2, BeforeKept
<1> QED BY <1>3, <1>4 DEF Chain

\* A notification joins the end of the queue.
LEMMA ChainNotify ==
    ASSUME NEW new \in Seq(Events), NEW buf \in Seq(Events), NEW q \in Seq(Events),
           NEW p \in [Events -> Nat], NEW L, NEW e \in Events,
           Chain(new, buf, q, p, L), p[e] # 0,
           \A x \in (ToSet(new) \cup ToSet(buf) \cup ToSet(q)) \ L : p[x] < p[e]
    PROVE  Chain(new, buf, Append(q, e), p, L)
<1>1. Ranked(Append(q, e), p, L)
  BY RankedAppend DEF Chain
<1>2. ToSet(Append(q, e)) = ToSet(q) \cup {e}
  BY AppendFacts
<1>3. Before(new, Append(q, e), p, L) /\ Before(buf, Append(q, e), p, L)
  BY <1>2 DEF Chain, Before
<1> QED BY <1>1, <1>3 DEF Chain

\* A queue is emptied, or a new stream starts.
LEMMA ChainCut ==
    ASSUME NEW new, NEW buf, NEW q, NEW p, NEW L
    PROVE  /\ Chain(new, buf, q, p, L) => Chain(new, buf, <<>>, p, L)
           /\ Ranked(q, p, L) => Chain(<<>>, <<>>, q, p, L)
<1>1. ToSet(<<>>) = {}
  BY DEF ToSet
<1>2. Ranked(<<>>, p, L)
  BY <1>1 DEF Ranked, Increasing, Numbered
<1> QED BY <1>1, <1>2 DEF Chain, Before

\* A notification moves from the queue into the channel, or past it.
LEMMA ChainDeliver ==
    ASSUME NEW new \in Seq(Events), NEW buf \in Seq(Events), NEW q \in Seq(Events), q # <<>>,
           NEW p \in [Events -> Nat], NEW L, Chain(new, buf, q, p, L)
    PROVE  /\ Chain(new, buf, Tail(q), p, L)
           /\ Chain(new, Append(buf, Head(q)), Tail(q), p, L)
<1> DEFINE h == Head(q)
           t == Tail(q)
<1>1. h \in Events /\ t \in Seq(Events) /\ ToSet(q) = ToSet(t) \cup {h}
  BY TailFacts
<1>2. /\ Ranked(t, p, L)
      /\ h \notin L => p[h] # 0 /\ \A y \in ToSet(t) \ L : p[h] < p[y]
  BY RankedTail DEF Chain
<1> HIDE DEF h, t
<1>3. Chain(new, buf, t, p, L)
  BY <1>1, <1>2 DEF Chain, Before
<1>4. ToSet(Append(buf, h)) = ToSet(buf) \cup {h}
  BY <1>1, AppendFacts
<1>5. Ranked(Append(buf, h), p, L)
  <2>1. h \notin L => \A y \in ToSet(buf) \ L : p[y] < p[h]
    BY <1>1 DEF Chain, Before
  <2> QED BY <1>1, <1>2, <2>1, RankedAppend DEF Chain
<1>6. Before(new, Append(buf, h), p, L) /\ Before(Append(buf, h), t, p, L)
  BY <1>1, <1>2, <1>4 DEF Chain, Before
<1>7. Chain(new, Append(buf, h), t, p, L)
  BY <1>3, <1>5, <1>6 DEF Chain
<1> QED BY <1>3, <1>7 DEF h, t

\* An event nobody promises an order for joins the channel.
LEMMA ChainLocal ==
    ASSUME NEW new \in Seq(Events), NEW buf \in Seq(Events), NEW q \in Seq(Events),
           NEW p \in [Events -> Nat], NEW L, NEW e \in Events \cap L, Chain(new, buf, q, p, L)
    PROVE  Chain(new, Append(buf, e), q, p, L)
<1>1. Ranked(Append(buf, e), p, L)
  BY RankedAppend DEF Chain
<1>2. ToSet(Append(buf, e)) = ToSet(buf) \cup {e}
  BY AppendFacts
<1> QED BY <1>1, <1>2 DEF Chain, Before

\* An event is relayed from the channel.
LEMMA ChainRelay ==
    ASSUME NEW new \in Seq(Events), NEW buf \in Seq(Events), NEW q \in Seq(Events), buf # <<>>,
           NEW p \in [Events -> Nat], NEW L, Chain(new, buf, q, p, L)
    PROVE  Chain(Append(new, Head(buf)), Tail(buf), q, p, L)
<1> DEFINE h == Head(buf)
           t == Tail(buf)
<1>1. h \in Events /\ t \in Seq(Events) /\ ToSet(buf) = ToSet(t) \cup {h}
  BY TailFacts
<1>2. /\ Ranked(t, p, L)
      /\ h \notin L => p[h] # 0 /\ \A y \in ToSet(t) \ L : p[h] < p[y]
  BY RankedTail DEF Chain
<1> HIDE DEF h, t
<1>3. ToSet(Append(new, h)) = ToSet(new) \cup {h}
  BY <1>1, AppendFacts
<1>4. Ranked(Append(new, h), p, L)
  <2>1. h \notin L => \A y \in ToSet(new) \ L : p[y] < p[h]
    BY <1>1 DEF Chain, Before
  <2> QED BY <1>1, <1>2, <2>1, RankedAppend DEF Chain
<1>5. /\ Before(Append(new, h), t, p, L) /\ Before(Append(new, h), q, p, L)
      /\ Before(t, q, p, L)
  BY <1>1, <1>2, <1>3 DEF Chain, Before
<1>6. Chain(Append(new, h), t, q, p, L)
  BY <1>2, <1>4, <1>5 DEF Chain
<1> QED BY <1>6 DEF h, t
-----------------------------------------------------------------------------
(***************************************************************************)
(* Lemmas about streams.                                                   *)
(***************************************************************************)

\* Before anything was stored the invariant holds.
LEMMA InitIInv == Init => IInv
<1> SUFFICES ASSUME Init PROVE IInv
  OBVIOUS
<1>1. Off \in Streams
  BY DEF Off, Streams
<1>2. Shapes
  BY <1>1 DEF Init, Shapes, Publishers, PubSteps
<1>3. Bus
  <2>1. Notified = {}
    BY DEF Init, Notified
  <2>2. Cardinality(Notified) = 0
    BY <2>1, FS_EmptySet
  <2>3. \A n \in Replicas : Ranked(queue[n], pos, local)
    BY DEF Init, Ranked, Increasing, Numbered, ToSet
  <2> QED BY <2>2, <2>3 DEF Init, Bus
<1>4. \A s \in Clients : Follows(s)
  BY StreamAssumption DEF Init, Follows, Off
<1> QED BY <1>2, <1>3, <1>4 DEF IInv

\* The queue of a stream's replica is the one it can be on its way in.
LEMMA UnderWayAt ==
    ASSUME NEW s \in Clients, NEW e, client[s].pc # "off", client[s].at \in Replicas
    PROVE  UnderWay(s, e) <=> \/ pub[e].pc \in {"none", "stored", "retry"}
                              \/ e \in ToSet(queue[client[s].at]) \cup ToSet(client[s].buf)
BY DEF UnderWay, At

\* Nothing is forgotten: an event that stops being on its way for stream s is
\* in its channel or sent, or noted as lost.
LEMMA KnownKept ==
    ASSUME NEW s \in Clients, NEW e \in Events, Known(s, e),
           client[s].pc # "off", client'[s].pc # "off",
           client[s].at \in Replicas, client'[s].at = client[s].at,
           client[s].old \subseteq client'[s].old,
           ToSet(client[s].buf) \cup ToSet(client[s].new)
               \subseteq ToSet(client'[s].buf) \cup ToSet(client'[s].new),
           client[s].overrun \subseteq client'[s].overrun,
           client[s].cut \subseteq client'[s].cut,
           client[s].gap \subseteq client'[s].gap,
           client[s].unread \subseteq client'[s].unread,
           local \subseteq local',
           pub[e].pc = "lost" => pub'[e].pc = "lost",
           e \in local => pub'[e].at = pub[e].at,
           pub[e].pc \in {"none", "stored", "retry"} =>
               pub'[e].pc \in {"none", "stored", "retry", "lost"} \/ Known(s, e)',
           e \in ToSet(queue[client[s].at]) => e \in ToSet(queue'[client[s].at]) \/ Known(s, e)'
    PROVE  Known(s, e)'
<1>1. Known(s, e)' <=>
        \/ pub'[e].pc \in {"none", "stored", "retry", "lost"}
        \/ e \in ToSet(queue'[client[s].at])
        \/ e \in ToSet(client'[s].buf) \cup ToSet(client'[s].new)
        \/ e \in client'[s].old \cup client'[s].overrun \cup client'[s].cut
                   \cup client'[s].gap \cup client'[s].unread
        \/ e \in local' /\ pub'[e].at # client[s].at
  BY DEF Known, UnderWay, At, Sent, Excused
<1>2. Known(s, e) <=>
        \/ pub[e].pc \in {"none", "stored", "retry", "lost"}
        \/ e \in ToSet(queue[client[s].at])
        \/ e \in ToSet(client[s].buf) \cup ToSet(client[s].new)
        \/ e \in client[s].old \cup client[s].overrun \cup client[s].cut
                   \cup client[s].gap \cup client[s].unread
        \/ e \in local /\ pub[e].at # client[s].at
  BY DEF Known, UnderWay, At, Sent, Excused
<1> QED BY <1>1, <1>2

\* The streams a bus publishes to: their events, and what they note.
LEMMA FanOutFacts ==
    ASSUME Shapes, NEW n \in Replicas, NEW e \in Events, FanOut(n, e), NEW s \in Clients, Follows(s)
    PROVE  /\ client'[s] \in Streams
           /\ client'[s].pc = client[s].pc /\ client'[s].at = client[s].at
           /\ client'[s].old = client[s].old /\ client'[s].new = client[s].new
           /\ client'[s].cut = client[s].cut /\ client'[s].unread = client[s].unread
           /\ client[s].gap \subseteq client'[s].gap /\ client[s].overrun \subseteq client'[s].overrun
           /\ \/ client'[s].buf = client[s].buf
              \/ /\ client'[s].buf = Append(client[s].buf, e)
                 /\ At(s, n) /\ client[s].pc = "live" /\ Len(client[s].buf) < BufferSize
           /\ At(s, n) => e \in client'[s].gap \cup client'[s].overrun \cup ToSet(client'[s].buf)
<1>1. client[s] \in Streams
  BY DEF Shapes
<1>2. CASE ~At(s, n)
  <2>1. client'[s] = client[s]
    BY <1>2 DEF FanOut
  <2> QED BY <1>1, <1>2, <2>1
<1>3. CASE At(s, n) /\ client[s].pc # "live"
  <2> DEFINE g == client[s].gap \cup {e}
  <2>1. client'[s] = [client[s] EXCEPT !.gap = g]
    BY <1>3 DEF FanOut
  <2>2. g \in SUBSET Events /\ e \in g /\ client[s].gap \subseteq g
    BY <1>1 DEF Streams
  <2> HIDE DEF g
  <2> QED BY <1>1, <2>1, <2>2 DEF Streams
<1>4. CASE At(s, n) /\ client[s].pc = "live" /\ Len(client[s].buf) < BufferSize
  <2> DEFINE b == Append(client[s].buf, e)
  <2>1. client'[s] = [client[s] EXCEPT !.buf = b]
    BY <1>4 DEF FanOut
  <2>2. b \in Seq(Events) /\ e \in ToSet(b)
    BY <1>1, AppendFacts DEF Streams
  <2> HIDE DEF b
  <2>3. /\ client'[s] \in Streams
        /\ client'[s].pc = client[s].pc /\ client'[s].at = client[s].at
        /\ client'[s].old = client[s].old /\ client'[s].new = client[s].new
        /\ client'[s].cut = client[s].cut /\ client'[s].unread = client[s].unread
        /\ client'[s].gap = client[s].gap /\ client'[s].overrun = client[s].overrun
        /\ client'[s].buf = b
    BY <1>1, <2>1, <2>2 DEF Streams
  <2> QED BY <1>4, <2>2, <2>3 DEF b
<1>5. CASE At(s, n) /\ client[s].pc = "live" /\ ~(Len(client[s].buf) < BufferSize)
  <2> DEFINE v == client[s].overrun \cup {e}
  <2>1. client'[s] = [client[s] EXCEPT !.overrun = v]
    BY <1>5 DEF FanOut
  <2>2. v \in SUBSET Events /\ e \in v /\ client[s].overrun \subseteq v
    BY <1>1 DEF Streams
  <2> HIDE DEF v
  <2> QED BY <1>1, <2>1, <2>2 DEF Streams
<1> QED BY <1>2, <1>3, <1>4, <1>5

\* The streams of replicas that do not listen note what they lose.
LEMMA CutOffFacts ==
    ASSUME Shapes, NEW down \in SUBSET Replicas, NEW es \in SUBSET Events, CutOff(down, es),
           NEW s \in Clients
    PROVE  /\ client'[s] \in Streams
           /\ client'[s].pc = client[s].pc /\ client'[s].at = client[s].at
           /\ client'[s].old = client[s].old /\ client'[s].new = client[s].new
           /\ client'[s].buf = client[s].buf /\ client'[s].unread = client[s].unread
           /\ client'[s].gap = client[s].gap /\ client'[s].overrun = client[s].overrun
           /\ client[s].cut \subseteq client'[s].cut
           /\ (\E n \in down : At(s, n)) => es \subseteq client'[s].cut
<1>1. client[s] \in Streams
  BY DEF Shapes
<1>2. CASE \E n \in down : At(s, n)
  <2> DEFINE c == client[s].cut \cup es
  <2>1. client'[s] = [client[s] EXCEPT !.cut = c]
    BY <1>2 DEF CutOff
  <2>2. c \in SUBSET Events /\ es \subseteq c /\ client[s].cut \subseteq c
    BY <1>1 DEF Streams
  <2> HIDE DEF c
  <2> QED BY <1>1, <2>1, <2>2 DEF Streams
<1>3. CASE ~\E n \in down : At(s, n)
  <2>1. client'[s] = client[s]
    BY <1>3 DEF CutOff
  <2> QED BY <1>1, <1>3, <2>1
<1> QED BY <1>2, <1>3

-----------------------------------------------------------------------------
(***************************************************************************)
(* Every step keeps the invariant: the handler of a phone-home.            *)
(***************************************************************************)

\* A phone-home is stored.
LEMMA AppendIInv ==
    ASSUME IInv, NEW e \in Events, NEW n \in Replicas, AppendDeploymentEvent(e, n)
    PROVE  IInv'
<1> USE DEF AppendDeploymentEvent
<1>1. /\ pub' = [pub EXCEPT ![e] = [pc |-> "stored", at |-> n]]
      /\ pub'[e].pc = "stored" /\ pub'[e].at = n
      /\ \A f \in Events : f # e => pub'[f] = pub[f]
  BY DEF IInv, Shapes
<1>2. Shapes'
  <2>1. [pc |-> "stored", at |-> n] \in Publishers
    BY DEF Publishers, PubSteps
  <2> QED BY <2>1 DEF IInv, Shapes
<1>3. Bus'
  <2>1. Notified' = Notified
    BY DEF Notified
  <2>2. \A f \in Events : pub'[f].pc \in {"none", "stored"} => pos'[f] = 0
    BY <1>1 DEF IInv, Bus
  <2>3. \A f \in Events : f \notin stored' => pub'[f].pc = "none"
    BY <1>1 DEF IInv, Bus
  <2>4. \A f \in Events : pub'[f].pc # "none" => pub'[f].at \in Replicas
    BY <1>1 DEF IInv, Bus
  <2> QED BY <2>1, <2>2, <2>3, <2>4 DEF IInv, Bus
<1>4. ASSUME NEW s \in Clients PROVE Follows(s)'
  <2>1. Follows(s)
    BY DEF IInv
  <2>2. ASSUME client[s].pc # "off", NEW f \in Events PROVE Known(s, f)'
    <3>1. CASE f = e
      BY <1>1, <3>1 DEF Known, UnderWay
    <3>2. CASE f # e
      <4>1. pub'[f] = pub[f] /\ Known(s, f)
        BY <1>1, <2>1, <2>2, <3>2 DEF Follows
      <4> QED BY <4>1 DEF Known, UnderWay, At, Sent, Excused
    <3> QED BY <3>1, <3>2
  <2> QED BY <2>1, <2>2 DEF Follows
<1> QED BY <1>2, <1>3, <1>4 DEF IInv

\* The step of a handler changes, its replica and the other handlers do not.
LEMMA HandlerSteps ==
    ASSUME Shapes, NEW e \in Events, NEW x \in PubSteps, pub' = [pub EXCEPT ![e].pc = x]
    PROVE  /\ pub' \in [Events -> Publishers]
           /\ pub'[e].pc = x /\ pub'[e].at = pub[e].at
           /\ \A f \in Events : f # e => pub'[f] = pub[f]
<1>1. pub \in [Events -> Publishers]
  BY DEF Shapes
<1>2. pub[e] \in Publishers /\ [pub[e] EXCEPT !.pc = x] \in Publishers
  BY <1>1 DEF Publishers
<1>3. pub' = [pub EXCEPT ![e] = [pub[e] EXCEPT !.pc = x]]
  BY <1>1
<1>4. pub' \in [Events -> Publishers] /\ pub'[e] = [pub[e] EXCEPT !.pc = x]
      /\ \A f \in Events : f # e => pub'[f] = pub[f]
  BY <1>1, <1>2, <1>3
<1> QED BY <1>2, <1>4 DEF Publishers

\* A notification gets the next number.
LEMMA NextNumber ==
    ASSUME Shapes, Bus, NEW e \in Events, pub[e].pc = "stored", Notify(e)
    PROVE  /\ pos' \in [Events -> Nat] /\ pos'[e] # 0
           /\ \A f \in Events : pos[f] # 0 => pos'[f] = pos[f] /\ pos'[f] < pos'[e]
           /\ \A f \in Events : f # e => pos'[f] = pos[f]
           /\ \A f \in Events : pos'[f] <= Cardinality(Notified')
<1> DEFINE k == Cardinality(Notified)
<1>1. IsFiniteSet(Notified) /\ k \in Nat
  BY StreamAssumption, FS_Subset, FS_CardinalityType DEF Notified
<1>2. pos' = [pos EXCEPT ![e] = 1 + k]
  BY DEF Notify, Notified
<1>3. pos \in [Events -> Nat] /\ pos[e] = 0 /\ \A f \in Events : pos[f] <= k
  BY DEF Shapes, Bus
<1> HIDE DEF k
<1>4. /\ pos' \in [Events -> Nat] /\ pos'[e] = 1 + k
      /\ \A f \in Events : f # e => pos'[f] = pos[f]
  BY <1>1, <1>2, <1>3
<1>5. Notified' = Notified \cup {e} /\ e \notin Notified
  BY <1>1, <1>3, <1>4 DEF Notified
<1>6. Cardinality(Notified') = k + 1
  BY <1>1, <1>5, FS_AddElement DEF k
<1> QED BY <1>1, <1>3, <1>4, <1>6

\* pg_notify commits: the listening replicas get the event, the clients of the
\* others note that they do not.
LEMMA NotifyIInv ==
    ASSUME IInv, NEW e \in Events, NEW x \in {"done", "retry"}, pub[e].pc = "stored",
           pub' = [pub EXCEPT ![e].pc = x], Notify(e), CutOff(Replicas \ listening, {e}),
           UNCHANGED <<stored, local, listening>>
    PROVE  IInv'
<1>1. Shapes /\ Bus /\ \A s \in Clients : Follows(s)
  BY DEF IInv
<1>2. /\ pub' \in [Events -> Publishers]
      /\ pub'[e].pc = x /\ pub'[e].at = pub[e].at
      /\ \A f \in Events : f # e => pub'[f] = pub[f]
  BY <1>1, HandlerSteps DEF PubSteps
<1>3. /\ pos' \in [Events -> Nat] /\ pos'[e] # 0
      /\ \A f \in Events : pos[f] # 0 => pos'[f] = pos[f] /\ pos'[f] < pos'[e]
      /\ \A f \in Events : f # e => pos'[f] = pos[f]
      /\ \A f \in Events : pos'[f] <= Cardinality(Notified')
  BY <1>1, NextNumber
<1>4. pos \in [Events -> Nat] /\ queue \in [Replicas -> Seq(Events)]
  BY <1>1 DEF Shapes
<1>5. ASSUME NEW n \in Replicas
      PROVE  /\ queue'[n] \in Seq(Events) /\ ToSet(queue[n]) \subseteq ToSet(queue'[n])
             /\ n \in listening => queue'[n] = Append(queue[n], e) /\ e \in ToSet(queue'[n])
             /\ n \notin listening => queue'[n] = queue[n]
  <2>1. queue'[n] = IF n \in listening THEN Append(queue[n], e) ELSE queue[n]
    BY DEF Notify
  <2> QED BY <1>4, <2>1, AppendFacts
<1>6. \A s \in Clients :
        /\ client'[s] \in Streams
        /\ client'[s].pc = client[s].pc /\ client'[s].at = client[s].at
        /\ client'[s].old = client[s].old /\ client'[s].new = client[s].new
        /\ client'[s].buf = client[s].buf /\ client'[s].unread = client[s].unread
        /\ client'[s].gap = client[s].gap /\ client'[s].overrun = client[s].overrun
        /\ client[s].cut \subseteq client'[s].cut
        /\ (\E n \in Replicas \ listening : At(s, n)) => e \in client'[s].cut
  <2> DEFINE down == Replicas \ listening
             es == {e}
  <2>1. down \in SUBSET Replicas /\ es \in SUBSET Events /\ e \in es /\ CutOff(down, es)
    OBVIOUS
  <2> HIDE DEF es
  <2>2. \A s \in Clients : (\E n \in down : At(s, n)) => e \in client'[s].cut
    <3> HIDE DEF down
    <3> QED BY <1>1, <2>1, CutOffFacts
  <2>3. \A s \in Clients :
        /\ client'[s] \in Streams
        /\ client'[s].pc = client[s].pc /\ client'[s].at = client[s].at
        /\ client'[s].old = client[s].old /\ client'[s].new = client[s].new
        /\ client'[s].buf = client[s].buf /\ client'[s].unread = client[s].unread
        /\ client'[s].gap = client[s].gap /\ client'[s].overrun = client[s].overrun
        /\ client[s].cut \subseteq client'[s].cut
    <3> HIDE DEF down
    <3> QED BY <1>1, <2>1, CutOffFacts
  <2> QED BY <2>2, <2>3
<1>7. Shapes'
  <2>1. client' \in [Clients -> Streams]
    BY <1>6 DEF CutOff
  <2>2. queue' \in [Replicas -> Seq(Events)]
    BY <1>5 DEF Notify
  <2> QED BY <1>1, <1>2, <1>3, <2>1, <2>2 DEF Shapes
<1>8. ASSUME NEW q \in Seq(Events), Ranked(q, pos, local)
      PROVE  /\ Ranked(q, pos', local) /\ \A y \in ToSet(q) \ local : pos'[y] < pos'[e]
  <2>1. \A y \in ToSet(q) \ local : y \in Events /\ pos[y] # 0
    BY <1>8 DEF Ranked, Numbered, ToSet
  <2>2. Ranked(q, pos', local)
    BY <1>3, <1>4, <1>8, RankedKept
  <2> QED BY <1>3, <2>1, <2>2
<1>9. Bus'
  <2>1. ASSUME NEW n \in Replicas PROVE Ranked(queue'[n], pos', local')
    <3>1. /\ queue[n] \in Seq(Events) /\ Ranked(queue[n], pos', local)
          /\ \A y \in ToSet(queue[n]) \ local : pos'[y] < pos'[e]
      BY <1>1, <1>4, <1>8 DEF Bus
    <3>2. Ranked(Append(queue[n], e), pos', local)
      BY <1>3, <3>1, RankedAppend
    <3> QED BY <1>5, <3>1, <3>2
  <2>2. \A f \in Events : pub'[f].pc \in {"none", "stored"} => pos'[f] = 0
    BY <1>1, <1>2, <1>3 DEF Bus
  <2>3. \A f \in Events : f \notin stored' => pub'[f].pc = "none"
    BY <1>1, <1>2 DEF Bus
  <2>4. \A f \in Events : pub'[f].pc # "none" => pub'[f].at \in Replicas
    BY <1>1, <1>2 DEF Bus
  <2> QED BY <1>3, <2>1, <2>2, <2>3, <2>4 DEF Bus
<1>10. ASSUME NEW s \in Clients PROVE Follows(s)'
  <2> DEFINE c == client[s]
             n == client[s].at
  <2>1. Follows(s) /\ c \in Streams
    BY <1>1 DEF Shapes
  <2>2. CASE c.pc = "off"
    BY <1>6, <2>1, <2>2 DEF Follows
  <2>3. CASE c.pc # "off"
    <3>1. n \in Replicas /\ c.new \in Seq(Events) /\ c.buf \in Seq(Events) /\ queue[n] \in Seq(Events)
      BY <1>4, <2>1, <2>3 DEF Follows, Streams
    <3>2. Chain(c.new, c.buf, queue[n], pos, local)
      BY <2>1, <2>3 DEF Follows
    <3>3. Chain(c.new, c.buf, queue[n], pos', local)
      BY <1>3, <1>4, <3>1, <3>2, ChainKept
    <3>4. \A y \in (ToSet(c.new) \cup ToSet(c.buf) \cup ToSet(queue[n])) \ local : pos'[y] < pos'[e]
      BY <1>8, <3>1, <3>2 DEF Chain
    <3>5. Chain(c.new, c.buf, Append(queue[n], e), pos', local)
      BY <1>3, <3>1, <3>3, <3>4, ChainNotify
    <3>6. Chain(c.new, c.buf, queue'[n], pos', local')
      BY <1>5, <3>1, <3>3, <3>5
    <3>7. ASSUME NEW f \in Events PROVE Known(s, f)'
      <4>1. Known(s, f)
        BY <2>1, <2>3 DEF Follows
      <4>2. CASE f # e
        BY <1>2, <1>5, <1>6, <2>3, <3>1, <4>1, <4>2, KnownKept
      <4>3. CASE f = e
        <5>1. n \in listening => e \in ToSet(queue'[n])
          BY <1>5, <3>1
        <5>2. n \notin listening => e \in client'[s].cut
          BY <1>6, <2>3, <3>1 DEF At
        <5>3. client'[s].pc # "off" /\ client'[s].at = n
          BY <1>6, <2>3
        <5> QED BY <3>1, <4>3, <5>1, <5>2, <5>3 DEF Known, UnderWay, At, Excused
      <4> QED BY <4>2, <4>3
    <3> QED BY <1>6, <2>1, <3>6, <3>7 DEF Follows
  <2> QED BY <2>2, <2>3
<1> QED BY <1>7, <1>9, <1>10 DEF IInv

\* The handler publishes, or its notify fails before or after the commit.
LEMMA PublishIInv ==
    ASSUME IInv, NEW e \in Events, Publish(e) \/ PublishFails(e)
    PROVE  IInv'
<1>1. CASE Publish(e)
  BY <1>1, NotifyIInv DEF Publish
<1>2. CASE PublishFails(e) /\ Notify(e) /\ CutOff(Replicas \ listening, {e})
  BY <1>2, NotifyIInv DEF PublishFails
<1>3. CASE PublishFails(e) /\ UNCHANGED <<pos, queue, client>>
  <2>1. Shapes /\ Bus /\ \A s \in Clients : Follows(s)
    BY DEF IInv
  <2>2. pub[e].pc = "stored" /\ UNCHANGED <<pos, queue, client, stored, local, listening>>
    BY <1>3 DEF PublishFails
  <2>3. /\ pub' \in [Events -> Publishers]
        /\ pub'[e].pc = "retry" /\ pub'[e].at = pub[e].at
        /\ \A f \in Events : f # e => pub'[f] = pub[f]
    BY <1>3, <2>1, HandlerSteps DEF PublishFails, PubSteps
  <2>4. Shapes'
    BY <2>1, <2>2, <2>3 DEF Shapes
  <2>5. Bus'
    <3>1. \A f \in Events : pub'[f].pc \in {"none", "stored"} => pos'[f] = 0
      BY <2>1, <2>2, <2>3 DEF Bus
    <3>2. \A f \in Events : f \notin stored' => pub'[f].pc = "none"
      BY <2>1, <2>2, <2>3 DEF Bus
    <3>3. \A f \in Events : pub'[f].pc # "none" => pub'[f].at \in Replicas
      BY <2>1, <2>2, <2>3 DEF Bus
    <3>4. Notified' = Notified
      BY <2>2 DEF Notified
    <3> QED BY <2>1, <2>2, <3>1, <3>2, <3>3, <3>4 DEF Bus
  <2>6. ASSUME NEW s \in Clients PROVE Follows(s)'
    <3>1. Follows(s)
      BY <2>1
    <3>2. ASSUME client[s].pc # "off", NEW f \in Events PROVE Known(s, f)'
      <4>1. CASE f = e
        BY <2>3, <4>1 DEF Known, UnderWay
      <4>2. CASE f # e
        <5>1. pub'[f] = pub[f] /\ Known(s, f)
          BY <2>3, <3>1, <3>2, <4>2 DEF Follows
        <5> QED BY <2>2, <5>1 DEF Known, UnderWay, At, Sent, Excused
      <4> QED BY <4>1, <4>2
    <3> QED BY <2>2, <3>1, <3>2 DEF Follows
  <2> QED BY <2>4, <2>5, <2>6 DEF IInv
<1> QED BY <1>1, <1>2, <1>3 DEF PublishFails

\* The fallback: the handler's own replica is published to directly.
LEMMA LocalIInv ==
    ASSUME IInv, NEW e \in Events, PublishLocally(e)
    PROVE  IInv'
<1> DEFINE n == pub[e].at
<1>1. Shapes /\ Bus /\ \A s \in Clients : Follows(s)
  BY DEF IInv
<1>2. /\ pub[e].pc = "retry" /\ local' = local \cup {e} /\ FanOut(n, e)
      /\ UNCHANGED <<stored, pos, listening, queue>>
  BY DEF PublishLocally
<1>3. /\ pub' \in [Events -> Publishers]
      /\ pub'[e].pc = "done" /\ pub'[e].at = pub[e].at
      /\ \A f \in Events : f # e => pub'[f] = pub[f]
  BY <1>1, HandlerSteps DEF PublishLocally, PubSteps
<1>4. n \in Replicas
  BY <1>1, <1>2 DEF Bus
<1>5. pos \in [Events -> Nat] /\ queue \in [Replicas -> Seq(Events)] /\ local \subseteq local'
      /\ e \in Events \cap local'
  BY <1>1, <1>2 DEF Shapes
<1> HIDE DEF n
<1>6. \A s \in Clients :
        /\ client'[s] \in Streams
        /\ client'[s].pc = client[s].pc /\ client'[s].at = client[s].at
        /\ client'[s].old = client[s].old /\ client'[s].new = client[s].new
        /\ client'[s].cut = client[s].cut /\ client'[s].unread = client[s].unread
        /\ client[s].gap \subseteq client'[s].gap /\ client[s].overrun \subseteq client'[s].overrun
        /\ \/ client'[s].buf = client[s].buf
           \/ /\ client'[s].buf = Append(client[s].buf, e)
              /\ At(s, n) /\ client[s].pc = "live" /\ Len(client[s].buf) < BufferSize
        /\ At(s, n) => e \in client'[s].gap \cup client'[s].overrun \cup ToSet(client'[s].buf)
  BY <1>1, <1>2, <1>4, FanOutFacts
<1>7. Shapes'
  <2>1. client' \in [Clients -> Streams]
    BY <1>2, <1>6 DEF FanOut
  <2> QED BY <1>1, <1>2, <1>3, <2>1 DEF Shapes
<1>8. Bus'
  <2>1. \A m \in Replicas : Ranked(queue'[m], pos', local')
    BY <1>1, <1>2, <1>5, RankedKept DEF Bus
  <2>2. \A f \in Events : pub'[f].pc \in {"none", "stored"} => pos'[f] = 0
    BY <1>1, <1>2, <1>3 DEF Bus
  <2>3. \A f \in Events : f \notin stored' => pub'[f].pc = "none"
    BY <1>1, <1>2, <1>3 DEF Bus
  <2>4. \A f \in Events : pub'[f].pc # "none" => pub'[f].at \in Replicas
    BY <1>1, <1>2, <1>3 DEF Bus
  <2>5. Notified' = Notified
    BY <1>2 DEF Notified
  <2> QED BY <1>1, <1>2, <2>1, <2>2, <2>3, <2>4, <2>5 DEF Bus
<1>9. ASSUME NEW s \in Clients PROVE Follows(s)'
  <2> DEFINE c == client[s]
             m == client[s].at
  <2>1. Follows(s) /\ c \in Streams
    BY <1>1 DEF Shapes
  <2>2. c.new \in Seq(Events) /\ c.buf \in Seq(Events)
    BY <2>1 DEF Streams
  <2>3. Len(client'[s].buf) <= BufferSize
    <3>1. CASE client'[s].buf = c.buf
      BY <2>1, <3>1 DEF Follows
    <3>2. CASE client'[s].buf = Append(c.buf, e) /\ Len(c.buf) < BufferSize
      <4>1. Len(c.buf) \in Nat /\ Len(client'[s].buf) = Len(c.buf) + 1
        BY <2>2, <3>2, AppendFacts
      <4> QED BY <3>2, <4>1, StreamAssumption
    <3> QED BY <1>6, <3>1, <3>2
  <2>4. client'[s].pc # "live" => client'[s].buf = <<>> /\ client'[s].new = <<>>
    BY <1>6, <2>1 DEF Follows
  <2>5. ASSUME c.pc # "off" PROVE Chain(client'[s].new, client'[s].buf, queue'[m], pos', local')
    <3>1. m \in Replicas /\ queue[m] \in Seq(Events) /\ Chain(c.new, c.buf, queue[m], pos, local)
      BY <1>5, <2>1, <2>5 DEF Follows
    <3>2. Chain(c.new, c.buf, queue[m], pos, local')
      BY <1>5, <2>2, <3>1, ChainKept
    <3>3. Chain(c.new, Append(c.buf, e), queue[m], pos, local')
      BY <1>5, <2>2, <3>1, <3>2, ChainLocal
    <3> QED BY <1>2, <1>6, <3>2, <3>3
  <2>6. ASSUME c.pc # "off", NEW f \in Events PROVE Known(s, f)'
    <3>1. Known(s, f) /\ m \in Replicas
      BY <2>1, <2>6 DEF Follows
    <3>2. ToSet(c.buf) \subseteq ToSet(client'[s].buf)
      BY <1>6, <2>2, AppendFacts
    <3>3. CASE f # e
      BY <1>2, <1>3, <1>5, <1>6, <2>6, <3>1, <3>2, <3>3, KnownKept
    <3>4. CASE f = e /\ m = n
      BY <1>6, <2>6, <3>4 DEF Known, UnderWay, At, Excused
    <3>5. CASE f = e /\ m # n
      <4>1. e \in local' /\ pub'[e].at # client'[s].at
        BY <1>3, <1>5, <1>6, <3>5 DEF n
      <4> QED BY <3>5, <4>1 DEF Known, Excused
    <3> QED BY <3>3, <3>4, <3>5
  <2> QED BY <1>6, <2>1, <2>3, <2>4, <2>5, <2>6 DEF Follows
<1> QED BY <1>7, <1>8, <1>9 DEF IInv

-----------------------------------------------------------------------------
(***************************************************************************)
(* The listener of a replica.                                              *)
(***************************************************************************)

\* A notification is read and published on the replica's own bus.
LEMMA DeliverIInv ==
    ASSUME IInv, NEW n \in Replicas, Deliver(n)
    PROVE  IInv'
<1> DEFINE e == Head(queue[n])
           t == Tail(queue[n])
<1>1. Shapes /\ Bus /\ \A s \in Clients : Follows(s)
  BY DEF IInv
<1>2. /\ queue[n] # <<>> /\ queue' = [queue EXCEPT ![n] = t] /\ FanOut(n, e)
      /\ UNCHANGED <<pub, stored, pos, local, listening>>
  BY DEF Deliver
<1>3. pos \in [Events -> Nat] /\ queue \in [Replicas -> Seq(Events)]
  BY <1>1 DEF Shapes
<1>4. e \in Events /\ t \in Seq(Events) /\ ToSet(queue[n]) = ToSet(t) \cup {e}
  BY <1>2, <1>3, TailFacts
<1>5. /\ queue' \in [Replicas -> Seq(Events)] /\ queue'[n] = t
      /\ \A m \in Replicas : m # n => queue'[m] = queue[m]
  BY <1>2, <1>3, <1>4
<1>6. Ranked(t, pos, local)
  BY <1>1, <1>2, <1>3, RankedTail DEF Bus
<1>7. \A s \in Clients : client[s].pc # "off" /\ client[s].at = n =>
        /\ Chain(client[s].new, client[s].buf, t, pos, local)
        /\ Chain(client[s].new, Append(client[s].buf, e), t, pos, local)
  <2> SUFFICES ASSUME NEW s \in Clients, client[s].pc # "off", client[s].at = n
               PROVE  /\ Chain(client[s].new, client[s].buf, t, pos, local)
                      /\ Chain(client[s].new, Append(client[s].buf, e), t, pos, local)
    OBVIOUS
  <2>1. client[s] \in Streams /\ Chain(client[s].new, client[s].buf, queue[n], pos, local)
    BY <1>1 DEF Shapes, Follows
  <2>2. client[s].new \in Seq(Events) /\ client[s].buf \in Seq(Events)
    BY <2>1 DEF Streams
  <2> QED BY <1>2, <1>3, <2>1, <2>2, ChainDeliver
<1> HIDE DEF e, t
<1>8. \A s \in Clients :
        /\ client'[s] \in Streams
        /\ client'[s].pc = client[s].pc /\ client'[s].at = client[s].at
        /\ client'[s].old = client[s].old /\ client'[s].new = client[s].new
        /\ client'[s].cut = client[s].cut /\ client'[s].unread = client[s].unread
        /\ client[s].gap \subseteq client'[s].gap /\ client[s].overrun \subseteq client'[s].overrun
        /\ \/ client'[s].buf = client[s].buf
           \/ /\ client'[s].buf = Append(client[s].buf, e)
              /\ At(s, n) /\ client[s].pc = "live" /\ Len(client[s].buf) < BufferSize
        /\ At(s, n) => e \in client'[s].gap \cup client'[s].overrun \cup ToSet(client'[s].buf)
  BY <1>1, <1>2, <1>4, FanOutFacts
<1>9. Shapes'
  <2>1. client' \in [Clients -> Streams]
    BY <1>2, <1>8 DEF FanOut
  <2> QED BY <1>1, <1>2, <1>5, <2>1 DEF Shapes
<1>10. Bus'
  <2>1. \A m \in Replicas : Ranked(queue'[m], pos', local')
    BY <1>1, <1>2, <1>5, <1>6 DEF Bus
  <2>2. Notified' = Notified
    BY <1>2 DEF Notified
  <2> QED BY <1>1, <1>2, <2>1, <2>2 DEF Bus
<1>11. ASSUME NEW s \in Clients PROVE Follows(s)'
  <2> DEFINE c == client[s]
             m == client[s].at
  <2>1. Follows(s) /\ c \in Streams
    BY <1>1 DEF Shapes
  <2>2. c.new \in Seq(Events) /\ c.buf \in Seq(Events)
    BY <2>1 DEF Streams
  <2>3. Len(client'[s].buf) <= BufferSize
    <3>1. CASE client'[s].buf = c.buf
      BY <2>1, <3>1 DEF Follows
    <3>2. CASE client'[s].buf = Append(c.buf, e) /\ Len(c.buf) < BufferSize
      <4>1. Len(c.buf) \in Nat /\ Len(client'[s].buf) = Len(c.buf) + 1
        BY <1>4, <2>2, <3>2, AppendFacts
      <4> QED BY <3>2, <4>1, StreamAssumption
    <3> QED BY <1>8, <3>1, <3>2
  <2>4. client'[s].pc # "live" => client'[s].buf = <<>> /\ client'[s].new = <<>>
    BY <1>8, <2>1 DEF Follows
  <2>5. ASSUME c.pc # "off" PROVE Chain(client'[s].new, client'[s].buf, queue'[m], pos', local')
    <3>1. m \in Replicas /\ Chain(c.new, c.buf, queue[m], pos, local)
      BY <2>1, <2>5 DEF Follows
    <3>2. CASE m = n
      BY <1>2, <1>5, <1>7, <1>8, <2>5, <3>2
    <3>3. CASE m # n
      <4>1. client'[s].buf = c.buf /\ queue'[m] = queue[m]
        BY <1>5, <1>8, <3>1, <3>3 DEF At
      <4> QED BY <1>2, <1>8, <3>1, <4>1
    <3> QED BY <3>2, <3>3
  <2>6. ASSUME c.pc # "off", NEW f \in Events PROVE Known(s, f)'
    <3>1. Known(s, f) /\ m \in Replicas
      BY <2>1, <2>6 DEF Follows
    <3>2. ToSet(c.buf) \subseteq ToSet(client'[s].buf)
      BY <1>4, <1>8, <2>2, AppendFacts
    <3>3. m = n /\ f = e => Known(s, f)'
      BY <1>8, <2>6 DEF Known, UnderWay, At, Excused
    <3>4. f \in ToSet(queue[m]) => f \in ToSet(queue'[m]) \/ Known(s, f)'
      BY <1>4, <1>5, <3>1, <3>3
    <3> QED BY <1>2, <1>8, <2>6, <3>1, <3>2, <3>4, KnownKept
  <2> QED BY <1>8, <2>1, <2>3, <2>4, <2>5, <2>6 DEF Follows
<1> QED BY <1>9, <1>10, <1>11 DEF IInv

\* The LISTEN connection breaks: the replica's clients note what they lose.
LEMMA LostIInv ==
    ASSUME IInv, NEW n \in Replicas, ListenerLost(n)
    PROVE  IInv'
<1> DEFINE es == ToSet(queue[n])
<1>1. Shapes /\ Bus /\ \A s \in Clients : Follows(s)
  BY DEF IInv
<1>2. /\ queue' = [queue EXCEPT ![n] = <<>>] /\ CutOff({n}, es) /\ listening' = listening \ {n}
      /\ UNCHANGED <<pub, stored, pos, local>>
  BY DEF ListenerLost
<1>3. queue \in [Replicas -> Seq(Events)] /\ es \in SUBSET Events
  BY <1>1 DEF Shapes, ToSet
<1>4. /\ queue' \in [Replicas -> Seq(Events)] /\ queue'[n] = <<>>
      /\ \A m \in Replicas : m # n => queue'[m] = queue[m]
  BY <1>2, <1>3
<1>5. \A s \in Clients :
        /\ client'[s] \in Streams
        /\ client'[s].pc = client[s].pc /\ client'[s].at = client[s].at
        /\ client'[s].old = client[s].old /\ client'[s].new = client[s].new
        /\ client'[s].buf = client[s].buf /\ client'[s].unread = client[s].unread
        /\ client'[s].gap = client[s].gap /\ client'[s].overrun = client[s].overrun
        /\ client[s].cut \subseteq client'[s].cut
        /\ At(s, n) => es \subseteq client'[s].cut
  <2> DEFINE down == {n}
  <2>1. down \in SUBSET Replicas /\ n \in down /\ CutOff(down, es)
    BY <1>2
  <2> HIDE DEF es, down
  <2> QED BY <1>1, <1>3, <2>1, CutOffFacts
<1>6. Shapes'
  <2>1. client' \in [Clients -> Streams]
    BY <1>2, <1>5 DEF CutOff
  <2> QED BY <1>1, <1>2, <1>4, <2>1 DEF Shapes
<1>7. Bus'
  <2>1. Ranked(<<>>, pos, local)
    BY DEF Ranked, Increasing, Numbered, ToSet
  <2>2. \A m \in Replicas : Ranked(queue'[m], pos', local')
    BY <1>1, <1>2, <1>4, <2>1 DEF Bus
  <2>3. Notified' = Notified
    BY <1>2 DEF Notified
  <2> QED BY <1>1, <1>2, <2>2, <2>3 DEF Bus
<1>8. ASSUME NEW s \in Clients PROVE Follows(s)'
  <2> DEFINE c == client[s]
             m == client[s].at
  <2>1. Follows(s)
    BY <1>1
  <2>2. ASSUME c.pc # "off" PROVE Chain(client'[s].new, client'[s].buf, queue'[m], pos', local')
    <3>1. m \in Replicas /\ Chain(c.new, c.buf, queue[m], pos, local)
      BY <2>1, <2>2 DEF Follows
    <3>2. Chain(c.new, c.buf, <<>>, pos, local)
      BY <3>1, ChainCut
    <3> QED BY <1>2, <1>4, <1>5, <3>1, <3>2
  <2>3. ASSUME c.pc # "off", NEW f \in Events PROVE Known(s, f)'
    <3>1. Known(s, f) /\ m \in Replicas
      BY <2>1, <2>3 DEF Follows
    <3>2. m = n /\ f \in es => Known(s, f)'
      BY <1>5, <2>3 DEF Known, Excused, At
    <3>3. f \in ToSet(queue[m]) => f \in ToSet(queue'[m]) \/ Known(s, f)'
      BY <1>4, <3>1, <3>2
    <3> HIDE DEF es
    <3> QED BY <1>2, <1>5, <2>3, <3>1, <3>3, KnownKept
  <2> QED BY <1>5, <2>1, <2>2, <2>3 DEF Follows
<1> QED BY <1>6, <1>7, <1>8 DEF IInv

\* A replica stops: its streams end and its unfinished handlers are lost.
LEMMA StopIInv ==
    ASSUME IInv, NEW n \in Replicas, StopReplica(n)
    PROVE  IInv'
<1>1. Shapes /\ Bus /\ \A s \in Clients : Follows(s)
  BY DEF IInv
<1>2. /\ queue' = [queue EXCEPT ![n] = <<>>] /\ listening' = listening \ {n}
      /\ client' = [s \in Clients |-> IF At(s, n) THEN Off ELSE client[s]]
      /\ UNCHANGED <<stored, pos, local>>
  BY DEF StopReplica
<1>3. /\ queue' \in [Replicas -> Seq(Events)] /\ queue'[n] = <<>>
      /\ \A m \in Replicas : m # n => queue'[m] = queue[m]
  BY <1>1, <1>2 DEF Shapes
<1>4. pub' \in [Events -> Publishers] /\ \A f \in Events :
        \/ pub'[f] = pub[f]
        \/ pub[f].pc \in {"stored", "retry"} /\ pub'[f].pc = "lost" /\ pub'[f].at = pub[f].at
  <2>1. \A f \in Events : pub[f] \in Publishers
    BY <1>1 DEF Shapes
  <2>2. \A f \in Events : LET g == [pub[f] EXCEPT !.pc = "lost"]
                          IN  g \in Publishers /\ g.pc = "lost" /\ g.at = pub[f].at
    BY <2>1 DEF Publishers, PubSteps
  <2>3. \A f \in Events :
          \/ pub'[f] = pub[f]
          \/ pub[f].pc \in {"stored", "retry"} /\ pub'[f] = [pub[f] EXCEPT !.pc = "lost"]
    BY DEF StopReplica
  <2>4. pub' = [f \in Events |-> pub'[f]]
    BY DEF StopReplica
  <2>5. ASSUME NEW f \in Events
        PROVE  /\ pub'[f] \in Publishers
               /\ \/ pub'[f] = pub[f]
                  \/ /\ pub[f].pc \in {"stored", "retry"}
                     /\ pub'[f].pc = "lost" /\ pub'[f].at = pub[f].at
    <3>1. CASE pub'[f] = pub[f]
      BY <2>1, <3>1
    <3>2. CASE pub[f].pc \in {"stored", "retry"} /\ pub'[f] = [pub[f] EXCEPT !.pc = "lost"]
      BY <2>2, <3>2
    <3> QED BY <2>3, <3>1, <3>2
  <2>6. pub' \in [Events -> Publishers]
    BY <2>4, <2>5
  <2> QED BY <2>5, <2>6
<1>5. ASSUME NEW s \in Clients
      PROVE  \/ client'[s] = Off
             \/ client'[s] = client[s] /\ ~At(s, n)
  BY <1>2
<1>6. Off \in Streams /\ Off.pc = "off" /\ Off.buf = <<>> /\ Off.new = <<>>
  BY DEF Off, Streams
<1>7. Shapes'
  <2>1. client' \in [Clients -> Streams]
    BY <1>1, <1>2, <1>6 DEF Shapes
  <2> QED BY <1>1, <1>2, <1>3, <1>4, <2>1 DEF Shapes
<1>8. Bus'
  <2>1. Ranked(<<>>, pos, local)
    BY DEF Ranked, Increasing, Numbered, ToSet
  <2>2. \A m \in Replicas : Ranked(queue'[m], pos', local')
    BY <1>1, <1>2, <1>3, <2>1 DEF Bus
  <2>3. Notified' = Notified
    BY <1>2 DEF Notified
  <2>4. \A f \in Events : pub'[f].pc \in {"none", "stored"} => pos'[f] = 0
    BY <1>1, <1>2, <1>4 DEF Bus
  <2>5. \A f \in Events : f \notin stored' => pub'[f].pc = "none"
    BY <1>1, <1>2, <1>4 DEF Bus
  <2>6. \A f \in Events : pub'[f].pc # "none" => pub'[f].at \in Replicas
    BY <1>1, <1>4 DEF Bus
  <2> QED BY <1>1, <1>2, <2>2, <2>3, <2>4, <2>5, <2>6 DEF Bus
<1>9. ASSUME NEW s \in Clients PROVE Follows(s)'
  <2> DEFINE m == client[s].at
  <2>1. Follows(s)
    BY <1>1
  <2>2. CASE client'[s] = Off
    BY <1>6, <2>2, StreamAssumption DEF Follows
  <2>3. CASE client'[s] = client[s] /\ ~At(s, n) /\ client[s].pc = "off"
    BY <2>1, <2>3 DEF Follows
  <2>4. CASE client'[s] = client[s] /\ ~At(s, n) /\ client[s].pc # "off"
    <3>1. m \in Replicas /\ m # n /\ queue'[m] = queue[m]
      BY <1>3, <2>1, <2>4 DEF Follows, At
    <3>2. ASSUME NEW f \in Events PROVE Known(s, f)'
      <4>1. Known(s, f)
        BY <2>1, <2>4 DEF Follows
      <4> QED BY <1>2, <1>4, <2>4, <3>1, <4>1, KnownKept
    <3> QED BY <1>2, <2>1, <2>4, <3>1, <3>2 DEF Follows
  <2> QED BY <1>5, <2>2, <2>3, <2>4
<1> QED BY <1>7, <1>8, <1>9 DEF IInv

-----------------------------------------------------------------------------
(***************************************************************************)
(* The SSE handler.                                                        *)
(***************************************************************************)

\* A step of one stream leaves the bus alone and the other streams too.
LEMMA OneStream ==
    ASSUME IInv, NEW s \in Clients, NEW c \in Streams, client' = [client EXCEPT ![s] = c],
           UNCHANGED <<pub, stored, pos, local, listening, queue>>,
           Follows(s)'
    PROVE  IInv'
<1>1. Shapes /\ Bus /\ \A r \in Clients : Follows(r)
  BY DEF IInv
<1>2. client' \in [Clients -> Streams] /\ \A r \in Clients : r # s => client'[r] = client[r]
  BY <1>1 DEF Shapes
<1>3. Shapes'
  BY <1>1, <1>2 DEF Shapes
<1>4. Bus'
  <2>1. Notified' = Notified
    BY DEF Notified
  <2> QED BY <1>1, <2>1 DEF Bus
<1>5. ASSUME NEW r \in Clients, r # s PROVE Follows(r)'
  <2>1. Follows(r) /\ client'[r] = client[r]
    BY <1>1, <1>2, <1>5
  <2>2. \A f \in Events : Known(r, f) => Known(r, f)'
    BY <2>1 DEF Known, UnderWay, At, Sent, Excused
  <2> QED BY <2>1, <2>2 DEF Follows
<1> QED BY <1>3, <1>4, <1>5 DEF IInv

\* A stream starts with the backfill; what is not stored yet is not published.
LEMMA BackfillIInv ==
    ASSUME IInv, NEW s \in Clients, NEW n \in Replicas, Backfill(s, n)
    PROVE  IInv'
<1>1. Shapes /\ Bus
  BY DEF IInv
<1>2. ASSUME NEW c \in Streams, client' = [client EXCEPT ![s] = c], c.pc = "read", c.at = n,
             c.buf = <<>>, c.new = <<>>, stored \subseteq c.old \cup c.unread
      PROVE  IInv'
  <2>1. client'[s] = c
    BY <1>1, <1>2 DEF Shapes
  <2>2. UNCHANGED <<pub, stored, pos, local, listening, queue>>
    BY DEF Backfill
  <2>3. Chain(<<>>, <<>>, queue[n], pos, local)
    BY <1>1, ChainCut DEF Bus
  <2>4. ASSUME NEW f \in Events PROVE Known(s, f)'
    <3>1. CASE f \in stored
      BY <1>2, <2>1, <3>1 DEF Known, Sent
    <3>2. CASE f \notin stored
      <4>1. pub'[f].pc = "none"
        BY <1>1, <2>2, <3>2 DEF Bus
      <4> QED BY <4>1 DEF Known, UnderWay
    <3> QED BY <3>1, <3>2
  <2>5. Follows(s)'
    <3>1. Len(<<>>) = 0 /\ 0 <= BufferSize
      BY StreamAssumption
    <3> QED BY <1>2, <2>1, <2>2, <2>3, <2>4, <3>1 DEF Follows
  <2> QED BY <1>2, <2>2, <2>5, OneStream
<1>3. stored \in SUBSET Events /\ Off \in Streams /\ Off.buf = <<>> /\ Off.new = <<>>
  BY <1>1 DEF Shapes, Off, Streams
<1>4. CASE client' = [client EXCEPT ![s] = [Off EXCEPT !.pc = "read", !.at = n, !.old = stored]]
  <2> DEFINE c == [Off EXCEPT !.pc = "read", !.at = n, !.old = stored]
  <2>1. c \in Streams /\ c.pc = "read" /\ c.at = n /\ c.buf = <<>> /\ c.new = <<>> /\ c.old = stored
    BY <1>3 DEF Streams
  <2> HIDE DEF c
  <2>2. client' = [client EXCEPT ![s] = c]
    BY <1>4 DEF c
  <2> QED BY <1>2, <2>1, <2>2
<1>5. CASE client' = [client EXCEPT ![s] = [Off EXCEPT !.pc = "read", !.at = n, !.unread = stored]]
  <2> DEFINE c == [Off EXCEPT !.pc = "read", !.at = n, !.unread = stored]
  <2>1. c \in Streams /\ c.pc = "read" /\ c.at = n /\ c.buf = <<>> /\ c.new = <<>> /\ c.unread = stored
    BY <1>3 DEF Streams
  <2> HIDE DEF c
  <2>2. client' = [client EXCEPT ![s] = c]
    BY <1>5 DEF c
  <2> QED BY <1>2, <2>1, <2>2
<1> QED BY <1>4, <1>5 DEF Backfill

\* The stream subscribes.
LEMMA SubscribeIInv ==
    ASSUME IInv, NEW s \in Clients, Subscribe(s)
    PROVE  IInv'
<1> DEFINE c == [client[s] EXCEPT !.pc = "live"]
<1>1. client \in [Clients -> Streams] /\ client[s] \in Streams /\ Follows(s) /\ client[s].pc = "read"
  BY DEF IInv, Shapes, Subscribe
<1>2. UNCHANGED <<pub, stored, pos, local, listening, queue>>
  BY DEF Subscribe
<1>3. client' = [client EXCEPT ![s] = c]
  BY <1>1 DEF Subscribe
<1>4. /\ c \in Streams /\ c.pc = "live" /\ c.at = client[s].at /\ c.buf = client[s].buf
      /\ c.new = client[s].new /\ c.old = client[s].old /\ c.overrun = client[s].overrun
      /\ c.gap = client[s].gap /\ c.cut = client[s].cut /\ c.unread = client[s].unread
  BY <1>1 DEF Streams
<1> HIDE DEF c
<1>5. client'[s] = c
  BY <1>1, <1>3
<1>6. ASSUME NEW f \in Events PROVE Known(s, f)'
  <2>1. Known(s, f) /\ client[s].at \in Replicas
    BY <1>1 DEF Follows
  <2> QED BY <1>1, <1>2, <1>4, <1>5, <2>1, KnownKept
<1>7. Follows(s)'
  BY <1>1, <1>2, <1>4, <1>5, <1>6 DEF Follows
<1> QED BY <1>2, <1>3, <1>4, <1>7, OneStream

\* The stream relays the head of its channel.
LEMMA RelayIInv ==
    ASSUME IInv, NEW s \in Clients, Relay(s)
    PROVE  IInv'
<1> DEFINE o == client[s]
           h == Append(o.new, Head(o.buf))
           t == Tail(o.buf)
           c == [o EXCEPT !.new = h, !.buf = t]
<1>1. client \in [Clients -> Streams] /\ o \in Streams /\ Follows(s) /\ o.pc = "live" /\ o.buf # <<>>
  BY DEF IInv, Shapes, Relay
<1>2. UNCHANGED <<pub, stored, pos, local, listening, queue>>
  BY DEF Relay
<1>3. o.new \in Seq(Events) /\ o.buf \in Seq(Events) /\ o.at \in Replicas
  BY <1>1 DEF Streams, Follows
<1>4. client' = [client EXCEPT ![s] = c]
  BY <1>1 DEF Relay
<1>5. /\ Head(o.buf) \in Events /\ t \in Seq(Events) /\ Len(t) = Len(o.buf) - 1
      /\ ToSet(o.buf) = ToSet(t) \cup {Head(o.buf)}
  BY <1>1, <1>3, TailFacts
<1>6. h \in Seq(Events) /\ ToSet(h) = ToSet(o.new) \cup {Head(o.buf)}
  BY <1>3, <1>5, AppendFacts
<1>7. pos \in [Events -> Nat] /\ queue[o.at] \in Seq(Events)
  BY <1>3 DEF IInv, Shapes
<1>8. Chain(h, t, queue[o.at], pos, local)
  BY <1>1, <1>3, <1>7, ChainRelay DEF Follows
<1>9. Len(t) <= BufferSize
  <2>1. Len(o.buf) \in Nat /\ Len(o.buf) <= BufferSize
    BY <1>1, <1>3 DEF Follows
  <2> QED BY <1>5, <2>1, StreamAssumption
<1>10. ToSet(o.buf) \cup ToSet(o.new) \subseteq ToSet(t) \cup ToSet(h)
  BY <1>5, <1>6
<1> HIDE DEF h, t
<1>11. /\ c \in Streams /\ c.pc = "live" /\ c.at = o.at /\ c.buf = t
       /\ c.new = h /\ c.old = o.old /\ c.overrun = o.overrun
       /\ c.gap = o.gap /\ c.cut = o.cut /\ c.unread = o.unread
  BY <1>1, <1>5, <1>6 DEF Streams
<1> HIDE DEF c
<1>12. client'[s] = c
  BY <1>1, <1>4
<1>13. ASSUME NEW f \in Events PROVE Known(s, f)'
  <2>1. Known(s, f)
    BY <1>1 DEF Follows
  <2> QED BY <1>1, <1>2, <1>3, <1>10, <1>11, <1>12, <2>1, KnownKept
<1>14. Follows(s)'
  BY <1>2, <1>3, <1>8, <1>9, <1>11, <1>12, <1>13 DEF Follows
<1> QED BY <1>2, <1>4, <1>11, <1>14, OneStream

\* The stream ends.
LEMMA CloseIInv ==
    ASSUME IInv, NEW s \in Clients, Close(s)
    PROVE  IInv'
<1>1. Off \in Streams /\ Off.pc = "off" /\ Off.buf = <<>> /\ Off.new = <<>>
  BY DEF Off, Streams
<1>2. client' = [client EXCEPT ![s] = Off] /\ client'[s] = Off
      /\ UNCHANGED <<pub, stored, pos, local, listening, queue>>
  BY DEF Close, IInv, Shapes
<1>3. Follows(s)'
  BY <1>1, <1>2, StreamAssumption DEF Follows
<1> QED BY <1>1, <1>2, <1>3, OneStream

\* A replica listens again: nothing it missed comes back.
LEMMA ListenIInv ==
    ASSUME IInv, NEW n \in Replicas, Listen(n)
    PROVE  IInv'
<1>1. UNCHANGED <<pub, stored, pos, local, queue, client>> /\ listening' = listening \cup {n}
  BY DEF Listen
<1>2. Shapes'
  BY <1>1 DEF IInv, Shapes
<1>3. Bus'
  BY <1>1 DEF IInv, Bus, Notified
<1>4. \A s \in Clients : Follows(s)'
  BY <1>1 DEF IInv, Follows, Known, UnderWay, At, Sent, Excused
<1> QED BY <1>2, <1>3, <1>4 DEF IInv

-----------------------------------------------------------------------------
(***************************************************************************)
(* The theorems.                                                           *)
(***************************************************************************)

\* Every step keeps the invariant.
LEMMA NextIInv == IInv /\ [Next]_vars => IInv'
<1> SUFFICES ASSUME IInv, [Next]_vars PROVE IInv'
  OBVIOUS
<1>1. CASE \E e \in Events : \/ \E n \in Replicas : AppendDeploymentEvent(e, n)
                             \/ Publish(e) \/ PublishFails(e) \/ PublishLocally(e)
  BY <1>1, AppendIInv, PublishIInv, LocalIInv
<1>2. CASE \E n \in Replicas : Deliver(n) \/ ListenerLost(n) \/ Listen(n) \/ StopReplica(n)
  BY <1>2, DeliverIInv, LostIInv, ListenIInv, StopIInv
<1>3. CASE \E s \in Clients : \/ \E n \in Replicas : Backfill(s, n)
                              \/ Subscribe(s) \/ Relay(s) \/ Close(s)
  BY <1>3, BackfillIInv, SubscribeIInv, RelayIInv, CloseIInv
<1>4. CASE UNCHANGED vars
  <2>1. UNCHANGED <<pub, stored, pos, local, listening, queue, client>>
    BY <1>4 DEF vars
  <2>2. Shapes' /\ Bus'
    BY <2>1 DEF IInv, Shapes, Bus, Notified
  <2>3. \A s \in Clients : Follows(s)'
    BY <2>1 DEF IInv, Follows, Known, UnderWay, At, Sent, Excused
  <2> QED BY <2>2, <2>3 DEF IInv
<1> QED BY <1>1, <1>2, <1>3, <1>4 DEF Next

\* The invariant holds in every reachable state of the bus and the streams.
THEOREM Invariance == Spec => []IInv
BY InitIInv, NextIInv, PTL DEF Spec

\* Numbers of notifications stay below the number of events and a channel
\* never holds more than its capacity (eventbus.Publish drops what finds the
\* channel full); everything else has its type.
THEOREM TypeCorrect == Spec => []TypeOK
<1>1. IInv => TypeOK
  <2> SUFFICES ASSUME IInv PROVE TypeOK
    OBVIOUS
  <2>1. Shapes /\ Bus /\ \A s \in Clients : Follows(s)
    BY DEF IInv
  <2>2. pos \in [Events -> 0..Cardinality(Events)]
    <3>1. /\ Cardinality(Notified) \in Nat /\ Cardinality(Events) \in Nat
          /\ Cardinality(Notified) <= Cardinality(Events)
      BY StreamAssumption, FS_Subset, FS_CardinalityType DEF Notified
    <3>2. \A e \in Events : pos[e] \in Nat /\ pos[e] <= Cardinality(Notified)
      BY <2>1 DEF Shapes, Bus
    <3>3. \A e \in Events : pos[e] \in 0..Cardinality(Events)
      BY <3>1, <3>2
    <3> QED BY <2>1, <3>3 DEF Shapes
  <2>3. \A e \in Events : pub[e].pc \in PubSteps /\ pub[e].at \in Replicas \cup {"none"}
    BY <2>1 DEF Shapes, Publishers
  <2>4. ASSUME NEW s \in Clients
        PROVE  /\ client[s].pc \in {"off", "read", "live"}
               /\ client[s].at \in Replicas \cup {"none"}
               /\ client[s].buf \in Seq(Events) /\ Len(client[s].buf) <= BufferSize
               /\ client[s].new \in Seq(Events)
               /\ UNION {client[s].old, client[s].overrun, client[s].gap, client[s].cut,
                         client[s].unread} \subseteq Events
    <3>1. client[s] \in Streams /\ Len(client[s].buf) <= BufferSize
      BY <2>1 DEF Shapes, Follows
    <3>2. /\ client[s].pc \in {"off", "read", "live"}
          /\ client[s].at \in Replicas \cup {"none"}
          /\ client[s].buf \in Seq(Events) /\ client[s].new \in Seq(Events)
          /\ client[s].old \subseteq Events /\ client[s].overrun \subseteq Events
          /\ client[s].gap \subseteq Events /\ client[s].cut \subseteq Events
          /\ client[s].unread \subseteq Events
      BY <3>1 DEF Streams
    <3> QED BY <3>1, <3>2
  <2> QED BY <2>1, <2>2, <2>3, <2>4 DEF TypeOK, Shapes
<1> QED BY <1>1, Invariance, PTL

\* pgbus: all replicas observe one ordering and nothing is delivered twice.
\* Whatever breaks or restarts, what a browser gets live is in the order of
\* the notifications, without repetition, except for events a publisher fell
\* back to delivering locally.
THEOREM Ordered == Spec => []OneOrdering
<1>1. IInv => OneOrdering
  <2> SUFFICES ASSUME IInv, NEW s \in Clients,
                      NEW i \in DOMAIN client[s].new, NEW j \in DOMAIN client[s].new,
                      i < j, {client[s].new[i], client[s].new[j]} \cap local = {}
               PROVE  pos[client[s].new[i]] < pos[client[s].new[j]]
    BY DEF OneOrdering
  <2>1. Follows(s)
    BY DEF IInv
  <2>2. client[s].new # <<>>
    OBVIOUS
  <2>3. client[s].pc # "off"
    BY <2>1, <2>2 DEF Follows
  <2>4. Increasing(client[s].new, pos, local)
    BY <2>1, <2>3 DEF Follows, Chain, Ranked
  <2> QED BY <2>4 DEF Increasing
<1> QED BY <1>1, Invariance, PTL

\* streamJobEvents: a subscribed browser misses a published event only because
\* its channel was full, its replica's LISTEN connection was down, the
\* publisher died or fell back to another replica, its backfill could not be
\* read, or the event passed between backfill and subscription.
THEOREM Losses == Spec => []LossesAreKnown
<1>1. IInv => LossesAreKnown
  BY DEF IInv, Follows, Known, LossesAreKnown
<1> QED BY <1>1, Invariance, PTL

=============================================================================
