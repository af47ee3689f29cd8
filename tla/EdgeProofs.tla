------------------------------ MODULE EdgeProofs ------------------------------
(***************************************************************************)
(* What a site relies on.  First its image mirror, for any objects, sizes, *)
(* limit and number of requests: one download per object, no blob that     *)
(* differs from its checksum, and room made by every eviction while others *)
(* evict, fill and touch files.  Then what the server hands out once, for  *)
(* any number of wakes, agents, jobs, workers and machines: nothing twice, *)
(* and no code of a bulk call untold.                                      *)
(***************************************************************************)
EXTENDS EdgeCache, Deliveries, FiniteSetTheorems, WellFoundedInduction, TLAPS

Handlers == [pc : Steps, obj : Objects \cup {Nobody}, entries : Seq(Objects), total : Nat,
             filled : BOOLEAN, sent : {"nothing", "right", "wrong"}, since : SUBSET Objects]

\* Handlers are records of their fields, which TypeOK says field by field.
Shapes ==
    /\ req \in [Requests -> Handlers]
    /\ inflight \in [Objects -> Requests \cup {Nobody}]

\* A file is listed once; what is corrupt is listed, and is no blob.
Directory ==
    /\ files \in Seq(Objects) /\ IsInjective(files)
    /\ corrupt \subseteq ToSet(files)
    /\ corrupt \cap Blobs = {}

\* A request has its object for good once it has come.
Busy(r) ==
    /\ req[r].pc = "idle" => req[r].sent = "nothing"
    /\ req[r].pc # "idle" => req[r].obj \in Objects
    /\ req[r].sent = "wrong" => req[r].obj \notin Blobs

\* The total of an eviction covers the entries it has yet to visit, even those
\* others have removed or written anew, and the files it could see: evicting
\* an entry takes its size from both sides.
Looked(r) ==
    /\ req[r].pc \notin {"evict", "copy"} => req[r].since = {}
    /\ req[r].pc = "evict" =>
          /\ IsInjective(req[r].entries)
          /\ Total(ToSet(req[r].entries) \cup (ToSet(files) \ req[r].since)) <= req[r].total
    /\ req[r].pc = "copy" /\ req[r].obj \in Sized =>
          Total((ToSet(files) \ req[r].since) \cup {req[r].obj}) <= MaxBytes

IInv ==
    /\ Shapes
    /\ Directory
    /\ OneFiller
    /\ \A r \in Requests : Busy(r) /\ Looked(r)

-----------------------------------------------------------------------------
(***************************************************************************)
(* Lemmas about sums of sizes.                                             *)
(***************************************************************************)

\* One object has its size in bytes.
LEMMA BytesOfOne ==
    ASSUME NEW o \in Objects
    PROVE  /\ IsFiniteSet({o} \X (1..Size[o]))
           /\ Cardinality({o} \X (1..Size[o])) = Size[o]
<1>1. Size[o] \in Nat \ {0}
  BY CacheAssumption
<1>2. IsFiniteSet(1..Size[o]) /\ Cardinality(1..Size[o]) = Size[o]
  BY <1>1, FS_Interval
<1>3. IsFiniteSet({o}) /\ Cardinality({o}) = 1
  BY FS_Singleton
<1>4. /\ IsFiniteSet({o} \X (1..Size[o]))
      /\ Cardinality({o} \X (1..Size[o])) = Cardinality({o}) * Cardinality(1..Size[o])
  BY <1>2, <1>3, FS_Product
<1> QED BY <1>1, <1>2, <1>3, <1>4

\* The bytes of a set of objects can be counted.
LEMMA TotalType ==
    ASSUME NEW S \in SUBSET Objects
    PROVE  IsFiniteSet(Bytes(S)) /\ Total(S) \in Nat
<1> DEFINE T == {{o} \X (1..Size[o]) : o \in S}
           f == [o \in S |-> {o} \X (1..Size[o])]
<1>1. IsFiniteSet(S)
  BY CacheAssumption, FS_Subset
<1>2. f \in Surjection(S, T)
  BY DEF Surjection
<1>3. IsFiniteSet(T)
  BY <1>1, <1>2, FS_Surjection
<1>4. \A t \in T : IsFiniteSet(t)
  BY BytesOfOne
<1>5. IsFiniteSet(UNION T)
  BY <1>3, <1>4, FS_UNION
<1> QED BY <1>5, FS_CardinalityType DEF Bytes, Total

\* Fewer objects have no more bytes.
LEMMA TotalMonotone ==
    ASSUME NEW T \in SUBSET Objects, NEW S \in SUBSET T
    PROVE  Total(S) <= Total(T)
<1>1. Bytes(S) \in SUBSET Bytes(T)
  BY DEF Bytes
<1> QED BY <1>1, TotalType, FS_Subset DEF Total

\* One more object adds at most its size, and just that if it is new.
LEMMA TotalAdd ==
    ASSUME NEW S \in SUBSET Objects, NEW o \in Objects
    PROVE  /\ Total(S \cup {o}) <= Total(S) + Size[o]
           /\ o \notin S => Total(S \cup {o}) = Total(S) + Size[o]
<1> DEFINE B == {o} \X (1..Size[o])
<1>1. Bytes(S \cup {o}) = Bytes(S) \cup B
  BY DEF Bytes
<1>2. IsFiniteSet(Bytes(S)) /\ Cardinality(Bytes(S)) \in Nat
  BY TotalType DEF Total
<1>3. IsFiniteSet(B) /\ Cardinality(B) = Size[o] /\ Size[o] \in Nat
  BY BytesOfOne, CacheAssumption
<1> HIDE DEF B
<1>4. Cardinality(Bytes(S) \cup B) = Cardinality(Bytes(S)) + Cardinality(B) - Cardinality(Bytes(S) \cap B)
  BY <1>2, <1>3, FS_Union
<1>5. Cardinality(Bytes(S) \cap B) \in Nat
  <2>1. IsFiniteSet(Bytes(S) \cap B)
    BY <1>2, FS_Intersection
  <2> QED BY <2>1, FS_CardinalityType
<1>6. o \notin S => Cardinality(Bytes(S) \cap B) = 0
  <2>1. o \notin S => Bytes(S) \cap B = {}
    BY DEF B, Bytes
  <2> QED BY <2>1, FS_EmptySet
<1> DEFINE both == Cardinality(Bytes(S) \cap B)
<1>7. Total(S \cup {o}) = Total(S) + Size[o] - both
  BY <1>1, <1>3, <1>4 DEF Total
<1>8. both \in Nat /\ (o \notin S => both = 0) /\ Total(S) \in Nat
  BY <1>2, <1>5, <1>6 DEF Total
<1> HIDE DEF both
<1> QED BY <1>3, <1>7, <1>8

\* Without one of its objects a set has that many bytes less.
LEMMA TotalRemove ==
    ASSUME NEW S \in SUBSET Objects, NEW o \in S
    PROVE  Total(S \ {o}) = Total(S) - Size[o]
<1>1. S = (S \ {o}) \cup {o} /\ o \notin S \ {o} /\ S \ {o} \in SUBSET Objects
  OBVIOUS
<1>2. Total(S) = Total(S \ {o}) + Size[o]
  BY <1>1, TotalAdd
<1> QED BY <1>1, <1>2, TotalType, CacheAssumption

-----------------------------------------------------------------------------
(***************************************************************************)
(* Lemmas about the directory.                                             *)
(***************************************************************************)

\* The members of a sequence are its elements.
LEMMA InToSet ==
    ASSUME NEW s \in Seq(Objects), NEW x
    PROVE  x \in ToSet(s) <=> \E i \in 1..Len(s) : s[i] = x
BY DEF ToSet

\* What is left of a directory without a file.
LEMMA RemoveFirstFacts ==
    ASSUME NEW s \in Seq(Objects), IsInjective(s), NEW o
    PROVE  /\ RemoveFirst(s, o) \in Seq(Objects)
           /\ IsInjective(RemoveFirst(s, o))
           /\ ToSet(RemoveFirst(s, o)) = ToSet(s) \ {o}
<1>1. CASE \E i \in 1..Len(s) : s[i] = o
  <2> DEFINE I == {i \in 1..Len(s) : s[i] = o}
             k == Min(I)
  <2>1. PICK i \in 1..Len(s) : s[i] = o
    BY <1>1
  <2>2. I = {i}
    BY <2>1 DEF IsInjective
  <2>3. k = i
    BY <2>2 DEF Min
  <2>4. RemoveFirst(s, o) = RemoveAt(s, i)
    BY <1>1, <2>2, <2>3 DEF RemoveFirst, SelectInSeq
  <2> DEFINE t == RemoveAt(s, i)
  <2>5. /\ t \in Seq(Objects) /\ Len(t) = Len(s) - 1
        /\ \A j \in 1..Len(t) : t[j] = IF j < i THEN s[j] ELSE s[j + 1]
    <3> DEFINE a == SubSeq(s, 1, i - 1)
               b == SubSeq(s, i + 1, Len(s))
    <3>1. a \in Seq(Objects) /\ Len(a) = i - 1 /\ \A j \in 1..(i - 1) : a[j] = s[j]
      OBVIOUS
    <3>2. b \in Seq(Objects) /\ Len(b) = Len(s) - i /\ \A j \in 1..(Len(s) - i) : b[j] = s[i + j]
      OBVIOUS
    <3>3. t = a \o b
      BY DEF RemoveAt
    <3> HIDE DEF a, b, t
    <3>4. t \in Seq(Objects) /\ Len(t) = Len(s) - 1
      BY <3>1, <3>2, <3>3
    <3>5. ASSUME NEW j \in 1..Len(t) PROVE t[j] = IF j < i THEN s[j] ELSE s[j + 1]
      <4>1. CASE j < i
        BY <3>1, <3>2, <3>3, <3>4, <4>1
      <4>2. CASE j >= i
        <5>1. t[j] = b[j - (i - 1)]
          BY <3>1, <3>2, <3>3, <3>4, <4>2
        <5>2. j - (i - 1) \in 1..(Len(s) - i)
          BY <3>4, <4>2
        <5> QED BY <3>2, <4>2, <5>1, <5>2
      <4> QED BY <4>1, <4>2
    <3> QED BY <3>4, <3>5
  <2> HIDE DEF t
  <2>6. IsInjective(t)
    <3> SUFFICES ASSUME NEW j \in 1..Len(t), NEW h \in 1..Len(t), t[j] = t[h] PROVE j = h
      BY <2>5 DEF IsInjective
    <3> DEFINE at(x) == IF x < i THEN x ELSE x + 1
    <3>1. at(j) \in 1..Len(s) /\ at(h) \in 1..Len(s) /\ j \in Nat /\ h \in Nat /\ i \in Nat
      BY <2>5
    <3>2. s[at(j)] = s[at(h)]
      BY <2>5
    <3>3. at(j) = at(h)
      <4> HIDE DEF at
      <4> QED BY <3>1, <3>2 DEF IsInjective
    <3> QED BY <3>1, <3>3
  <2>7. ToSet(t) \subseteq ToSet(s) \ {o}
    BY <2>1, <2>5 DEF ToSet, IsInjective
  <2>8. ToSet(s) \ {o} \subseteq ToSet(t)
    <3> SUFFICES ASSUME NEW x \in ToSet(s) \ {o} PROVE x \in ToSet(t)
      OBVIOUS
    <3> SUFFICES \E h \in 1..Len(t) : t[h] = x
      BY <2>5, InToSet
    <3>0. PICK j \in 1..Len(s) : s[j] = x
      BY InToSet
    <3>1. CASE j < i
      BY <2>5, <3>0, <3>1
    <3>2. CASE j > i
      <4>1. j - 1 \in 1..Len(t) /\ t[j - 1] = s[j]
        BY <2>5, <3>2
      <4> QED BY <3>0, <4>1
    <3> QED BY <2>1, <3>0, <3>1, <3>2
  <2> QED BY <2>4, <2>5, <2>6, <2>7, <2>8 DEF t
<1>2. CASE ~\E i \in 1..Len(s) : s[i] = o
  BY <1>2 DEF RemoveFirst, ToSet
<1> QED BY <1>1, <1>2

\* A touched or renamed file is in the directory once.
LEMMA TouchFacts ==
    ASSUME files \in Seq(Objects), IsInjective(files), NEW o \in Objects, Touch(o)
    PROVE  /\ files' \in Seq(Objects) /\ IsInjective(files')
           /\ ToSet(files') = ToSet(files) \cup {o}
<1> DEFINE s == RemoveFirst(files, o)
<1>1. s \in Seq(Objects) /\ IsInjective(s) /\ ToSet(s) = ToSet(files) \ {o}
  BY RemoveFirstFacts
<1>2. files' = Append(s, o)
  BY DEF Touch
<1> HIDE DEF s
<1>3. \A i \in 1..Len(s) : s[i] # o
  BY <1>1 DEF ToSet
<1>4. files' \in Seq(Objects) /\ IsInjective(files')
  BY <1>1, <1>2, <1>3 DEF IsInjective
<1>5. ToSet(files') = ToSet(s) \cup {o}
  BY <1>1, <1>2 DEF ToSet
<1> QED BY <1>1, <1>4, <1>5

\* The loop of evictFor goes through the rest of its entries.
LEMMA TailFacts ==
    ASSUME NEW s \in Seq(Objects), IsInjective(s), s # <<>>
    PROVE  /\ Head(s) \in ToSet(s)
           /\ Tail(s) \in Seq(Objects) /\ IsInjective(Tail(s))
           /\ ToSet(Tail(s)) = ToSet(s) \ {Head(s)}
<1>1. /\ Len(s) \in Nat \ {0} /\ Head(s) = s[1]
      /\ Tail(s) \in Seq(Objects) /\ Len(Tail(s)) = Len(s) - 1
      /\ \A i \in 1..Len(Tail(s)) : Tail(s)[i] = s[i + 1]
  OBVIOUS
<1>2. Head(s) \in ToSet(s)
  BY <1>1 DEF ToSet
<1>3. IsInjective(Tail(s))
  BY <1>1 DEF IsInjective
<1>4. ToSet(Tail(s)) \subseteq ToSet(s) \ {Head(s)}
  BY <1>1 DEF ToSet, IsInjective
<1>5. ToSet(s) \ {Head(s)} \subseteq ToSet(Tail(s))
  <2> SUFFICES ASSUME NEW x \in ToSet(s) \ {Head(s)} PROVE x \in ToSet(Tail(s))
    OBVIOUS
  <2> SUFFICES \E h \in 1..Len(Tail(s)) : Tail(s)[h] = x
    BY <1>1, InToSet
  <2>0. PICK j \in 1..Len(s) : s[j] = x /\ j # 1
    BY <1>1, InToSet
  <2>1. j - 1 \in 1..Len(Tail(s)) /\ Tail(s)[j - 1] = s[j]
    BY <1>1, <2>0
  <2> QED BY <2>0, <2>1
<1> QED BY <1>1, <1>2, <1>3, <1>4, <1>5
-----------------------------------------------------------------------------
(***************************************************************************)
(* Lemmas about handlers.                                                  *)
(***************************************************************************)

\* The files of the directory are objects.
LEMMA FilesAreObjects ==
    ASSUME NEW s \in Seq(Objects)
    PROVE  ToSet(s) \in SUBSET Objects
BY DEF ToSet

\* An agent that starts on any cache that fits satisfies the invariant.
LEMMA InitIInv == Init => IInv
<1> SUFFICES ASSUME Init PROVE IInv
  OBVIOUS
<1>1. Idle \in Handlers
  BY DEF Idle, Handlers, Steps
<1>2. Shapes
  BY <1>1 DEF Init, Shapes
<1>3. Directory
  <2>1. PICK S \in SUBSET Objects : files \in SetToSeqs(S)
    BY DEF Init
  <2>2. Cardinality(S) \in Nat
    BY CacheAssumption, FS_Subset, FS_CardinalityType
  <2>3. /\ files \in [1..Cardinality(S) -> S]
        /\ \A i, j \in 1..Cardinality(S) : i # j => files[i] # files[j]
    BY <2>1 DEF SetToSeqs
  <2>4. files \in Seq(Objects) /\ IsInjective(files)
    BY <2>2, <2>3 DEF IsInjective
  <2> QED BY <2>4 DEF Init, Directory
<1>4. OneFiller
  BY NobodyAssumption DEF Init, OneFiller, Idle, Filling
<1>5. \A r \in Requests : Busy(r) /\ Looked(r)
  BY DEF Init, Busy, Looked, Idle
<1> QED BY <1>2, <1>3, <1>4, <1>5 DEF IInv

\* What one handler knows of the directory stays true while files go, and
\* while those that come are known as written since.
LEMMA StillLooked ==
    ASSUME NEW q \in Requests, Looked(q),
           req[q] \in Handlers, files \in Seq(Objects), files' \in Seq(Objects),
           req[q].pc # "idle" => req[q].obj \in Objects,
           req'[q].pc = req[q].pc, req'[q].obj = req[q].obj,
           req'[q].entries = req[q].entries, req'[q].total = req[q].total,
           req[q].pc \notin {"evict", "copy"} => req'[q].since = req[q].since,
           ToSet(files') \ req'[q].since \subseteq ToSet(files) \ req[q].since
    PROVE  Looked(q)'
<1> DEFINE old == ToSet(files) \ req[q].since
           new == ToSet(files') \ req'[q].since
<1>1. old \in SUBSET Objects /\ new \in SUBSET Objects /\ new \subseteq old
  BY FilesAreObjects
<1>2. req[q].total \in Nat /\ MaxBytes \in Nat /\ req[q].entries \in Seq(Objects)
  BY CacheAssumption DEF Handlers
<1>3. ToSet(req[q].entries) \in SUBSET Objects
  BY <1>2, FilesAreObjects
<1> HIDE DEF old, new
<1>4. ASSUME req[q].pc = "evict"
      PROVE  Total(ToSet(req[q].entries) \cup new) <= req[q].total
  <2>1. Total(ToSet(req[q].entries) \cup old) <= req[q].total
    BY <1>4 DEF Looked, old
  <2>2. /\ Total(ToSet(req[q].entries) \cup new) <= Total(ToSet(req[q].entries) \cup old)
        /\ Total(ToSet(req[q].entries) \cup new) \in Nat
        /\ Total(ToSet(req[q].entries) \cup old) \in Nat
    BY <1>1, <1>3, TotalMonotone, TotalType
  <2> QED BY <1>2, <2>1, <2>2
<1>5. ASSUME req[q].pc = "copy", req[q].obj \in Sized
      PROVE  Total(new \cup {req[q].obj}) <= MaxBytes
  <2>1. Total(old \cup {req[q].obj}) <= MaxBytes /\ req[q].obj \in Objects
    BY <1>5 DEF Looked, old
  <2>2. /\ Total(new \cup {req[q].obj}) <= Total(old \cup {req[q].obj})
        /\ Total(new \cup {req[q].obj}) \in Nat
        /\ Total(old \cup {req[q].obj}) \in Nat
    BY <1>1, <2>1, TotalMonotone, TotalType
  <2> QED BY <1>2, <2>1, <2>2
<1> QED BY <1>4, <1>5 DEF Looked, new

\* A step of one handler during which the directory gains no file.
LEMMA HandlerStep ==
    ASSUME IInv, NEW r \in Requests,
           req' \in [Requests -> Handlers],
           \A q \in Requests \ {r} : req'[q] = req[q],
           inflight' \in [Objects -> Requests \cup {Nobody}],
           Directory', ToSet(files') \subseteq ToSet(files),
           OneFiller', Busy(r)', Looked(r)'
    PROVE  IInv'
<1>1. ASSUME NEW q \in Requests, q # r PROVE Busy(q)' /\ Looked(q)'
  <2>1. Busy(q) /\ Looked(q) /\ req[q] \in Handlers /\ req'[q] = req[q]
    BY <1>1 DEF IInv, Shapes
  <2>2. files \in Seq(Objects) /\ files' \in Seq(Objects)
    BY DEF IInv, Directory
  <2>3. Looked(q)'
    BY <2>1, <2>2, StillLooked DEF Busy
  <2> QED BY <2>1, <2>3 DEF Busy
<1>2. Shapes'
  BY DEF IInv, Shapes
<1> QED BY <1>1, <1>2 DEF IInv

\* A step within a fill, or outside of one, does not change who fills.
LEMMA SameFiller ==
    ASSUME IInv, NEW r \in Requests, UNCHANGED inflight,
           \A q \in Requests \ {r} : req'[q] = req[q],
           req'[r].pc \in Filling <=> req[r].pc \in Filling,
           req[r].pc \in Filling => req'[r].obj = req[r].obj
    PROVE  OneFiller'
<1> SUFFICES ASSUME NEW o \in Objects, NEW q \in Requests
             PROVE  (req'[q].pc \in Filling /\ req'[q].obj = o) <=> inflight'[o] = q
  BY DEF OneFiller
<1>1. (req[q].pc \in Filling /\ req[q].obj = o) <=> inflight[o] = q
  BY DEF IInv, OneFiller
<1>2. CASE q # r
  BY <1>1, <1>2
<1>3. CASE q = r
  BY <1>1, <1>3
<1> QED BY <1>2, <1>3

\* A handler moves on and nothing else changes.
LEMMA MoveStep ==
    ASSUME IInv, NEW r \in Requests, NEW h \in Handlers,
           req' = [req EXCEPT ![r] = h],
           UNCHANGED <<files, corrupt, inflight>>,
           h.pc \in Filling <=> req[r].pc \in Filling,
           req[r].pc \in Filling => h.obj = req[r].obj,
           h.pc # "idle", h.obj \in Objects,
           h.sent = "wrong" => h.obj \notin Blobs,
           h.pc \notin {"evict", "copy"} => h.since = {},
           h.pc = "evict" =>
               IsInjective(h.entries) /\ Total(ToSet(h.entries) \cup (ToSet(files) \ h.since)) <= h.total,
           h.pc = "copy" /\ h.obj \in Sized => Total((ToSet(files) \ h.since) \cup {h.obj}) <= MaxBytes
    PROVE  IInv'
<1>1. /\ req' \in [Requests -> Handlers] /\ req'[r] = h
      /\ \A q \in Requests \ {r} : req'[q] = req[q]
  BY DEF IInv, Shapes
<1>2. OneFiller'
  BY <1>1, SameFiller
<1>3. Busy(r)' /\ Looked(r)'
  BY <1>1 DEF Busy, Looked
<1>4. Directory' /\ ToSet(files') \subseteq ToSet(files)
      /\ inflight' \in [Objects -> Requests \cup {Nobody}]
  BY DEF IInv, Directory, Shapes
<1> QED BY <1>1, <1>2, <1>3, <1>4, HandlerStep
-----------------------------------------------------------------------------
(***************************************************************************)
(* The actions.                                                            *)
(***************************************************************************)

\* A request comes, looks for its file, or gives up waiting.
LEMMA RequestIInv ==
    ASSUME IInv, NEW r \in Requests,
           (\E o \in Objects : Get(r, o)) \/ Stat(r) \/ Leave(r)
    PROVE  IInv'
<1>1. req[r] \in Handlers /\ Busy(r) /\ Looked(r)
  BY DEF IInv, Shapes
<1>2. ASSUME NEW o \in Objects, Get(r, o) PROVE IInv'
  <2> DEFINE h == [req[r] EXCEPT !.pc = "stat", !.obj = o]
  <2>1. req' = [req EXCEPT ![r] = h] /\ req[r].pc = "idle"
    BY <1>2 DEF Get
  <2>2. h \in Handlers /\ h.pc = "stat" /\ h.obj = o /\ h.since = req[r].since /\ h.sent = req[r].sent
    BY <1>1 DEF Handlers, Steps
  <2>3. h.since = {} /\ h.sent # "wrong"
    BY <1>1, <2>1, <2>2 DEF Busy, Looked
  <2>4. h.pc \notin Filling /\ req[r].pc \notin Filling
    BY <2>1, <2>2 DEF Filling
  <2> HIDE DEF h
  <2> QED BY <1>2, <2>1, <2>2, <2>3, <2>4, MoveStep DEF Get
<1>3. ASSUME NEW pc \in {"open", "lock", "failed"}, Goto(r, pc), req[r].pc \in {"stat", "wait"},
             UNCHANGED <<files, corrupt, inflight>>
      PROVE  IInv'
  <2> DEFINE h == [req[r] EXCEPT !.pc = pc]
  <2>1. req' = [req EXCEPT ![r] = h]
    BY <1>3 DEF Goto
  <2>2. /\ h \in Handlers /\ h.pc = pc /\ h.obj = req[r].obj
        /\ h.since = req[r].since /\ h.sent = req[r].sent
    BY <1>1 DEF Handlers, Steps, Answered
  <2>3. h.since = {} /\ (h.sent = "wrong" => h.obj \notin Blobs) /\ h.obj \in Objects
    BY <1>1, <1>3, <2>2 DEF Busy, Looked
  <2>4. h.pc \notin Filling /\ req[r].pc \notin Filling
    BY <1>3, <2>2 DEF Filling
  <2> HIDE DEF h
  <2> QED BY <1>3, <2>1, <2>2, <2>3, <2>4, MoveStep
<1> QED BY <1>2, <1>3 DEF Stat, Leave

\* Under the mutex a request starts the one download of its object, or waits.
LEMMA LockIInv ==
    ASSUME IInv, NEW r \in Requests, Lock(r)
    PROVE  IInv'
<1> DEFINE o == req[r].obj
<1>1. req[r] \in Handlers /\ Busy(r) /\ Looked(r) /\ req[r].pc = "lock"
  BY DEF IInv, Shapes, Lock
<1>2. o \in Objects /\ req[r].since = {}
  BY <1>1 DEF Busy, Looked
<1>3. PICK pc \in {"wait", "fetch"} :
        /\ Goto(r, pc)
        /\ pc = "wait" => UNCHANGED inflight
        /\ pc = "fetch" => inflight[o] = Nobody /\ inflight' = [inflight EXCEPT ![o] = r]
  BY DEF Lock
<1>4. /\ req' \in [Requests -> Handlers]
      /\ req'[r].pc = pc /\ req'[r].obj = o
      /\ req'[r].since = {} /\ req'[r].sent = req[r].sent
      /\ \A q \in Requests \ {r} : req'[q] = req[q]
  <2>1. pc \in Steps
    BY DEF Steps, Filling
  <2> QED BY <1>1, <1>2, <1>3, <2>1 DEF Goto, IInv, Shapes, Handlers
<1>5. Busy(r)' /\ Looked(r)'
  BY <1>1, <1>2, <1>4 DEF Busy, Looked
<1>6. inflight \in [Objects -> Requests \cup {Nobody}]
  BY DEF IInv, Shapes
<1>7. inflight' \in [Objects -> Requests \cup {Nobody}] /\ OneFiller'
  <2>1. CASE pc = "wait"
    <3>1. req'[r].pc \notin Filling /\ req[r].pc \notin Filling
      BY <1>1, <1>4, <2>1 DEF Filling
    <3> QED BY <1>3, <1>4, <1>6, <2>1, <3>1, SameFiller
  <2>2. CASE pc = "fetch"
    <3>1. /\ inflight' \in [Objects -> Requests \cup {Nobody}]
          /\ inflight'[o] = r /\ \A p \in Objects \ {o} : inflight'[p] = inflight[p]
      BY <1>2, <1>3, <1>6, <2>2
    <3>2. ASSUME NEW p \in Objects, NEW q \in Requests
          PROVE  (req'[q].pc \in Filling /\ req'[q].obj = p) <=> inflight'[p] = q
      <4>1. (req[q].pc \in Filling /\ req[q].obj = p) <=> inflight[p] = q
        BY DEF IInv, OneFiller
      <4>2. inflight[o] = Nobody /\ Nobody # q /\ req[r].pc \notin Filling /\ req'[r].pc \in Filling
        BY <1>1, <1>3, <1>4, <2>2, NobodyAssumption DEF Filling
      <4>3. CASE q = r
        <5>1. p # o => inflight[p] # r
          BY <4>1, <4>2, <4>3
        <5> QED BY <1>4, <3>1, <4>2, <4>3, <5>1
      <4>4. CASE q # r
        <5>1. CASE p = o
          BY <1>4, <3>1, <4>1, <4>2, <4>4, <5>1
        <5>2. CASE p # o
          BY <1>4, <3>1, <4>1, <4>4, <5>2
        <5> QED BY <5>1, <5>2
      <4> QED BY <4>3, <4>4
    <3> QED BY <3>1, <3>2 DEF OneFiller
  <2> QED BY <2>1, <2>2
<1>8. Directory' /\ ToSet(files') \subseteq ToSet(files)
  BY DEF Lock, IInv, Directory
<1> QED BY <1>4, <1>5, <1>7, <1>8, HandlerStep

\* The download is over for the map and for its waiters.
LEMMA UnlockIInv ==
    ASSUME IInv, NEW r \in Requests, Unlock(r)
    PROVE  IInv'
<1> DEFINE o == req[r].obj
<1>1. req[r].pc = "unlock" /\ o \in Objects
  BY DEF Unlock, IInv, Busy
<1>2. req \in [Requests -> Handlers] /\ inflight \in [Objects -> Requests \cup {Nobody}]
  BY DEF IInv, Shapes
<1>3. /\ inflight' \in [Objects -> Requests \cup {Nobody}]
      /\ inflight'[o] = Nobody /\ \A p \in Objects \ {o} : inflight'[p] = inflight[p]
  BY <1>1, <1>2 DEF Unlock
<1>4. ASSUME NEW q \in Requests
      PROVE  /\ req'[q] \in Handlers
             /\ req'[q].obj = req[q].obj /\ req'[q].since = req[q].since /\ req'[q].sent = req[q].sent
             /\ q = r => req'[q].pc \in {"open", "failed"}
             /\ q # r => req'[q] = req[q] \/ (req[q].pc = "wait" /\ req'[q].pc = "stat")
  <2>1. req[q] \in Handlers
    BY <1>2
  <2>2. CASE q = r
    BY <1>1, <2>1, <2>2 DEF Unlock, Handlers, Steps, Answered
  <2>3. CASE q # r
    <3>1. CASE req[q].pc = "wait" /\ req[q].obj = o
      <4>1. req'[q] = [req[q] EXCEPT !.pc = "stat"]
        BY <2>3, <3>1 DEF Unlock
      <4> QED BY <2>1, <2>3, <3>1, <4>1 DEF Handlers, Steps
    <3>2. CASE ~(req[q].pc = "wait" /\ req[q].obj = o)
      <4>1. req'[q] = req[q]
        BY <2>3, <3>2 DEF Unlock
      <4> QED BY <2>1, <2>3, <4>1
    <3> QED BY <3>1, <3>2
  <2> QED BY <2>2, <2>3
<1>5. Shapes'
  BY <1>3, <1>4 DEF Shapes, Unlock
<1>6. OneFiller'
  <2> SUFFICES ASSUME NEW p \in Objects, NEW q \in Requests
               PROVE  (req'[q].pc \in Filling /\ req'[q].obj = p) <=> inflight'[p] = q
    BY DEF OneFiller
  <2>1. (req[q].pc \in Filling /\ req[q].obj = p) <=> inflight[p] = q
    BY DEF IInv, OneFiller
  <2>2. inflight[o] = r
    BY <1>1 DEF IInv, OneFiller, Filling
  <2>3. Nobody # q
    BY NobodyAssumption
  <2>4. CASE q = r
    <3>1. req'[q].pc \notin Filling
      BY <1>4, <2>4 DEF Filling
    <3>2. p # o => inflight[p] # q
      BY <2>1, <2>4
    <3> QED BY <1>3, <2>3, <3>1, <3>2
  <2>5. CASE q # r
    <3>1. (req'[q].pc \in Filling /\ req'[q].obj = p) <=> (req[q].pc \in Filling /\ req[q].obj = p)
      BY <1>4, <2>5 DEF Filling
    <3>2. inflight'[p] = q <=> inflight[p] = q
      BY <1>3, <2>2, <2>3, <2>5
    <3> QED BY <2>1, <3>1, <3>2
  <2> QED BY <2>4, <2>5
<1>7. ASSUME NEW q \in Requests PROVE Busy(q)' /\ Looked(q)'
  <2>1. Busy(q) /\ Looked(q)
    BY DEF IInv
  <2>2. files' = files
    BY DEF Unlock
  <2>3. CASE req'[q] = req[q]
    BY <2>1, <2>2, <2>3 DEF Busy, Looked
  <2>4. CASE req'[q] # req[q]
    <3>1. req[q].pc \in {"unlock", "wait"} /\ req'[q].pc \in {"open", "failed", "stat"}
      BY <1>1, <1>4, <2>4
    <3> QED BY <1>4, <2>1, <3>1 DEF Busy, Looked
  <2> QED BY <2>3, <2>4
<1>8. Directory'
  BY DEF Unlock, IInv, Directory
<1> QED BY <1>5, <1>6, <1>7, <1>8 DEF IInv

\* What is sent is what is on disk.
LEMMA OpenIInv ==
    ASSUME IInv, NEW r \in Requests, Open(r)
    PROVE  IInv'
<1> DEFINE o == req[r].obj
<1>1. req[r] \in Handlers /\ Busy(r) /\ Looked(r) /\ req[r].pc = "open"
  BY DEF IInv, Shapes, Open
<1>2. o \in Objects /\ req[r].since = {}
  BY <1>1 DEF Busy, Looked
<1>3. /\ req' \in [Requests -> Handlers]
      /\ \A q \in Requests \ {r} : req'[q] = req[q]
      /\ req'[r].pc \in {"served", "failed"} /\ req'[r].obj = o /\ req'[r].since = {}
      /\ req'[r].sent = "wrong" => req[r].sent = "wrong" \/ o \in corrupt
  <2>1. CASE req' = [req EXCEPT ![r].pc = "served",
                                ![r].sent = IF o \in corrupt THEN "wrong" ELSE "right"]
    BY <1>1, <1>2, <2>1 DEF IInv, Shapes, Handlers, Steps, Answered
  <2>2. CASE Goto(r, "failed")
    BY <1>1, <1>2, <2>2 DEF Goto, IInv, Shapes, Handlers, Steps, Answered
  <2> QED BY <2>1, <2>2 DEF Open
<1>4. Busy(r)' /\ Looked(r)'
  <2>1. o \in corrupt => o \notin Blobs
    BY DEF IInv, Directory
  <2>2. req[r].sent = "wrong" => o \notin Blobs
    BY <1>1 DEF Busy
  <2> QED BY <1>2, <1>3, <2>1, <2>2 DEF Busy, Looked
<1>5. OneFiller'
  <2>1. req'[r].pc \notin Filling /\ req[r].pc \notin Filling
    BY <1>1, <1>3 DEF Filling
  <2> QED BY <1>3, <2>1, SameFiller DEF Open
<1>6. Directory' /\ ToSet(files') \subseteq ToSet(files)
  <2>1. files \in Seq(Objects) /\ IsInjective(files)
    BY DEF IInv, Directory
  <2>2. files' \in Seq(Objects) /\ IsInjective(files') /\ ToSet(files') = ToSet(files)
    <3>1. CASE o \in ToSet(files) /\ Touch(o)
      <4>1. /\ files' \in Seq(Objects) /\ IsInjective(files')
            /\ ToSet(files') = ToSet(files) \cup {o}
        BY <1>2, <2>1, <3>1, TouchFacts
      <4> QED BY <3>1, <4>1
    <3>2. CASE UNCHANGED files
      BY <2>1, <3>2
    <3> QED BY <3>1, <3>2 DEF Open
  <2> QED BY <2>2 DEF Open, IInv, Directory
<1>7. inflight' \in [Objects -> Requests \cup {Nobody}]
  BY DEF Open, IInv, Shapes
<1> QED BY <1>3, <1>4, <1>5, <1>6, <1>7, HandlerStep
\* The origin answers: the walk counts every file.
LEMMA FetchIInv ==
    ASSUME IInv, NEW r \in Requests, Fetch(r)
    PROVE  IInv'
<1>1. req[r] \in Handlers /\ Busy(r) /\ Looked(r) /\ req[r].pc = "fetch"
  BY DEF IInv, Shapes, Fetch
<1>2. req[r].obj \in Objects /\ req[r].since = {}
  BY <1>1 DEF Busy, Looked
<1>3. files \in Seq(Objects) /\ IsInjective(files) /\ ToSet(files) \in SUBSET Objects
  BY FilesAreObjects DEF IInv, Directory
<1>4. Total(ToSet(files)) \in Nat
  BY <1>3, TotalType
<1>5. CASE req[r].obj \in Sized
  <2> DEFINE h == [req[r] EXCEPT !.pc = "evict", !.entries = files, !.total = Total(ToSet(files))]
  <2>1. req' = [req EXCEPT ![r] = h]
    BY <1>5 DEF Fetch
  <2>2. /\ h \in Handlers /\ h.pc = "evict" /\ h.entries = files /\ h.total = Total(ToSet(files))
        /\ h.obj = req[r].obj /\ h.since = req[r].since /\ h.sent = req[r].sent
    <3> DEFINE n == Total(ToSet(files))
    <3>1. h = [req[r] EXCEPT !.pc = "evict", !.entries = files, !.total = n] /\ n \in Nat
      BY <1>4
    <3>2. "evict" \in Steps
      BY DEF Steps, Filling
    <3> HIDE DEF h, n
    <3>3. /\ h \in Handlers /\ h.pc = "evict" /\ h.entries = files /\ h.total = n
          /\ h.obj = req[r].obj /\ h.since = req[r].since /\ h.sent = req[r].sent
      BY <1>1, <1>3, <3>1, <3>2 DEF Handlers
    <3> QED BY <3>3 DEF n
  <2> HIDE DEF h
  <2>3. h.pc \in Filling /\ req[r].pc \in Filling
    BY <1>1, <2>2 DEF Filling
  <2>4. ToSet(h.entries) \cup (ToSet(files) \ h.since) = ToSet(files)
    BY <2>2
  <2>5. Total(ToSet(h.entries) \cup (ToSet(files) \ h.since)) <= h.total
    <3>1. Total(ToSet(h.entries) \cup (ToSet(files) \ h.since)) = h.total
      BY <2>2, <2>4
    <3>2. h.total \in Nat
      BY <1>4, <2>2
    <3> QED BY <3>1, <3>2
  <2>6. h.sent = "wrong" => h.obj \notin Blobs
    BY <1>1, <2>2 DEF Busy
  <2> QED BY <1>2, <1>3, <2>1, <2>2, <2>3, <2>5, <2>6, MoveStep DEF Fetch
<1>6. CASE req[r].obj \notin Sized
  <2> DEFINE h == [req[r] EXCEPT !.pc = "copy"]
  <2>1. req' = [req EXCEPT ![r] = h]
    BY <1>6 DEF Fetch, Goto
  <2>2. h \in Handlers /\ h.pc = "copy" /\ h.obj = req[r].obj /\ h.sent = req[r].sent
    BY <1>1 DEF Handlers, Steps, Filling
  <2>3. h.pc \in Filling /\ req[r].pc \in Filling
    BY <1>1, <2>2 DEF Filling
  <2>4. h.sent = "wrong" => h.obj \notin Blobs
    BY <1>1, <2>2 DEF Busy
  <2> HIDE DEF h
  <2> QED BY <1>2, <1>6, <2>1, <2>2, <2>3, <2>4, MoveStep DEF Fetch
<1> QED BY <1>5, <1>6

\* Removing an entry frees its bytes, unless another eviction was faster.
LEMMA EvictIInv ==
    ASSUME IInv, NEW r \in Requests, Evict(r)
    PROVE  IInv'
<1> DEFINE es == req[r].entries
           o == Head(es)
           F == ToSet(files)
           seen == ToSet(es) \cup (F \ req[r].since)
           t == IF o \in F THEN req[r].total - Size[o] ELSE req[r].total
<1>1. req[r] \in Handlers /\ Busy(r) /\ Looked(r) /\ req[r].pc = "evict" /\ es # <<>>
  BY DEF IInv, Shapes, Evict
<1>2. /\ req[r].obj \in Objects /\ IsInjective(es) /\ Total(seen) <= req[r].total
      /\ es \in Seq(Objects) /\ req[r].total \in Nat
  BY <1>1 DEF Busy, Looked, Handlers
<1>3. /\ o \in ToSet(es) /\ Tail(es) \in Seq(Objects) /\ IsInjective(Tail(es))
      /\ ToSet(Tail(es)) = ToSet(es) \ {o}
  BY <1>1, <1>2, TailFacts
<1>4. files \in Seq(Objects) /\ IsInjective(files) /\ F \in SUBSET Objects /\ ToSet(es) \in SUBSET Objects
  BY <1>2, FilesAreObjects DEF IInv, Directory
<1>5. /\ files' \in Seq(Objects) /\ IsInjective(files') /\ ToSet(files') = F \ {o}
  BY <1>4, RemoveFirstFacts DEF Evict
<1>6. corrupt' = corrupt \ {o} /\ inflight' = inflight
      /\ req' = [req EXCEPT ![r].entries = Tail(es), ![r].total = t]
  BY DEF Evict
<1>7. seen \in SUBSET Objects /\ o \in seen /\ o \in Objects
  BY <1>3, <1>4
<1>8. t \in Nat /\ Total(seen \ {o}) <= t
  <2>1. Total(seen \ {o}) = Total(seen) - Size[o] /\ Total(seen) \in Nat /\ Total(seen \ {o}) \in Nat
    BY <1>7, TotalRemove, TotalType
  <2>2. Size[o] \in Nat
    BY <1>7, CacheAssumption
  <2>3. Total(seen \ {o}) <= Total(seen)
    BY <2>1, <2>2
  <2> HIDE DEF seen, o, F
  <2>4. CASE o \in F
    BY <1>2, <2>1, <2>2, <2>4
  <2>5. CASE o \notin F
    BY <1>2, <2>1, <2>3, <2>5
  <2> QED BY <2>4, <2>5
<1>9. t \in Nat /\ Total(ToSet(Tail(es)) \cup (ToSet(files') \ req[r].since)) <= t
  <2> DEFINE left == ToSet(Tail(es)) \cup (ToSet(files') \ req[r].since)
  <2>1. left \in SUBSET (seen \ {o}) /\ seen \ {o} \in SUBSET Objects
    BY <1>3, <1>5, <1>7
  <2> HIDE DEF left, seen, F, o, t
  <2>2. Total(left) <= Total(seen \ {o})
    BY <2>1, TotalMonotone
  <2>3. left \in SUBSET Objects
    BY <2>1
  <2>4. Total(left) \in Nat /\ Total(seen \ {o}) \in Nat
    BY <2>1, <2>3, TotalType
  <2> QED BY <1>8, <2>2, <2>4 DEF left
<1>10. /\ req' \in [Requests -> Handlers]
       /\ \A q \in Requests \ {r} : req'[q] = req[q]
       /\ req'[r].pc = "evict" /\ req'[r].obj = req[r].obj /\ req'[r].sent = req[r].sent
       /\ req'[r].entries = Tail(es) /\ req'[r].total = t /\ req'[r].since = req[r].since
  <2> HIDE DEF t
  <2> QED BY <1>1, <1>3, <1>6, <1>9 DEF IInv, Shapes, Handlers
<1>11. Busy(r)' /\ Looked(r)'
  BY <1>1, <1>3, <1>9, <1>10 DEF Busy, Looked
<1>12. OneFiller'
  BY <1>1, <1>6, <1>10, SameFiller
<1>13. Directory' /\ ToSet(files') \subseteq ToSet(files)
  BY <1>5, <1>6 DEF IInv, Directory
<1>14. inflight' \in [Objects -> Requests \cup {Nobody}]
  BY <1>6 DEF IInv, Shapes
<1> QED BY <1>10, <1>11, <1>12, <1>13, <1>14, HandlerStep

\* There is room for the object beside the files the eviction could see.
LEMMA EvictDoneIInv ==
    ASSUME IInv, NEW r \in Requests, EvictDone(r)
    PROVE  IInv'
<1> DEFINE seen == ToSet(files) \ req[r].since
           h == [req[r] EXCEPT !.pc = IF Fits(r) THEN "copy" ELSE "unlock",
                               !.entries = <<>>, !.total = 0,
                               !.since = IF Fits(r) THEN @ ELSE {}]
<1>1. req[r] \in Handlers /\ Busy(r) /\ Looked(r) /\ req[r].pc = "evict"
  BY DEF IInv, Shapes, EvictDone
<1>2. req[r].obj \in Objects /\ req[r].total \in Nat /\ req[r].entries \in Seq(Objects)
  BY <1>1 DEF Busy, Handlers
<1>3. req' = [req EXCEPT ![r] = h] /\ UNCHANGED <<files, corrupt, inflight>>
  BY DEF EvictDone
<1>4. /\ h \in Handlers /\ h.pc = IF Fits(r) THEN "copy" ELSE "unlock"
      /\ h.obj = req[r].obj /\ h.sent = req[r].sent
      /\ h.since = IF Fits(r) THEN req[r].since ELSE {}
  <2>1. {"copy", "unlock"} \subseteq Steps
    BY DEF Steps, Filling
  <2>2. <<>> \in Seq(Objects)
    OBVIOUS
  <2>3. CASE Fits(r)
    BY <1>1, <2>1, <2>2, <2>3 DEF Handlers
  <2>4. CASE ~Fits(r)
    BY <1>1, <2>1, <2>2, <2>4 DEF Handlers
  <2> QED BY <2>3, <2>4
<1>5. h.pc \in Filling /\ req[r].pc \in Filling
  BY <1>1, <1>4 DEF Filling
<1>6. Fits(r) => Total(seen \cup {req[r].obj}) <= MaxBytes
  <2>1. ToSet(files) \in SUBSET Objects /\ ToSet(req[r].entries) \in SUBSET Objects
    BY <1>2, FilesAreObjects DEF IInv, Directory
  <2> DEFINE both == ToSet(req[r].entries) \cup seen
  <2>2. seen \in SUBSET Objects /\ both \in SUBSET Objects /\ seen \in SUBSET both
    BY <2>1
  <2>3. Total(both) <= req[r].total
    BY <1>1 DEF Looked
  <2> HIDE DEF seen, both
  <2>4. Total(seen) <= Total(both) /\ Total(seen) \in Nat /\ Total(both) \in Nat
    BY <2>2, TotalMonotone, TotalType
  <2>5. Total(seen \cup {req[r].obj}) <= Total(seen) + Size[req[r].obj]
    BY <1>2, <2>2, TotalAdd
  <2>6. Total(seen \cup {req[r].obj}) \in Nat /\ Size[req[r].obj] \in Nat /\ MaxBytes \in Nat
    BY <1>2, <2>2, TotalType, CacheAssumption
  <2> QED BY <1>2, <2>3, <2>4, <2>5, <2>6 DEF Fits
<1>7. h.sent = "wrong" => h.obj \notin Blobs
  BY <1>1, <1>4 DEF Busy
<1> HIDE DEF h
<1>8. CASE Fits(r)
  BY <1>2, <1>3, <1>4, <1>5, <1>6, <1>7, <1>8, MoveStep
<1>9. CASE ~Fits(r)
  BY <1>2, <1>3, <1>4, <1>5, <1>7, <1>9, MoveStep
<1> QED BY <1>8, <1>9
\* A fill that ends without a file.
LEMMA FillEndsIInv ==
    ASSUME IInv, NEW r \in Requests, req[r].pc \in {"fetch", "copy"},
           req' = [req EXCEPT ![r].pc = "unlock", ![r].since = {}],
           UNCHANGED <<files, corrupt, inflight>>
    PROVE  IInv'
<1> DEFINE h == [req[r] EXCEPT !.pc = "unlock", !.since = {}]
<1>1. req[r] \in Handlers /\ Busy(r)
  BY DEF IInv, Shapes
<1>2. req' = [req EXCEPT ![r] = h]
  OBVIOUS
<1>3. h \in Handlers /\ h.pc = "unlock" /\ h.obj = req[r].obj /\ h.sent = req[r].sent /\ h.since = {}
  BY <1>1 DEF Handlers, Steps, Filling
<1> HIDE DEF h
<1>4. h.pc \in Filling /\ req[r].pc \in Filling /\ h.obj \in Objects /\ (h.sent = "wrong" => h.obj \notin Blobs)
  BY <1>1, <1>3 DEF Filling, Busy
<1> QED BY <1>2, <1>3, <1>4, MoveStep

\* The rename: a blob was compared with its checksum, and everybody who is
\* evicting or copying knows the file as written since.
LEMMA RenameIInv ==
    ASSUME IInv, NEW r \in Requests, NEW bad \in BOOLEAN,
           req[r].pc = "copy",
           bad => req[r].obj \notin Blobs,
           Touch(req[r].obj),
           corrupt' = IF bad THEN corrupt \cup {req[r].obj} ELSE corrupt \ {req[r].obj},
           req' = Renamed(r),
           UNCHANGED inflight
    PROVE  IInv'
<1> DEFINE o == req[r].obj
<1>1. o \in Objects /\ req \in [Requests -> Handlers]
  BY DEF IInv, Shapes, Busy
<1>2. files \in Seq(Objects) /\ IsInjective(files)
  BY DEF IInv, Directory
<1>3. files' \in Seq(Objects) /\ IsInjective(files') /\ ToSet(files') = ToSet(files) \cup {o}
  BY <1>1, <1>2, TouchFacts
<1>4. Directory'
  <2>1. corrupt \subseteq ToSet(files) /\ corrupt \cap Blobs = {}
    BY DEF IInv, Directory
  <2> QED BY <1>3, <2>1 DEF Directory
<1>5. /\ req'[r] \in Handlers /\ req'[r].pc = "unlock" /\ req'[r].obj = o
      /\ req'[r].sent = req[r].sent /\ req'[r].since = {}
  <2>1. req'[r] = [req[r] EXCEPT !.pc = "unlock", !.filled = TRUE, !.since = {}]
    BY DEF Renamed
  <2> QED BY <1>1, <2>1 DEF Handlers, Steps, Filling
<1>6. ASSUME NEW q \in Requests, q # r
      PROVE  /\ req'[q] \in Handlers
             /\ req'[q].pc = req[q].pc /\ req'[q].obj = req[q].obj /\ req'[q].entries = req[q].entries
             /\ req'[q].total = req[q].total /\ req'[q].sent = req[q].sent
             /\ req'[q].since = IF req[q].pc \in {"evict", "copy"} THEN req[q].since \cup {o}
                                                                   ELSE req[q].since
  <2>1. req[q] \in Handlers
    BY <1>1
  <2>2. CASE req[q].pc \in {"evict", "copy"}
    <3> DEFINE more == req[q].since \cup {o}
    <3>1. req'[q] = [req[q] EXCEPT !.since = more]
      BY <1>6, <2>2 DEF Renamed
    <3>2. more \in SUBSET Objects
      BY <1>1, <2>1 DEF Handlers
    <3> HIDE DEF more
    <3>3. /\ req'[q] \in Handlers
          /\ req'[q].pc = req[q].pc /\ req'[q].obj = req[q].obj /\ req'[q].entries = req[q].entries
          /\ req'[q].total = req[q].total /\ req'[q].sent = req[q].sent /\ req'[q].since = more
      BY <2>1, <3>1, <3>2 DEF Handlers
    <3> QED BY <2>2, <3>3 DEF more
  <2>3. CASE req[q].pc \notin {"evict", "copy"}
    <3>1. req'[q] = req[q]
      BY <1>6, <2>3 DEF Renamed
    <3> QED BY <2>1, <2>3, <3>1
  <2> QED BY <2>2, <2>3
<1>7. Shapes'
  <2>1. \A q \in Requests : req'[q] \in Handlers
    BY <1>5, <1>6
  <2> QED BY <2>1 DEF IInv, Shapes, Renamed
<1>8. OneFiller'
  <2> SUFFICES ASSUME NEW p \in Objects, NEW q \in Requests
               PROVE  (req'[q].pc \in Filling /\ req'[q].obj = p) <=> inflight'[p] = q
    BY DEF OneFiller
  <2>1. (req[q].pc \in Filling /\ req[q].obj = p) <=> inflight[p] = q
    BY DEF IInv, OneFiller
  <2>2. CASE q = r
    BY <1>5, <2>1, <2>2 DEF Filling
  <2>3. CASE q # r
    BY <1>6, <2>1, <2>3
  <2> QED BY <2>2, <2>3
<1>9. Busy(r)' /\ Looked(r)'
  BY <1>1, <1>5 DEF IInv, Busy, Looked
<1>10. ASSUME NEW q \in Requests, q # r PROVE Busy(q)' /\ Looked(q)'
  <2>1. Busy(q) /\ Looked(q) /\ req[q] \in Handlers
    BY <1>1 DEF IInv
  <2>2. Busy(q)'
    BY <1>6, <1>10, <2>1 DEF Busy
  <2>3. CASE req[q].pc \in {"evict", "copy"}
    <3>1. ToSet(files') \ req'[q].since \subseteq ToSet(files) \ req[q].since
      BY <1>3, <1>6, <1>10, <2>3
    <3> QED BY <1>2, <1>3, <1>6, <1>10, <2>1, <2>2, <2>3, <3>1, StillLooked DEF Busy
  <2>4. CASE req[q].pc \notin {"evict", "copy"}
    BY <1>6, <1>10, <2>1, <2>2, <2>4 DEF Looked
  <2> QED BY <2>2, <2>3, <2>4
<1> QED BY <1>4, <1>7, <1>8, <1>9, <1>10 DEF IInv

\* The transfer and its failures.
LEMMA CopyIInv ==
    ASSUME IInv, NEW r \in Requests, Copy(r) \/ FillFails(r)
    PROVE  IInv'
<1>1. CASE FillFails(r)
  BY <1>1, FillEndsIInv DEF FillFails
<1>2. CASE Copy(r)
  <2>1. PICK bad \in {FALSE, Faults} :
          \/ /\ bad => req[r].obj \notin Blobs
             /\ Touch(req[r].obj)
             /\ corrupt' = IF bad THEN corrupt \cup {req[r].obj} ELSE corrupt \ {req[r].obj}
             /\ req' = Renamed(r)
          \/ /\ req' = [req EXCEPT ![r].pc = "unlock", ![r].since = {}]
             /\ UNCHANGED <<files, corrupt>>
    BY <1>2 DEF Copy
  <2>2. bad \in BOOLEAN
    BY CacheAssumption
  <2> QED BY <1>2, <2>1, <2>2, RenameIInv, FillEndsIInv DEF Copy
<1> QED BY <1>1, <1>2

\* A restart leaves the directory and no fill.
LEMMA RestartIInv ==
    ASSUME IInv, Restart
    PROVE  IInv'
<1>1. req \in [Requests -> Handlers]
  BY DEF IInv, Shapes
<1>2. ASSUME NEW q \in Requests
      PROVE  /\ req'[q] \in Handlers
             /\ \/ req'[q] = req[q] /\ req[q].pc \in {"idle"} \cup Answered
                \/ /\ req'[q].pc = "failed" /\ req'[q].obj = req[q].obj /\ req[q].pc # "idle"
                   /\ req'[q].sent = req[q].sent /\ req'[q].since = {}
  <2>1. req[q] \in Handlers
    BY <1>1
  <2>2. CASE req[q].pc \in {"idle"} \cup Answered
    BY <2>1, <2>2 DEF Restart
  <2>3. CASE req[q].pc \notin {"idle"} \cup Answered
    <3>1. req'[q] = [req[q] EXCEPT !.pc = "failed", !.entries = <<>>, !.total = 0, !.since = {}]
      BY <2>3 DEF Restart
    <3>2. "failed" \in Steps /\ <<>> \in Seq(Objects)
      BY DEF Steps, Answered
    <3>3. /\ req'[q] \in Handlers /\ req'[q].pc = "failed" /\ req'[q].obj = req[q].obj
          /\ req'[q].sent = req[q].sent /\ req'[q].since = {}
      <4>1. req'[q] = [pc |-> "failed", obj |-> req[q].obj, entries |-> <<>>, total |-> 0,
                       filled |-> req[q].filled, sent |-> req[q].sent, since |-> {}]
        BY <2>1, <3>1 DEF Handlers
      <4>2. /\ req[q].obj \in Objects \cup {Nobody} /\ req[q].filled \in BOOLEAN
            /\ req[q].sent \in {"nothing", "right", "wrong"}
        BY <2>1 DEF Handlers
      <4> QED BY <3>2, <4>1, <4>2 DEF Handlers
    <3> QED BY <2>3, <3>3
  <2> QED BY <2>2, <2>3
<1>3. Shapes'
  BY <1>2 DEF Restart, Shapes
<1>4. OneFiller'
  <2>1. \A q \in Requests : req'[q].pc \notin Filling
    BY <1>2 DEF Filling, Answered
  <2> QED BY <2>1, NobodyAssumption DEF Restart, OneFiller
<1>5. ASSUME NEW q \in Requests PROVE Busy(q)' /\ Looked(q)'
  <2>1. Busy(q) /\ Looked(q)
    BY DEF IInv
  <2> QED BY <1>2, <2>1 DEF Busy, Looked, Answered
<1>6. Directory'
  BY DEF Restart, IInv, Directory
<1> QED BY <1>3, <1>4, <1>5, <1>6 DEF IInv

-----------------------------------------------------------------------------
(***************************************************************************)
(* The theorems.                                                           *)
(***************************************************************************)

\* The invariant is inductive.
LEMMA NextIInv == IInv /\ [Next]_vars => IInv'
<1> SUFFICES ASSUME IInv, [Next]_vars PROVE IInv'
  OBVIOUS
<1>1. CASE UNCHANGED vars
  BY <1>1 DEF vars, IInv, Shapes, Directory, OneFiller, Busy, Looked
<1>2. ASSUME NEW r \in Requests,
             \/ \E o \in Objects : Get(r, o)
             \/ Handler(r) \/ Leave(r) \/ FillFails(r)
      PROVE  IInv'
  BY <1>2, RequestIInv, LockIInv, UnlockIInv, OpenIInv, FetchIInv, EvictIInv, EvictDoneIInv, CopyIInv
     DEF Handler, Local, Transfer
<1> QED BY <1>1, <1>2, RestartIInv DEF Next

\* The invariant holds throughout, whatever cache an agent starts with.
THEOREM Invariance == Spec => []IInv
BY InitIInv, NextIInv, PTL DEF Spec

\* Directory, map and handlers keep their types; in particular the total of an
\* eviction never becomes negative (evictFor).
THEOREM TypeCorrect == Spec => []TypeOK
<1>1. IInv => TypeOK
  BY DEF IInv, TypeOK, Shapes, Directory, Handlers, Busy
<1> QED BY <1>1, Invariance, PTL

\* A request fills an object exactly as long as the in-flight map names it
\* (ensure).
THEOREM OneDownload == Spec => []OneFiller
<1>1. IInv => OneFiller
  BY DEF IInv
<1> QED BY <1>1, Invariance, PTL

\* No blob on disk or sent to a client differs from the origin's (fill).
THEOREM Verified == Spec => []BlobsAreVerified
<1>1. IInv => BlobsAreVerified
  BY DEF IInv, Directory, Busy, BlobsAreVerified
<1> QED BY <1>1, Invariance, PTL

\* A download of known length is written into room that its eviction made
\* (evictFor).
THEOREM RoomMade == Spec => []RoomWasMade
<1>1. IInv => RoomWasMade
  BY DEF IInv, Looked, RoomWasMade
<1> QED BY <1>1, Invariance, PTL

-----------------------------------------------------------------------------
(***************************************************************************)
(* Deliveries.  A row is marked by the claim that hands it out, so what a  *)
(* poller or a worker holds is marked, held by nobody else and not yet     *)
(* delivered; that is what makes "at most once" inductive.                 *)
(***************************************************************************)

Marked(w) == wake[w].state \in {"claimed", "reaped"}

\* The wakes an agent was handed are of its site, due, and its own.
WakesHeld ==
    \A a \in Agents : \A w \in agent[a].batch :
        /\ Marked(w) /\ wake[w].site = AgentSite[a] /\ wake[w].at <= now
        /\ sent[w] = << >>
        /\ \A b \in Agents : w \in agent[b].batch => b = a

\* A wake that was broadcast was claimed before, by the agent that sent it.
WakesSent ==
    \A w \in Wakes : sent[w] # << >> =>
        /\ Len(sent[w]) = 1 /\ Marked(w)
        /\ AgentSite[sent[w][1]] = wake[w].site /\ wake[w].at <= now

\* The jobs a worker has to post are marked, its own and not yet posted.
JobsHeld ==
    \A k \in Workers : \A j \in worker[k].batch :
        /\ job[j].notified /\ posted[j] = 0
        /\ \A l \in Workers : j \in worker[l].batch => l = k

JobsPosted ==
    \A j \in Jobs : posted[j] <= 1 /\ (~job[j].notified => posted[j] = 0)

\* The bulk call is at the id after its last row.
BulkAt ==
    /\ \A i, h \in DOMAIN bulk.ids : bulk.ids[i] = bulk.ids[h] => i = h
    /\ bulk.pc = "idle" => bulk.rows = << >>
    /\ bulk.pc \in {"issue", "wake"} => Len(bulk.rows) < Len(bulk.ids)
    /\ bulk.pc \in {"reply", "done"} => Len(bulk.rows) = Len(bulk.ids)
    /\ \A i \in DOMAIN bulk.rows : /\ i \in DOMAIN bulk.ids /\ bulk.rows[i].machine = bulk.ids[i]
                                   /\ bulk.rows[i].wake # None => bulk.rows[i].code

\* An id with a row has the code the row tells of, or lost it; one without
\* has none, but for the one whose wake is being queued.
BulkIssued ==
    /\ \A i \in DOMAIN bulk.rows :
          /\ bulk.rows[i].code => bulk.ids[i] \notin lost
          /\ issued[bulk.ids[i]] = IF bulk.rows[i].code \/ bulk.ids[i] \in lost THEN 1 ELSE 0
    /\ \A m \in Spellings : (\A i \in DOMAIN bulk.rows : bulk.ids[i] # m) =>
          /\ m \notin lost
          /\ issued[m] = IF bulk.pc = "wake" /\ m = Id THEN 1 ELSE 0

WakeTypes ==
    /\ wake \in [Wakes -> [state : {"absent", "queued", "claimed", "reaped"},
                           machine : Machines \cup {None}, site : Sites \cup {None}, at : Hours]]
    /\ agent \in [Agents -> [pc : {"wait", "answer", "send"}, batch : SUBSET Wakes]]
    /\ sent \in [Wakes -> Seq(Agents)]

JobTypes ==
    /\ job \in [Jobs -> [ended : BOOLEAN, at : Hours, notified : BOOLEAN]]
    /\ worker \in [Workers -> [pc : {"wait", "post", "down"}, batch : SUBSET Jobs]]
    /\ posted \in [Jobs -> Nat]

BulkRows == [machine : Spellings, code : BOOLEAN, wake : Wakes \cup {None}, error : BOOLEAN]

BulkTypes ==
    /\ bulk \in [pc : {"idle", "issue", "wake", "reply", "done"}, ids : Seq(Spellings),
                 wakeToo : BOOLEAN, gone : BOOLEAN, rows : Seq(BulkRows)]
    /\ issued \in [Spellings -> Nat]

OtherTypes ==
    /\ now \in Hours /\ machines \subseteq Machines
    /\ lost \subseteq Wakes \cup Jobs \cup Spellings /\ faults \in 0..MaxFaults

WakesInv == WakeTypes /\ WakesHeld /\ WakesSent
JobsInv == JobTypes /\ JobsHeld /\ JobsPosted
BulkInv == BulkTypes /\ BulkAt /\ BulkIssued
DeliveriesIInv == OtherTypes /\ WakesInv /\ JobsInv /\ BulkInv

\* The conjuncts of the type invariant.
LEMMA DeliveriesTypes == DeliveriesTypeOK <=> OtherTypes /\ WakeTypes /\ JobTypes /\ BulkTypes
  BY DEF DeliveriesTypeOK, OtherTypes, WakeTypes, JobTypes, BulkTypes, BulkRows

\* Nothing is handed out initially, and ended jobs are marked.
LEMMA InitDeliveries == DeliveriesInit => DeliveriesIInv
  <1> SUFFICES ASSUME DeliveriesInit PROVE DeliveriesIInv
    OBVIOUS
  <1> USE DeliveriesAssumption
  <1>1. OtherTypes
    <2>1. PICK s \in Starts : machines = s.machines
      BY DEF DeliveriesInit
    <2>2. machines \subseteq Machines
      BY <2>1
    <2>. QED BY <2>2 DEF DeliveriesInit, OtherTypes, Hours
  <1>2. WakesInv
    BY DEF DeliveriesInit, WakesInv, WakeTypes, WakesHeld, WakesSent, NoWake, Waiting, Hours
  <1>3. JobsInv
    <2>1. PICK s \in Starts :
             /\ job = [j \in Jobs |->
                        [ended |-> j \notin s.running, at |-> 0, notified |-> j \notin s.running]]
             /\ posted = [j \in Jobs |-> IF j \in s.running THEN 0 ELSE 1]
      BY DEF DeliveriesInit
    <2>2. worker = [k \in Workers |-> Waiting]
      BY DEF DeliveriesInit
    <2>3. JobTypes
      BY <2>1, <2>2 DEF JobTypes, Waiting, Hours
    <2>4. JobsHeld
      BY <2>2 DEF JobsHeld, Waiting
    <2>5. JobsPosted
      <3> SUFFICES ASSUME NEW j \in Jobs
                   PROVE  posted[j] <= 1 /\ (~job[j].notified => posted[j] = 0)
        BY DEF JobsPosted
      <3>1. CASE j \in s.running
        BY <2>1, <3>1
      <3>2. CASE j \notin s.running
        <4>1. job[j].notified /\ posted[j] = 1
          BY <2>1, <3>2
        <4>. QED BY <4>1
      <3>. QED BY <3>1, <3>2
    <2>. QED BY <2>3, <2>4, <2>5 DEF JobsInv
  <1>4. BulkInv
    <2>1. BulkTypes
      BY DEF DeliveriesInit, BulkTypes, NoBulk
    <2>2. BulkAt /\ BulkIssued
      BY DEF DeliveriesInit, BulkAt, BulkIssued, NoBulk
    <2>. QED BY <2>1, <2>2 DEF BulkInv
  <1>. QED BY <1>1, <1>2, <1>3, <1>4 DEF DeliveriesIInv

-----------------------------------------------------------------------------
\* The wakes do not change; the clock may have gone on.
LEMMA QuietWakes ==
  ASSUME WakesInv, OtherTypes, UNCHANGED <<wake, agent, sent>>, now' = now \/ now' = now + 1
  PROVE  WakesInv'
  <1>1. now \in Nat /\ \A w \in Wakes : wake[w].at \in Nat
    BY DeliveriesAssumption DEF WakesInv, WakeTypes, OtherTypes, Hours
  <1>2. \A w \in Wakes : wake[w].at <= now => wake'[w].at <= now'
    BY <1>1
  <1>3. WakeTypes'
    BY DEF WakesInv, WakeTypes
  <1>4. WakesHeld'
    BY <1>2 DEF WakesInv, WakeTypes, WakesHeld, Marked
  <1>5. WakesSent'
    BY <1>2 DEF WakesInv, WakesSent, Marked
  <1>. QED BY <1>3, <1>4, <1>5 DEF WakesInv

\* A request nobody was handed or one that stays marked may change.
LEMMA RowsMove ==
  ASSUME WakesInv, OtherTypes, UNCHANGED <<agent, sent, now>>,
         WakeTypes',
         \A w \in Wakes : Marked(w) => Marked(w)' /\ wake'[w].site = wake[w].site
                                               /\ wake'[w].at = wake[w].at
  PROVE  WakesInv'
  <1>1. WakesHeld'
    BY DEF WakesInv, WakesHeld, WakeTypes
  <1>2. WakesSent'
    BY DEF WakesInv, WakesSent
  <1>. QED BY <1>1, <1>2 DEF WakesInv

\* A request is queued.
LEMMA CreateMove ==
  ASSUME WakesInv, OtherTypes, NEW w \in Wakes, NEW m \in Machines, NEW site \in Sites,
         NEW at \in Hours, CreateWakeRequest(w, m, site, at), UNCHANGED <<agent, sent, now>>
  PROVE  WakesInv'
  <1>1. WakeTypes'
    BY DEF WakesInv, WakeTypes, CreateWakeRequest
  <1>2. \A v \in Wakes : Marked(v) => wake'[v] = wake[v]
    BY DEF WakesInv, WakeTypes, CreateWakeRequest, Marked
  <1>3. \A v \in Wakes : Marked(v) => Marked(v)'
    BY <1>2 DEF Marked
  <1>. QED BY <1>1, <1>2, <1>3, RowsMove

\* Requests are reaped.
LEMMA ReapMove ==
  ASSUME WakesInv, OtherTypes, NEW R \in SUBSET Wakes,
         wake' = [w \in Wakes |-> IF w \in R THEN [wake[w] EXCEPT !.state = "reaped"] ELSE wake[w]],
         UNCHANGED <<agent, sent, now>>
  PROVE  WakesInv'
  <1>1. WakeTypes'
    BY DEF WakesInv, WakeTypes
  <1>2. \A v \in Wakes : Marked(v) => /\ wake'[v].state = wake[v].state \/ wake'[v].state = "reaped"
                                      /\ wake'[v].site = wake[v].site /\ wake'[v].at = wake[v].at
    BY DEF WakesInv, WakeTypes
  <1>3. \A v \in Wakes : Marked(v) => Marked(v)'
    BY <1>2 DEF Marked
  <1>. QED BY <1>1, <1>2, <1>3, RowsMove

\* What the claim of agent a hands out was queued, so in nobody's hands.
LEMMA ClaimWakes ==
  ASSUME WakesInv, OtherTypes, NEW a \in Agents, ClaimDueWakeRequests(a)
  PROVE  WakesInv'
  <1>1. PICK B \in SUBSET {w \in Wakes : Due(w, AgentSite[a])} :
           /\ wake' = [w \in Wakes |->
                         IF w \in B THEN [wake[w] EXCEPT !.state = "claimed"] ELSE wake[w]]
           /\ agent' = [agent EXCEPT ![a] = [pc |-> "answer", batch |-> B]]
    BY DEF ClaimDueWakeRequests, Batches
  <1>2. UNCHANGED <<sent, now>>
    BY DEF ClaimDueWakeRequests
  <1>3. WakeTypes'
    BY <1>1, <1>2 DEF WakesInv, WakeTypes
  <1>4. /\ agent'[a].batch = B
        /\ \A b \in Agents : b # a => agent'[b] = agent[b]
    BY <1>1 DEF WakesInv, WakeTypes
  <1>5. \A w \in Wakes : wake'[w].site = wake[w].site /\ wake'[w].at = wake[w].at
    BY <1>1 DEF WakesInv, WakeTypes
  <1>6. /\ \A w \in B : wake'[w].state = "claimed"
        /\ \A w \in Wakes \ B : wake'[w] = wake[w]
    BY <1>1 DEF WakesInv, WakeTypes
  <1>7. \A w \in Wakes : Marked(w) => Marked(w)'
    BY <1>6 DEF Marked
  <1>8. \A w \in B : Marked(w)'
    BY <1>6 DEF Marked
  <1>9. \A w \in B : w \in Wakes /\ ~Marked(w) /\ wake[w].site = AgentSite[a] /\ wake[w].at <= now
    BY DEF Due, Marked
  <1>10. \A w \in B : sent[w] = << >> /\ \A b \in Agents : w \notin agent[b].batch
    BY <1>9 DEF WakesInv, WakesHeld, WakesSent
  <1>11. WakesHeld'
    <2> SUFFICES ASSUME NEW b \in Agents, NEW w \in agent'[b].batch
                 PROVE  /\ Marked(w)' /\ wake'[w].site = AgentSite[b] /\ wake'[w].at <= now'
                        /\ sent'[w] = << >>
                        /\ \A c \in Agents : w \in agent'[c].batch => c = b
      BY DEF WakesHeld
    <2>0. w \in Wakes
      BY <1>3 DEF WakeTypes
    <2>1. CASE b = a
      BY <1>2, <1>4, <1>5, <1>8, <1>9, <1>10, <2>0, <2>1
    <2>2. CASE b # a
      <3>1. w \in agent[b].batch /\ w \notin B
        BY <1>4, <1>10, <2>2
      <3>2. /\ Marked(w) /\ wake[w].site = AgentSite[b] /\ wake[w].at <= now /\ sent[w] = << >>
            /\ \A c \in Agents : w \in agent[c].batch => c = b
        BY <3>1 DEF WakesInv, WakesHeld
      <3>. QED BY <1>2, <1>4, <1>5, <1>7, <2>0, <3>1, <3>2
    <2>. QED BY <2>1, <2>2
  <1>12. WakesSent'
    BY <1>2, <1>5, <1>7 DEF WakesInv, WakesSent
  <1>. QED BY <1>3, <1>11, <1>12 DEF WakesInv

\* An agent gives up some of what it was handed.
LEMMA DropWakes ==
  ASSUME WakesInv, OtherTypes, NEW a \in Agents, UNCHANGED <<wake, sent, now>>,
         agent' \in [Agents -> [pc : {"wait", "answer", "send"}, batch : SUBSET Wakes]],
         agent'[a].batch \subseteq agent[a].batch,
         \A b \in Agents : b # a => agent'[b] = agent[b]
  PROVE  WakesInv'
  <1>1. \A b \in Agents : agent'[b].batch \subseteq agent[b].batch
    OBVIOUS
  <1>2. WakesHeld'
    BY <1>1 DEF WakesInv, WakesHeld, Marked
  <1>. QED BY <1>2 DEF WakesInv, WakeTypes, WakesSent, Marked

\* SendNext takes one request from the batch of an agent.
LEMMA SendMove ==
  ASSUME WakeTypes, NEW a \in Agents, NEW w, agent[a].pc = "send", SendNext(a, w)
  PROVE  /\ agent' \in [Agents -> [pc : {"wait", "answer", "send"}, batch : SUBSET Wakes]]
         /\ agent'[a].batch = agent[a].batch \ {w}
         /\ \A b \in Agents : b # a => agent'[b] = agent[b]
  <1> DEFINE left == agent[a].batch \ {w}
  <1>1. /\ left \in SUBSET Wakes
        /\ agent \in [Agents -> [pc : {"wait", "answer", "send"}, batch : SUBSET Wakes]]
    BY DEF WakeTypes
  <1>2. CASE left = {}
    BY <1>1, <1>2 DEF SendNext, Waiting
  <1>3. CASE left # {}
    BY <1>1, <1>3 DEF SendNext
  <1>. QED BY <1>2, <1>3

\* The burst of a request goes out once: it leaves the only batch it is in.
LEMMA SendWakes ==
  ASSUME WakesInv, OtherTypes, NEW a \in Agents, NEW w \in Wakes, sendMagicPacket(a, w)
  PROVE  WakesInv'
  <1>1. /\ agent' \in [Agents -> [pc : {"wait", "answer", "send"}, batch : SUBSET Wakes]]
        /\ agent'[a].batch = agent[a].batch \ {w}
        /\ \A b \in Agents : b # a => agent'[b] = agent[b]
    BY SendMove DEF sendMagicPacket, WakesInv
  <1>2. UNCHANGED <<wake, now>> /\ sent' = [sent EXCEPT ![w] = Append(@, a)]
    BY DEF sendMagicPacket
  <1>3. /\ Marked(w) /\ wake[w].site = AgentSite[a] /\ wake[w].at <= now /\ sent[w] = << >>
        /\ \A b \in Agents : w \in agent[b].batch => b = a
    BY DEF sendMagicPacket, WakesInv, WakesHeld
  <1>4. sent'[w] = <<a>> /\ \A v \in Wakes : v # w => sent'[v] = sent[v]
    BY <1>2, <1>3 DEF WakesInv, WakeTypes
  <1>5. WakeTypes'
    BY <1>1, <1>2 DEF WakesInv, WakeTypes
  <1>6. \A b \in Agents : agent'[b].batch \subseteq agent[b].batch \ {w}
    BY <1>1, <1>3
  <1>7. WakesHeld'
    <2> SUFFICES ASSUME NEW b \in Agents, NEW v \in agent'[b].batch
                 PROVE  /\ Marked(v)' /\ wake'[v].site = AgentSite[b] /\ wake'[v].at <= now'
                        /\ sent'[v] = << >>
                        /\ \A c \in Agents : v \in agent'[c].batch => c = b
      BY DEF WakesHeld
    <2>1. v \in Wakes /\ v \in agent[b].batch /\ v # w
      BY <1>1, <1>6
    <2>2. Marked(v)' = Marked(v)
      BY <1>2 DEF Marked
    <2>. QED BY <1>2, <1>4, <1>6, <2>1, <2>2 DEF WakesInv, WakesHeld
  <1>8. WakesSent'
    <2> SUFFICES ASSUME NEW v \in Wakes, sent'[v] # << >>
                 PROVE  /\ Len(sent'[v]) = 1 /\ Marked(v)'
                        /\ AgentSite[sent'[v][1]] = wake'[v].site /\ wake'[v].at <= now'
      BY DEF WakesSent
    <2>1. Marked(v)' = Marked(v)
      BY <1>2 DEF Marked
    <2>2. CASE v = w
      <3>0. Len(<<a>>) = 1 /\ <<a>>[1] = a
        OBVIOUS
      <3>1. sent'[v] = <<a>>
        BY <1>4, <2>2
      <3>. QED BY <1>2, <1>3, <2>1, <2>2, <3>0, <3>1
    <2>3. CASE v # w
      BY <1>2, <1>4, <2>1, <2>3 DEF WakesInv, WakesSent
    <2>. QED BY <2>2, <2>3
  <1>. QED BY <1>5, <1>7, <1>8 DEF WakesInv

-----------------------------------------------------------------------------
\* The jobs do not change.
LEMMA QuietJobs ==
  ASSUME JobsInv, UNCHANGED <<job, worker, posted>>
  PROVE  JobsInv'
  BY DEF JobsInv, JobTypes, JobsHeld, JobsPosted

\* A job ends.
LEMMA EndJob ==
  ASSUME JobsInv, OtherTypes, NEW j \in Jobs, JobEnds(j)
  PROVE  JobsInv'
  <1>1. /\ UNCHANGED <<worker, posted>>
        /\ job' = [job EXCEPT ![j] = [@ EXCEPT !.ended = TRUE, !.at = now]]
    BY DEF JobEnds
  <1>2. job' \in [Jobs -> [ended : BOOLEAN, at : Hours, notified : BOOLEAN]]
    BY <1>1 DEF JobsInv, JobTypes, OtherTypes
  <1>3. \A i \in Jobs : job'[i].notified = job[i].notified
    BY <1>1 DEF JobsInv, JobTypes
  <1>4. JobTypes'
    BY <1>1, <1>2 DEF JobsInv, JobTypes
  <1>5. JobsHeld'
    BY <1>1, <1>3 DEF JobsInv, JobTypes, JobsHeld
  <1>6. JobsPosted'
    BY <1>1, <1>3 DEF JobsInv, JobsPosted
  <1>. QED BY <1>4, <1>5, <1>6 DEF JobsInv

\* What the claim of worker k hands out was not marked, so in nobody's hands.
LEMMA ClaimJobs ==
  ASSUME JobsInv, NEW k \in Workers, ClaimTerminalJobs(k)
  PROVE  JobsInv'
  <1>1. PICK B \in SUBSET {j \in Jobs : Unnotified(j)} :
           /\ job' = [j \in Jobs |->
                        IF j \in B THEN [job[j] EXCEPT !.notified = TRUE] ELSE job[j]]
           /\ worker' = [worker EXCEPT ![k] = [pc |-> "post", batch |-> B]]
    BY DEF ClaimTerminalJobs, Batches
  <1>2. UNCHANGED posted
    BY DEF ClaimTerminalJobs
  <1>3. JobTypes'
    BY <1>1, <1>2 DEF JobsInv, JobTypes
  <1>4. worker'[k].batch = B /\ \A l \in Workers : l # k => worker'[l] = worker[l]
    BY <1>1 DEF JobsInv, JobTypes
  <1>5. /\ \A j \in B : job'[j].notified
        /\ \A j \in Jobs \ B : job'[j] = job[j]
    BY <1>1 DEF JobsInv, JobTypes
  <1>6. \A j \in B : j \in Jobs /\ ~job[j].notified
    BY DEF Unnotified
  <1>7. \A j \in B : posted[j] = 0 /\ \A l \in Workers : j \notin worker[l].batch
    BY <1>6 DEF JobsInv, JobsHeld, JobsPosted
  <1>8. JobsHeld'
    <2> SUFFICES ASSUME NEW l \in Workers, NEW j \in worker'[l].batch
                 PROVE  /\ job'[j].notified /\ posted'[j] = 0
                        /\ \A i \in Workers : j \in worker'[i].batch => i = l
      BY DEF JobsHeld
    <2>0. j \in Jobs
      BY <1>3 DEF JobTypes
    <2>1. CASE l = k
      BY <1>2, <1>4, <1>5, <1>7, <2>1
    <2>2. CASE l # k
      <3>1. j \in worker[l].batch /\ j \notin B
        BY <1>4, <1>7, <2>2
      <3>. QED BY <1>2, <1>4, <1>5, <2>0, <3>1 DEF JobsInv, JobsHeld
    <2>. QED BY <2>1, <2>2
  <1>9. JobsPosted'
    BY <1>2, <1>5, <1>6 DEF JobsInv, JobsPosted
  <1>. QED BY <1>3, <1>8, <1>9 DEF JobsInv

\* A worker gives up some of what it has to post, or all of it.
LEMMA DropJobs ==
  ASSUME JobsInv, NEW k \in Workers, UNCHANGED <<job, posted>>,
         worker' \in [Workers -> [pc : {"wait", "post", "down"}, batch : SUBSET Jobs]],
         worker'[k].batch \subseteq worker[k].batch,
         \A l \in Workers : l # k => worker'[l] = worker[l]
  PROVE  JobsInv'
  <1>1. \A l \in Workers : worker'[l].batch \subseteq worker[l].batch
    OBVIOUS
  <1>2. JobsHeld'
    BY <1>1 DEF JobsInv, JobsHeld
  <1>. QED BY <1>2 DEF JobsInv, JobTypes, JobsPosted

\* A webhook goes out, and arrives or not: its job leaves the only batch it
\* is in.
LEMMA PostJob ==
  ASSUME JobsInv, NEW k \in Workers, NEW j \in worker[k].batch, worker[k].pc = "post",
         PostNext(k, j), UNCHANGED job,
         NEW n \in {0, 1}, posted' = [posted EXCEPT ![j] = @ + n]
  PROVE  JobsInv'
  <1> DEFINE left == worker[k].batch \ {j}
  <1>1. /\ worker \in [Workers -> [pc : {"wait", "post", "down"}, batch : SUBSET Jobs]]
        /\ left \in SUBSET Jobs /\ j \in Jobs
    BY DEF JobsInv, JobTypes
  <1>2. /\ worker' \in [Workers -> [pc : {"wait", "post", "down"}, batch : SUBSET Jobs]]
        /\ worker'[k].batch = left
        /\ \A l \in Workers : l # k => worker'[l] = worker[l]
    <2>1. CASE left = {}
      BY <1>1, <2>1 DEF PostNext, Waiting
    <2>2. CASE left # {}
      BY <1>1, <2>2 DEF PostNext
    <2>. QED BY <2>1, <2>2
  <1>3. /\ job[j].notified /\ posted[j] = 0
        /\ \A l \in Workers : j \in worker[l].batch => l = k
    BY DEF JobsInv, JobsHeld
  <1>4. posted'[j] = n /\ \A i \in Jobs : i # j => posted'[i] = posted[i]
    BY <1>1, <1>3 DEF JobsInv, JobTypes
  <1>5. JobTypes'
    BY <1>2 DEF JobsInv, JobTypes
  <1>6. \A l \in Workers : worker'[l].batch \subseteq worker[l].batch \ {j}
    BY <1>2, <1>3
  <1>7. JobsHeld'
    <2> SUFFICES ASSUME NEW l \in Workers, NEW i \in worker'[l].batch
                 PROVE  /\ job'[i].notified /\ posted'[i] = 0
                        /\ \A h \in Workers : i \in worker'[h].batch => h = l
      BY DEF JobsHeld
    <2>1. i \in Jobs /\ i \in worker[l].batch /\ i # j
      BY <1>2, <1>6
    <2>. QED BY <1>4, <1>6, <2>1 DEF JobsInv, JobsHeld
  <1>8. JobsPosted'
    BY <1>3, <1>4 DEF JobsInv, JobsPosted
  <1>. QED BY <1>5, <1>7, <1>8 DEF JobsInv

-----------------------------------------------------------------------------
(***************************************************************************)
(* Dedupe.                                                                 *)
(***************************************************************************)

\* A set of naturals that is not empty has a least element.
LEMMA LeastNat ==
  ASSUME NEW T \in SUBSET Nat, T # {}
  PROVE  \E x \in T : \A y \in T : x <= y
<1> DEFINE R == OpToRel(<, Nat)
<1>1. IsWellFoundedOn(R, Nat)
  BY NatLessThanWellFounded
<1>2. \A x, y \in Nat : x < y => <<x, y>> \in R
  BY DEF OpToRel
<1> HIDE DEF R
<1>3. PICK x \in T : \A y \in T : ~(<<y, x>> \in R)
  BY <1>1, WFMin
<1>4. ASSUME NEW y \in T PROVE x <= y
  <2>1. x \in Nat /\ y \in Nat
    OBVIOUS
  <2>2. ~(<<y, x>> \in R)
    BY <1>3
  <2>3. ~(y < x)
    BY <1>2, <2>1, <2>2
  <2> QED BY <2>1, <2>3
<1> QED BY <1>4

\* Among the elements of a finite set of positions there is a k-th one.
LEMMA Kth ==
  ASSUME NEW n \in Nat, NEW F \in SUBSET (1..n), NEW k \in 1..Cardinality(F)
  PROVE  \E i \in F : Cardinality({h \in F : h <= i}) = k
  <1> DEFINE Upto(i) == {h \in F : h <= i}
             T == {i \in Nat : Cardinality(Upto(i)) >= k}
  <1>0. \A h \in F : h \in Nat /\ 1 <= h /\ h <= n
    OBVIOUS
  <1>1. IsFiniteSet(F)
    <2>1. IsFiniteSet(1..n)
      BY FS_Interval
    <2>. QED BY <2>1, FS_Subset
  <1>2. ASSUME NEW i PROVE IsFiniteSet(Upto(i)) /\ Cardinality(Upto(i)) \in Nat
    <2>1. Upto(i) \in SUBSET F
      OBVIOUS
    <2>. QED BY <1>1, <2>1, FS_Subset, FS_CardinalityType
  <1>3. n \in T
    <2>1. Upto(n) = F
      BY <1>0
    <2>2. Cardinality(F) \in Nat
      BY <1>1, FS_CardinalityType
    <2>. QED BY <2>1, <2>2
  <1>4. PICK i \in T : \A h \in T : i <= h
    <2>1. T \in SUBSET Nat /\ T # {}
      BY <1>3
    <2> HIDE DEF T
    <2>. QED BY <2>1, LeastNat
  <1>5. i # 0
    <2>0. \A h \in F : ~(h <= 0)
      BY <1>0
    <2>1. Upto(0) = {}
      BY <2>0
    <2>2. Cardinality(Upto(0)) = 0
      BY <2>1, FS_EmptySet
    <2>. QED BY <2>2
  <1>6. i - 1 \in Nat /\ Cardinality(Upto(i - 1)) < k
    <2>1. i \in Nat /\ i - 1 \in Nat /\ ~(i <= i - 1)
      BY <1>5
    <2>2. i - 1 \notin T
      BY <1>4, <2>1
    <2>3. Cardinality(Upto(i - 1)) \in Nat
      BY <1>2
    <2>. QED BY <2>1, <2>2, <2>3
  <1>7. Cardinality(Upto(i)) >= k /\ i \in Nat
    OBVIOUS
  <1>8. CASE i \notin F
    <2>0. \A h \in F : h <= i <=> h <= i - 1
      BY <1>0, <1>6, <1>7, <1>8
    <2>1. Upto(i) = Upto(i - 1)
      BY <2>0
    <2>2. Cardinality(Upto(i)) = Cardinality(Upto(i - 1)) /\ Cardinality(Upto(i)) \in Nat
      BY <1>2, <2>1
    <2> HIDE DEF Upto, T
    <2>. QED BY <1>6, <1>7, <2>2
  <1>9. CASE i \in F
    <2>0. /\ \A h \in F : h <= i <=> h <= i - 1 \/ h = i
          /\ ~(i <= i - 1) /\ i <= i
      BY <1>0, <1>6, <1>7, <1>9
    <2>1. Upto(i) = Upto(i - 1) \cup {i} /\ i \notin Upto(i - 1)
      BY <1>9, <2>0
    <2>2. Cardinality(Upto(i)) = Cardinality(Upto(i - 1)) + 1
      <3> HIDE DEF Upto
      <3>. QED BY <1>2, <2>1, FS_AddElement
    <2>3. Cardinality(Upto(i - 1)) \in Nat
      BY <1>2
    <2>4. Cardinality(Upto(i)) = k
      <3> HIDE DEF Upto, T
      <3>. QED BY <1>6, <1>7, <2>2, <2>3
    <2>. QED BY <1>9, <2>4
  <1>. QED BY <1>8, <1>9

\* The deduplicated list has strings of the list, each once, and is not
\* empty when the list is not.
LEMMA DedupeDistinct ==
  ASSUME NEW ids \in Seq(Spellings)
  PROVE  /\ Dedupe(ids) \in Seq(Spellings)
         /\ \A k, l \in DOMAIN Dedupe(ids) : Dedupe(ids)[k] = Dedupe(ids)[l] => k = l
         /\ ids # << >> => 0 < Len(Dedupe(ids))
  <1> DEFINE F == FirstMentions(ids)
             N == Cardinality(F)
             Pos(k) == CHOOSE i \in F : Cardinality({h \in F : h <= i}) = k
  <1>1. F \in SUBSET (1..Len(ids)) /\ Len(ids) \in Nat
    BY DEF FirstMentions
  <1>2. IsFiniteSet(F) /\ N \in Nat
    <2>1. IsFiniteSet(1..Len(ids))
      BY <1>1, FS_Interval
    <2> HIDE DEF F
    <2>. QED BY <1>1, <2>1, FS_Subset, FS_CardinalityType
  <1>3. Dedupe(ids) = [k \in 1..N |-> ids[Pos(k)]]
    BY DEF Dedupe
  <1>4. ASSUME NEW k \in 1..N
        PROVE  Pos(k) \in F /\ Cardinality({h \in F : h <= Pos(k)}) = k
    <2> HIDE DEF F
    <2>1. \E i \in F : Cardinality({h \in F : h <= i}) = k
      BY <1>1, Kth
    <2>. QED BY <2>1
  <1>5. ASSUME NEW i \in F, NEW h \in F, ids[i] = ids[h] PROVE i = h
    <2>1. i \in Nat /\ h \in Nat
      BY <1>1
    <2>2. ~(i < h) /\ ~(h < i)
      BY <1>1, <1>5, <2>1 DEF FirstMentions
    <2>. QED BY <2>1, <2>2
  <1>6. Dedupe(ids) \in Seq(Spellings)
    <2>0. \A i \in F : ids[i] \in Spellings
      BY <1>1
    <2>1. \A k \in 1..N : ids[Pos(k)] \in Spellings
      BY <1>4, <2>0
    <2> HIDE DEF Pos, N
    <2>. QED BY <1>2, <1>3, <2>1
  <1>7. ASSUME NEW k \in 1..N, NEW l \in 1..N, Dedupe(ids)[k] = Dedupe(ids)[l] PROVE k = l
    <2>1. Dedupe(ids)[k] = ids[Pos(k)] /\ Dedupe(ids)[l] = ids[Pos(l)]
      BY <1>3
    <2>2. Pos(k) = Pos(l)
      BY <1>4, <1>5, <1>7, <2>1
    <2> HIDE DEF Pos, F
    <2>. QED BY <1>4, <2>2
  <1>8. ASSUME ids # << >> PROVE N > 0
    <2>1. 1 \in DOMAIN ids
      BY <1>8
    <2>2. 1 \in F
      BY <2>1 DEF FirstMentions
    <2> HIDE DEF F
    <2>. QED BY <1>2, <2>2, FS_EmptySet
  <1>9. DOMAIN Dedupe(ids) = 1..N /\ Len(Dedupe(ids)) = N
    <2>1. DOMAIN Dedupe(ids) = 1..N
      BY <1>3
    <2> HIDE DEF N
    <2>. QED BY <1>2, <1>6, <2>1
  <1>. QED BY <1>6, <1>7, <1>8, <1>9

-----------------------------------------------------------------------------
(***************************************************************************)
(* The bulk call.                                                          *)
(***************************************************************************)

\* The call does not go on, or answers, or its caller is gone; what a fault
\* takes meanwhile is no id of the call.
LEMMA QuietBulk ==
  ASSUME BulkInv, BulkTypes', UNCHANGED issued,
         bulk'.ids = bulk.ids, bulk'.rows = bulk.rows,
         bulk'.pc = bulk.pc \/ (bulk.pc = "reply" /\ bulk'.pc = "done"),
         \A m \in Spellings : m \in lost' <=> m \in lost
  PROVE  BulkInv'
  <1>1. BulkAt'
    BY DEF BulkInv, BulkAt
  <1>2. \A i \in DOMAIN bulk.rows : bulk.ids[i] \in Spellings
    BY DEF BulkInv, BulkAt, BulkTypes
  <1>3. bulk'.pc = "wake" <=> bulk.pc = "wake"
    OBVIOUS
  <1>4. Id' = Id
    BY DEF Id
  <1>5. BulkIssued'
    BY <1>2, <1>3, <1>4 DEF BulkInv, BulkIssued
  <1>. QED BY <1>1, <1>5 DEF BulkInv

\* A call starts with ids that nobody has issued a code for.
LEMMA StartBulk ==
  ASSUME BulkInv, bulkDeploy
  PROVE  BulkInv'
  <1>1. PICK ids \in Lists, wakeToo \in BOOLEAN :
           /\ ids # << >>
           /\ bulk' = [NoBulk EXCEPT !.pc = "issue", !.ids = Dedupe(ids), !.wakeToo = wakeToo]
    BY DEF bulkDeploy
  <1>2. ids \in Seq(Spellings)
    BY DeliveriesAssumption
  <1> DEFINE d == Dedupe(ids)
  <1>3. /\ d \in Seq(Spellings) /\ 0 < Len(d)
        /\ \A k, l \in DOMAIN d : d[k] = d[l] => k = l
    BY <1>1, <1>2, DedupeDistinct
  <1> HIDE DEF d
  <1>4. bulk' = [pc |-> "issue", ids |-> d, wakeToo |-> wakeToo, gone |-> FALSE, rows |-> << >>]
    BY <1>1 DEF d, NoBulk
  <1>5. UNCHANGED <<issued, lost>> /\ bulk.pc = "idle"
    BY DEF bulkDeploy
  <1>6. \A m \in Spellings : m \notin lost /\ issued[m] = 0
    BY <1>5 DEF BulkInv, BulkAt, BulkIssued
  <1>7. BulkTypes'
    <2>1. << >> \in Seq(BulkRows)
      OBVIOUS
    <2>. QED BY <1>3, <1>4, <1>5, <2>1 DEF BulkInv, BulkTypes
  <1>8. BulkAt'
    BY <1>3, <1>4 DEF BulkAt
  <1>9. BulkIssued'
    BY <1>4, <1>5, <1>6 DEF BulkIssued
  <1>. QED BY <1>7, <1>8, <1>9 DEF BulkInv

\* Where the call is: at an id without a row.
LEMMA AtMachine ==
  ASSUME BulkInv, bulk.pc \in {"issue", "wake"}
  PROVE  /\ Len(bulk.rows) \in Nat /\ Len(bulk.rows) + 1 \in DOMAIN bulk.ids
         /\ DOMAIN bulk.rows = 1..Len(bulk.rows)
         /\ Id \in Spellings
         /\ \A i \in DOMAIN bulk.rows : bulk.ids[i] # Id
         /\ Id \notin lost
         /\ issued[Id] = IF bulk.pc = "wake" THEN 1 ELSE 0
  <1>1. /\ bulk.rows \in Seq(BulkRows) /\ bulk.ids \in Seq(Spellings)
        /\ Len(bulk.rows) < Len(bulk.ids)
    BY DEF BulkInv, BulkTypes, BulkAt
  <1>2. /\ Len(bulk.rows) \in Nat /\ Len(bulk.rows) + 1 \in DOMAIN bulk.ids
        /\ DOMAIN bulk.rows = 1..Len(bulk.rows)
    BY <1>1
  <1>3. Id \in Spellings
    BY <1>1, <1>2 DEF Id
  <1>4. \A i \in DOMAIN bulk.rows : bulk.ids[i] # Id
    BY <1>2 DEF BulkInv, BulkAt, Id
  <1>. QED BY <1>2, <1>3, <1>4 DEF BulkInv, BulkIssued

\* The row of the id is added.
LEMMA AddRowBulk ==
  ASSUME BulkInv, bulk.pc \in {"issue", "wake"},
         NEW row \in BulkRows, row.machine = Id, row.wake # None => row.code, AddRow(row),
         issued' \in [Spellings -> Nat],
         row.code => Id \notin lost',
         issued'[Id] = IF row.code \/ Id \in lost' THEN 1 ELSE 0,
         \A m \in Spellings : m # Id => issued'[m] = issued[m] /\ (m \in lost' <=> m \in lost)
  PROVE  BulkInv'
  <1> DEFINE n == Len(bulk.rows)
  <1>1. /\ n \in Nat /\ n + 1 \in DOMAIN bulk.ids /\ DOMAIN bulk.rows = 1..n
        /\ Id \in Spellings /\ Id = bulk.ids[n + 1]
        /\ \A i \in DOMAIN bulk.rows : bulk.ids[i] # Id
    BY AtMachine DEF Id
  <1>2. /\ bulk \in [pc : {"idle", "issue", "wake", "reply", "done"}, ids : Seq(Spellings),
                     wakeToo : BOOLEAN, gone : BOOLEAN, rows : Seq(BulkRows)]
        /\ bulk.rows \in Seq(BulkRows) /\ bulk.ids \in Seq(Spellings)
    BY DEF BulkInv, BulkTypes
  <1>3. /\ bulk'.ids = bulk.ids /\ bulk'.rows = Append(bulk.rows, row)
        /\ bulk'.pc = IF n + 1 = Len(bulk.ids) THEN "reply" ELSE "issue"
        /\ bulk' \in [pc : {"idle", "issue", "wake", "reply", "done"}, ids : Seq(Spellings),
                      wakeToo : BOOLEAN, gone : BOOLEAN, rows : Seq(BulkRows)]
    <2>1. Append(bulk.rows, row) \in Seq(BulkRows)
      BY <1>2
    <2>. QED BY <1>2, <2>1 DEF AddRow
  <1>4. /\ DOMAIN bulk'.rows = 1..(n + 1) /\ Len(bulk'.rows) = n + 1
        /\ \A i \in 1..n : bulk'.rows[i] = bulk.rows[i]
        /\ bulk'.rows[n + 1] = row
    BY <1>2, <1>3
  <1>5. BulkTypes'
    BY <1>3 DEF BulkTypes
  <1>6. n + 1 <= Len(bulk.ids) /\ Len(bulk.ids) \in Nat /\ DOMAIN bulk.ids = 1..Len(bulk.ids)
    BY <1>1, <1>2
  <1>7. \A i \in 1..(n + 1) : i \in 1..n \/ i = n + 1
    BY <1>1
  <1>8. BulkAt'
    <2>1. \A i, h \in DOMAIN bulk'.ids : bulk'.ids[i] = bulk'.ids[h] => i = h
      BY <1>3 DEF BulkInv, BulkAt
    <2>2. /\ bulk'.pc = "issue" => Len(bulk'.rows) < Len(bulk'.ids)
          /\ bulk'.pc = "reply" => Len(bulk'.rows) = Len(bulk'.ids)
          /\ bulk'.pc \in {"issue", "reply"}
      BY <1>1, <1>3, <1>4, <1>6
    <2>3. \A i \in DOMAIN bulk'.rows :
             /\ i \in DOMAIN bulk'.ids /\ bulk'.rows[i].machine = bulk'.ids[i]
             /\ bulk'.rows[i].wake # None => bulk'.rows[i].code
      <3> SUFFICES ASSUME NEW i \in DOMAIN bulk'.rows
                   PROVE  /\ i \in DOMAIN bulk'.ids /\ bulk'.rows[i].machine = bulk'.ids[i]
                          /\ bulk'.rows[i].wake # None => bulk'.rows[i].code
        OBVIOUS
      <3>1. CASE i \in 1..n
        <4>1. /\ i \in DOMAIN bulk.ids /\ bulk.rows[i].machine = bulk.ids[i]
              /\ bulk.rows[i].wake # None => bulk.rows[i].code
          BY <1>1, <3>1 DEF BulkInv, BulkAt
        <4>. QED BY <1>3, <1>4, <3>1, <4>1
      <3>2. CASE i = n + 1
        BY <1>1, <1>3, <1>4, <3>2
      <3>. QED BY <1>4, <1>7, <3>1, <3>2
    <2>. QED BY <2>1, <2>2, <2>3 DEF BulkAt
  <1>9. BulkIssued'
    <2>1. ASSUME NEW i \in DOMAIN bulk'.rows
          PROVE  /\ bulk'.rows[i].code => bulk'.ids[i] \notin lost'
                 /\ issued'[bulk'.ids[i]] =
                       IF bulk'.rows[i].code \/ bulk'.ids[i] \in lost' THEN 1 ELSE 0
      <3>1. CASE i \in 1..n
        <4>1. /\ bulk.rows[i].code => bulk.ids[i] \notin lost
              /\ issued[bulk.ids[i]] = IF bulk.rows[i].code \/ bulk.ids[i] \in lost THEN 1 ELSE 0
          BY <1>1, <3>1 DEF BulkInv, BulkIssued
        <4>2. bulk.ids[i] \in Spellings /\ bulk.ids[i] # Id
          BY <1>1, <1>2, <3>1 DEF BulkInv, BulkAt
        <4>. QED BY <1>3, <1>4, <3>1, <4>1, <4>2
      <3>2. CASE i = n + 1
        BY <1>1, <1>3, <1>4, <3>2
      <3>. QED BY <1>4, <1>7, <2>1, <3>1, <3>2
    <2>2. ASSUME NEW m \in Spellings, \A i \in DOMAIN bulk'.rows : bulk'.ids[i] # m
          PROVE  m \notin lost' /\ issued'[m] = 0
      <3>1. m # Id
        <4>1. n + 1 \in DOMAIN bulk'.rows
          BY <1>1, <1>4
        <4>. QED BY <1>1, <1>3, <2>2, <4>1
      <3>2. \A i \in DOMAIN bulk.rows : bulk.ids[i] # m
        <4>1. \A i \in DOMAIN bulk.rows : i \in DOMAIN bulk'.rows
          BY <1>1, <1>4
        <4>. QED BY <1>3, <2>2, <4>1
      <3>. QED BY <3>1, <3>2 DEF BulkInv, BulkIssued
    <2>3. bulk'.pc # "wake"
      BY <1>3
    <2>. QED BY <2>1, <2>2, <2>3 DEF BulkIssued
  <1>. QED BY <1>5, <1>8, <1>9 DEF BulkInv

\* The broker has made a code: the row tells of it, or it is told of when the
\* wake is queued.
LEMMA IssueBulk ==
  ASSUME BulkInv, issueViaBroker
  PROVE  BulkInv'
  <1>1. /\ bulk.pc = "issue" /\ issued' = [issued EXCEPT ![Id] = @ + 1] /\ UNCHANGED lost
    BY DEF issueViaBroker
  <1>2. /\ Len(bulk.rows) \in Nat /\ DOMAIN bulk.rows = 1..Len(bulk.rows)
        /\ Id \in Spellings /\ Id \notin lost /\ issued[Id] = 0
        /\ \A i \in DOMAIN bulk.rows : bulk.ids[i] # Id
    BY <1>1, AtMachine
  <1>3. /\ issued' \in [Spellings -> Nat] /\ issued'[Id] = 1
        /\ \A m \in Spellings : m # Id => issued'[m] = issued[m]
    BY <1>1, <1>2 DEF BulkInv, BulkTypes
  <1>4. CASE bulk.wakeToo
    <2>1. bulk' = [bulk EXCEPT !.pc = "wake"]
      BY <1>4 DEF issueViaBroker
    <2>2. /\ bulk'.ids = bulk.ids /\ bulk'.rows = bulk.rows /\ bulk'.pc = "wake"
          /\ BulkTypes'
      BY <1>3, <2>1 DEF BulkInv, BulkTypes
    <2>3. Id' = Id
      BY <2>2 DEF Id
    <2>4. BulkAt'
      BY <1>1, <2>2 DEF BulkInv, BulkAt
    <2>5. \A i \in DOMAIN bulk.rows : bulk.ids[i] \in Spellings
      BY DEF BulkInv, BulkAt, BulkTypes
    <2>6. BulkIssued'
      BY <1>1, <1>2, <1>3, <2>2, <2>3, <2>5 DEF BulkInv, BulkIssued
    <2>. QED BY <2>2, <2>4, <2>6 DEF BulkInv
  <1>5. CASE ~bulk.wakeToo
    <2> DEFINE row == Row(Id, TRUE, None, FALSE)
    <2>1. AddRow(row)
      BY <1>5 DEF issueViaBroker
    <2>2. row \in BulkRows /\ row.machine = Id /\ row.code
      BY <1>2 DEF Row, BulkRows
    <2> HIDE DEF row
    <2>. QED BY <1>1, <1>2, <1>3, <2>1, <2>2, AddRowBulk
  <1>. QED BY <1>4, <1>5

\* No code, or one whose answer is lost.
LEMMA RefuseBulk ==
  ASSUME BulkInv, IssueRefused \/ IssueAnswerLost
  PROVE  BulkInv'
  <1> DEFINE row == Row(Id, FALSE, None, TRUE)
  <1>1. bulk.pc = "issue" /\ AddRow(row)
    BY DEF IssueRefused, IssueAnswerLost
  <1>2. Id \in Spellings /\ Id \notin lost /\ issued[Id] = 0
    BY <1>1, AtMachine
  <1>3. row \in BulkRows /\ row.machine = Id /\ ~row.code /\ row.wake = None
    BY <1>2 DEF Row, BulkRows
  <1>4. /\ issued' \in [Spellings -> Nat]
        /\ issued'[Id] = IF Id \in lost' THEN 1 ELSE 0
        /\ \A m \in Spellings : m # Id => issued'[m] = issued[m] /\ (m \in lost' <=> m \in lost)
    <2>0. issued \in [Spellings -> Nat]
      BY DEF BulkInv, BulkTypes
    <2>1. CASE IssueRefused
      BY <1>2, <2>0, <2>1 DEF IssueRefused
    <2>2. CASE IssueAnswerLost
      <3>1. lost' = lost \cup {Id} /\ issued' = [issued EXCEPT ![Id] = @ + 1]
        BY <2>2 DEF IssueAnswerLost, Fault
      <3>2. issued'[Id] = 1 /\ Id \in lost'
        BY <1>2, <2>0, <3>1
      <3>. QED BY <1>2, <2>0, <3>1, <3>2
    <2>. QED BY <2>1, <2>2
  <1> HIDE DEF row
  <1>. QED BY <1>1, <1>3, <1>4, AddRowBulk

\* The wake is queued or not; the row has the code.
LEMMA WakeBulk ==
  ASSUME BulkInv, WakeIssued
  PROVE  BulkInv'
  <1>1. bulk.pc = "wake" /\ UNCHANGED <<issued, lost>>
    BY DEF WakeIssued
  <1>2. Id \in Spellings /\ Id \notin lost /\ issued[Id] = 1
    BY <1>1, AtMachine
  <1>3. PICK w \in Wakes \cup {None}, e \in BOOLEAN : AddRow(Row(Id, TRUE, w, e))
    BY DEF WakeIssued
  <1> DEFINE row == Row(Id, TRUE, w, e)
  <1>4. row \in BulkRows /\ row.machine = Id /\ row.code
    BY <1>2 DEF Row, BulkRows
  <1>5. issued \in [Spellings -> Nat]
    BY DEF BulkInv, BulkTypes
  <1> HIDE DEF row
  <1>. QED BY <1>1, <1>2, <1>3, <1>4, <1>5, AddRowBulk DEF row

-----------------------------------------------------------------------------
(***************************************************************************)
(* Every step, and the theorems about deliveries.                          *)
(***************************************************************************)

\* A step of the wake queue or of an agent.
LEMMA WakeSteps ==
  ASSUME DeliveriesIInv,
         \/ \E w \in Wakes : wakeMachine(w) \/ reapWakeRequests(w)
         \/ \E m \in Machines : DeleteMachine(m)
         \/ Polls
  PROVE  DeliveriesIInv'
  <1>0. WakesInv /\ OtherTypes /\ JobsInv /\ BulkInv /\ WakeTypes
    BY DEF DeliveriesIInv, WakesInv
  <1>1. WakesInv'
    <2>1. ASSUME NEW w \in Wakes, wakeMachine(w) PROVE WakesInv'
      <3>1. PICK m \in machines \ NoMAC, site \in Sites, at \in Hours :
               CreateWakeRequest(w, m, site, at)
        BY <2>1 DEF wakeMachine
      <3>2. m \in Machines
        BY <1>0 DEF OtherTypes
      <3>. QED BY <1>0, <2>1, <3>1, <3>2, CreateMove DEF wakeMachine
    <2>2. ASSUME NEW w \in Wakes, reapWakeRequests(w) PROVE WakesInv'
      <3>1. wake' = [v \in Wakes |-> IF v \in {w} THEN [wake[v] EXCEPT !.state = "reaped"]
                                                  ELSE wake[v]]
        <4>1. wake' = [wake EXCEPT ![w] = [wake[w] EXCEPT !.state = "reaped"]]
          BY <2>2 DEF reapWakeRequests
        <4>2. DOMAIN wake = Wakes
          BY <1>0 DEF WakeTypes
        <4>. QED BY <4>1, <4>2
      <3>. QED BY <1>0, <2>2, <3>1, ReapMove DEF reapWakeRequests
    <2>3. ASSUME NEW m \in Machines, DeleteMachine(m) PROVE WakesInv'
      <3> DEFINE gone == {w \in Wakes : wake[w].machine = m}
      <3>1. /\ wake' = [w \in Wakes |->
                          IF w \in gone THEN [wake[w] EXCEPT !.state = "reaped"] ELSE wake[w]]
            /\ UNCHANGED <<now, agent, sent>>
        BY <2>3 DEF DeleteMachine
      <3>2. gone \in SUBSET Wakes
        OBVIOUS
      <3> HIDE DEF gone
      <3>. QED BY <1>0, <3>1, <3>2, ReapMove
    <2>4. ASSUME NEW a \in Agents, edgeWakeQueue(a) \/ PollFails(a) \/ AgentRestarts(a)
          PROVE  WakesInv'
      <3>1. /\ UNCHANGED <<wake, sent, now>>
            /\ agent' \in [Agents -> [pc : {"wait", "answer", "send"}, batch : SUBSET Wakes]]
            /\ agent'[a].batch \subseteq agent[a].batch
            /\ \A b \in Agents : b # a => agent'[b] = agent[b]
        <4>1. CASE edgeWakeQueue(a)
          BY <1>0, <4>1 DEF edgeWakeQueue, WakeTypes
        <4>2. CASE PollFails(a) \/ AgentRestarts(a)
          <5>1. agent' = [agent EXCEPT ![a] = Waiting] /\ UNCHANGED <<wake, sent, now>>
            BY <4>2 DEF PollFails, AgentRestarts
          <5>. QED BY <1>0, <5>1 DEF Waiting, WakeTypes
        <4>. QED BY <2>4, <4>1, <4>2
      <3>. QED BY <1>0, <3>1, DropWakes
    <2>5. ASSUME NEW a \in Agents, NEW w \in Wakes, SendFails(a, w) PROVE WakesInv'
      <3>1. agent[a].pc = "send" /\ SendNext(a, w) /\ UNCHANGED <<wake, sent, now>>
        BY <2>5 DEF SendFails
      <3>2. /\ agent' \in [Agents -> [pc : {"wait", "answer", "send"}, batch : SUBSET Wakes]]
            /\ agent'[a].batch = agent[a].batch \ {w}
            /\ \A b \in Agents : b # a => agent'[b] = agent[b]
        BY <1>0, <3>1, SendMove
      <3>. QED BY <1>0, <3>1, <3>2, DropWakes
    <2>. QED BY <1>0, <2>1, <2>2, <2>3, <2>4, <2>5, ClaimWakes, SendWakes DEF Polls
  <1>2. UNCHANGED <<job, worker, posted, bulk, issued, now>>
    BY DEF wakeMachine, reapWakeRequests, DeleteMachine, Polls, ClaimDueWakeRequests, edgeWakeQueue,
           PollFails, AgentRestarts, sendMagicPacket, SendFails
  <1>3. /\ machines' \subseteq machines
        /\ (lost' = lost /\ faults' = faults) \/ \E what \in SUBSET Wakes : Fault(what)
    <2>1. \A a \in Agents : agent[a].batch \in SUBSET Wakes
      BY <1>0 DEF WakeTypes
    <2>2. ASSUME NEW m \in Machines, DeleteMachine(m)
          PROVE  machines' \subseteq machines /\ \E what \in SUBSET Wakes : Fault(what)
      <3> DEFINE what == {w \in {v \in Wakes : wake[v].machine = m} : wake[w].state = "queued"}
      <3>1. what \in SUBSET Wakes /\ Fault(what) /\ machines' \subseteq machines
        BY <2>2 DEF DeleteMachine
      <3>. QED BY <3>1
    <2>3. ASSUME NEW a \in Agents, NEW w \in Wakes, SendFails(a, w)
          PROVE  machines' = machines /\ \E what \in SUBSET Wakes : Fault(what)
      <3>1. {w} \in SUBSET Wakes /\ Fault({w})
        BY <2>3 DEF SendFails
      <3>. QED BY <2>3, <3>1 DEF SendFails
    <2>4. ASSUME NEW a \in Agents, PollFails(a) \/ AgentRestarts(a)
          PROVE  machines' = machines /\ \E what \in SUBSET Wakes : Fault(what)
      BY <2>1, <2>4 DEF PollFails, AgentRestarts
    <2>5. ASSUME \/ \E w \in Wakes : wakeMachine(w) \/ reapWakeRequests(w)
                 \/ \E a \in Agents :
                       \/ ClaimDueWakeRequests(a) \/ edgeWakeQueue(a)
                       \/ \E w \in Wakes : sendMagicPacket(a, w)
          PROVE  UNCHANGED <<machines, lost, faults>>
      BY <2>5 DEF wakeMachine, reapWakeRequests, ClaimDueWakeRequests, edgeWakeQueue,
                  sendMagicPacket
    <2>. QED BY <2>2, <2>3, <2>4, <2>5 DEF Polls
  <1>4. OtherTypes' /\ \A m \in Spellings : m \in lost' <=> m \in lost
    BY <1>0, <1>2, <1>3, DeliveriesAssumption DEF OtherTypes, Fault
  <1>5. JobsInv'
    BY <1>0, <1>2, QuietJobs
  <1>6. BulkInv'
    <2>1. BulkTypes'
      BY <1>0, <1>2 DEF BulkInv, BulkTypes
    <2>. QED BY <1>0, <1>2, <1>4, <2>1, QuietBulk
  <1>. QED BY <1>1, <1>4, <1>5, <1>6 DEF DeliveriesIInv

\* A step of the jobs or of a worker, or an hour.
LEMMA JobSteps ==
  ASSUME DeliveriesIInv, (\E j \in Jobs : JobEnds(j)) \/ Notifies \/ Hour
  PROVE  DeliveriesIInv'
  <1>0. WakesInv /\ OtherTypes /\ JobsInv /\ BulkInv /\ JobTypes
    BY DEF DeliveriesIInv, JobsInv
  <1>1. JobsInv'
    <2>1. ASSUME NEW k \in Workers, NEW j \in Jobs, notifyTerminalJobs(k, j) PROVE JobsInv'
      BY <1>0, <2>1, PostJob DEF notifyTerminalJobs
    <2>2. ASSUME NEW k \in Workers, NEW j \in Jobs, PostFails(k, j) PROVE JobsInv'
      BY <1>0, <2>2, PostJob DEF PostFails
    <2>3. ASSUME NEW k \in Workers, WorkerStops(k) \/ WorkerStarts(k) PROVE JobsInv'
      <3>1. /\ UNCHANGED <<job, posted>>
            /\ worker' \in [Workers -> [pc : {"wait", "post", "down"}, batch : SUBSET Jobs]]
            /\ worker'[k].batch \subseteq worker[k].batch
            /\ \A l \in Workers : l # k => worker'[l] = worker[l]
        BY <1>0, <2>3 DEF WorkerStops, WorkerStarts, Waiting, JobTypes
      <3>. QED BY <1>0, <3>1, DropJobs
    <2>4. CASE Hour
      BY <1>0, <2>4, QuietJobs DEF Hour
    <2>. QED BY <1>0, <2>1, <2>2, <2>3, <2>4, EndJob, ClaimJobs DEF Notifies
  <1>2. UNCHANGED <<wake, agent, sent, bulk, issued, machines>>
    BY DEF JobEnds, Notifies, ClaimTerminalJobs, WorkerStops, WorkerStarts, notifyTerminalJobs,
           PostFails, Hour
  <1>3. /\ now' = now \/ (now < MaxHours /\ now' = now + 1)
        /\ faults' \in 0..MaxFaults
        /\ \E what \in SUBSET Jobs : lost' = lost \cup what
    <2>0. /\ \A k \in Workers : worker[k].batch \in SUBSET Jobs
          /\ faults \in 0..MaxFaults /\ MaxFaults \in Nat
      BY <1>0, DeliveriesAssumption DEF JobTypes, OtherTypes
    <2>1. ASSUME NEW what \in SUBSET Jobs, Fault(what)
          PROVE  faults' \in 0..MaxFaults /\ lost' = lost \cup what
      BY <2>0, <2>1 DEF Fault
    <2>2. CASE Hour
      <3> DEFINE missed == {j \in Jobs : Unnotified(j)}
      <3>1. missed \in SUBSET Jobs /\ lost' = lost \cup missed
        BY <2>2 DEF Hour
      <3>. QED BY <2>0, <2>2, <3>1 DEF Hour
    <2>3. ASSUME NEW k \in Workers, NEW j \in Jobs, PostFails(k, j)
          PROVE  /\ now' = now /\ faults' \in 0..MaxFaults
                 /\ \E what \in SUBSET Jobs : lost' = lost \cup what
      <3>1. {j} \in SUBSET Jobs /\ Fault({j}) /\ now' = now
        BY <2>3 DEF PostFails
      <3>. QED BY <2>1, <3>1
    <2>4. ASSUME NEW k \in Workers, WorkerStops(k)
          PROVE  /\ now' = now /\ faults' \in 0..MaxFaults
                 /\ \E what \in SUBSET Jobs : lost' = lost \cup what
      <3>1. worker[k].batch \in SUBSET Jobs /\ Fault(worker[k].batch) /\ now' = now
        BY <2>0, <2>4 DEF WorkerStops
      <3>. QED BY <2>1, <3>1
    <2>5. ASSUME \/ \E j \in Jobs : JobEnds(j)
                 \/ \E k \in Workers :
                       \/ ClaimTerminalJobs(k) \/ WorkerStarts(k)
                       \/ \E j \in Jobs : notifyTerminalJobs(k, j)
          PROVE  /\ now' = now /\ faults' \in 0..MaxFaults
                 /\ \E what \in SUBSET Jobs : lost' = lost \cup what
      <3>1. UNCHANGED <<now, lost, faults>>
        BY <2>5 DEF JobEnds, ClaimTerminalJobs, WorkerStarts, notifyTerminalJobs
      <3>2. lost' = lost \cup {} /\ {} \in SUBSET Jobs
        BY <3>1
      <3>. QED BY <2>0, <3>1, <3>2
    <2>. QED BY <2>2, <2>3, <2>4, <2>5 DEF Notifies
  <1>4. OtherTypes' /\ \A m \in Spellings : m \in lost' <=> m \in lost
    <2>1. now' \in Hours
      BY <1>0, <1>3, DeliveriesAssumption DEF OtherTypes, Hours
    <2>. QED BY <1>0, <1>2, <1>3, <2>1, DeliveriesAssumption DEF OtherTypes
  <1>5. WakesInv'
    BY <1>0, <1>2, <1>3, QuietWakes
  <1>6. BulkInv'
    <2>1. BulkTypes'
      BY <1>0, <1>2 DEF BulkInv, BulkTypes
    <2>. QED BY <1>0, <1>2, <1>4, <2>1, QuietBulk
  <1>. QED BY <1>1, <1>4, <1>5, <1>6 DEF DeliveriesIInv

\* A step of the bulk call.
LEMMA BulkSteps ==
  ASSUME DeliveriesIInv, Bulks
  PROVE  DeliveriesIInv'
  <1>0. WakesInv /\ OtherTypes /\ JobsInv /\ BulkInv /\ BulkTypes
    BY DEF DeliveriesIInv, BulkInv
  <1>1. BulkInv'
    <2>1. CASE CallerGone
      <3>1. /\ bulk' = [bulk EXCEPT !.gone = TRUE] /\ UNCHANGED issued /\ lost' = lost \cup {}
        BY <2>1 DEF CallerGone, Fault
      <3>2. /\ BulkTypes' /\ bulk'.ids = bulk.ids /\ bulk'.rows = bulk.rows /\ bulk'.pc = bulk.pc
        BY <1>0, <3>1 DEF BulkTypes
      <3>. QED BY <1>0, <3>1, <3>2, QuietBulk
    <2>2. CASE BulkReply
      <3>1. /\ bulk' = [bulk EXCEPT !.pc = "done"] /\ UNCHANGED <<issued, lost>>
            /\ bulk.pc = "reply"
        BY <2>2 DEF BulkReply
      <3>2. /\ BulkTypes' /\ bulk'.ids = bulk.ids /\ bulk'.rows = bulk.rows /\ bulk'.pc = "done"
        BY <1>0, <3>1 DEF BulkTypes
      <3>. QED BY <1>0, <3>1, <3>2, QuietBulk
    <2>. QED BY <1>0, <2>1, <2>2, StartBulk, IssueBulk, RefuseBulk, WakeBulk DEF Bulks
  <1>2. UNCHANGED <<job, worker, posted, agent, sent, now, machines>>
    BY DEF Bulks, bulkDeploy, issueViaBroker, IssueRefused, IssueAnswerLost, WakeIssued,
           CallerGone, BulkReply
  <1>3. OtherTypes'
    <2>1. (lost' = lost /\ faults' = faults) \/ \E what \in SUBSET Spellings : Fault(what)
      <3>1. CASE IssueAnswerLost
        <4>1. {Id} \in SUBSET Spellings /\ Fault({Id})
          BY <1>0, <3>1, AtMachine DEF IssueAnswerLost
        <4>. QED BY <4>1
      <3>2. CASE CallerGone
        <4>1. {} \in SUBSET Spellings /\ Fault({})
          BY <3>2 DEF CallerGone
        <4>. QED BY <4>1
      <3>3. CASE bulkDeploy \/ issueViaBroker \/ IssueRefused \/ WakeIssued \/ BulkReply
        BY <3>3 DEF bulkDeploy, issueViaBroker, IssueRefused, WakeIssued, BulkReply
      <3>. QED BY <3>1, <3>2, <3>3 DEF Bulks
    <2>. QED BY <1>0, <1>2, <2>1, DeliveriesAssumption DEF OtherTypes, Fault
  <1>4. WakesInv'
    <2>1. CASE wake' = wake
      BY <1>0, <1>2, <2>1, QuietWakes
    <2>2. CASE wake' # wake
      <3>1. WakeIssued
        BY <2>2 DEF Bulks, bulkDeploy, issueViaBroker, IssueRefused, IssueAnswerLost,
                    CallerGone, BulkReply
      <3>2. PICK w \in Wakes, site \in Sites :
               Machine \in machines \ NoMAC /\ CreateWakeRequest(w, Machine, site, now)
        BY <2>2, <3>1 DEF WakeIssued
      <3>3. Machine \in Machines /\ now \in Hours
        BY <1>0, <3>2 DEF OtherTypes
      <3>. QED BY <1>0, <1>2, <3>2, <3>3, CreateMove
    <2>. QED BY <2>1, <2>2
  <1>5. JobsInv'
    BY <1>0, <1>2, QuietJobs
  <1>. QED BY <1>1, <1>3, <1>4, <1>5 DEF DeliveriesIInv

\* DeliveriesIInv holds in every reachable state.
THEOREM DeliveriesInvariance == DeliveriesSpec => []DeliveriesIInv
  <1>1. DeliveriesIInv /\ [DeliveriesNext]_deliveriesVars => DeliveriesIInv'
    <2> SUFFICES ASSUME DeliveriesIInv, [DeliveriesNext]_deliveriesVars PROVE DeliveriesIInv'
      OBVIOUS
    <2>1. CASE UNCHANGED deliveriesVars
      <3>1. UNCHANGED <<now, machines, wake, agent, job, worker, bulk, issued, sent, posted, lost,
                        faults>>
        BY <2>1 DEF deliveriesVars
      <3>2. WakesInv' /\ JobsInv'
        BY <3>1, QuietWakes, QuietJobs DEF DeliveriesIInv
      <3>3. BulkTypes' /\ OtherTypes'
        BY <3>1 DEF DeliveriesIInv, BulkInv, BulkTypes, OtherTypes
      <3>. QED BY <3>1, <3>2, <3>3, QuietBulk DEF DeliveriesIInv
    <2>. QED BY <2>1, WakeSteps, JobSteps, BulkSteps DEF DeliveriesNext
  <1>. QED BY <1>1, InitDeliveries, PTL DEF DeliveriesSpec

\* The rows of the queues, the pollers and the bulk call keep their types.
THEOREM DeliveriesTypeCorrect == DeliveriesSpec => []DeliveriesTypeOK
  <1>1. DeliveriesIInv => DeliveriesTypeOK
    BY DeliveriesTypes DEF DeliveriesIInv, WakesInv, JobsInv, BulkInv
  <1>. QED BY <1>1, DeliveriesInvariance, PTL

\* ClaimDueWakeRequests and ClaimTerminalJobs mark a row before they hand it
\* out: whatever crashes or fails, it is delivered once at most, a wake by an
\* agent of its site and not before its time.
THEOREM Once == DeliveriesSpec => []AtMostOnce
  <1>1. DeliveriesIInv => AtMostOnce
    <2> SUFFICES ASSUME DeliveriesIInv PROVE AtMostOnce
      OBVIOUS
    <2>1. ASSUME NEW w \in Wakes
          PROVE  /\ Len(sent[w]) <= 1
                 /\ \A i \in DOMAIN sent[w] :
                       AgentSite[sent[w][i]] = wake[w].site /\ wake[w].at <= now
      <3>1. sent[w] \in Seq(Agents)
        BY DEF DeliveriesIInv, WakesInv, WakeTypes
      <3>2. CASE sent[w] = << >>
        BY <3>2
      <3>3. CASE sent[w] # << >>
        <4>1. /\ Len(sent[w]) = 1
              /\ AgentSite[sent[w][1]] = wake[w].site /\ wake[w].at <= now
          BY <3>3 DEF DeliveriesIInv, WakesInv, WakesSent
        <4>2. \A i \in DOMAIN sent[w] : i = 1
          BY <3>1, <4>1
        <4>. QED BY <4>1, <4>2
      <3>. QED BY <3>2, <3>3
    <2>2. \A j \in Jobs : posted[j] <= 1
      BY DEF DeliveriesIInv, JobsInv, JobsPosted
    <2>. QED BY <2>1, <2>2 DEF AtMostOnce
  <1>. QED BY <1>1, DeliveriesInvariance, PTL

\* bulkDeploy collects every code that was issued: one string, one row, and
\* the row has the code unless the broker's answer was lost.
THEOREM BulkTold == DeliveriesSpec => []BulkTellsAll
  <1>1. DeliveriesIInv => BulkTellsAll
    <2> SUFFICES ASSUME DeliveriesIInv, bulk.pc \in {"reply", "done"}
                 PROVE  /\ Len(bulk.rows) = Len(bulk.ids)
                        /\ \A m \in Spellings :
                              /\ issued[m] = Cardinality({i \in DOMAIN bulk.rows :
                                                 bulk.rows[i].machine = m /\ bulk.rows[i].code})
                                             + (IF m \in lost THEN 1 ELSE 0)
                              /\ issued[m] <= 1
                        /\ \A i \in DOMAIN bulk.rows : bulk.rows[i].wake # None => bulk.rows[i].code
      BY DEF BulkTellsAll
    <2>1. BulkAt /\ BulkIssued
      BY DEF DeliveriesIInv, BulkInv
    <2>2. ASSUME NEW m \in Spellings
          PROVE  /\ issued[m] = Cardinality({i \in DOMAIN bulk.rows :
                                    bulk.rows[i].machine = m /\ bulk.rows[i].code})
                                + (IF m \in lost THEN 1 ELSE 0)
                 /\ issued[m] <= 1
      <3> DEFINE C == {i \in DOMAIN bulk.rows : bulk.rows[i].machine = m /\ bulk.rows[i].code}
      <3>1. CASE \E i \in DOMAIN bulk.rows : bulk.ids[i] = m
        <4>1. PICK i \in DOMAIN bulk.rows : bulk.ids[i] = m
          BY <3>1
        <4>2. \A h \in DOMAIN bulk.rows : bulk.rows[h].machine = m <=> h = i
          BY <2>1, <4>1 DEF BulkAt
        <4>3. /\ bulk.rows[i].code => m \notin lost
              /\ issued[m] = IF bulk.rows[i].code \/ m \in lost THEN 1 ELSE 0
          BY <2>1, <4>1 DEF BulkIssued
        <4>4. CASE bulk.rows[i].code
          <5>1. C = {i}
            BY <4>2, <4>4
          <5>2. Cardinality(C) = 1
            BY <5>1, FS_Singleton
          <5>. QED BY <4>3, <4>4, <5>2
        <4>5. CASE ~bulk.rows[i].code
          <5>1. C = {}
            BY <4>2, <4>5
          <5>2. Cardinality(C) = 0
            BY <5>1, FS_EmptySet
          <5>. QED BY <4>3, <4>5, <5>2
        <4>. QED BY <4>4, <4>5
      <3>2. CASE ~\E i \in DOMAIN bulk.rows : bulk.ids[i] = m
        <4>1. m \notin lost /\ issued[m] = 0
          BY <2>1, <3>2 DEF BulkIssued
        <4>2. C = {}
          BY <2>1, <3>2 DEF BulkAt
        <4>3. Cardinality(C) = 0
          BY <4>2, FS_EmptySet
        <4>. QED BY <4>1, <4>3
      <3>. QED BY <3>1, <3>2
    <2>. QED BY <2>1, <2>2 DEF BulkAt
  <1>. QED BY <1>1, DeliveriesInvariance, PTL

=============================================================================
