---------------------------- MODULE Queues_proofs ----------------------------
(***************************************************************************)
(* The queues other threads fill for an owner.  MainThreadQueue implements *)
(* TaskQueue, for every set of jobs and every budget; the pending failure  *)
(* queue keeps the failures of every source apart, for any sources,        *)
(* failures and capacity; the module worker shows in its snapshot what it  *)
(* has answered, for any callers, capacity and number of requests.         *)
(***************************************************************************)
EXTENDS MainThreadQueue, PendingFailures, ModuleWorker, Selection_proofs, TLAPS

PhaseInv ==
  /\ phase = "job" <=> running # None
  /\ phase \in {"idle", "wave"} => batch = <<>>

IInv == TypeOK /\ PhaseInv

(* What the prover needs to know of concatenation.                          *)
LEMMA AppendConcat ==
  ASSUME NEW S, NEW s \in Seq(S), NEW t \in Seq(S), NEW e \in S
  PROVE  s \o Append(t, e) = Append(s \o t, e)
OBVIOUS

LEMMA HeadConcat ==
  ASSUME NEW S, NEW s \in Seq(S), NEW t \in Seq(S), s # <<>>
  PROVE  s \o t # <<>> /\ Head(s \o t) = Head(s) /\ Tail(s \o t) = Tail(s) \o t
OBVIOUS

LEMMA SeqEqual ==
  ASSUME NEW S, NEW s \in Seq(S), NEW t \in Seq(S), Len(s) = Len(t),
         \A i \in 1 .. Len(s) : s[i] = t[i]
  PROVE  s = t
OBVIOUS

LEMMA SplitConcat ==
  ASSUME NEW S, NEW s \in Seq(S), NEW n \in 0 .. Len(s)
  PROVE  SubSeq(s, 1, n) \o SubSeq(s, n + 1, Len(s)) = s
<1> DEFINE l == SubSeq(s, 1, n)
           r == SubSeq(s, n + 1, Len(s))
<1>1. l \in Seq(S) /\ Len(l) = n /\ \A i \in 1 .. n : l[i] = s[i]
  OBVIOUS
<1>2. r \in Seq(S) /\ Len(r) = Len(s) - n /\ \A i \in 1 .. Len(s) - n : r[i] = s[n + i]
  OBVIOUS
<1> HIDE DEF l, r
<1>3. l \o r \in Seq(S) /\ Len(l \o r) = Len(s)
  BY <1>1, <1>2
<1>4. ASSUME NEW i \in 1 .. Len(s) PROVE (l \o r)[i] = s[i]
  <2>3. i <= n \/ i > n
    OBVIOUS
  <2>1. CASE i <= n
    BY <1>1, <1>2, <2>1
  <2>2. CASE i > n
    <3>1. i - n \in 1 .. Len(s) - n /\ i \in 1 .. Len(l) + Len(r) /\ ~(i <= Len(l))
      BY <1>1, <1>2, <2>2
    <3>2. (l \o r)[i] = r[i - Len(l)]
      BY <1>1, <1>2, <3>1
    <3>3. r[i - n] = s[n + (i - n)] /\ n + (i - n) = i
      BY <1>2, <3>1
    <3> QED
      BY <1>1, <3>2, <3>3
  <2> QED
    BY <2>1, <2>2, <2>3
<1>5. l \o r = s
  BY <1>3, <1>4, SeqEqual
<1> QED
  BY <1>5 DEF l, r

LEMMA EmptyConcat ==
  ASSUME NEW S, NEW s \in Seq(S)
  PROVE  <<>> \o s = s
OBVIOUS

-----------------------------------------------------------------------------
USE DEF shared, drain

LEMMA InitInv == Init => IInv
<1> SUFFICES ASSUME Init PROVE IInv
  OBVIOUS
<1>1. pending \in Seq(Jobs) /\ batch \in Seq(Jobs) /\ served \in Seq(Jobs) /\ Len(batch) = 0
  BY DEF Init
<1> QED
  BY <1>1, QueueAssumption DEF Init, IInv, TypeOK, PhaseInv

LEMMA WaveFacts ==
  ASSUME IInv, TakeWave
  PROVE  /\ WaveSize \in 1 .. Len(pending) /\ WaveSize <= remaining
         /\ batch' \in Seq(Jobs) /\ pending' \in Seq(Jobs) /\ Len(batch') = WaveSize
<1>1. WaveSize \in 1 .. Len(pending) /\ WaveSize <= remaining
  BY QueueAssumption DEF TakeWave, WaveSize, IInv, TypeOK
<1> QED
  BY <1>1 DEF TakeWave, IInv, TypeOK

LEMMA StepInv ==
  ASSUME IInv, [Next]_vars
  PROVE  IInv'
<1> USE QueueAssumption DEF IInv, TypeOK, PhaseInv
<1>1. ASSUME NEW j \in Jobs, Enqueue(j) PROVE IInv'
  BY <1>1 DEF Enqueue
<1>2. CASE Clear
  <2>1. pending' \in Seq(Jobs)
    BY <1>2 DEF Clear
  <2> QED
    BY <1>2, <2>1 DEF Clear
<1>3. CASE DrainBegin
  BY <1>3 DEF DrainBegin, Budget
<1>4. CASE TakeWave
  BY <1>4, WaveFacts DEF TakeWave
<1>5. CASE DropWave
  <2>1. batch' \in Seq(Jobs) /\ Len(batch') = 0
    BY <1>5 DEF DropWave
  <2> QED
    BY <1>5, <2>1 DEF DropWave
<1>6. CASE StartJob
  <2>1. /\ Head(batch) \in Jobs /\ Tail(batch) \in Seq(Jobs)
        /\ Len(Tail(batch)) = Len(batch) - 1 /\ Len(batch) > 0
    BY <1>6 DEF StartJob
  <2> QED
    BY <1>6, <2>1 DEF StartJob
<1>7. CASE EndJob
  <2>1. served' \in Seq(Jobs)
    BY <1>7 DEF EndJob
  <2> QED
    BY <1>7, <2>1 DEF EndJob
<1>8. CASE NextWave
  BY <1>8 DEF NextWave
<1>9. CASE DrainEnd
  BY <1>9 DEF DrainEnd
<1>10. CASE PanicJob
  <2>1. served' \in Seq(Jobs) /\ pending' \in Seq(Jobs) /\ batch' \in Seq(Jobs) /\ Len(batch') = 0
    BY <1>10 DEF PanicJob, Restored
  <2> QED
    BY <1>10, <2>1 DEF PanicJob
<1>11. CASE UNCHANGED vars
  BY <1>11 DEF vars
<1> QED
  BY <1>1, <1>2, <1>3, <1>4, <1>5, <1>6, <1>7, <1>8, <1>9, <1>10, <1>11 DEF Next, DrainStep

(* A drain runs at most MaxPerDrain jobs: `remaining` never underflows.     *)
THEOREM WithinBudget == Spec => []TypeOK
<1>1. IInv => TypeOK
  BY DEF IInv
<1> QED
  BY <1>1, InitInv, StepInv, PTL DEF Spec

LEMMA StepPromise ==
  ASSUME IInv, [Next]_vars
  PROVE  [TQ!Next]_(TQ!tvars)
<1> USE DEF IInv, TypeOK, PhaseInv, Tasks, TQ!Next, TQ!tvars
<1>1. ASSUME NEW j \in Jobs, Enqueue(j) PROVE TQ!Post(j)
  <2>1. Tasks' = Append(Tasks, j)
    BY <1>1, AppendConcat DEF Enqueue
  <2> QED
    BY <1>1, <2>1 DEF Enqueue, TQ!Post
<1>2. CASE Clear
  <2>1. clearEpoch' # batchEpoch'
    BY <1>2 DEF Clear
  <2> QED
    BY <1>2, <2>1 DEF Clear, TQ!Clear
<1>3. CASE TakeWave
  <2>1. batch' \o pending' = pending
    <3>1. WaveSize \in 0 .. Len(pending)
      BY <1>3, WaveFacts
    <3> QED
      BY <1>3, <3>1, SplitConcat DEF TakeWave
  <2>2. Tasks = pending
    BY <1>3, EmptyConcat DEF TakeWave
  <2> QED
    BY <1>3, <2>1, <2>2 DEF TakeWave
<1>4. CASE StartJob
  <2>1. Tasks = batch \o pending /\ Tasks' = Tail(batch) \o pending
    BY <1>4 DEF StartJob
  <2>2. Tasks # <<>> /\ Head(Tasks) = Head(batch) /\ Tail(Tasks) = Tasks'
    BY <1>4, <2>1, HeadConcat DEF StartJob
  <2> QED
    BY <1>4, <2>2 DEF StartJob, TQ!Start
<1>5. CASE EndJob
  BY <1>5 DEF EndJob, TQ!End
<1>6. CASE PanicJob
  <2>1. <<>> \o pending' = pending' /\ pending' = Tasks
    BY <1>6, EmptyConcat DEF PanicJob, Restored
  <2>2. Tasks' = Tasks
    BY <1>6, <2>1 DEF PanicJob
  <2> QED
    BY <1>6, <2>2 DEF PanicJob, TQ!End
<1>7. CASE DrainBegin
  <2>1. <<>> \o pending = pending
    BY EmptyConcat
  <2> QED
    BY <1>7, <2>1 DEF DrainBegin
<1>8. CASE DropWave \/ NextWave \/ DrainEnd \/ UNCHANGED vars
  <2>1. <<>> \o pending = pending
    BY EmptyConcat
  <2> QED
    BY <1>8, <2>1 DEF DropWave, NextWave, DrainEnd, vars
<1> QED
  BY <1>1, <1>2, <1>3, <1>4, <1>5, <1>6, <1>7, <1>8 DEF Next, DrainStep

(* The queue implements its promise: jobs start in the order they were      *)
(* posted, none is lost or repeated by waves, budget or a panic, and only   *)
(* clear forgets.                                                           *)
THEOREM Implementation == Spec => KeepsPromise
<1>1. Init => TQ!Init
  BY DEF Init, TQ!Init, Tasks
<1> QED
  BY <1>1, InitInv, StepInv, StepPromise, PTL DEF Spec, KeepsPromise, TQ!Spec

-----------------------------------------------------------------------------
(* The pending failure queue.                                               *)

(* The failures of a source.                                                *)
Own(s) == {f \in Failures : Of[f] = s}

(* What the properties rest on: only a source that was flagged closes, and  *)
(* no enqueue holds the lock for one that has been emptied for good.        *)
OwnerInv == \A s \in Sources : owner[s] \in {"flagged", "zeroed", "closed"} => closed[s]
HolderInv == \A f \in Failures : holder = f => owner[Of[f]] # "closed"

FailuresInv ==
  FailuresTypeOK /\ OwnerInv /\ HolderInv /\ OwnFailuresAccounted /\ ClosedLeavesNothing

LEMMA QueuedIsOnly == ASSUME NEW s PROVE Queued(s) = Only(queue, Own(s))
BY DEF Queued, Own

(* A set of numbers that is not empty has a least one.                      *)
LEMMA LeastNat ==
  ASSUME NEW S \in SUBSET Nat, S # {}
  PROVE  \E m \in S : \A n \in S : m <= n
<1> SUFFICES ASSUME \A m \in S : \E n \in S : ~(m <= n) PROVE FALSE
  OBVIOUS
<1> DEFINE T == {n \in Nat : \A m \in S : n < m}
<1>1. 0 \in T
  <2>1. \A m \in S : m # 0
    OBVIOUS
  <2> QED
    BY <2>1
<1>2. ASSUME NEW n \in Nat, n \in T PROVE n + 1 \in T
  <2>1. \A m \in S : n + 1 <= m
    BY <1>2
  <2>2. n + 1 \notin S
    BY <2>1
  <2>3. \A m \in S : n + 1 < m
    BY <2>1, <2>2
  <2> QED
    BY <2>3
<1> HIDE DEF T
<1>3. Nat \subseteq T
  BY <1>1, <1>2, NatInduct
<1>4. PICK m \in S : TRUE
  OBVIOUS
<1>5. m \in T
  BY <1>3
<1> QED
  BY <1>5 DEF T

LEMMA FirstPlace ==
  ASSUME NEW s, FailuresTypeOK, Places(s) # {}
  PROVE  /\ Place(s) \in 1 .. Len(queue) /\ Of[queue[Place(s)]] = s
         /\ \A i \in 1 .. Place(s) - 1 : Of[queue[i]] # s
<1>1. queue \in Seq(Failures) /\ DOMAIN queue = 1 .. Len(queue) /\ Len(queue) \in Nat
  BY DEF FailuresTypeOK
<1>2. Places(s) \subseteq Nat
  BY <1>1 DEF Places
<1>3. \E m \in Places(s) : \A n \in Places(s) : m <= n
  BY <1>2, LeastNat
<1>4. Place(s) \in Places(s) /\ \A n \in Places(s) : Place(s) <= n
  BY <1>3 DEF Place, Min
<1> QED
  BY <1>1, <1>4 DEF Places

LEMMA ConcatType ==
  ASSUME NEW S, NEW s \in Seq(S), NEW t \in Seq(S)
  PROVE  s \o t \in Seq(S) /\ Len(s \o t) = Len(s) + Len(t)
OBVIOUS

(* A queue falls apart in what is before one of its failures, the failure   *)
(* and what is behind it.                                                   *)
LEMMA SplitAt ==
  ASSUME NEW E, NEW q \in Seq(E), NEW p \in 1 .. Len(q)
  PROVE  LET l == SubSeq(q, 1, p - 1)  r == SubSeq(q, p + 1, Len(q)) IN
         /\ l \in Seq(E) /\ r \in Seq(E) /\ q[p] \in E
         /\ RemoveAt(q, p) = l \o r /\ Len(l \o r) = Len(q) - 1
         /\ q = Append(l, q[p]) \o r
         /\ Len(l) = p - 1 /\ \A i \in 1 .. p - 1 : l[i] = q[i]
<1> DEFINE l == SubSeq(q, 1, p - 1)
           r == SubSeq(q, p + 1, Len(q))
           a == Append(l, q[p])
<1>1. Len(q) \in Nat /\ q[p] \in E
  OBVIOUS
<1>2. l \in Seq(E) /\ Len(l) = p - 1 /\ \A i \in 1 .. p - 1 : l[i] = q[i]
  BY <1>1
<1>3. r \in Seq(E) /\ Len(r) = Len(q) - p /\ \A i \in 1 .. Len(q) - p : r[i] = q[p + i]
  BY <1>1
<1>4. RemoveAt(q, p) = l \o r
  BY DEF RemoveAt
<1> HIDE DEF l, r
<1>5. a \in Seq(E) /\ Len(a) = p /\ a[p] = q[p] /\ \A i \in 1 .. p - 1 : a[i] = q[i]
  BY <1>1, <1>2
<1> HIDE DEF a
<1>6. a \o r \in Seq(E) /\ Len(a \o r) = Len(q)
  <2>1. a \o r \in Seq(E) /\ Len(a \o r) = Len(a) + Len(r)
    BY <1>3, <1>5, ConcatType
  <2> QED
    BY <1>1, <1>3, <1>5, <2>1
<1>7. ASSUME NEW i \in 1 .. Len(q) PROVE (a \o r)[i] = q[i]
  <2>1. CASE i <= p
    <3>1. (a \o r)[i] = a[i]
      BY <1>1, <1>3, <1>5, <2>1
    <3> QED
      BY <1>5, <2>1, <3>1
  <2>2. CASE i > p
    <3>1. i - p \in 1 .. Len(q) - p /\ p + (i - p) = i /\ ~(i <= Len(a))
      BY <1>1, <1>5, <2>2
    <3>2. (a \o r)[i] = r[i - p]
      BY <1>1, <1>3, <1>5, <2>2, <3>1
    <3> QED
      BY <1>3, <3>1, <3>2
  <2>3. i <= p \/ i > p
    BY <1>1
  <2> QED
    BY <2>1, <2>2, <2>3
<1>8. a \o r = q
  BY <1>6, <1>7, SeqEqual
<1>9. Len(l \o r) = Len(q) - 1
  <2>1. Len(l \o r) = Len(l) + Len(r)
    BY <1>2, <1>3, ConcatType
  <2> QED
    BY <1>1, <1>2, <1>3, <2>1
<1> QED
  BY <1>1, <1>2, <1>3, <1>4, <1>8, <1>9 DEF a, l, r
-----------------------------------------------------------------------------
USE DEF history

LEMMA FailuresInitInv == FailuresInit => FailuresInv
<1> SUFFICES ASSUME FailuresInit PROVE FailuresInv
  OBVIOUS
<1>1. queue = <<>> /\ queue \in Seq(Failures) /\ Len(queue) = 0 /\ <<>> \in Seq(Failures)
  BY DEF FailuresInit
<1>2. \A s \in Sources : Queued(s) = <<>>
  BY <1>1, OnlyEmpty DEF Queued
<1>3. FailuresTypeOK
  BY <1>1, CapacityAssumption DEF FailuresInit, FailuresTypeOK
<1>4. OwnFailuresAccounted
  <2>1. \A s \in Sources : given[s] = <<>> /\ accepted[s] = <<>> /\ told[s] + dropped[s] = lost[s]
    BY DEF FailuresInit
  <2>2. <<>> \o <<>> = <<>>
    BY <1>1, EmptyConcat
  <2> QED
    BY <1>2, <2>1, <2>2 DEF OwnFailuresAccounted
<1> QED
  BY <1>2, <1>3, <1>4, SourceAssumption
     DEF FailuresInit, FailuresInv, OwnerInv, HolderInv, ClosedLeavesNothing

(* A step that leaves the queue alone leaves alone what it holds of each.   *)
LEMMA SameQueued ==
  ASSUME UNCHANGED queue, NEW s
  PROVE  Queued(s)' = Queued(s)
BY DEF Queued

LEMMA QueuedType ==
  ASSUME FailuresTypeOK, NEW s
  PROVE  Queued(s) \in Seq(Failures)
BY OnlyType DEF Queued, FailuresTypeOK

(* A failure that is queued comes last of its source's.                     *)
LEMMA PutQueued ==
  ASSUME FailuresTypeOK, NEW f \in Failures, queue' = Append(queue, f), NEW s
  PROVE  Queued(s)' = IF Of[f] = s THEN Append(Queued(s), f) ELSE Queued(s)
<1>1. Only(Append(queue, f), Own(s)) =
        IF f \in Own(s) THEN Append(Only(queue, Own(s)), f) ELSE Only(queue, Own(s))
  BY OnlyAppend DEF FailuresTypeOK
<1> QED
  BY <1>1 DEF Queued, Own

(* A source is given the first failure of its own; the others keep theirs.  *)
LEMMA TakeQueued ==
  ASSUME FailuresTypeOK, NEW s, Places(s) # {}, queue' = RemoveAt(queue, Place(s))
  PROVE  /\ queue' \in Seq(Failures) /\ Len(queue') = Len(queue) - 1
         /\ queue[Place(s)] \in Failures
         /\ Queued(s) = Append(<<>>, queue[Place(s)]) \o Queued(s)'
         /\ \A t : t # s => Queued(t)' = Queued(t)
<1> DEFINE p == Place(s)
           f == queue[p]
           l == SubSeq(queue, 1, p - 1)
           r == SubSeq(queue, p + 1, Len(queue))
<1>1. queue \in Seq(Failures) /\ p \in 1 .. Len(queue) /\ Of[f] = s
      /\ \A i \in 1 .. p - 1 : Of[queue[i]] # s
  BY FirstPlace DEF FailuresTypeOK
<1> HIDE DEF p
<1>2. /\ l \in Seq(Failures) /\ r \in Seq(Failures) /\ f \in Failures
      /\ RemoveAt(queue, p) = l \o r /\ Len(l \o r) = Len(queue) - 1
      /\ queue = Append(l, f) \o r
      /\ Len(l) = p - 1 /\ \A i \in 1 .. p - 1 : l[i] = queue[i]
  BY <1>1, SplitAt
<1>3. queue' = l \o r
  BY <1>2 DEF p
<1> HIDE DEF f, l, r
<1>4. Append(l, f) \in Seq(Failures)
  BY <1>2
<1>5. ASSUME NEW t
      PROVE  /\ Queued(t) = Only(Append(l, f), Own(t)) \o Only(r, Own(t))
             /\ Queued(t)' = Only(l, Own(t)) \o Only(r, Own(t))
             /\ Only(Append(l, f), Own(t)) =
                  IF f \in Own(t) THEN Append(Only(l, Own(t)), f) ELSE Only(l, Own(t))
             /\ Only(r, Own(t)) \in Seq(Failures)
  <2>1. Only(Append(l, f) \o r, Own(t)) = Only(Append(l, f), Own(t)) \o Only(r, Own(t))
    BY <1>2, <1>4, OnlyConcat
  <2>2. Only(l \o r, Own(t)) = Only(l, Own(t)) \o Only(r, Own(t))
    BY <1>2, OnlyConcat
  <2>3. Queued(t) = Only(queue, Own(t)) /\ Queued(t)' = Only(queue', Own(t))
    BY DEF Queued, Own
  <2>4. Only(Append(l, f), Own(t)) =
          IF f \in Own(t) THEN Append(Only(l, Own(t)), f) ELSE Only(l, Own(t))
    BY <1>2, OnlyAppend
  <2>5. Only(r, Own(t)) \in Seq(Failures)
    BY <1>2, OnlyType
  <2> QED
    BY <1>2, <1>3, <2>1, <2>2, <2>3, <2>4, <2>5
<1>6. Only(l, Own(s)) = <<>>
  <2>1. DOMAIN l = 1 .. p - 1
    BY <1>1, <1>2
  <2>2. Elements(l) \cap Own(s) = {}
    BY <1>1, <1>2, <2>1 DEF Elements, Own
  <2> QED
    BY <1>2, <2>2, OnlyNone
<1>7. Queued(s) = Append(<<>>, f) \o Queued(s)'
  <2>1. f \in Own(s)
    BY <1>1, <1>2 DEF Own, f
  <2>2. <<>> \o Only(r, Own(s)) = Only(r, Own(s))
    BY <1>5, EmptyConcat
  <2> QED
    BY <1>5, <1>6, <2>1, <2>2
<1>8. ASSUME NEW t, t # s PROVE Queued(t)' = Queued(t)
  <2>1. f \notin Own(t)
    BY <1>1, <1>8 DEF Own, f
  <2> QED
    BY <1>5, <2>1
<1>9. queue' \in Seq(Failures) /\ Len(queue') = Len(queue) - 1
  BY <1>2, <1>3, ConcatType
<1> QED
  BY <1>2, <1>7, <1>8, <1>9 DEF f, p

(* A source that closes is thinned out of the queue, the others keep theirs.*)
LEMMA RetainQueued ==
  ASSUME FailuresTypeOK, NEW s, queue' = Only(queue, {f \in Failures : Of[f] # s})
  PROVE  /\ queue' \in Seq(Failures) /\ Len(queue') <= Len(queue)
         /\ Queued(s)' = <<>>
         /\ \A t : t # s => Queued(t)' = Queued(t)
<1> DEFINE Others == {f \in Failures : Of[f] # s}
<1>1. queue \in Seq(Failures)
  BY DEF FailuresTypeOK
<1>2. \A t : Queued(t)' = Only(queue, Others \cap Own(t))
  <2>1. \A t : Queued(t)' = Only(Only(queue, Others), Own(t))
    BY DEF Queued, Own
  <2> QED
    BY <1>1, <2>1, OnlyOnly
<1>3. Others \cap Own(s) = {} /\ \A t : t # s => Others \cap Own(t) = Own(t)
  BY DEF Own
<1>4. Elements(queue) \cap {} = {}
  OBVIOUS
<1>5. Only(queue, {}) = <<>>
  BY <1>1, <1>4, OnlyNone
<1>6. \A t : Queued(t) = Only(queue, Own(t))
  BY DEF Queued, Own
<1>7. queue' \in Seq(Failures) /\ Len(queue') <= Len(queue)
  BY <1>1, OnlyType, OnlyShorter
<1> HIDE DEF Others
<1> QED
  BY <1>2, <1>3, <1>5, <1>6, <1>7
(* Concatenation under a name of its own, which the provers do not rewrite. *)
Glue(s, t) == s \o t

LEMMA PutGlued ==
  ASSUME NEW S, NEW g \in Seq(S), NEW q \in Seq(S), NEW e \in S
  PROVE  Glue(g, Append(q, e)) = Append(Glue(g, q), e)
BY DEF Glue

LEMMA TakeGlued ==
  ASSUME NEW S, NEW g \in Seq(S), NEW e \in S, NEW q \in Seq(S)
  PROVE  Glue(Append(g, e), q) = Glue(g, Glue(Append(<<>>, e), q))
BY DEF Glue

LEMMA FailuresStep ==
  ASSUME FailuresInv, [FailuresNext]_failureVars
  PROVE  FailuresInv'
<1>0. /\ FailuresTypeOK /\ OwnerInv /\ HolderInv /\ ClosedLeavesNothing /\ OwnFailuresAccounted
      /\ Of \in [Failures -> Sources] /\ Nobody \notin Failures
  BY SourceAssumption DEF FailuresInv
<1>q. ASSUME UNCHANGED queue PROVE \A s : Queued(s)' = Queued(s)
  BY <1>q, SameQueued
<1>p. FailuresTypeOK' /\ OwnerInv' /\ HolderInv' /\ ClosedLeavesNothing' /\ OwnFailuresAccounted'
      => FailuresInv'
  BY DEF FailuresInv
<1>1. ASSUME NEW f \in Failures, EnqueueCheck(f) PROVE FailuresInv'
  <2>1. FailuresTypeOK'
    BY <1>0, <1>1 DEF EnqueueCheck, FailuresTypeOK
  <2>2. OwnerInv' /\ HolderInv'
    BY <1>0, <1>1 DEF EnqueueCheck, OwnerInv, HolderInv, FailuresTypeOK
  <2>3. ClosedLeavesNothing'
    BY <1>0, <1>1, <1>q DEF EnqueueCheck, ClosedLeavesNothing, FailuresTypeOK
  <2>4. OwnFailuresAccounted'
    BY <1>0, <1>1, <1>q DEF EnqueueCheck, OwnFailuresAccounted, FailuresTypeOK
  <2> QED
    BY <1>p, <2>1, <2>2, <2>3, <2>4
<1>2. ASSUME NEW f \in Failures, EnqueueLock(f) PROVE FailuresInv'
  <2>1. FailuresTypeOK'
    BY <1>0, <1>2 DEF EnqueueLock, Refused, FailuresTypeOK
  <2>2. OwnerInv' /\ HolderInv'
    BY <1>0, <1>2 DEF EnqueueLock, Refused, OwnerInv, HolderInv, FailuresTypeOK
  <2>3. ClosedLeavesNothing'
    BY <1>0, <1>2, <1>q DEF EnqueueLock, Refused, ClosedLeavesNothing, FailuresTypeOK
  <2>4. OwnFailuresAccounted'
    BY <1>0, <1>2, <1>q DEF EnqueueLock, Refused, OwnFailuresAccounted, FailuresTypeOK
  <2> QED
    BY <1>p, <2>1, <2>2, <2>3, <2>4
<1>3. ASSUME NEW f \in Failures, EnqueuePut(f) PROVE FailuresInv'
  <2>1. FailuresTypeOK'
    <3>1. queue \in Seq(Failures) /\ Append(queue, f) \in Seq(Failures)
          /\ Len(Append(queue, f)) = Len(queue) + 1 /\ Len(queue) \in Nat
      BY <1>0 DEF FailuresTypeOK
    <3>2. Append(accepted[Of[f]], f) \in Seq(Failures) /\ Of[f] \in Sources /\ Capacity \in Nat
      BY <1>0, CapacityAssumption DEF FailuresTypeOK
    <3>3. CASE Full
      <4>1. /\ dropped' = [dropped EXCEPT ![Of[f]] = dropped[Of[f]] + 1]
            /\ lost' = [lost EXCEPT ![Of[f]] = lost[Of[f]] + 1]
        BY <1>3, <3>3 DEF EnqueuePut
      <4>2. dropped[Of[f]] + 1 \in Nat /\ lost[Of[f]] + 1 \in Nat
        BY <1>0, <3>2 DEF FailuresTypeOK
      <4>3. dropped' \in [Sources -> Nat] /\ lost' \in [Sources -> Nat]
        BY <1>0, <3>2, <4>1, <4>2 DEF FailuresTypeOK
      <4> QED
        BY <1>0, <1>3, <3>3, <4>3 DEF EnqueuePut, FailuresTypeOK
    <3>4. CASE ~Full
      <4>1. Len(queue) + 1 <= Capacity
        BY <3>1, <3>2, <3>4 DEF Full
      <4> QED
        BY <1>0, <1>3, <3>1, <3>2, <3>4, <4>1 DEF EnqueuePut, FailuresTypeOK
    <3> QED
      BY <3>3, <3>4
  <2>2. OwnerInv' /\ HolderInv'
    BY <1>0, <1>3 DEF EnqueuePut, Full, OwnerInv, HolderInv, FailuresTypeOK
  <2>3. ClosedLeavesNothing'
    <3>1. owner[Of[f]] # "closed" /\ UNCHANGED owner
      BY <1>0, <1>3 DEF EnqueuePut, HolderInv
    <3>2. \A s : Of[f] # s => Queued(s)' = Queued(s)
      BY <1>0, <1>3, <1>q, PutQueued DEF EnqueuePut
    <3> QED
      BY <1>0, <3>1, <3>2 DEF ClosedLeavesNothing
  <2>4. OwnFailuresAccounted'
    <3> SUFFICES ASSUME NEW s \in Sources, ~closed'[s]
                 PROVE  /\ given'[s] \o Queued(s)' = accepted'[s]
                        /\ told'[s] + dropped'[s] = lost'[s]
      BY DEF OwnFailuresAccounted
    <3>1. given[s] \o Queued(s) = accepted[s] /\ told[s] + dropped[s] = lost[s]
      BY <1>0, <1>3 DEF EnqueuePut, OwnFailuresAccounted
    <3>2. UNCHANGED <<given, told>>
      BY <1>3 DEF EnqueuePut
    <3>3. CASE Full
      <4>1. Queued(s)' = Queued(s) /\ UNCHANGED accepted
        BY <1>3, <1>q, <3>3 DEF EnqueuePut
      <4>2. told[s] + dropped'[s] = lost'[s]
        <5>1. told[s] \in Nat /\ dropped[s] \in Nat /\ lost[s] \in Nat
          BY <1>0 DEF FailuresTypeOK
        <5>2. \/ Of[f] # s /\ dropped'[s] = dropped[s] /\ lost'[s] = lost[s]
              \/ Of[f] = s /\ dropped'[s] = dropped[s] + 1 /\ lost'[s] = lost[s] + 1
          BY <1>0, <1>3, <3>3 DEF EnqueuePut, FailuresTypeOK
        <5>3. told[s] + dropped[s] = lost[s]
          BY <3>1
        <5> QED
          BY <5>1, <5>2, <5>3
      <4> QED
        BY <3>1, <3>2, <4>1, <4>2
    <3>4. CASE ~Full
      <4>1. Queued(s)' = IF Of[f] = s THEN Append(Queued(s), f) ELSE Queued(s)
        BY <1>0, <1>3, <3>4, PutQueued DEF EnqueuePut
      <4>2. given[s] \o Append(Queued(s), f) = Append(given[s] \o Queued(s), f)
        <5>1. given[s] \in Seq(Failures) /\ Queued(s) \in Seq(Failures)
          BY <1>0, QueuedType DEF FailuresTypeOK
        <5>2. Glue(given[s], Append(Queued(s), f)) = Append(Glue(given[s], Queued(s)), f)
          BY <5>1, PutGlued
        <5> QED
          BY <5>2 DEF Glue
      <4>3. accepted'[s] = IF Of[f] = s THEN Append(accepted[s], f) ELSE accepted[s]
        <5>1. accepted' = [accepted EXCEPT ![Of[f]] = Append(accepted[Of[f]], f)]
          BY <1>3, <3>4 DEF EnqueuePut
        <5> QED
          BY <1>0, <5>1 DEF FailuresTypeOK
      <4>4. UNCHANGED <<dropped, lost>>
        BY <1>3, <3>4 DEF EnqueuePut
      <4> QED
        BY <3>1, <3>2, <4>1, <4>2, <4>3, <4>4
    <3> QED
      BY <3>3, <3>4
  <2> QED
    BY <1>p, <2>1, <2>2, <2>3, <2>4
<1>4. ASSUME NEW s \in Sources, TakeCheck(s) PROVE FailuresInv'
  <2>1. FailuresTypeOK'
    BY <1>0, <1>4 DEF TakeCheck, FailuresTypeOK
  <2>2. OwnerInv' /\ HolderInv'
    BY <1>0, <1>4 DEF TakeCheck, OwnerInv, HolderInv, FailuresTypeOK
  <2>3. ClosedLeavesNothing'
    BY <1>0, <1>4, <1>q DEF TakeCheck, ClosedLeavesNothing, FailuresTypeOK
  <2>4. OwnFailuresAccounted'
    BY <1>0, <1>4, <1>q DEF TakeCheck, OwnFailuresAccounted, FailuresTypeOK
  <2> QED
    BY <1>p, <2>1, <2>2, <2>3, <2>4
<1>5. ASSUME NEW s \in Sources, TakeLocked(s) PROVE FailuresInv'
  <2>1. FailuresTypeOK'
    <3>1. CASE Places(s) = {}
      BY <1>0, <1>5, <3>1 DEF TakeLocked, FailuresTypeOK
    <3>2. CASE Places(s) # {}
      <4>1. queue' \in Seq(Failures) /\ Len(queue') = Len(queue) - 1 /\ queue[Place(s)] \in Failures
        BY <1>0, <1>5, <3>2, TakeQueued DEF TakeLocked
      <4>2. Len(queue) \in Nat /\ Len(queue') <= Capacity
        <5>1. Len(queue) \in Nat /\ Capacity \in Nat /\ Len(queue) <= Capacity
          BY <1>0, CapacityAssumption DEF FailuresTypeOK
        <5> QED
          BY <4>1, <5>1
      <4>3. given[s] \in Seq(Failures) /\ Append(given[s], queue[Place(s)]) \in Seq(Failures)
        BY <1>0, <4>1 DEF FailuresTypeOK
      <4> QED
        <5>1. /\ given' = [given EXCEPT ![s] = Append(given[s], queue[Place(s)])]
              /\ owner' = [owner EXCEPT ![s] = "idle"]
              /\ UNCHANGED <<dropped, closed, holder, call, accepted, lost, told>>
          BY <1>5, <3>2 DEF TakeLocked
        <5>2. given' \in [Sources -> Seq(Failures)]
          BY <1>0, <4>3, <5>1 DEF FailuresTypeOK
        <5> QED
          BY <1>0, <4>1, <4>2, <5>1, <5>2 DEF FailuresTypeOK
    <3> QED
      BY <3>1, <3>2
  <2>2. OwnerInv' /\ HolderInv'
    BY <1>0, <1>5 DEF TakeLocked, OwnerInv, HolderInv, FailuresTypeOK
  <2>3. ClosedLeavesNothing'
    <3>1. owner'[s] # "closed" /\ \A t \in Sources : t # s => owner'[t] = owner[t]
      BY <1>0, <1>5 DEF TakeLocked, FailuresTypeOK
    <3>2. \A t : t # s => Queued(t)' = Queued(t)
      BY <1>0, <1>5, <1>q, TakeQueued DEF TakeLocked
    <3> QED
      BY <1>0, <3>1, <3>2 DEF ClosedLeavesNothing
  <2>4. OwnFailuresAccounted'
    <3> SUFFICES ASSUME NEW t \in Sources, ~closed'[t]
                 PROVE  /\ given'[t] \o Queued(t)' = accepted'[t]
                        /\ told'[t] + dropped'[t] = lost'[t]
      BY DEF OwnFailuresAccounted
    <3>1. /\ given[t] \o Queued(t) = accepted[t] /\ told[t] + dropped[t] = lost[t]
          /\ UNCHANGED <<accepted, told, dropped, lost>>
      BY <1>0, <1>5 DEF TakeLocked, OwnFailuresAccounted
    <3>2. CASE Places(s) = {}
      BY <1>5, <1>q, <3>1, <3>2 DEF TakeLocked
    <3>3. CASE Places(s) # {} /\ t # s
      <4>1. Queued(t)' = Queued(t)
        BY <1>0, <1>5, <3>3, TakeQueued DEF TakeLocked
      <4>2. given'[t] = given[t]
        BY <1>0, <1>5, <3>3 DEF TakeLocked, FailuresTypeOK
      <4> QED
        BY <3>1, <4>1, <4>2
    <3>4. CASE Places(s) # {} /\ t = s
      <4>1. /\ queue[Place(s)] \in Failures /\ queue' \in Seq(Failures)
            /\ Queued(s) = Append(<<>>, queue[Place(s)]) \o Queued(s)'
        BY <1>0, <1>5, <3>4, TakeQueued DEF TakeLocked
      <4>2. given'[s] = Append(given[s], queue[Place(s)]) /\ given[s] \in Seq(Failures)
        BY <1>0, <1>5, <3>4 DEF TakeLocked, FailuresTypeOK
      <4>3. Queued(s)' \in Seq(Failures)
        BY <2>1, <4>1, OnlyType DEF Queued
      <4>4. Append(given[s], queue[Place(s)]) \o Queued(s)'
              = given[s] \o (Append(<<>>, queue[Place(s)]) \o Queued(s)')
        <5>1. Glue(Append(given[s], queue[Place(s)]), Queued(s)')
                = Glue(given[s], Glue(Append(<<>>, queue[Place(s)]), Queued(s)'))
          BY <4>1, <4>2, <4>3, TakeGlued
        <5> QED
          BY <5>1 DEF Glue
      <4> QED
        BY <3>1, <3>4, <4>1, <4>2, <4>4
    <3> QED
      BY <3>2, <3>3, <3>4
  <2> QED
    BY <1>p, <2>1, <2>2, <2>3, <2>4
<1>6. ASSUME NEW s \in Sources, TakeDropped(s) PROVE FailuresInv'
  <2>1. FailuresTypeOK'
    <3>1. told[s] + dropped[s] \in Nat
      BY <1>0 DEF FailuresTypeOK
    <3>2. told' \in [Sources -> Nat] /\ dropped' \in [Sources -> Nat]
      BY <1>0, <1>6, <3>1 DEF TakeDropped, LeftOver, FailuresTypeOK
    <3> QED
      BY <1>0, <1>6, <3>2 DEF TakeDropped, FailuresTypeOK
  <2>2. OwnerInv' /\ HolderInv'
    BY <1>0, <1>6 DEF TakeDropped, LeftOver, OwnerInv, HolderInv, FailuresTypeOK
  <2>3. ClosedLeavesNothing'
    BY <1>0, <1>6, <1>q DEF TakeDropped, LeftOver, ClosedLeavesNothing, FailuresTypeOK
  <2>4. OwnFailuresAccounted'
    <3> SUFFICES ASSUME NEW t \in Sources, ~closed'[t]
                 PROVE  /\ given'[t] \o Queued(t)' = accepted'[t]
                        /\ told'[t] + dropped'[t] = lost'[t]
      BY DEF OwnFailuresAccounted
    <3>1. /\ given[t] \o Queued(t) = accepted[t] /\ told[t] + dropped[t] = lost[t]
          /\ UNCHANGED <<given, accepted, lost>> /\ Queued(t)' = Queued(t)
      BY <1>0, <1>6, <1>q DEF TakeDropped, OwnFailuresAccounted
    <3>2. told[t] \in Nat /\ dropped[t] \in Nat
      BY <1>0 DEF FailuresTypeOK
    <3>3. \/ t # s /\ told'[t] = told[t] /\ dropped'[t] = dropped[t]
          \/ t = s /\ told'[t] = told[t] + dropped[t] /\ dropped'[t] = 0
      BY <1>0, <1>6 DEF TakeDropped, LeftOver, FailuresTypeOK
    <3> QED
      BY <3>1, <3>2, <3>3
  <2> QED
    BY <1>p, <2>1, <2>2, <2>3, <2>4
<1>7. ASSUME NEW s \in Sources, CloseFlag(s) PROVE FailuresInv'
  <2>1. FailuresTypeOK'
    BY <1>0, <1>7 DEF CloseFlag, FailuresTypeOK
  <2>2. OwnerInv' /\ HolderInv'
    BY <1>0, <1>7 DEF CloseFlag, OwnerInv, HolderInv, FailuresTypeOK
  <2>3. ClosedLeavesNothing'
    BY <1>0, <1>7, <1>q DEF CloseFlag, ClosedLeavesNothing, FailuresTypeOK
  <2>4. OwnFailuresAccounted'
    BY <1>0, <1>7, <1>q DEF CloseFlag, OwnFailuresAccounted, FailuresTypeOK
  <2> QED
    BY <1>p, <2>1, <2>2, <2>3, <2>4
<1>8. ASSUME NEW s \in Sources, CloseCounter(s) PROVE FailuresInv'
  <2>1. FailuresTypeOK'
    BY <1>0, <1>8 DEF CloseCounter, FailuresTypeOK
  <2>2. OwnerInv' /\ HolderInv'
    BY <1>0, <1>8 DEF CloseCounter, OwnerInv, HolderInv, FailuresTypeOK
  <2>3. ClosedLeavesNothing'
    BY <1>0, <1>8, <1>q DEF CloseCounter, ClosedLeavesNothing, FailuresTypeOK
  <2>4. OwnFailuresAccounted'
    <3> SUFFICES ASSUME NEW t \in Sources, ~closed'[t]
                 PROVE  /\ given'[t] \o Queued(t)' = accepted'[t]
                        /\ told'[t] + dropped'[t] = lost'[t]
      BY DEF OwnFailuresAccounted
    <3>1. t # s /\ ~closed[t]
      BY <1>0, <1>8 DEF CloseCounter, OwnerInv
    <3>2. dropped'[t] = dropped[t]
      BY <1>0, <1>8, <3>1 DEF CloseCounter, FailuresTypeOK
    <3> QED
      BY <1>0, <1>8, <1>q, <3>1, <3>2 DEF CloseCounter, OwnFailuresAccounted
  <2> QED
    BY <1>p, <2>1, <2>2, <2>3, <2>4
<1>9. ASSUME NEW s \in Sources, CloseRetain(s) PROVE FailuresInv'
  <2>1. FailuresTypeOK'
    <3>1. queue' \in Seq(Failures) /\ Len(queue') <= Len(queue)
      BY <1>0, <1>9, RetainQueued DEF CloseRetain
    <3>2. Len(queue) \in Nat /\ Len(queue') <= Capacity
      BY <1>0, <3>1, CapacityAssumption DEF FailuresTypeOK
    <3> QED
      BY <1>0, <1>9, <3>1, <3>2 DEF CloseRetain, FailuresTypeOK
  <2>2. OwnerInv' /\ HolderInv'
    BY <1>0, <1>9 DEF CloseRetain, OwnerInv, HolderInv, FailuresTypeOK
  <2>3. ClosedLeavesNothing'
    <3>1. Queued(s)' = <<>> /\ \A t : t # s => Queued(t)' = Queued(t)
      BY <1>0, <1>9, RetainQueued DEF CloseRetain
    <3>2. \A t \in Sources : t # s => owner'[t] = owner[t]
      BY <1>0, <1>9 DEF CloseRetain, FailuresTypeOK
    <3> QED
      BY <1>0, <3>1, <3>2 DEF ClosedLeavesNothing
  <2>4. OwnFailuresAccounted'
    <3>1. closed[s] /\ UNCHANGED <<closed, given, accepted, told, dropped, lost>>
      BY <1>0, <1>9 DEF CloseRetain, OwnerInv
    <3>2. \A t : t # s => Queued(t)' = Queued(t)
      BY <1>0, <1>9, RetainQueued DEF CloseRetain
    <3> QED
      BY <1>0, <3>1, <3>2 DEF OwnFailuresAccounted
  <2> QED
    BY <1>p, <2>1, <2>2, <2>3, <2>4
<1>10. CASE UNCHANGED failureVars
  <2>1. FailuresTypeOK'
    BY <1>0, <1>10 DEF failureVars, FailuresTypeOK
  <2>2. OwnerInv' /\ HolderInv'
    BY <1>0, <1>10 DEF failureVars, OwnerInv, HolderInv
  <2>3. ClosedLeavesNothing' /\ OwnFailuresAccounted'
    BY <1>0, <1>10, <1>q DEF failureVars, ClosedLeavesNothing, OwnFailuresAccounted
  <2> QED
    BY <1>p, <2>1, <2>2, <2>3
<1> QED
  BY <1>1, <1>2, <1>3, <1>4, <1>5, <1>6, <1>7, <1>8, <1>9, <1>10 DEF FailuresNext

THEOREM FailuresInductive == FailuresSpec => []FailuresInv
BY FailuresInitInv, FailuresStep, PTL DEF FailuresSpec

(* The queue of pending failures never grows beyond its capacity, for any   *)
(* number of sources and callbacks (enqueue).                               *)
THEOREM FailuresTypeCorrect == FailuresSpec => []FailuresTypeOK
<1>1. FailuresInv => FailuresTypeOK
  BY DEF FailuresInv
<1> QED
  BY <1>1, FailuresInductive, PTL

(* What the owner of an open source took and what is queued for it are what *)
(* was accepted for it, in that order, and every drop is counted or told.   *)
THEOREM FailuresAccounted == FailuresSpec => []OwnFailuresAccounted
<1>1. FailuresInv => OwnFailuresAccounted
  BY DEF FailuresInv
<1> QED
  BY <1>1, FailuresInductive, PTL

(* A source that was closed has nothing queued any more, though a callback  *)
(* may have passed its first check before and come late.                    *)
THEOREM ClosedEmpty == FailuresSpec => []ClosedLeavesNothing
<1>1. FailuresInv => ClosedLeavesNothing
  BY DEF FailuresInv
<1> QED
  BY <1>1, FailuresInductive, PTL

-----------------------------------------------------------------------------
(* The module worker.  WorkerInv says where every accepted request that has *)
(* no answer yet is, and what the snapshot shows of it meanwhile.           *)

SnapType == [active : BOOLEAN, shown : BOOLEAN, seq : 0 .. MaxSeq, pend : SUBSET Seqs]
AtType == [pc : WorkerPlaces, seq : 0 .. MaxSeq, progressed : BOOLEAN, awaits : Nat]

WorkerShape ==
  /\ life \in 0 .. 2 /\ next \in 0 .. MaxSeq
  /\ chan \in Seq([seq : Seqs, kind : Kinds])
  /\ control \in [Stages -> {"idle", "set", "cancelled", "done"}]
  /\ snap \in SnapType /\ at \in AtType
  /\ answer \in [Seqs -> {"none", "sent", "dropped"}]
  /\ inFlight \subseteq Seqs /\ stopped \subseteq Seqs

(* The channel holds the last requests, in their order.                     *)
Received == next - Len(chan)
ChanInv == Received \in Nat /\ \A i \in DOMAIN chan : chan[i].seq = Received + i

LifeInv ==
  /\ \A c \in Stages : control[c] # "idle" => life # 0
  /\ ~snap.active => life # 0 /\ ~snap.shown /\ snap.pend = {}
  /\ at.pc \in {"exit", "closing", "done"} => life # 0

(* A request taken out of the channel is in the worker's hand, in flight or *)
(* among those a replacement stops, in one of them, until it is answered.   *)
Fresh == {"sync", "async", "replace", "stop", "receipts"}
Driven == {"drive", "begin", "start", "port", "publish", "reply"}
InHand == at.pc \in Fresh \cup Driven
Open(s) == (InHand /\ s = at.seq) \/ s \in inFlight \/ s \in stopped

CustodyInv ==
  /\ InHand => at.seq \in Seqs /\ at.seq \notin inFlight /\ at.seq \notin stopped
  /\ inFlight \cap stopped = {}
  /\ \A s \in Seqs : Open(s) <=> s <= Received /\ answer[s] = "none"
  /\ \A s \in Seqs : s > Received => answer[s] = "none"
  /\ at.pc \in {"stop", "receipts"} => stopped # {} /\ inFlight = {}
  /\ at.pc \notin {"stop", "receipts"} => stopped = {}

(* What the snapshot shows.  Until something of a fresh request is          *)
(* published, the sequence does not cover it; every task in flight is       *)
(* listed, as the one that is driven was.                                   *)
FreshInv ==
  at.pc \in Fresh => /\ snap.seq < at.seq
                     /\ \A s \in inFlight \cup stopped : s < at.seq
ListedInv ==
  snap.active =>
    /\ inFlight \subseteq snap.pend
    /\ at.pc \in {"start", "port"} => at.seq \in snap.pend
    /\ at.pc \in {"drive", "begin"} => at.seq \in snap.pend \/ snap.seq < at.seq
VisibleInv ==
  life = 0 =>
    /\ at.pc = "receipts" => \A s \in stopped : s <= snap.seq /\ s \notin snap.pend
    /\ at.pc = "reply" => at.seq <= snap.seq /\ at.seq \notin snap.pend

WorkerInv ==
  /\ WorkerShape /\ ChanInv /\ LifeInv /\ CustodyInv /\ FreshInv /\ ListedInv
  /\ VisibleInv /\ AnswerIsVisible /\ snap.seq <= Received

(* What WorkerInv is about; a step that leaves all of it alone keeps it.    *)
Concerned == <<life, control, snap, next, chan, answer, inFlight, stopped, at>>

-----------------------------------------------------------------------------
LEMMA MinMember ==
  ASSUME NEW S \in SUBSET Nat, S # {}
  PROVE  Min(S) \in S
<1>1. \E m \in S : \A n \in S : m <= n
  BY LeastNat
<1> QED
  BY <1>1 DEF Min

LEMMA MaxMember ==
  ASSUME NEW b \in Nat, NEW S \in SUBSET (0 .. b), S # {}
  PROVE  Max(S) \in S /\ \A n \in S : n <= Max(S)
<1> DEFINE R == {b - n : n \in S}
<1>1. R \in SUBSET Nat /\ R # {}
  <2>1. \A n \in S : b - n \in Nat
    OBVIOUS
  <2> QED
    BY <2>1
<1>2. PICK m \in R : \A n \in R : m <= n
  BY <1>1, LeastNat
<1>3. PICK x \in S : m = b - x
  BY <1>2
<1>4. ASSUME NEW n \in S PROVE x >= n
  <2>1. b - x <= b - n
    BY <1>2, <1>3
  <2> QED
    BY <2>1
<1>5. Max(S) \in S /\ \A n \in S : Max(S) >= n
  BY <1>4 DEF Max
<1> QED
  BY <1>5

LEMMA MaxOfTwo ==
  ASSUME NEW a \in Nat, NEW b \in Nat
  PROVE  Max({a, b}) = IF b > a THEN b ELSE a
<1>1. \E x \in {a, b} : \A y \in {a, b} : x >= y
  <2>1. CASE b > a
    <3>1. \A y \in {a, b} : b >= y
      BY <2>1
    <3> QED
      BY <3>1
  <2>2. CASE ~(b > a)
    <3>1. \A y \in {a, b} : a >= y
      BY <2>2
    <3> QED
      BY <3>1
  <2> QED
    BY <2>1, <2>2
<1>2. Max({a, b}) \in {a, b} /\ Max({a, b}) >= a /\ Max({a, b}) >= b
  BY <1>1 DEF Max
<1> QED
  BY <1>2

LEMMA SeqsNat == MaxSeq \in Nat /\ Seqs \subseteq 0 .. MaxSeq /\ Seqs \subseteq Nat
                 /\ 0 \notin Seqs
BY WorkerAssumption DEF Seqs

(* Shared::publish keeps the snapshot a terminal worker was left with.      *)
LEMMA PublishedIs ==
  ASSUME snap \in SnapType, NEW p \in SUBSET Seqs, NEW s \in 0 .. MaxSeq
  PROVE  /\ Published(p, s) \in SnapType
         /\ Published(p, s).active = snap.active
         /\ life # 0 => Published(p, s) = snap
         /\ life = 0 => /\ Published(p, s).pend = p
                        /\ Published(p, s).seq = IF s > snap.seq THEN s ELSE snap.seq
<1> DEFINE m == Max({snap.seq, s})
<1>1. snap.seq \in Nat /\ s \in Nat /\ snap.seq \in 0 .. MaxSeq
  BY SeqsNat DEF SnapType
<1>2. m = IF s > snap.seq THEN s ELSE snap.seq
  BY <1>1, MaxOfTwo
<1>3. m \in 0 .. MaxSeq
  BY <1>1, <1>2
<1>4. Published(p, s) = IF life = 0
                        THEN [snap EXCEPT !.seq = m, !.pend = p, !.shown = TRUE] ELSE snap
  BY DEF Published
<1> HIDE DEF m
<1> QED
  BY <1>2, <1>3, <1>4 DEF SnapType

(* The worker goes to another place.                                        *)
LEMMA Goes ==
  ASSUME at \in AtType, NEW p \in WorkerPlaces, Go(p)
  PROVE  at' \in AtType /\ at'.pc = p /\ at'.seq = at.seq
BY DEF Go, AtType

(* After an answer the worker looks at the tasks, or begins a new round.    *)
LEMMA AfterAnswerIs ==
  ASSUME at \in AtType
  PROVE  AfterAnswer \in AtType /\ AfterAnswer.pc \in {"top", "scan"}
<1> DEFINE p == IF at.progressed THEN "top" ELSE "scan"
           b == ~at.progressed
<1>1. p \in {"top", "scan"} /\ p \in WorkerPlaces
  BY DEF WorkerPlaces
<1>2. b \in BOOLEAN
  OBVIOUS
<1>3. AfterAnswer = [at EXCEPT !.pc = p, !.seq = 0, !.progressed = b]
  BY DEF AfterAnswer
<1>4. 0 \in 0 .. MaxSeq
  BY SeqsNat
<1> HIDE DEF p, b
<1>5. AfterAnswer \in AtType /\ AfterAnswer.pc = p
  BY <1>1, <1>2, <1>3, <1>4 DEF AtType
<1> QED
  BY <1>1, <1>5

LEMMA WorkerStart == ASSUME WorkerInit PROVE WorkerInv
<1>1. WorkerShape
  <2>1. snap \in SnapType /\ at \in AtType
    BY SeqsNat DEF WorkerInit, SnapType, AtType, WorkerPlaces
  <2> QED
    BY <2>1, SeqsNat DEF WorkerInit, WorkerShape
<1>2. Received = 0 /\ ChanInv
  <2>1. next = 0 /\ chan = <<>> /\ Len(chan) = 0 /\ DOMAIN chan = {}
    BY DEF WorkerInit
  <2>2. Received = 0 - 0
    BY <2>1, Zenon DEF Received
  <2>3. Received = 0
    BY <2>2
  <2> QED
    BY <2>1, <2>3 DEF ChanInv
<1>3. CustodyInv
  BY <1>2, SeqsNat DEF WorkerInit, CustodyInv, InHand, Open, Fresh, Driven, Seqs
<1>4. LifeInv /\ FreshInv /\ ListedInv /\ VisibleInv /\ AnswerIsVisible
  BY DEF WorkerInit, LifeInv, FreshInv, Fresh, ListedInv, VisibleInv, AnswerIsVisible
<1> QED
  BY <1>1, <1>2, <1>3, <1>4 DEF WorkerInv, WorkerInit

LEMMA UntouchedKeeps == ASSUME WorkerInv, UNCHANGED Concerned PROVE WorkerInv'
<1>1. /\ UNCHANGED <<life, control, snap, next, chan, answer>>
      /\ UNCHANGED <<inFlight, stopped, at>>
  BY DEF Concerned
<1> QED
  BY <1>1 DEF WorkerInv, WorkerShape, ChanInv, Received, LifeInv, CustodyInv, InHand, Open,
              FreshInv, ListedInv, VisibleInv, AnswerIsVisible

(* The worker goes from one place to another and touches nothing else.      *)
Way(p, q) ==
  /\ p \in Fresh \cup Driven <=> q \in Driven
  /\ q \notin Fresh \cup {"reply"} /\ p \notin {"stop", "receipts"}
  /\ q \in {"exit", "closing", "done"} => life # 0
  /\ q \in {"start", "port"} => p \in {"start", "port"}
  /\ q \in {"drive", "begin"} => p \in {"drive", "begin", "sync", "async", "replace"}

LEMMA WayKeeps ==
  ASSUME WorkerInv, UNCHANGED <<life, control, snap, next, chan, answer>>,
         UNCHANGED <<inFlight, stopped>>,
         at' \in AtType, at'.seq = at.seq, Way(at.pc, at'.pc)
  PROVE  WorkerInv'
<1>1. /\ WorkerShape /\ ChanInv /\ LifeInv /\ CustodyInv /\ FreshInv /\ ListedInv
      /\ VisibleInv /\ AnswerIsVisible /\ snap.seq <= Received
  BY DEF WorkerInv
<1>2. WorkerShape' /\ ChanInv' /\ Received' = Received /\ AnswerIsVisible'
  BY <1>1 DEF WorkerShape, ChanInv, Received, AnswerIsVisible
<1>3. LifeInv'
  BY <1>1 DEF LifeInv, Way
<1>4. CustodyInv'
  BY <1>1, <1>2 DEF CustodyInv, Way, InHand, Open, Fresh, Driven
<1>5. FreshInv' /\ VisibleInv'
  BY DEF FreshInv, VisibleInv, Way, Fresh
<1>6. ListedInv'
  BY <1>1 DEF ListedInv, FreshInv, Way, Fresh
<1> QED
  BY <1>1, <1>2, <1>3, <1>4, <1>5, <1>6 DEF WorkerInv
-----------------------------------------------------------------------------
(* The handles.                                                             *)
LEMMA SubmitSendKeeps ==
  ASSUME WorkerInv, NEW c \in Callers, NEW k \in Kinds, SubmitSend(c, k)
  PROVE  WorkerInv'
<1>1. /\ WorkerShape /\ ChanInv /\ LifeInv /\ CustodyInv /\ FreshInv /\ ListedInv
      /\ VisibleInv /\ AnswerIsVisible /\ snap.seq <= Received
  BY DEF WorkerInv
<1> DEFINE e == [seq |-> next + 1, kind |-> k]
<1>2. /\ next < MaxSeq /\ next' = next + 1 /\ chan' = Append(chan, e)
      /\ UNCHANGED <<life, control, snap, answer>> /\ UNCHANGED <<inFlight, stopped, at>>
  BY DEF SubmitSend, instanceVars
<1>3. next \in Nat /\ next + 1 \in Seqs /\ next' \in 0 .. MaxSeq
  BY <1>1, <1>2, SeqsNat DEF WorkerShape, Seqs
<1>4. e \in [seq : Seqs, kind : Kinds] /\ e.seq = next + 1
  BY <1>3
<1> HIDE DEF e
<1>5. /\ chan' \in Seq([seq : Seqs, kind : Kinds]) /\ Len(chan') = Len(chan) + 1
      /\ Len(chan) \in Nat /\ DOMAIN chan = 1 .. Len(chan)
      /\ DOMAIN chan' = 1 .. Len(chan) + 1 /\ chan'[Len(chan) + 1] = e
      /\ \A i \in 1 .. Len(chan) : chan'[i] = chan[i]
  BY <1>1, <1>2, <1>4, AppendPlaces DEF WorkerShape
<1>6. Received' = Received /\ Received + Len(chan) + 1 = next + 1
  BY <1>2, <1>3, <1>5 DEF Received
<1>7. WorkerShape'
  BY <1>1, <1>2, <1>3, <1>5 DEF WorkerShape
<1>8. ChanInv'
  <2> SUFFICES ASSUME NEW i \in 1 .. Len(chan) + 1 PROVE chan'[i].seq = Received + i
    BY <1>1, <1>5, <1>6 DEF ChanInv
  <2>1. CASE i \in 1 .. Len(chan)
    BY <1>1, <1>5, <2>1 DEF ChanInv
  <2>2. CASE i = Len(chan) + 1
    <3>1. Received + i = next + 1
      BY <1>1, <1>5, <1>6, <2>2 DEF ChanInv
    <3> QED
      BY <1>4, <1>5, <2>2, <3>1
  <2> QED
    BY <1>5, <2>1, <2>2
<1>9. CustodyInv'
  BY <1>1, <1>2, <1>6 DEF CustodyInv, InHand, Open
<1>10. LifeInv' /\ FreshInv' /\ ListedInv' /\ VisibleInv' /\ AnswerIsVisible'
  BY <1>1, <1>2 DEF LifeInv, FreshInv, ListedInv, VisibleInv, AnswerIsVisible
<1> QED
  BY <1>1, <1>2, <1>6, <1>7, <1>8, <1>9, <1>10 DEF WorkerInv

(* The life cycle is raised, the cancellation and the snapshot follow.      *)
LEMMA ControlKeeps ==
  ASSUME WorkerInv, NEW c \in Stages, ControlSet(c) \/ ControlCancel(c) \/ MarkTerminal(c)
  PROVE  WorkerInv'
<1>1. /\ WorkerShape /\ ChanInv /\ LifeInv /\ CustodyInv /\ FreshInv /\ ListedInv
      /\ VisibleInv /\ AnswerIsVisible /\ snap.seq <= Received
  BY DEF WorkerInv
<1>2. UNCHANGED <<next, chan, answer, inFlight, stopped, at>>
  BY DEF ControlSet, ControlCancel, MarkTerminal, instanceVars
<1>3. /\ life' \in 0 .. 2 /\ life' # 0 /\ snap' \in SnapType /\ snap'.seq = snap.seq
      /\ control' \in [Stages -> {"idle", "set", "cancelled", "done"}]
      /\ ~snap'.active => ~snap'.shown /\ snap'.pend = {}
      /\ snap'.active => snap' = snap
  <2>1. CASE ControlSet(c)
    <3>1. Max({life, 1}) = IF 1 > life THEN 1 ELSE life
      BY <1>1, MaxOfTwo DEF WorkerShape
    <3>2. life' \in 0 .. 2 /\ life' # 0
      BY <1>1, <2>1, <3>1 DEF ControlSet, WorkerShape
    <3>3. snap' = snap /\ control' = [control EXCEPT ![c] = "set"]
      BY <2>1 DEF ControlSet
    <3> QED
      BY <1>1, <3>2, <3>3 DEF WorkerShape, LifeInv
  <2>2. CASE ControlCancel(c)
    <3>1. /\ control[c] = "set" /\ snap' = snap /\ life' = life
          /\ control' = [control EXCEPT ![c] = "cancelled"]
      BY <2>2 DEF ControlCancel
    <3> QED
      BY <1>1, <3>1 DEF WorkerShape, LifeInv
  <2>3. CASE MarkTerminal(c)
    <3>1. /\ control[c] = "cancelled" /\ life' = life
          /\ snap' = [snap EXCEPT !.active = FALSE, !.shown = FALSE, !.pend = {}]
          /\ control' = [control EXCEPT ![c] = "done"]
      BY <2>3 DEF MarkTerminal
    <3>2. snap' \in SnapType /\ snap'.seq = snap.seq /\ ~snap'.active /\ ~snap'.shown
          /\ snap'.pend = {}
      BY <1>1, <3>1 DEF WorkerShape, SnapType
    <3> QED
      BY <1>1, <3>1, <3>2 DEF WorkerShape, LifeInv
  <2> QED
    BY <2>1, <2>2, <2>3
<1>4. WorkerShape' /\ ChanInv' /\ Received' = Received
  BY <1>1, <1>2, <1>3 DEF WorkerShape, ChanInv, Received
<1>5. LifeInv' /\ VisibleInv' /\ AnswerIsVisible'
  BY <1>3 DEF LifeInv, VisibleInv, AnswerIsVisible
<1>6. CustodyInv'
  BY <1>1, <1>2, <1>4 DEF CustodyInv, InHand, Open
<1>7. FreshInv' /\ ListedInv'
  BY <1>1, <1>2, <1>3 DEF FreshInv, ListedInv
<1> QED
  BY <1>1, <1>3, <1>4, <1>5, <1>6, <1>7 DEF WorkerInv

-----------------------------------------------------------------------------
(* The rounds of the worker.                                                *)
LEMMA WalkKeeps ==
  ASSUME WorkerInv,
         \/ Ended \/ ReceiveNone \/ ScanNone \/ Unpark \/ PrepareFails \/ CallSync
         \/ StartTask \/ DriveFails \/ FragmentCompletes \/ FragmentAwaits \/ StartPort
         \/ ExitDrained
  PROVE  WorkerInv'
<1>1. at \in AtType /\ Kinds \subseteq {"sync", "async", "replace"}
  BY WorkerAssumption DEF WorkerInv, WorkerShape
<1>2. UNCHANGED <<life, control, snap, next, chan, answer>> /\ UNCHANGED <<inFlight, stopped>>
  BY DEF Ended, ReceiveNone, ScanNone, Unpark, PrepareFails, CallSync, StartTask, DriveFails,
         FragmentCompletes, FragmentAwaits, StartPort, ExitDrained, handleVars, instanceVars
<1>3. \E q \in WorkerPlaces : Way(at.pc, q) /\ at'.pc = q /\ at' \in AtType /\ at'.seq = at.seq
  <2>1. CASE Ended
    BY <1>1, <2>1, Goes DEF Ended, Way, Fresh, Driven, WorkerPlaces
  <2>2. CASE ReceiveNone
    BY <1>1, <2>2, Goes DEF ReceiveNone, Way, Fresh, Driven, WorkerPlaces
  <2>3. CASE ScanNone
    <3>1. at' \in AtType /\ at'.seq = at.seq /\ at'.pc \in {"top", "parked"}
      BY <1>1, <2>3 DEF ScanNone, AtType, WorkerPlaces
    <3> QED
      BY <2>3, <3>1 DEF ScanNone, Way, Fresh, Driven, WorkerPlaces
  <2>4. CASE Unpark
    BY <1>1, <2>4, Goes DEF Unpark, Way, Fresh, Driven, WorkerPlaces
  <2>5. CASE PrepareFails
    BY <1>1, <2>5, Goes DEF PrepareFails, Way, Fresh, Driven, WorkerPlaces
  <2>6. CASE CallSync
    BY <1>1, <2>6, Goes DEF CallSync, Way, Fresh, Driven, WorkerPlaces
  <2>7. CASE StartTask
    BY <1>1, <2>7, Goes DEF StartTask, Way, Fresh, Driven, WorkerPlaces
  <2>8. CASE DriveFails
    BY <1>1, <2>8, Goes DEF DriveFails, Way, Fresh, Driven, WorkerPlaces
  <2>9. CASE FragmentCompletes
    BY <1>1, <2>9, Goes DEF FragmentCompletes, Way, Fresh, Driven, WorkerPlaces
  <2>10. CASE FragmentAwaits
    BY <1>1, <2>10, Goes DEF FragmentAwaits, Way, Fresh, Driven, WorkerPlaces
  <2>11. CASE StartPort
    BY <1>1, <2>11, Goes DEF StartPort, Way, Fresh, Driven, WorkerPlaces
  <2>12. CASE ExitDrained
    <3>1. life # 0
      BY <2>12 DEF ExitDrained, WorkerInv, LifeInv
    <3> QED
      BY <1>1, <2>12, <3>1, Goes DEF ExitDrained, Way, Fresh, Driven, WorkerPlaces
  <2> QED
    BY <2>1, <2>2, <2>3, <2>4, <2>5, <2>6, <2>7, <2>8, <2>9, <2>10, <2>11, <2>12
<1> QED
  BY <1>2, <1>3, WayKeeps

(* The first of the channel is the next one to be received.                 *)
LEMMA FirstOfChannel ==
  ASSUME WorkerShape, ChanInv, chan # <<>>, chan' = Tail(chan), next' = next
  PROVE  /\ Head(chan) \in [seq : Seqs, kind : Kinds]
         /\ Head(chan).seq = Received + 1 /\ Head(chan).seq \in Seqs
         /\ Received' = Received + 1 /\ ChanInv'
         /\ chan' \in Seq([seq : Seqs, kind : Kinds])
<1> DEFINE E == [seq : Seqs, kind : Kinds]
<1>1. chan \in Seq(E) /\ next \in Nat /\ Received \in Nat
  BY SeqsNat DEF WorkerShape, ChanInv
<1> HIDE DEF E
<1>2. /\ Len(chan) \in Nat /\ Len(chan) > 0 /\ DOMAIN chan = 1 .. Len(chan)
      /\ Head(chan) = chan[1] /\ chan[1] \in E
      /\ chan' \in Seq(E) /\ Len(chan') = Len(chan) - 1 /\ DOMAIN chan' = 1 .. Len(chan')
      /\ \A i \in 1 .. Len(chan') : chan'[i] = chan[i + 1]
  BY <1>1
<1>3. Received' = Received + 1
  BY <1>1, <1>2 DEF Received
<1>4. Head(chan).seq = Received + 1
  BY <1>2 DEF ChanInv
<1>5. \A i \in DOMAIN chan' : chan'[i].seq = Received' + i
  <2> SUFFICES ASSUME NEW i \in 1 .. Len(chan') PROVE chan'[i].seq = (Received + 1) + i
    BY <1>2, <1>3
  <2>1. i + 1 \in DOMAIN chan /\ chan'[i] = chan[i + 1]
    BY <1>2
  <2>2. chan'[i].seq = Received + (i + 1)
    BY <2>1 DEF ChanInv
  <2> QED
    BY <1>1, <1>2, <2>2
<1>6. ChanInv'
  BY <1>1, <1>3, <1>5 DEF ChanInv
<1> QED
  BY <1>2, <1>3, <1>4, <1>6 DEF E

LEMMA ReceiveKeeps == ASSUME WorkerInv, Receive PROVE WorkerInv'
<1>1. /\ WorkerShape /\ ChanInv /\ LifeInv /\ CustodyInv /\ FreshInv /\ ListedInv
      /\ VisibleInv /\ AnswerIsVisible /\ snap.seq <= Received
  BY DEF WorkerInv
<1> DEFINE h == Head(chan)
<1>2. /\ at.pc = "top" /\ chan # <<>> /\ chan' = Tail(chan)
      /\ at' = [at EXCEPT !.pc = h.kind, !.seq = h.seq]
      /\ UNCHANGED <<life, control, snap, next, answer>> /\ UNCHANGED <<inFlight, stopped>>
  BY DEF Receive, handleVars, instanceVars
<1>3. /\ h \in [seq : Seqs, kind : Kinds] /\ h.seq = Received + 1 /\ h.seq \in Seqs
      /\ Received' = Received + 1 /\ ChanInv' /\ chan' \in Seq([seq : Seqs, kind : Kinds])
  BY <1>1, <1>2, FirstOfChannel
<1> HIDE DEF h
<1>4. h.kind \in {"sync", "async", "replace"} /\ h.kind \in WorkerPlaces /\ h.kind \in Fresh
  BY <1>3, WorkerAssumption DEF WorkerPlaces, Fresh
<1>5. at' \in AtType /\ at'.pc = h.kind /\ at'.seq = h.seq
  BY <1>1, <1>2, <1>3, <1>4, SeqsNat DEF WorkerShape, AtType
<1>6. WorkerShape'
  BY <1>1, <1>2, <1>3, <1>5 DEF WorkerShape
<1>7. Received \in Nat /\ snap.seq \in Nat /\ stopped = {}
  BY <1>1, <1>2 DEF ChanInv, CustodyInv, WorkerShape, SnapType
<1>8. \A s \in inFlight : s <= Received
  BY <1>1 DEF CustodyInv, Open, WorkerShape
<1>9. CustodyInv'
  <2>1. InHand' /\ ~InHand
    BY <1>2, <1>4, <1>5 DEF InHand, Fresh, Driven
  <2>2. h.seq \notin inFlight /\ answer[h.seq] = "none"
    BY <1>1, <1>3, <1>7, <1>8 DEF CustodyInv
  <2>3. \A s \in Seqs : s <= Received' <=> s <= Received \/ s = h.seq
    BY <1>3, <1>7, SeqsNat
  <2>4. \A s \in Seqs : Open(s)' <=> Open(s) \/ s = h.seq
    BY <1>2, <1>5, <2>1 DEF Open
  <2>5. \A s \in Seqs : Open(s)' <=> s <= Received' /\ answer[s] = "none"
    BY <1>1, <2>2, <2>3, <2>4 DEF CustodyInv
  <2>6. \A s \in Seqs : s > Received' => s > Received
    BY <1>3, <1>7, SeqsNat
  <2> QED
    BY <1>1, <1>2, <1>3, <1>4, <1>5, <1>7, <2>1, <2>2, <2>5, <2>6 DEF CustodyInv
<1>10. FreshInv'
  <2>1. snap.seq < h.seq
    BY <1>1, <1>3, <1>7
  <2>2. \A s \in inFlight : s < h.seq
    BY <1>1, <1>3, <1>7, <1>8, SeqsNat DEF WorkerShape
  <2> QED
    BY <1>2, <1>5, <1>7, <2>1, <2>2 DEF FreshInv
<1>11. LifeInv' /\ ListedInv' /\ VisibleInv' /\ AnswerIsVisible'
  BY <1>1, <1>2, <1>4, <1>5 DEF LifeInv, ListedInv, VisibleInv, AnswerIsVisible
<1>12. snap'.seq <= Received'
  BY <1>1, <1>2, <1>3, <1>7
<1> QED
  BY <1>3, <1>6, <1>9, <1>10, <1>11, <1>12 DEF WorkerInv

LEMMA ScanReadyKeeps == ASSUME WorkerInv, ScanReady PROVE WorkerInv'
<1>1. /\ WorkerShape /\ ChanInv /\ LifeInv /\ CustodyInv /\ FreshInv /\ ListedInv
      /\ VisibleInv /\ AnswerIsVisible /\ snap.seq <= Received
  BY DEF WorkerInv
<1> DEFINE R == {o \in inFlight : Ready(o)}
           m == Min(R)
<1>2. /\ at.pc = "scan" /\ R # {} /\ inFlight' = inFlight \ {m}
      /\ at' = [at EXCEPT !.pc = "drive", !.seq = m, !.progressed = TRUE]
      /\ UNCHANGED <<life, control, snap, next, chan, answer, stopped>>
  BY DEF ScanReady, handleVars
<1>3. R \in SUBSET Nat
  BY <1>1, SeqsNat DEF WorkerShape
<1>4. m \in inFlight /\ m \in Seqs
  <2>1. m \in R
    BY <1>2, <1>3, MinMember
  <2> QED
    BY <1>1, <2>1 DEF WorkerShape
<1> HIDE DEF m
<1>5. at' \in AtType /\ at'.pc = "drive" /\ at'.seq = m
  BY <1>1, <1>2, <1>4, SeqsNat DEF WorkerShape, AtType, WorkerPlaces
<1>6. WorkerShape' /\ ChanInv' /\ Received' = Received /\ AnswerIsVisible'
  BY <1>1, <1>2, <1>5 DEF WorkerShape, ChanInv, Received, AnswerIsVisible
<1>7. CustodyInv'
  <2>1. InHand' /\ ~InHand
    BY <1>2, <1>5 DEF InHand, Fresh, Driven
  <2>2. \A s \in Seqs : Open(s)' <=> Open(s)
    BY <1>2, <1>4, <1>5, <2>1 DEF Open
  <2>3. stopped = {}
    BY <1>1, <1>2 DEF CustodyInv
  <2> QED
    BY <1>1, <1>2, <1>4, <1>5, <1>6, <2>1, <2>2, <2>3 DEF CustodyInv
<1>8. LifeInv' /\ VisibleInv' /\ FreshInv'
  BY <1>1, <1>2, <1>5 DEF LifeInv, VisibleInv, FreshInv, Fresh
<1>9. ListedInv'
  BY <1>1, <1>2, <1>4, <1>5 DEF ListedInv
<1> QED
  BY <1>1, <1>2, <1>6, <1>7, <1>8, <1>9 DEF WorkerInv

(* What a publication with the tasks in flight makes of the snapshot.       *)
LEMMA PublishKeeps ==
  ASSUME WorkerInv, NEW n \in Seqs, n <= Received, snap' = Published(inFlight, n)
  PROVE  /\ snap' \in SnapType /\ snap'.active = snap.active
         /\ snap'.seq \in Nat /\ snap'.seq <= Received /\ snap'.seq >= snap.seq
         /\ life = 0 => /\ snap'.pend = inFlight /\ n <= snap'.seq
                        /\ snap'.seq = IF n > snap.seq THEN n ELSE snap.seq
         /\ life # 0 => snap' = snap
<1>1. /\ WorkerShape /\ ChanInv /\ snap.seq <= Received
  BY DEF WorkerInv
<1>2. n \in 0 .. MaxSeq /\ n \in Nat /\ snap.seq \in Nat /\ inFlight \in SUBSET Seqs
      /\ snap \in SnapType /\ Received \in Nat
  BY <1>1, SeqsNat DEF WorkerShape, SnapType, ChanInv
<1>3. /\ snap' \in SnapType /\ snap'.active = snap.active
      /\ life # 0 => snap' = snap
      /\ life = 0 => /\ snap'.pend = inFlight
                     /\ snap'.seq = IF n > snap.seq THEN n ELSE snap.seq
  BY <1>2, PublishedIs
<1> QED
  BY <1>1, <1>2, <1>3

LEMMA FinishPublishKeeps == ASSUME WorkerInv, FinishPublish PROVE WorkerInv'
<1>1. /\ WorkerShape /\ ChanInv /\ LifeInv /\ CustodyInv /\ FreshInv /\ ListedInv
      /\ VisibleInv /\ AnswerIsVisible /\ snap.seq <= Received
  BY DEF WorkerInv
<1>2. /\ at.pc = "publish" /\ snap' = Published(inFlight, at.seq) /\ Go("reply")
      /\ UNCHANGED <<life, control, next, chan, answer, inFlight, stopped>>
  BY DEF FinishPublish, handleVars, instanceVars
<1>3. InHand
  BY <1>2 DEF InHand, Driven
<1>4. at.seq \in Seqs /\ at.seq <= Received /\ at.seq \notin inFlight
  BY <1>1, <1>3 DEF CustodyInv, Open
<1>5. /\ snap' \in SnapType /\ snap'.active = snap.active
      /\ snap'.seq \in Nat /\ snap'.seq <= Received /\ snap'.seq >= snap.seq
      /\ life = 0 => snap'.pend = inFlight /\ at.seq <= snap'.seq
      /\ life # 0 => snap' = snap
  BY <1>2, <1>4, PublishKeeps
<1>6. at' \in AtType /\ at'.pc = "reply" /\ at'.seq = at.seq
  BY <1>1, <1>2, Goes DEF WorkerShape, WorkerPlaces
<1>7. WorkerShape' /\ ChanInv' /\ Received' = Received
  BY <1>1, <1>2, <1>5, <1>6 DEF WorkerShape, ChanInv, Received
<1>8. CustodyInv'
  <2>1. InHand'
    BY <1>6 DEF InHand, Driven
  <2> QED
    BY <1>1, <1>2, <1>3, <1>6, <1>7, <2>1 DEF CustodyInv, Open
<1>9. LifeInv' /\ FreshInv'
  BY <1>1, <1>2, <1>5, <1>6 DEF LifeInv, FreshInv, Fresh
<1>10. ListedInv'
  BY <1>1, <1>2, <1>5, <1>6 DEF ListedInv
<1>11. VisibleInv'
  BY <1>2, <1>4, <1>5, <1>6 DEF VisibleInv
<1>12. AnswerIsVisible'
  <2> SUFFICES ASSUME NEW s \in Seqs, answer[s] = "sent", life = 0
               PROVE  s <= snap'.seq /\ s \notin snap'.pend
    BY <1>2 DEF AnswerIsVisible
  <2>1. s <= snap.seq /\ s \in Nat /\ snap.seq \in Nat
    BY <1>1, SeqsNat DEF AnswerIsVisible, WorkerShape, SnapType
  <2>2. s \notin inFlight
    BY <1>1 DEF CustodyInv, Open
  <2> QED
    BY <1>5, <2>1, <2>2
<1> QED
  BY <1>5, <1>7, <1>8, <1>9, <1>10, <1>11, <1>12 DEF WorkerInv

(* The worker answers n, which it takes from its hand, from the tasks in    *)
(* flight or from those it stops.                                           *)
LEMMA Answered ==
  ASSUME WorkerShape, CustodyInv, NEW n \in Seqs, Open(n), UNCHANGED Received,
         answer' = [answer EXCEPT ![n] = "sent"],
         \A s \in Seqs : Open(s)' <=> Open(s) /\ s # n
  PROVE  /\ answer' \in [Seqs -> {"none", "sent", "dropped"}]
         /\ \A s \in Seqs : Open(s)' <=> s <= Received' /\ answer'[s] = "none"
         /\ \A s \in Seqs : s > Received' => answer'[s] = "none"
         /\ \A s \in Seqs : answer'[s] = "sent" => answer[s] = "sent" \/ s = n
<1>1. n <= Received /\ Received' = Received
  BY DEF CustodyInv
<1>2. answer' \in [Seqs -> {"none", "sent", "dropped"}] /\ answer'[n] = "sent"
      /\ \A s \in Seqs \ {n} : answer'[s] = answer[s]
  BY DEF WorkerShape
<1>3. \A s \in Seqs : Open(s)' <=> s <= Received' /\ answer'[s] = "none"
  BY <1>1, <1>2 DEF CustodyInv
<1>4. \A s \in Seqs : s > Received' => answer'[s] = "none"
  <2> SUFFICES ASSUME NEW s \in Seqs, s > Received PROVE s # n /\ answer[s] = "none"
    BY <1>1, <1>2
  <2>1. s \in Nat /\ n \in Nat
    BY SeqsNat
  <2>2. Received \in Int
    <3>1. Len(chan) \in Nat /\ next \in Int
      BY SeqsNat DEF WorkerShape
    <3> QED
      BY <3>1 DEF Received
  <2> QED
    BY <1>1, <2>1, <2>2 DEF CustodyInv
<1> QED
  BY <1>2, <1>3, <1>4

LEMMA FinishReplyKeeps == ASSUME WorkerInv, FinishReply PROVE WorkerInv'
<1>1. /\ WorkerShape /\ ChanInv /\ LifeInv /\ CustodyInv /\ FreshInv /\ ListedInv
      /\ VisibleInv /\ AnswerIsVisible /\ snap.seq <= Received
  BY DEF WorkerInv
<1>2. /\ at.pc = "reply" /\ answer' = [answer EXCEPT ![at.seq] = "sent"]
      /\ at' = AfterAnswer
      /\ UNCHANGED <<life, control, snap, next, chan, inFlight, stopped>>
  BY DEF FinishReply, handleVars
<1>3. InHand
  BY <1>2 DEF InHand, Driven
<1>4. at.seq \in Seqs /\ at.seq \notin inFlight /\ at.seq \notin stopped /\ Open(at.seq)
  BY <1>1, <1>3 DEF CustodyInv, Open
<1>5. at' \in AtType /\ at'.pc \in {"top", "scan"}
  BY <1>1, <1>2, AfterAnswerIs DEF WorkerShape
<1>6. ~InHand'
  BY <1>5 DEF InHand, Fresh, Driven
<1>7. Received' = Received /\ ChanInv'
  BY <1>1, <1>2 DEF Received, ChanInv
<1>8. \A s \in Seqs : Open(s)' <=> Open(s) /\ s # at.seq
  BY <1>2, <1>3, <1>4, <1>6 DEF Open
<1>9. /\ answer' \in [Seqs -> {"none", "sent", "dropped"}]
      /\ \A s \in Seqs : Open(s)' <=> s <= Received' /\ answer'[s] = "none"
      /\ \A s \in Seqs : s > Received' => answer'[s] = "none"
      /\ \A s \in Seqs : answer'[s] = "sent" => answer[s] = "sent" \/ s = at.seq
  BY <1>1, <1>2, <1>4, <1>7, <1>8, Answered
<1>10. WorkerShape'
  BY <1>1, <1>2, <1>5, <1>9 DEF WorkerShape
<1>11. CustodyInv'
  BY <1>1, <1>2, <1>5, <1>6, <1>9 DEF CustodyInv
<1>12. LifeInv' /\ FreshInv' /\ ListedInv' /\ VisibleInv'
  BY <1>1, <1>2, <1>5 DEF LifeInv, FreshInv, Fresh, ListedInv, VisibleInv
<1>13. AnswerIsVisible'
  BY <1>1, <1>2, <1>9 DEF AnswerIsVisible, VisibleInv
<1> QED
  BY <1>1, <1>2, <1>7, <1>10, <1>11, <1>12, <1>13 DEF WorkerInv

LEMMA ReplaceKeeps == ASSUME WorkerInv, Replace PROVE WorkerInv'
<1>1. /\ WorkerShape /\ ChanInv /\ LifeInv /\ CustodyInv /\ FreshInv /\ ListedInv
      /\ VisibleInv /\ AnswerIsVisible /\ snap.seq <= Received
  BY DEF WorkerInv
<1>2. /\ at.pc = "replace" /\ stopped' = inFlight /\ inFlight' = {}
      /\ at' = [at EXCEPT !.pc = IF inFlight = {} THEN "publish" ELSE "stop"]
      /\ UNCHANGED <<life, control, snap, next, chan, answer>>
  BY DEF Replace, handleVars
<1>3. /\ at' \in AtType /\ at'.seq = at.seq
      /\ at'.pc = IF inFlight = {} THEN "publish" ELSE "stop"
  BY <1>1, <1>2 DEF WorkerShape, AtType, WorkerPlaces
<1>4. InHand /\ InHand' /\ stopped = {}
  BY <1>1, <1>2, <1>3 DEF InHand, Fresh, Driven, CustodyInv
<1>5. WorkerShape' /\ ChanInv' /\ Received' = Received /\ AnswerIsVisible'
  BY <1>1, <1>2, <1>3 DEF WorkerShape, ChanInv, Received, AnswerIsVisible
<1>6. CustodyInv'
  <2>1. \A s : Open(s)' <=> Open(s)
    BY <1>2, <1>3, <1>4 DEF Open
  <2> QED
    BY <1>1, <1>2, <1>3, <1>4, <1>5, <2>1 DEF CustodyInv
<1>7. FreshInv'
  BY <1>1, <1>2, <1>3, <1>4 DEF FreshInv, Fresh
<1>8. LifeInv' /\ ListedInv' /\ VisibleInv'
  BY <1>1, <1>2, <1>3 DEF LifeInv, ListedInv, VisibleInv
<1> QED
  BY <1>1, <1>2, <1>5, <1>6, <1>7, <1>8 DEF WorkerInv

LEMMA BatchPublishKeeps == ASSUME WorkerInv, BatchPublish PROVE WorkerInv'
<1>1. /\ WorkerShape /\ ChanInv /\ LifeInv /\ CustodyInv /\ FreshInv /\ ListedInv
      /\ VisibleInv /\ AnswerIsVisible /\ snap.seq <= Received
  BY DEF WorkerInv
<1> DEFINE m == Max(stopped)
<1>2. /\ at.pc = "stop" /\ snap' = Published(inFlight, m) /\ Go("receipts")
      /\ UNCHANGED <<life, control, next, chan, answer, inFlight, stopped>>
  BY DEF BatchPublish, handleVars, instanceVars
<1>3. stopped # {} /\ inFlight = {} /\ stopped \in SUBSET (0 .. MaxSeq) /\ InHand
  BY <1>1, <1>2, SeqsNat DEF CustodyInv, WorkerShape, InHand, Fresh
<1>4. m \in stopped /\ \A s \in stopped : s <= m
  BY <1>3, SeqsNat, MaxMember
<1> HIDE DEF m
<1>5. m \in Seqs /\ m <= Received /\ m < at.seq /\ m \in Nat
  BY <1>1, <1>2, <1>4, SeqsNat DEF WorkerShape, CustodyInv, Open, FreshInv, Fresh
<1>6. /\ snap' \in SnapType /\ snap'.active = snap.active
      /\ snap'.seq \in Nat /\ snap'.seq <= Received /\ snap'.seq >= snap.seq
      /\ life = 0 => /\ snap'.pend = inFlight /\ m <= snap'.seq
                     /\ snap'.seq = IF m > snap.seq THEN m ELSE snap.seq
      /\ life # 0 => snap' = snap
  BY <1>2, <1>5, PublishKeeps
<1>7. at' \in AtType /\ at'.pc = "receipts" /\ at'.seq = at.seq /\ InHand'
  <2>1. at' \in AtType /\ at'.pc = "receipts" /\ at'.seq = at.seq
    BY <1>1, <1>2, Goes DEF WorkerShape, WorkerPlaces
  <2> QED
    BY <2>1 DEF InHand, Fresh
<1>8. WorkerShape' /\ ChanInv' /\ Received' = Received
  BY <1>1, <1>2, <1>6, <1>7 DEF WorkerShape, ChanInv, Received
<1>9. CustodyInv'
  BY <1>1, <1>2, <1>3, <1>7, <1>8 DEF CustodyInv, Open
<1>10. LifeInv'
  BY <1>1, <1>2, <1>6, <1>7 DEF LifeInv
<1>11. FreshInv'
  <2>1. snap.seq < at.seq /\ \A s \in inFlight \cup stopped : s < at.seq
    BY <1>1, <1>2 DEF FreshInv, Fresh
  <2>2. snap'.seq < at.seq
    BY <1>5, <1>6, <2>1
  <2> QED
    BY <1>2, <1>7, <2>1, <2>2 DEF FreshInv
<1>12. ListedInv'
  BY <1>2, <1>3, <1>7 DEF ListedInv
<1>13. VisibleInv'
  <2> SUFFICES ASSUME life = 0, NEW s \in stopped PROVE s <= snap'.seq /\ s \notin snap'.pend
    BY <1>2, <1>7 DEF VisibleInv
  <2>1. s \in Nat /\ s <= m
    BY <1>1, <1>4, SeqsNat DEF WorkerShape
  <2> QED
    BY <1>3, <1>5, <1>6, <2>1
<1>14. AnswerIsVisible'
  <2> SUFFICES ASSUME NEW s \in Seqs, answer[s] = "sent", life = 0
               PROVE  s <= snap'.seq /\ s \notin snap'.pend
    BY <1>2 DEF AnswerIsVisible
  <2>1. s <= snap.seq /\ s \in Nat /\ snap.seq \in Nat
    BY <1>1, SeqsNat DEF AnswerIsVisible, WorkerShape, SnapType
  <2> QED
    BY <1>3, <1>6, <2>1
<1> QED
  BY <1>6, <1>8, <1>9, <1>10, <1>11, <1>12, <1>13, <1>14 DEF WorkerInv

LEMMA BatchReceiptKeeps == ASSUME WorkerInv, BatchReceipt PROVE WorkerInv'
<1>1. /\ WorkerShape /\ ChanInv /\ LifeInv /\ CustodyInv /\ FreshInv /\ ListedInv
      /\ VisibleInv /\ AnswerIsVisible /\ snap.seq <= Received
  BY DEF WorkerInv
<1> DEFINE m == Min(stopped)
<1>2. /\ at.pc = "receipts" /\ answer' = [answer EXCEPT ![m] = "sent"]
      /\ stopped' = stopped \ {m}
      /\ UNCHANGED <<life, control, snap, next, chan, inFlight>>
  BY DEF BatchReceipt, handleVars
<1>3. at'.pc = (IF stopped' = {} THEN "publish" ELSE "receipts") /\ at' \in AtType
      /\ at'.seq = at.seq
  BY <1>1 DEF BatchReceipt, Go, WorkerShape, AtType, WorkerPlaces
<1>4. stopped # {} /\ inFlight = {} /\ stopped \in SUBSET Nat /\ InHand /\ InHand'
  BY <1>1, <1>2, <1>3, SeqsNat DEF CustodyInv, WorkerShape, InHand, Fresh, Driven
<1>5. m \in stopped
  BY <1>4, MinMember
<1> HIDE DEF m
<1>6. m \in Seqs /\ Open(m) /\ m # at.seq
  BY <1>1, <1>4, <1>5 DEF WorkerShape, Open, CustodyInv
<1>7. Received' = Received /\ ChanInv'
  BY <1>1, <1>2 DEF Received, ChanInv
<1>8. \A s \in Seqs : Open(s)' <=> Open(s) /\ s # m
  BY <1>2, <1>3, <1>4, <1>6 DEF Open
<1>9. /\ answer' \in [Seqs -> {"none", "sent", "dropped"}]
      /\ \A s \in Seqs : Open(s)' <=> s <= Received' /\ answer'[s] = "none"
      /\ \A s \in Seqs : s > Received' => answer'[s] = "none"
      /\ \A s \in Seqs : answer'[s] = "sent" => answer[s] = "sent" \/ s = m
  BY <1>1, <1>2, <1>6, <1>7, <1>8, Answered
<1>10. WorkerShape'
  BY <1>1, <1>2, <1>3, <1>9 DEF WorkerShape
<1>11. CustodyInv'
  BY <1>1, <1>2, <1>3, <1>4, <1>9 DEF CustodyInv
<1>12. LifeInv' /\ FreshInv' /\ ListedInv' /\ VisibleInv'
  BY <1>1, <1>2, <1>3, <1>4 DEF LifeInv, FreshInv, Fresh, ListedInv, VisibleInv
<1>13. AnswerIsVisible'
  BY <1>1, <1>2, <1>5, <1>9 DEF AnswerIsVisible, VisibleInv
<1> QED
  BY <1>1, <1>2, <1>7, <1>10, <1>11, <1>12, <1>13 DEF WorkerInv

LEMMA BeginAwaitKeeps == ASSUME WorkerInv, BeginAwait PROVE WorkerInv'
<1>1. /\ WorkerShape /\ ChanInv /\ LifeInv /\ CustodyInv /\ FreshInv /\ ListedInv
      /\ VisibleInv /\ AnswerIsVisible /\ snap.seq <= Received
  BY DEF WorkerInv
<1>2. /\ at.pc = "begin" /\ life = 0
      /\ snap' = [snap EXCEPT !.pend = snap.pend \union {at.seq}, !.shown = TRUE]
      /\ at' = [at EXCEPT !.pc = "start", !.awaits = at.awaits + 1]
      /\ UNCHANGED <<life, control, next, chan, answer, inFlight, stopped>>
  BY DEF BeginAwait, handleVars
<1>3. InHand
  BY <1>2 DEF InHand, Driven
<1>4. at.seq \in Seqs /\ answer[at.seq] = "none"
  BY <1>1, <1>3 DEF CustodyInv, Open
<1>5. /\ snap' \in SnapType /\ snap'.active = snap.active /\ snap'.seq = snap.seq
      /\ snap'.pend = snap.pend \cup {at.seq}
  <2> DEFINE p == snap.pend \cup {at.seq}
  <2>1. p \in SUBSET Seqs
    BY <1>1, <1>4 DEF WorkerShape, SnapType
  <2>2. snap' = [snap EXCEPT !.pend = p, !.shown = TRUE]
    BY <1>2
  <2> HIDE DEF p
  <2>3. snap' \in SnapType /\ snap'.active = snap.active /\ snap'.seq = snap.seq
        /\ snap'.pend = p
    BY <1>1, <2>1, <2>2 DEF WorkerShape, SnapType
  <2> QED
    BY <2>3 DEF p
<1>6. at' \in AtType /\ at'.pc = "start" /\ at'.seq = at.seq
  <2> DEFINE n == at.awaits + 1
  <2>1. n \in Nat /\ at' = [at EXCEPT !.pc = "start", !.awaits = n]
    BY <1>1, <1>2 DEF WorkerShape, AtType
  <2> HIDE DEF n
  <2> QED
    BY <1>1, <2>1 DEF WorkerShape, AtType, WorkerPlaces
<1>7. WorkerShape' /\ ChanInv' /\ Received' = Received
  BY <1>1, <1>2, <1>5, <1>6 DEF WorkerShape, ChanInv, Received
<1>8. CustodyInv'
  <2>1. InHand'
    BY <1>6 DEF InHand, Driven
  <2> QED
    BY <1>1, <1>2, <1>3, <1>6, <1>7, <2>1 DEF CustodyInv, Open
<1>9. LifeInv' /\ FreshInv' /\ VisibleInv'
  BY <1>1, <1>2, <1>5, <1>6 DEF LifeInv, FreshInv, Fresh, VisibleInv
<1>10. ListedInv'
  BY <1>1, <1>2, <1>5, <1>6 DEF ListedInv
<1>11. AnswerIsVisible'
  BY <1>1, <1>2, <1>4, <1>5 DEF AnswerIsVisible
<1> QED
  BY <1>1, <1>5, <1>7, <1>8, <1>9, <1>10, <1>11 DEF WorkerInv

LEMMA InsertKeeps == ASSUME WorkerInv, Insert PROVE WorkerInv'
<1>1. /\ WorkerShape /\ ChanInv /\ LifeInv /\ CustodyInv /\ FreshInv /\ ListedInv
      /\ VisibleInv /\ AnswerIsVisible /\ snap.seq <= Received
  BY DEF WorkerInv
<1>2. /\ at.pc = "port" /\ inFlight' = inFlight \union {at.seq}
      /\ snap' = Published(inFlight', 0) /\ at' = AfterAnswer
      /\ UNCHANGED <<life, control, next, chan, answer, stopped>>
  BY DEF Insert, handleVars, Published
<1>3. InHand
  BY <1>2 DEF InHand, Driven
<1>4. at.seq \in Seqs /\ answer[at.seq] = "none" /\ inFlight' \in SUBSET Seqs
  BY <1>1, <1>2, <1>3 DEF CustodyInv, Open, WorkerShape
<1>5. /\ snap' \in SnapType /\ snap'.active = snap.active /\ snap'.seq = snap.seq
      /\ life = 0 => snap'.pend = inFlight'
      /\ life # 0 => snap' = snap
  <2>1. 0 \in 0 .. MaxSeq /\ snap.seq \in Nat
    BY <1>1, SeqsNat DEF WorkerShape, SnapType
  <2>2. /\ snap' \in SnapType /\ snap'.active = snap.active
        /\ life # 0 => snap' = snap
        /\ life = 0 => /\ snap'.pend = inFlight'
                       /\ snap'.seq = IF 0 > snap.seq THEN 0 ELSE snap.seq
    BY <1>1, <1>2, <1>4, <2>1, PublishedIs DEF WorkerShape
  <2> QED
    BY <2>1, <2>2
<1>6. at' \in AtType /\ at'.pc \in {"top", "scan"}
  BY <1>1, <1>2, AfterAnswerIs DEF WorkerShape
<1>7. WorkerShape' /\ ChanInv' /\ Received' = Received
  BY <1>1, <1>2, <1>4, <1>5, <1>6 DEF WorkerShape, ChanInv, Received
<1>8. CustodyInv'
  <2>1. ~InHand' /\ stopped = {}
    BY <1>1, <1>2, <1>6 DEF InHand, Fresh, Driven, CustodyInv
  <2>2. \A s \in Seqs : Open(s)' <=> Open(s)
    BY <1>2, <1>3, <2>1 DEF Open
  <2> QED
    BY <1>1, <1>2, <1>6, <1>7, <2>1, <2>2 DEF CustodyInv
<1>9. LifeInv' /\ FreshInv' /\ VisibleInv'
  BY <1>1, <1>2, <1>5, <1>6 DEF LifeInv, FreshInv, Fresh, VisibleInv
<1>10. ListedInv'
  BY <1>1, <1>2, <1>5, <1>6 DEF ListedInv
<1>11. AnswerIsVisible'
  <2> SUFFICES ASSUME NEW s \in Seqs, answer[s] = "sent", life = 0
               PROVE  s <= snap'.seq /\ s \notin snap'.pend
    BY <1>2 DEF AnswerIsVisible
  <2>1. s <= snap.seq /\ s # at.seq
    BY <1>1, <1>4 DEF AnswerIsVisible
  <2>2. s \notin inFlight
    BY <1>1 DEF CustodyInv, Open
  <2> QED
    BY <1>2, <1>5, <2>1, <2>2
<1> QED
  BY <1>1, <1>5, <1>7, <1>8, <1>9, <1>10, <1>11 DEF WorkerInv

-----------------------------------------------------------------------------
(* The end of run: nothing is published any more.                           *)
LEMMA ExitTaskKeeps == ASSUME WorkerInv, ExitTask PROVE WorkerInv'
<1>1. /\ WorkerShape /\ ChanInv /\ LifeInv /\ CustodyInv /\ FreshInv /\ ListedInv
      /\ VisibleInv /\ AnswerIsVisible /\ snap.seq <= Received
  BY DEF WorkerInv
<1> DEFINE m == Min(inFlight)
<1>2. /\ at.pc = "exit" /\ inFlight # {} /\ inFlight' = inFlight \ {m}
      /\ answer' = [answer EXCEPT ![m] = "sent"]
      /\ UNCHANGED <<life, control, snap, next, chan, stopped, at>>
  BY DEF ExitTask, handleVars
<1>3. ~InHand /\ ~InHand' /\ stopped = {} /\ life # 0 /\ inFlight \in SUBSET Nat
  BY <1>1, <1>2, SeqsNat DEF InHand, Fresh, Driven, CustodyInv, LifeInv, WorkerShape
<1>4. m \in inFlight
  BY <1>2, <1>3, MinMember
<1> HIDE DEF m
<1>5. m \in Seqs /\ Open(m)
  BY <1>1, <1>4 DEF WorkerShape, Open
<1>6. Received' = Received /\ ChanInv'
  BY <1>1, <1>2 DEF Received, ChanInv
<1>7. \A s \in Seqs : Open(s)' <=> Open(s) /\ s # m
  BY <1>2, <1>3 DEF Open
<1>8. /\ answer' \in [Seqs -> {"none", "sent", "dropped"}]
      /\ \A s \in Seqs : Open(s)' <=> s <= Received' /\ answer'[s] = "none"
      /\ \A s \in Seqs : s > Received' => answer'[s] = "none"
  BY <1>1, <1>2, <1>5, <1>6, <1>7, Answered
<1>9. WorkerShape'
  BY <1>1, <1>2, <1>8 DEF WorkerShape
<1>10. CustodyInv'
  BY <1>1, <1>2, <1>3, <1>8 DEF CustodyInv
<1>11. LifeInv' /\ FreshInv' /\ ListedInv' /\ VisibleInv' /\ AnswerIsVisible'
  BY <1>1, <1>2, <1>3 DEF LifeInv, FreshInv, Fresh, ListedInv, VisibleInv, AnswerIsVisible
<1> QED
  BY <1>1, <1>2, <1>6, <1>9, <1>10, <1>11 DEF WorkerInv

LEMMA ExitDrainKeeps == ASSUME WorkerInv, ExitDrain PROVE WorkerInv'
<1>1. /\ WorkerShape /\ ChanInv /\ LifeInv /\ CustodyInv /\ FreshInv /\ ListedInv
      /\ VisibleInv /\ AnswerIsVisible /\ snap.seq <= Received
  BY DEF WorkerInv
<1> DEFINE n == Head(chan).seq
<1>2. /\ at.pc = "exit" /\ inFlight = {} /\ chan # <<>> /\ chan' = Tail(chan)
      /\ answer' = [answer EXCEPT ![n] = "sent"]
      /\ UNCHANGED <<life, control, snap, next, inFlight, stopped, at>>
  BY DEF ExitDrain, handleVars, instanceVars
<1>3. ~InHand /\ ~InHand' /\ stopped = {} /\ life # 0
  BY <1>1, <1>2 DEF InHand, Fresh, Driven, CustodyInv, LifeInv
<1>4. /\ n = Received + 1 /\ n \in Seqs /\ Received' = Received + 1 /\ ChanInv'
      /\ chan' \in Seq([seq : Seqs, kind : Kinds])
  BY <1>1, <1>2, FirstOfChannel
<1> HIDE DEF n
<1>5. Received \in Nat /\ snap.seq \in Nat
  BY <1>1 DEF ChanInv, WorkerShape, SnapType
<1>6. answer' \in [Seqs -> {"none", "sent", "dropped"}] /\ answer'[n] = "sent"
      /\ \A s \in Seqs \ {n} : answer'[s] = answer[s]
  BY <1>1, <1>2, <1>4 DEF WorkerShape
<1>7. WorkerShape'
  BY <1>1, <1>2, <1>4, <1>6 DEF WorkerShape
<1>8. \A s \in Seqs : ~Open(s) /\ ~Open(s)'
  BY <1>2, <1>3 DEF Open
<1>9. \A s \in Seqs : ~(s <= Received' /\ answer'[s] = "none")
  <2> SUFFICES ASSUME NEW s \in Seqs, s <= Received + 1, s # n PROVE answer[s] # "none"
    BY <1>4, <1>6
  <2>1. s <= Received
    BY <1>4, <1>5, SeqsNat
  <2> QED
    BY <1>1, <1>8, <2>1 DEF CustodyInv
<1>10. \A s \in Seqs : s > Received' => answer'[s] = "none"
  <2> SUFFICES ASSUME NEW s \in Seqs, s > Received + 1 PROVE s # n /\ answer[s] = "none"
    BY <1>4, <1>6
  <2>1. s > Received /\ s # n
    BY <1>4, <1>5, SeqsNat
  <2> QED
    BY <1>1, <2>1 DEF CustodyInv
<1>11. CustodyInv'
  BY <1>1, <1>2, <1>3, <1>8, <1>9, <1>10 DEF CustodyInv
<1>12. LifeInv' /\ FreshInv' /\ ListedInv' /\ VisibleInv' /\ AnswerIsVisible'
  BY <1>1, <1>2, <1>3 DEF LifeInv, FreshInv, Fresh, ListedInv, VisibleInv, AnswerIsVisible
<1>13. snap'.seq <= Received'
  BY <1>1, <1>2, <1>4, <1>5
<1> QED
  BY <1>4, <1>7, <1>11, <1>12, <1>13 DEF WorkerInv

LEMMA DropReceiverKeeps == ASSUME WorkerInv, DropReceiver PROVE WorkerInv'
<1>1. /\ WorkerShape /\ ChanInv /\ LifeInv /\ CustodyInv /\ FreshInv /\ ListedInv
      /\ VisibleInv /\ AnswerIsVisible /\ snap.seq <= Received
  BY DEF WorkerInv
<1> DEFINE InChan(s) == \E i \in DOMAIN chan : chan[i].seq = s
<1>2. /\ at.pc = "closing" /\ chan' = <<>> /\ Go("done")
      /\ answer' = [s \in Seqs |-> IF InChan(s) THEN "dropped" ELSE answer[s]]
      /\ UNCHANGED <<life, control, snap, next, inFlight, stopped>>
  BY DEF DropReceiver, handleVars, instanceVars
<1>3. /\ Len(chan) \in Nat /\ DOMAIN chan = 1 .. Len(chan) /\ next \in Nat
      /\ Received \in Nat /\ snap.seq \in Nat /\ next = Received + Len(chan)
  <2>1. Len(chan) \in Nat /\ DOMAIN chan = 1 .. Len(chan) /\ next \in Nat
    BY <1>1, SeqsNat DEF WorkerShape
  <2> QED
    BY <1>1, <2>1, SeqsNat DEF WorkerShape, SnapType, ChanInv, Received
<1>4. at' \in AtType /\ at'.pc = "done" /\ at'.seq = at.seq /\ life # 0
  BY <1>1, <1>2, Goes DEF WorkerShape, WorkerPlaces, LifeInv
<1>5. ~InHand /\ ~InHand'
  BY <1>2, <1>4 DEF InHand, Fresh, Driven
<1>6. answer' \in [Seqs -> {"none", "sent", "dropped"}]
  BY <1>1, <1>2 DEF WorkerShape
<1>7. Received' = next
  <2>1. Len(chan') = 0
    BY <1>2
  <2> QED
    BY <1>2, <1>3, <2>1 DEF Received
<1>8. \A s \in Seqs : InChan(s) <=> s > Received /\ s <= next
  <2> TAKE s \in Seqs
  <2>1. s \in Nat
    BY SeqsNat
  <2>2. ASSUME NEW i \in DOMAIN chan, chan[i].seq = s PROVE s > Received /\ s <= next
    <3>1. s = Received + i
      BY <1>1, <2>2 DEF ChanInv
    <3> QED
      BY <1>3, <3>1
  <2>3. ASSUME s > Received, s <= next PROVE InChan(s)
    <3>1. s - Received \in DOMAIN chan /\ Received + (s - Received) = s
      BY <1>3, <2>1, <2>3
    <3>2. chan[s - Received].seq = s
      BY <1>1, <3>1 DEF ChanInv
    <3> QED
      BY <3>1, <3>2
  <2> QED
    BY <2>2, <2>3
<1> HIDE DEF InChan
<1>9. WorkerShape'
  BY <1>1, <1>2, <1>4, <1>6 DEF WorkerShape
<1>10. ChanInv'
  <2>1. DOMAIN chan' = {}
    BY <1>2
  <2> QED
    BY <1>3, <1>7, <2>1 DEF ChanInv
<1>11. \A s \in Seqs : Open(s)' <=> s <= Received' /\ answer'[s] = "none"
  <2> TAKE s \in Seqs
  <2>1. Open(s)' <=> Open(s)
    BY <1>2, <1>5 DEF Open
  <2>2. Open(s) <=> s <= Received /\ answer[s] = "none"
    BY <1>1 DEF CustodyInv
  <2>3. answer'[s] = "none" <=> ~InChan(s) /\ answer[s] = "none"
    BY <1>2
  <2>4. s <= next /\ ~InChan(s) <=> s <= Received
    BY <1>3, <1>8, SeqsNat
  <2> QED
    BY <1>7, <2>1, <2>2, <2>3, <2>4
<1>12. \A s \in Seqs : s > Received' => answer'[s] = "none"
  <2> SUFFICES ASSUME NEW s \in Seqs, s > next PROVE answer'[s] = "none"
    BY <1>7
  <2>1. ~InChan(s) /\ s > Received
    BY <1>3, <1>8, SeqsNat
  <2> QED
    BY <1>1, <1>2, <2>1 DEF CustodyInv
<1>13. CustodyInv'
  BY <1>1, <1>2, <1>4, <1>5, <1>11, <1>12 DEF CustodyInv
<1>14. LifeInv' /\ FreshInv' /\ ListedInv' /\ VisibleInv' /\ AnswerIsVisible'
  BY <1>1, <1>2, <1>4 DEF LifeInv, FreshInv, Fresh, ListedInv, VisibleInv, AnswerIsVisible
<1>15. snap'.seq <= Received'
  BY <1>1, <1>2, <1>3, <1>7
<1> QED
  BY <1>9, <1>10, <1>13, <1>14, <1>15 DEF WorkerInv

-----------------------------------------------------------------------------
LEMMA WorkerStep == ASSUME WorkerInv, [WorkerNext]_workerVars PROVE WorkerInv'
<1>1. CASE Worker
  <2>1. CASE StopOne
    <3>1. UNCHANGED Concerned
      BY <2>1 DEF StopOne, Concerned, handleVars
    <3> QED
      BY <3>1, UntouchedKeeps
  <2>2. CASE \/ Ended \/ ReceiveNone \/ ScanNone \/ Unpark \/ PrepareFails \/ CallSync
             \/ StartTask \/ DriveFails \/ FragmentCompletes \/ FragmentAwaits \/ StartPort
             \/ ExitDrained
    BY <2>2, WalkKeeps
  <2>3. CASE Receive \/ ScanReady \/ Replace
    BY <2>3, ReceiveKeeps, ScanReadyKeeps, ReplaceKeeps
  <2>4. CASE FinishPublish \/ FinishReply \/ BatchPublish \/ BatchReceipt
    BY <2>4, FinishPublishKeeps, FinishReplyKeeps, BatchPublishKeeps, BatchReceiptKeeps
  <2>5. CASE BeginAwait \/ Insert
    BY <2>5, BeginAwaitKeeps, InsertKeeps
  <2>6. CASE ExitTask \/ ExitDrain \/ DropReceiver
    BY <2>6, ExitTaskKeeps, ExitDrainKeeps, DropReceiverKeeps
  <2> QED
    BY <1>1, <2>1, <2>2, <2>3, <2>4, <2>5, <2>6 DEF Worker
<1>2. ASSUME NEW c \in Callers, SubmitCheck(c) \/ SubmitRefused(c) PROVE WorkerInv'
  <2>1. UNCHANGED Concerned
    BY <1>2 DEF SubmitCheck, SubmitRefused, Concerned, instanceVars
  <2> QED
    BY <2>1, UntouchedKeeps
<1>3. ASSUME NEW c \in Callers, NEW k \in Kinds, SubmitSend(c, k) PROVE WorkerInv'
  BY <1>3, SubmitSendKeeps
<1>4. ASSUME NEW s \in Seqs, CancelRequest(s) PROVE WorkerInv'
  <2>1. UNCHANGED Concerned
    BY <1>4 DEF CancelRequest, Concerned, instanceVars
  <2> QED
    BY <2>1, UntouchedKeeps
<1>5. ASSUME NEW c \in Stages, ControlSet(c) \/ ControlCancel(c) \/ MarkTerminal(c)
      PROVE  WorkerInv'
  BY <1>5, ControlKeeps
<1>6. CASE Handle
  BY <1>2, <1>3, <1>4, <1>5, <1>6 DEF Handle
<1>7. CASE Wake
  <2>1. UNCHANGED Concerned
    BY <1>7 DEF Wake, Concerned, handleVars, instanceVars
  <2> QED
    BY <2>1, UntouchedKeeps
<1>8. CASE Host
  <2>1. UNCHANGED Concerned
    BY <1>8 DEF Host, Complete, Expire, Concerned, handleVars
  <2> QED
    BY <2>1, UntouchedKeeps
<1>9. CASE UNCHANGED workerVars
  <2>1. UNCHANGED Concerned
    BY <1>9 DEF workerVars, Concerned
  <2> QED
    BY <2>1, UntouchedKeeps
<1> QED
  BY <1>1, <1>6, <1>7, <1>8, <1>9 DEF WorkerNext

(* The inductive invariant of the module worker.                            *)
THEOREM WorkerInductive == WorkerSpec => []WorkerInv
<1>1. WorkerInit => WorkerInv
  BY WorkerStart
<1>2. WorkerInv /\ [WorkerNext]_workerVars => WorkerInv'
  BY WorkerStep
<1> QED
  BY <1>1, <1>2, PTL DEF WorkerSpec

(* Whoever has received the answer of its request finds it in the snapshot, *)
(* unless the worker was revoked or closed.                                 *)
THEOREM AnswersVisible == WorkerSpec => []AnswerIsVisible
<1>1. WorkerInv => AnswerIsVisible
  BY DEF WorkerInv
<1> QED
  BY <1>1, WorkerInductive, PTL

(* A request the sequence covers and that is not listed as under way is     *)
(* decided.                                                                 *)
THEOREM CoveredDecided == WorkerSpec => []CoveredIsDecided
<1>1. ASSUME WorkerInv PROVE CoveredIsDecided
  <2> SUFFICES ASSUME NEW s \in Seqs, snap.active, s <= snap.seq, s \notin snap.pend
               PROVE  Decided(s)
    BY DEF CoveredIsDecided
  <2>1. WorkerShape /\ CustodyInv /\ FreshInv /\ ListedInv /\ snap.seq <= Received
        /\ Received \in Nat
    BY <1>1 DEF WorkerInv, ChanInv
  <2>2. s <= Received
    BY <2>1, SeqsNat DEF WorkerShape, SnapType
  <2>3. answer[s] = "none" => Open(s)
    BY <2>1, <2>2 DEF CustodyInv
  <2>4. s \notin inFlight
    BY <2>1 DEF ListedInv
  <2>5. ASSUME InHand, s = at.seq PROVE at.pc \in {"publish", "reply"}
    <3>1. ~(snap.seq < at.seq)
      BY <2>1, <2>5, SeqsNat DEF WorkerShape, SnapType
    <3> QED
      BY <2>1, <2>5, <3>1 DEF InHand, Fresh, Driven, FreshInv, ListedInv
  <2> QED
    BY <2>3, <2>4, <2>5 DEF Open, Decided
<1> QED
  BY <1>1, WorkerInductive, PTL

(* Once the snapshot was cleared for good no result comes back into it.     *)
THEOREM TerminalClear == WorkerSpec => []TerminalStaysClear
<1>1. WorkerInv => TerminalStaysClear
  BY DEF WorkerInv, LifeInv, TerminalStaysClear
<1> QED
  BY <1>1, WorkerInductive, PTL

-----------------------------------------------------------------------------
(* The types of what WorkerInv leaves out.                                  *)
TaskType == [fresh : BOOLEAN, slot : Slots, late : BOOLEAN]

FlagsInv ==
  /\ flag \in BOOLEAN /\ token \in BOOLEAN /\ owed \in BOOLEAN
  /\ caller \in [Callers -> {"idle", "checked"}]
  /\ cancelled \subseteq Seqs /\ cancels \in 0 .. MaxCancels
TasksInv == task \in [Seqs -> TaskType]
AwaitsInv == at.awaits <= MaxAwaits /\ (at.pc = "begin" => at.awaits < MaxAwaits)

LEMMA FlagsStart == ASSUME WorkerInit PROVE FlagsInv /\ TasksInv /\ AwaitsInv
<1>1. FlagsInv
  <2>1. 0 \in 0 .. MaxCancels
    BY WorkerAssumption
  <2>2. caller \in [Callers -> {"idle", "checked"}]
    BY DEF WorkerInit
  <2> QED
    BY <2>1, <2>2 DEF WorkerInit, FlagsInv
<1>3. AwaitsInv
  <2>1. at.awaits = 0 /\ at.pc = "top"
    BY DEF WorkerInit
  <2>2. 0 <= MaxAwaits
    BY WorkerAssumption
  <2> QED
    BY <2>1, <2>2 DEF AwaitsInv
<1>2. TasksInv
  BY DEF WorkerInit, TasksInv, TaskType, NoTask, Slots
<1> QED
  BY <1>1, <1>2, <1>3

(* One field of one task.                                                   *)
LEMMA SlotType ==
  ASSUME TasksInv, NEW s \in Seqs, NEW v \in Slots
  PROVE  [task EXCEPT ![s].slot = v] \in [Seqs -> TaskType]
BY DEF TasksInv, TaskType

LEMMA StopTaskType ==
  ASSUME TasksInv, FlagsInv, NEW s \in Seqs, StopTask(s)
  PROVE  TasksInv' /\ cancelled' \subseteq Seqs /\ token' = TRUE
<1> DEFINE v == IF task[s].slot = "none" THEN "none" ELSE "closed"
<1>1. v \in Slots
  BY DEF Slots
<1>2. task' = [task EXCEPT ![s].slot = v]
  BY DEF StopTask
<1> HIDE DEF v
<1>3. task' \in [Seqs -> TaskType]
  BY <1>1, <1>2, SlotType
<1> QED
  BY <1>3 DEF StopTask, FlagsInv, TasksInv

LEMMA CommitType ==
  ASSUME TasksInv, NEW own
  PROVE  Commit(own) \in [Seqs -> TaskType]
<1>1. \A s \in Seqs : /\ [task[s] EXCEPT !.fresh = TRUE] \in TaskType
                      /\ [task[s] EXCEPT !.fresh = FALSE] \in TaskType
  BY DEF TasksInv, TaskType
<1> QED
  BY <1>1 DEF Commit

LEMMA ConsumedType ==
  ASSUME NEW t \in [Seqs -> TaskType]
  PROVE  Consumed(t) \in [Seqs -> TaskType]
<1>1. \A s \in Seqs : t[s] \in TaskType /\ [t[s] EXCEPT !.slot = "consumed"] \in TaskType
  BY DEF TaskType, Slots
<1> QED
  BY <1>1 DEF Consumed

LEMMA HandSeq == ASSUME WorkerInv, InHand PROVE at.seq \in Seqs
BY DEF WorkerInv, CustodyInv

LEMMA TasksKeep ==
  ASSUME WorkerInv, FlagsInv, TasksInv, WorkerNext PROVE TasksInv'
<1>1. CASE StopOne
  <2>1. NotStopped \in SUBSET Nat /\ NotStopped # {} /\ NotStopped \subseteq Seqs
    BY <1>1, SeqsNat DEF StopOne, NotStopped, WorkerInv, WorkerShape
  <2>2. Min(NotStopped) \in Seqs
    BY <2>1, MinMember
  <2> QED
    BY <1>1, <2>2, StopTaskType DEF StopOne
<1>2. CASE DriveFails
  <2>1. at.seq \in Seqs
    BY <1>2, HandSeq DEF DriveFails, InHand, Driven
  <2> QED
    BY <1>2, <2>1, StopTaskType DEF DriveFails
<1>3. CASE ExitTask
  <2>1. inFlight \in SUBSET Nat /\ inFlight # {} /\ inFlight \subseteq Seqs
    BY <1>3, SeqsNat DEF ExitTask, WorkerInv, WorkerShape
  <2>2. Min(inFlight) \in Seqs
    BY <2>1, MinMember
  <2> QED
    BY <1>3, <2>2, StopTaskType DEF ExitTask
<1>4. CASE FinishReply
  <2> DEFINE v == IF task[at.seq].slot = "pending" THEN "pending" ELSE "closed"
  <2>1. v \in Slots
    BY DEF Slots
  <2>2. task' = [task EXCEPT ![at.seq] = [NoTask EXCEPT !.slot = v]]
    BY <1>4 DEF FinishReply
  <2> HIDE DEF v
  <2>3. [NoTask EXCEPT !.slot = v] \in TaskType
    BY <2>1 DEF NoTask, TaskType
  <2> QED
    BY <2>2, <2>3 DEF TasksInv
<1>5. CASE CallSync
  BY <1>5, CommitType DEF CallSync, TasksInv
<1>6. CASE StartTask
  <2>1. [NoTask EXCEPT !.fresh = TRUE] \in TaskType
    BY DEF NoTask, TaskType, Slots
  <2> QED
    BY <1>6, <2>1 DEF StartTask, TasksInv
<1>7. CASE FragmentCompletes \/ FragmentAwaits
  <2>1. PICK t \in {task, Commit({at.seq})} : task' = Consumed(t)
    BY <1>7 DEF FragmentCompletes, FragmentAwaits
  <2>2. t \in [Seqs -> TaskType]
    BY <2>1, CommitType DEF TasksInv
  <2> QED
    BY <2>1, <2>2, ConsumedType DEF TasksInv
<1>8. CASE BeginAwait \/ StartPort
  <2>1. at.seq \in Seqs
    BY <1>8, HandSeq DEF BeginAwait, StartPort, InHand, Driven
  <2>2. "made" \in Slots /\ "pending" \in Slots
    BY DEF Slots
  <2> QED
    BY <1>8, <2>1, <2>2, SlotType DEF BeginAwait, StartPort, TasksInv
<1>9. ASSUME NEW s \in Seqs, Complete(s) PROVE TasksInv'
  <2>1. "ready" \in Slots
    BY DEF Slots
  <2> QED
    BY <1>9, <2>1, SlotType DEF Complete, TasksInv
<1>10. ASSUME NEW s \in Seqs, Expire(s) PROVE TasksInv'
  <2>1. [task EXCEPT ![s].late = TRUE] \in [Seqs -> TaskType]
    BY DEF TasksInv, TaskType
  <2> QED
    BY <1>10, <2>1 DEF Expire, TasksInv
<1>11. CASE Handle \/ Wake
  <2>1. task' = task
    BY <1>11 DEF Handle, Wake, SubmitCheck, SubmitRefused, SubmitSend, CancelRequest,
                 ControlSet, ControlCancel, MarkTerminal, instanceVars
  <2> QED
    BY <2>1 DEF TasksInv
<1>12. CASE \/ Ended \/ Receive \/ ReceiveNone \/ ScanReady \/ ScanNone \/ Unpark
            \/ PrepareFails \/ Replace \/ BatchPublish \/ BatchReceipt \/ Insert
            \/ FinishPublish \/ ExitDrain \/ ExitDrained \/ DropReceiver
  <2>1. task' = task
    BY <1>12 DEF Ended, Receive, ReceiveNone, ScanReady, ScanNone, Unpark, PrepareFails,
                 Replace, BatchPublish, BatchReceipt, Insert, FinishPublish, ExitDrain,
                 ExitDrained, DropReceiver, instanceVars
  <2> QED
    BY <2>1 DEF TasksInv
<1>13. CASE Worker
  BY <1>1, <1>2, <1>3, <1>4, <1>5, <1>6, <1>7, <1>8, <1>12, <1>13 DEF Worker
<1>14. CASE Host
  BY <1>9, <1>10, <1>14 DEF Host
<1> QED
  BY <1>11, <1>13, <1>14 DEF WorkerNext

LEMMA FlagsKeep ==
  ASSUME WorkerInv, FlagsInv, TasksInv, WorkerNext PROVE FlagsInv'
<1>1. ASSUME NEW s \in Seqs, StopTask(s), UNCHANGED handleVars, owed' = owed
      PROVE  FlagsInv'
  <2>1. cancelled' \subseteq Seqs /\ token' = TRUE
    BY <1>1, StopTaskType
  <2> QED
    BY <1>1, <2>1 DEF FlagsInv, handleVars
<1>2. CASE StopOne
  <2>1. NotStopped \in SUBSET Nat /\ NotStopped # {} /\ NotStopped \subseteq Seqs
    BY <1>2, SeqsNat DEF StopOne, NotStopped, WorkerInv, WorkerShape
  <2>2. Min(NotStopped) \in Seqs
    BY <2>1, MinMember
  <2>3. UNCHANGED handleVars /\ owed' = owed /\ StopTask(Min(NotStopped))
    BY <1>2 DEF StopOne
  <2> QED
    BY <1>1, <2>2, <2>3
<1>3. CASE DriveFails
  <2>1. at.seq \in Seqs
    BY <1>3, HandSeq DEF DriveFails, InHand, Driven
  <2>2. UNCHANGED handleVars /\ owed' = owed /\ StopTask(at.seq)
    BY <1>3 DEF DriveFails
  <2> QED
    BY <1>1, <2>1, <2>2
<1>4. CASE ExitTask
  <2>1. inFlight \in SUBSET Nat /\ inFlight # {} /\ inFlight \subseteq Seqs
    BY <1>4, SeqsNat DEF ExitTask, WorkerInv, WorkerShape
  <2>2. Min(inFlight) \in Seqs
    BY <2>1, MinMember
  <2>3. UNCHANGED handleVars /\ owed' = owed /\ StopTask(Min(inFlight))
    BY <1>4 DEF ExitTask
  <2> QED
    BY <1>1, <2>2, <2>3
<1>5. CASE Unpark
  BY <1>5 DEF Unpark, FlagsInv, handleVars
<1>6. CASE \/ Ended \/ Receive \/ ReceiveNone \/ ScanReady \/ ScanNone
           \/ PrepareFails \/ CallSync \/ StartTask \/ Replace \/ BatchPublish \/ BatchReceipt
           \/ FragmentCompletes \/ FragmentAwaits \/ BeginAwait \/ StartPort \/ Insert
           \/ FinishPublish \/ FinishReply \/ ExitDrain \/ ExitDrained \/ DropReceiver
  <2>1. UNCHANGED handleVars /\ UNCHANGED <<cancelled, token, owed>>
    BY <1>6 DEF Ended, Receive, ReceiveNone, ScanReady, ScanNone, PrepareFails, CallSync,
                StartTask, Replace, BatchPublish, BatchReceipt, FragmentCompletes,
                FragmentAwaits, BeginAwait, StartPort, Insert, FinishPublish, FinishReply,
                ExitDrain, ExitDrained, DropReceiver
  <2> QED
    BY <2>1 DEF FlagsInv, handleVars
<1>7. CASE Worker
  BY <1>2, <1>3, <1>4, <1>5, <1>6, <1>7 DEF Worker
<1>8. ASSUME NEW c \in Callers, SubmitCheck(c) PROVE FlagsInv'
  BY <1>8 DEF SubmitCheck, FlagsInv
<1>9. ASSUME NEW c \in Callers, SubmitRefused(c) PROVE FlagsInv'
  BY <1>9 DEF SubmitRefused, FlagsInv
<1>10. ASSUME NEW c \in Callers, NEW k \in Kinds, SubmitSend(c, k) PROVE FlagsInv'
  BY <1>10 DEF SubmitSend, FlagsInv
<1>11. ASSUME NEW s \in Seqs, CancelRequest(s) PROVE FlagsInv'
  <2>1. cancels + 1 \in 0 .. MaxCancels
    BY <1>11, WorkerAssumption DEF CancelRequest, FlagsInv
  <2> QED
    BY <1>11, <2>1 DEF CancelRequest, FlagsInv
<1>12. ASSUME NEW c \in Stages, ControlSet(c) \/ ControlCancel(c) \/ MarkTerminal(c)
       PROVE  FlagsInv'
  BY <1>12 DEF ControlSet, ControlCancel, MarkTerminal, FlagsInv
<1>13. CASE Handle
  BY <1>8, <1>9, <1>10, <1>11, <1>12, <1>13 DEF Handle
<1>14. CASE Wake
  BY <1>14 DEF Wake, FlagsInv, handleVars
<1>15. ASSUME NEW s \in Seqs, Complete(s) \/ Expire(s) PROVE FlagsInv'
  BY <1>15 DEF Complete, Expire, FlagsInv, handleVars
<1>16. CASE Host
  BY <1>15, <1>16 DEF Host
<1> QED
  BY <1>7, <1>13, <1>14, <1>16 DEF WorkerNext

LEMMA AwaitsKeep ==
  ASSUME WorkerInv, AwaitsInv, WorkerNext PROVE AwaitsInv'
<1>1. at \in AtType /\ MaxAwaits \in Nat /\ Kinds \subseteq {"sync", "async", "replace"}
  BY WorkerAssumption DEF WorkerInv, WorkerShape
<1>2. at.awaits \in Nat
  BY <1>1 DEF AtType
<1>3. ASSUME at'.awaits = at.awaits, at'.pc # "begin" \/ at'.pc = at.pc PROVE AwaitsInv'
  BY <1>3 DEF AwaitsInv
<1>4. ASSUME NEW p, Go(p) PROVE at'.awaits = at.awaits /\ at'.pc = p
  BY <1>1, <1>4 DEF Go, AtType
<1>5. CASE BeginAwait
  <2>1. /\ at.pc = "begin"
        /\ at' = [at EXCEPT !.pc = "start", !.awaits = at.awaits + 1]
    BY <1>5 DEF BeginAwait
  <2>2. at'.pc = "start" /\ at'.awaits = at.awaits + 1
    BY <1>1, <2>1 DEF AtType
  <2> QED
    BY <1>1, <1>2, <2>1, <2>2 DEF AwaitsInv
<1>6. CASE FragmentAwaits
  BY <1>4, <1>6 DEF FragmentAwaits, AwaitsInv
<1>7. CASE Insert \/ FinishReply
  <2>1. at' = AfterAnswer
    BY <1>7 DEF Insert, FinishReply
  <2>2. at'.awaits = at.awaits /\ at'.pc \in {"top", "scan"}
    BY <1>1, <2>1 DEF AfterAnswer, AtType
  <2> QED
    BY <1>3, <2>2
<1>8. CASE Receive
  <2>1. chan # <<>> /\ at' = [at EXCEPT !.pc = Head(chan).kind, !.seq = Head(chan).seq]
    BY <1>8 DEF Receive
  <2>2. Head(chan).kind \in Kinds
    <3> DEFINE E == [seq : Seqs, kind : Kinds]
    <3>1. chan \in Seq(E)
      BY DEF WorkerInv, WorkerShape
    <3>2. \A e \in E : e.kind \in Kinds
      OBVIOUS
    <3> HIDE DEF E
    <3>3. Head(chan) \in E
      BY <2>1, <3>1
    <3> QED
      BY <3>2, <3>3
  <2>3. at'.awaits = at.awaits /\ at'.pc = Head(chan).kind
    BY <1>1, <2>1 DEF AtType
  <2> QED
    BY <1>1, <1>3, <2>2, <2>3
<1>9. CASE ScanReady
  <2>1. at'.awaits = at.awaits /\ at'.pc = "drive"
    BY <1>1, <1>9 DEF ScanReady, AtType
  <2> QED
    BY <1>3, <2>1
<1>10. CASE ScanNone
  <2>1. at'.awaits = at.awaits /\ at'.pc \in {"top", "parked"}
    BY <1>1, <1>10 DEF ScanNone, AtType
  <2> QED
    BY <1>3, <2>1
<1>11. CASE Replace
  <2>1. at'.awaits = at.awaits /\ at'.pc \in {"publish", "stop"}
    BY <1>1, <1>11 DEF Replace, AtType
  <2> QED
    BY <1>3, <2>1
<1>12. CASE \/ Ended \/ ReceiveNone \/ Unpark \/ PrepareFails \/ CallSync \/ StartTask
            \/ BatchPublish \/ BatchReceipt \/ DriveFails \/ FragmentCompletes \/ StartPort
            \/ FinishPublish \/ ExitDrained \/ DropReceiver
  <2>1. \E p \in {"exit", "scan", "top", "publish", "drive", "receipts", "port", "reply",
                  "closing", "done"} : Go(p)
    BY <1>12 DEF Ended, ReceiveNone, Unpark, PrepareFails, CallSync, StartTask, BatchPublish,
                 BatchReceipt, DriveFails, FragmentCompletes, StartPort, FinishPublish,
                 ExitDrained, DropReceiver
  <2> QED
    BY <1>3, <1>4, <2>1
<1>13. CASE StopOne \/ ExitTask \/ ExitDrain \/ Handle \/ Wake \/ Host
  <2>1. at' = at
    BY <1>13 DEF StopOne, ExitTask, ExitDrain, Handle, Wake, Host, SubmitCheck, SubmitRefused,
                 SubmitSend, CancelRequest, ControlSet, ControlCancel, MarkTerminal, Complete,
                 Expire
  <2> QED
    BY <1>3, <2>1
<1>14. CASE Worker
  BY <1>5, <1>6, <1>7, <1>8, <1>9, <1>10, <1>11, <1>12, <1>13, <1>14 DEF Worker
<1> QED
  BY <1>13, <1>14 DEF WorkerNext

(* Every variable of the worker keeps its type.                             *)
THEOREM WorkerTypeCorrect == WorkerSpec => []WorkerTypeOK
<1> DEFINE I == WorkerInv /\ FlagsInv /\ TasksInv /\ AwaitsInv
<1>1. WorkerInit => FlagsInv /\ TasksInv /\ AwaitsInv
  BY FlagsStart
<1>2. ASSUME WorkerInv, FlagsInv, TasksInv, AwaitsInv, [WorkerNext]_workerVars
      PROVE  FlagsInv' /\ TasksInv' /\ AwaitsInv'
  <2>1. CASE WorkerNext
    BY <1>2, <2>1, FlagsKeep, TasksKeep, AwaitsKeep
  <2>2. CASE UNCHANGED workerVars
    <3>1. UNCHANGED <<flag, token, owed, caller, cancelled, cancels, task, at>>
      BY <2>2 DEF workerVars
    <3> QED
      BY <1>2, <3>1 DEF FlagsInv, TasksInv, AwaitsInv
  <2> QED
    BY <1>2, <2>1, <2>2
<1>3. ASSUME WorkerInv, FlagsInv, TasksInv, AwaitsInv PROVE WorkerTypeOK
  <2>1. at \in [pc : WorkerPlaces, seq : 0 .. MaxSeq, progressed : BOOLEAN,
                awaits : 0 .. MaxAwaits]
    BY <1>3, WorkerAssumption DEF WorkerInv, WorkerShape, AtType, AwaitsInv
  <2> QED
    BY <1>3, <2>1 DEF WorkerTypeOK, WorkerInv, WorkerShape, FlagsInv, TasksInv, TaskType,
                      SnapType
<1> QED
  BY <1>1, <1>2, <1>3, WorkerInductive, PTL DEF WorkerSpec
=============================================================================
