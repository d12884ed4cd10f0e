---------------------------- MODULE ServerProofs ----------------------------
(***************************************************************************)
(* Proofs about what a server process does around its handlers: Limiter,   *)
(* for every configuration and any number of keys and requests, Dispatch,  *)
(* for any number of calls, and Startup, for any number of processes.      *)
(*                                                                         *)
(* The inductive invariant of the limiter is the conjunction of the types, *)
(* the count bound, the capacity bound and the exact slot count: each of   *)
(* the last three needs the types, and the type of slots needs the exact   *)
(* count (a release finds a slot to give back).                            *)
(*                                                                         *)
(* Of the liveness properties there is what each step contributes: how long*)
(* a key stays blocked, and how many steps a stopping process has left.    *)
(***************************************************************************)
EXTENDS Limiter, Dispatch, Startup, FiniteSetTheorems, TLAPS

BucketsOK ==
    /\ IsFiniteSet(DOMAIN buckets)
    /\ DOMAIN buckets \subseteq Keys
    /\ buckets \in [DOMAIN buckets -> Bucket]
    /\ cleanup \in 0 .. Window

IInv == TypeOK /\ CountWithinLimit /\ WithinCapacity /\ SlotsExact

USE DEF Keys, Ages, Bucket, Request

\* Every key has a positive limit (New replaces the others).
LEMMA LimitPositive == \A k : Limit(k) \in Nat \ {0}
BY ConfigAssumption DEF Limit

\* The sweep keeps a well-formed map, keeps every active bucket as it is, and
\* leaves time until the next one.
LEMMA SweptOK ==
    ASSUME BucketsOK, CountWithinLimit, WithinCapacity
    PROVE  /\ IsFiniteSet(DOMAIN Swept)
           /\ DOMAIN Swept \subseteq DOMAIN buckets
           /\ Swept = [k \in DOMAIN Swept |-> buckets[k]]
           /\ Cardinality(DOMAIN Swept) \in Nat
           /\ Cardinality(DOMAIN Swept) <= MaxEntries
           /\ \A k \in Keys : Active(k) => k \in DOMAIN Swept
           /\ CleanupAfter \in 1 .. Window
<1> DEFINE Kept == {k \in DOMAIN buckets : buckets[k].left > 0}
<1>1. IsFiniteSet(DOMAIN buckets) /\ Cardinality(DOMAIN buckets) \in Nat
  BY FS_CardinalityType DEF BucketsOK
<1>2. CleanupAfter \in 1 .. Window
  BY ConfigAssumption DEF CleanupAfter, BucketsOK
<1>3. CASE cleanup = 0
  <2>1. Swept = [k \in Kept |-> buckets[k]]
    BY <1>3 DEF Swept, Restrict
  <2>2. DOMAIN Swept = Kept
    BY <2>1
  <2>3. IsFiniteSet(Kept) /\ Cardinality(Kept) <= Cardinality(DOMAIN buckets)
    BY <1>1, FS_Subset
  <2>4. Cardinality(Kept) \in Nat
    BY <2>3, FS_CardinalityType
  <2> HIDE DEF Kept
  <2>5. Cardinality(Kept) <= MaxEntries
    BY <1>1, <2>3, <2>4, ConfigAssumption DEF WithinCapacity
  <2>6. \A k \in Keys : Active(k) => k \in Kept
    BY DEF Active, Kept
  <2>7. Kept \subseteq DOMAIN buckets
    BY DEF Kept
  <2> QED BY <1>2, <2>1, <2>2, <2>3, <2>4, <2>5, <2>6, <2>7
<1>4. CASE cleanup # 0
  <2>1. Swept = buckets
    BY <1>4 DEF Swept
  <2>2. buckets = [k \in DOMAIN buckets |-> buckets[k]]
    BY DEF BucketsOK
  <2> QED BY <1>1, <1>2, <2>1, <2>2 DEF WithinCapacity, Active
<1> QED BY <1>3, <1>4

\* One call of allow keeps the map well-formed and within its bounds.
LEMMA AllowOK ==
    ASSUME BucketsOK, CountWithinLimit, WithinCapacity, NEW k \in Keys, Allow(k)
    PROVE  BucketsOK' /\ CountWithinLimit' /\ WithinCapacity'
<1>1. /\ IsFiniteSet(DOMAIN Swept)
      /\ DOMAIN Swept \subseteq DOMAIN buckets
      /\ Swept = [j \in DOMAIN Swept |-> buckets[j]]
      /\ Cardinality(DOMAIN Swept) \in Nat
      /\ Cardinality(DOMAIN Swept) <= MaxEntries
      /\ CleanupAfter \in 1 .. Window
  BY SweptOK
<1>2. cleanup' \in 0 .. Window
  BY <1>1, ConfigAssumption DEF Allow
<1>3. \A j \in DOMAIN Swept : Swept[j] \in Bucket /\ Swept[j].count \in 1 .. Limit(j)
  BY <1>1 DEF BucketsOK, CountWithinLimit
<1>4. CASE NoRoom(k) \/ Exhausted(k)
  <2>1. buckets' = Swept
    BY <1>4 DEF Allow
  <2> QED BY <1>1, <1>2, <1>3, <2>1 DEF BucketsOK, CountWithinLimit, WithinCapacity
<1>5. CASE ~(NoRoom(k) \/ Exhausted(k))
  <2>1. buckets' = Stored(k)
    BY <1>5 DEF Allow
  <2>2. DOMAIN buckets' = DOMAIN Swept \cup {k}
    BY <2>1 DEF Stored
  <2>3. Charged(k) \in Bucket /\ Charged(k).count < Limit(k)
    <3>1. Charged(k) \in Bucket
      BY <1>3, ConfigAssumption DEF Charged
    <3>2. ~(Charged(k).count >= Limit(k))
      BY <1>5 DEF Exhausted
    <3> QED BY <3>1, <3>2, LimitPositive
  <2>4. \A j \in DOMAIN buckets' :
           buckets'[j] \in Bucket /\ buckets'[j].count \in 1 .. Limit(j)
    <3> SUFFICES ASSUME NEW j \in DOMAIN buckets'
                 PROVE  buckets'[j] \in Bucket /\ buckets'[j].count \in 1 .. Limit(j)
      OBVIOUS
    <3>1. CASE j = k
      <4>1. buckets'[j] = [Charged(k) EXCEPT !.count = @ + 1]
        BY <2>1, <2>2, <3>1 DEF Stored
      <4> QED BY <4>1, <2>3, <3>1, LimitPositive
    <3>2. CASE j # k
      <4>1. j \in DOMAIN Swept /\ buckets'[j] = Swept[j]
        BY <2>1, <2>2, <3>2 DEF Stored
      <4> QED BY <4>1, <1>3
    <3> QED BY <3>1, <3>2
  <2>5. IsFiniteSet(DOMAIN buckets') /\ Cardinality(DOMAIN buckets') <= MaxEntries
    <3>1. IsFiniteSet(DOMAIN Swept \cup {k})
      BY <1>1, FS_AddElement
    <3>2. Cardinality(DOMAIN Swept \cup {k}) =
            IF k \in DOMAIN Swept THEN Cardinality(DOMAIN Swept)
                                  ELSE Cardinality(DOMAIN Swept) + 1
      BY <1>1, FS_AddElement
    <3>3. k \notin DOMAIN Swept => ~(Cardinality(DOMAIN Swept) >= MaxEntries)
      BY <1>5 DEF NoRoom
    <3>4. Cardinality(DOMAIN Swept \cup {k}) <= MaxEntries
      BY <1>1, <3>2, <3>3, ConfigAssumption
    <3> QED BY <2>2, <3>1, <3>4
  <2>6. DOMAIN buckets' \subseteq Keys
    BY <1>1, <2>2 DEF BucketsOK
  <2>7. buckets' = [j \in DOMAIN buckets' |-> buckets'[j]]
    BY <2>1 DEF Stored
  <2>8. buckets' \in [DOMAIN buckets' -> Bucket]
    BY <2>4, <2>7
  <2> QED BY <1>2, <2>4, <2>5, <2>6, <2>8 DEF BucketsOK, CountWithinLimit, WithinCapacity
<1> QED BY <1>4, <1>5

\* An active bucket is in the map after a call of allow, unmoved and with no
\* smaller count.
LEMMA AllowKeepsActive ==
    ASSUME BucketsOK, CountWithinLimit, WithinCapacity, NEW k \in Keys, Allow(k),
           NEW j \in Keys, Active(j)
    PROVE  /\ j \in DOMAIN buckets'
           /\ buckets'[j].count >= buckets[j].count
           /\ buckets'[j].left = buckets[j].left
<1>1. /\ j \in DOMAIN Swept
      /\ Swept = [i \in DOMAIN Swept |-> buckets[i]]
  BY SweptOK
<1>2. Swept[j] = buckets[j]
  BY <1>1
<1>3. buckets[j] \in Bucket
  BY DEF Active, BucketsOK
<1>4. CASE NoRoom(k) \/ Exhausted(k)
  <2>1. buckets' = Swept
    BY <1>4 DEF Allow
  <2> QED BY <1>1, <1>2, <1>3, <2>1
<1>5. CASE ~(NoRoom(k) \/ Exhausted(k))
  <2>1. buckets' = Stored(k)
    BY <1>5 DEF Allow
  <2>2. j \in DOMAIN buckets'
    BY <1>1, <2>1 DEF Stored
  <2>3. CASE j = k
    <3>1. Charged(k) = buckets[j]
      BY <1>1, <1>2, <1>3, <2>3 DEF Charged, Active
    <3>2. buckets'[j] = [Charged(k) EXCEPT !.count = @ + 1]
      BY <2>1, <2>2, <2>3 DEF Stored
    <3> QED BY <1>3, <2>2, <3>1, <3>2
  <2>4. CASE j # k
    <3>1. buckets'[j] = Swept[j]
      BY <1>1, <2>1, <2>4 DEF Stored
    <3> QED BY <1>2, <1>3, <2>2, <3>1
  <2> QED BY <2>3, <2>4
<1> QED BY <1>4, <1>5

\* The record of a request that is not in flight.
LEMMA IdleType == Idle \in Request /\ Idle.pc = "idle"
<1>1. AnyName \in Names
  BY KeysAssumption DEF AnyName
<1> QED BY <1>1 DEF Idle

\* authPeerIP and the account spelling always name a bucket key.
LEMMA KeysOfRequests ==
    /\ \A p \in Peers : IPKey(p) \in Keys
    /\ \A n \in Names : AccountKey(n) \in Keys
BY KeysAssumption DEF IPKey, AccountKey

\* The history of admitted requests keeps its type.
LEMMA PassedType ==
    ASSUME recent \in [Keys -> [Ages -> Nat]], NEW k \in Keys, Passed(k)
    PROVE  recent' \in [Keys -> [Ages -> Nat]]
BY ConfigAssumption DEF Passed

\* A step that moves request r between two places outside "working" leaves the
\* set of working requests alone.
LEMMA SameWorking ==
    ASSUME reqs \in [Reqs -> Request], NEW r \in Reqs, NEW q,
           reqs' = [reqs EXCEPT ![r] = q],
           reqs[r].pc # "working", q.pc # "working",
           UNCHANGED slots, SlotsExact
    PROVE  SlotsExact'
<1>1. Working' = Working
  BY DEF Working
<1> QED BY <1>1 DEF SlotsExact

\* A new Limiter satisfies the invariant.
LEMMA InitIInv == Init => IInv
<1> SUFFICES ASSUME Init PROVE IInv
  OBVIOUS
<1>1. DOMAIN buckets = {}
  BY DEF Init
<1>2. IsFiniteSet(DOMAIN buckets) /\ Cardinality(DOMAIN buckets) = 0
  BY <1>1, FS_EmptySet
<1>3. Working = {}
  BY IdleType DEF Init, Working
<1>4. SlotsExact
  BY <1>3, FS_EmptySet DEF SlotsExact, Init
<1>5. TypeOK
  <2>1. buckets \in [DOMAIN buckets -> Bucket]
    BY <1>1 DEF Init
  <2>2. reqs \in [Reqs -> Request]
    BY IdleType DEF Init
  <2>3. recent \in [Keys -> [Ages -> Nat]]
    BY DEF Init
  <2>4. cleanup \in 0 .. Window /\ slots \in 0 .. MaxConcurrent
    BY ConfigAssumption DEF Init
  <2> QED BY <1>1, <1>2, <2>1, <2>2, <2>3, <2>4 DEF TypeOK
<1>6. CountWithinLimit
  BY <1>1 DEF CountWithinLimit
<1>7. WithinCapacity
  BY <1>2, ConfigAssumption DEF WithinCapacity
<1> QED BY <1>4, <1>5, <1>6, <1>7 DEF IInv

\* Every step of requests and clock keeps the invariant.
LEMMA NextIInv == IInv /\ [Next]_vars => IInv'
<1> SUFFICES ASSUME IInv, [Next]_vars PROVE IInv'
  OBVIOUS
<1> USE DEF IInv
<1>t. /\ BucketsOK
      /\ slots \in 0 .. MaxConcurrent
      /\ reqs \in [Reqs -> Request]
      /\ recent \in [Keys -> [Ages -> Nat]]
  BY DEF TypeOK, BucketsOK
\* What remains to be shown once the four parts are known.
<1>q. ASSUME BucketsOK', CountWithinLimit', WithinCapacity', SlotsExact',
             (slots \in 0 .. MaxConcurrent)', (reqs \in [Reqs -> Request])',
             (recent \in [Keys -> [Ages -> Nat]])'
      PROVE  IInv'
  BY <1>q DEF TypeOK, BucketsOK
\* Actions that do not call allow leave the map alone.
<1>u. ASSUME UNCHANGED <<buckets, cleanup>>
      PROVE  BucketsOK' /\ CountWithinLimit' /\ WithinCapacity'
  BY <1>t, <1>u DEF BucketsOK, CountWithinLimit, WithinCapacity
<1>1. ASSUME NEW r \in Reqs, NEW p \in Peers, NEW n \in Names, Arrive(r, p, n)
      PROVE  IInv'
  <2>1. BucketsOK' /\ CountWithinLimit' /\ WithinCapacity'
    BY <1>1, <1>t, AllowOK, KeysOfRequests DEF Arrive
  <2> DEFINE q == [pc |-> "handler", name |-> n, cancelled |-> FALSE]
  <2>2. CASE Retry(IPKey(p)) > 0
    <3>1. UNCHANGED <<reqs, recent, slots>>
      BY <1>1, <2>2 DEF Arrive
    <3> QED BY <1>t, <1>q, <2>1, <3>1 DEF SlotsExact, Working
  <2>3. CASE ~(Retry(IPKey(p)) > 0)
    <3>1. reqs' = [reqs EXCEPT ![r] = q] /\ reqs[r].pc = "idle" /\ slots' = slots
      BY <1>1, <2>3 DEF Arrive
    <3>2. recent' \in [Keys -> [Ages -> Nat]]
      BY <1>1, <1>t, <2>3, PassedType, KeysOfRequests DEF Arrive
    <3>3. q \in Request /\ q.pc = "handler"
      OBVIOUS
    <3> HIDE DEF q
    <3>4. SlotsExact'
      BY <1>t, <3>1, <3>3, SameWorking
    <3>5. reqs' \in [Reqs -> Request]
      BY <1>t, <3>1, <3>3
    <3> QED BY <1>t, <1>q, <2>1, <3>1, <3>2, <3>4, <3>5
  <2> QED BY <2>2, <2>3
<1>2. ASSUME NEW r \in Reqs, Cancel(r) PROVE IInv'
  <2>1. reqs' \in [Reqs -> Request]
    BY <1>t, <1>2 DEF Cancel
  <2>2. Working' = Working
    BY <1>t, <1>2 DEF Cancel, Working
  <2> QED BY <1>t, <1>q, <1>u, <1>2, <2>1, <2>2 DEF Cancel, SlotsExact
<1>3. ASSUME NEW r \in Reqs, ReturnEarly(r) PROVE IInv'
  <2>1. reqs' \in [Reqs -> Request]
    BY <1>t, <1>3, IdleType DEF ReturnEarly
  <2>2. SlotsExact'
    BY <1>t, <1>3, SameWorking, IdleType DEF ReturnEarly
  <2> QED BY <1>t, <1>q, <1>u, <1>3, <2>1, <2>2 DEF ReturnEarly
<1>4. ASSUME NEW r \in Reqs, ChargeAccount(r) PROVE IInv'
  <2> DEFINE k == AccountKey(reqs[r].name)
             q == [reqs[r] EXCEPT !.pc = "admitted"]
  <2>0. k \in Keys
    BY <1>t, KeysOfRequests
  <2>1. BucketsOK' /\ CountWithinLimit' /\ WithinCapacity'
    <3>1. Allow(k)
      BY <1>4 DEF ChargeAccount
    <3> HIDE DEF k
    <3> QED BY <1>t, <2>0, <3>1, AllowOK
  <2>2. CASE Retry(k) > 0
    <3>1. reqs' = [reqs EXCEPT ![r] = Idle] /\ UNCHANGED <<recent, slots>>
          /\ reqs[r].pc = "handler"
      BY <1>4, <2>2 DEF ChargeAccount
    <3>2. SlotsExact'
      BY <1>t, <3>1, SameWorking, IdleType
    <3>3. reqs' \in [Reqs -> Request]
      BY <1>t, <3>1, IdleType
    <3> QED BY <1>t, <1>q, <2>1, <3>1, <3>2, <3>3
  <2>3. CASE ~(Retry(k) > 0)
    <3>1. reqs' = [reqs EXCEPT ![r] = q] /\ slots' = slots /\ reqs[r].pc = "handler"
      BY <1>t, <1>4, <2>3 DEF ChargeAccount
    <3>2. Passed(k)
      BY <1>4, <2>3 DEF ChargeAccount
    <3>3. recent' \in [Keys -> [Ages -> Nat]]
      <4> HIDE DEF k
      <4> QED BY <1>t, <2>0, <3>2, PassedType
    <3>4. q \in Request /\ q.pc = "admitted"
      BY <1>t
    <3>5. SlotsExact'
      <4> HIDE DEF q
      <4> QED BY <1>t, <3>1, <3>4, SameWorking
    <3>6. reqs' \in [Reqs -> Request]
      BY <1>t, <3>1, <3>4
    <3> QED BY <1>t, <1>q, <2>1, <3>1, <3>3, <3>5, <3>6
  <2> QED BY <2>2, <2>3
<1>5. ASSUME NEW r \in Reqs, Acquire(r) PROVE IInv'
  <2>1. CASE ~reqs[r].cancelled /\ slots < MaxConcurrent
    <3>1. slots' = slots + 1 /\ slots' \in 0 .. MaxConcurrent
      BY <1>t, <1>5, <2>1, ConfigAssumption DEF Acquire
    <3>2. reqs' \in [Reqs -> Request]
      BY <1>t, <1>5, <2>1 DEF Acquire
    <3>3. Working' = Working \cup {r} /\ r \notin Working
      BY <1>t, <1>5, <2>1 DEF Acquire, Working
    <3>4. SlotsExact'
      BY <3>1, <3>3, FS_AddElement DEF SlotsExact
    <3> QED BY <1>t, <1>q, <1>u, <1>5, <3>1, <3>2, <3>4 DEF Acquire
  <2>2. CASE ~(~reqs[r].cancelled /\ slots < MaxConcurrent)
    <3>1. reqs' = [reqs EXCEPT ![r] = Idle] /\ slots' = slots /\ reqs[r].pc = "admitted"
      BY <1>5, <2>2 DEF Acquire
    <3>2. reqs' \in [Reqs -> Request]
      BY <1>t, <3>1, IdleType
    <3>3. SlotsExact'
      BY <1>t, <3>1, SameWorking, IdleType
    <3> QED BY <1>t, <1>q, <1>u, <1>5, <3>1, <3>2, <3>3 DEF Acquire
  <2> QED BY <2>1, <2>2
<1>6. ASSUME NEW r \in Reqs, Release(r) PROVE IInv'
  <2>1. Working' = Working \ {r} /\ r \in Working
    BY <1>t, <1>6, IdleType DEF Release, Working
  <2>2. IsFiniteSet(Working') /\ Cardinality(Working') = Cardinality(Working) - 1
    BY <2>1, FS_RemoveElement DEF SlotsExact
  <2>3. Cardinality(Working') \in Nat
    BY <2>2, FS_CardinalityType
  <2>4. SlotsExact'
    BY <1>6, <2>2 DEF SlotsExact, Release
  <2>5. slots' \in 0 .. MaxConcurrent
    BY <1>t, <1>6, <2>2, <2>3, ConfigAssumption DEF SlotsExact, Release
  <2>6. reqs' \in [Reqs -> Request]
    BY <1>t, <1>6, IdleType DEF Release
  <2> QED BY <1>t, <1>q, <1>u, <1>6, <2>4, <2>5, <2>6 DEF Release
<1>7. ASSUME Tick PROVE IInv'
  <2>1. DOMAIN buckets' = DOMAIN buckets
    BY <1>7 DEF Tick
  <2>2. \A k \in DOMAIN buckets :
           buckets'[k] \in Bucket /\ buckets'[k].count = buckets[k].count
    BY <1>t, <1>7, ConfigAssumption DEF Tick, Left, BucketsOK
  <2>3. buckets' \in [DOMAIN buckets' -> Bucket]
    BY <1>7, <2>1, <2>2 DEF Tick
  <2>4. cleanup' \in 0 .. Window
    BY <1>t, <1>7, ConfigAssumption DEF Tick, Left, BucketsOK
  <2>5. recent' \in [Keys -> [Ages -> Nat]]
    <3>1. \A k \in Keys, a \in Ages :
             (IF a = 0 THEN 0 ELSE recent[k][a - 1]) \in Nat
      <4> SUFFICES ASSUME NEW k \in Keys, NEW a \in Ages, a # 0
                   PROVE  recent[k][a - 1] \in Nat
        OBVIOUS
      <4>1. a - 1 \in Ages
        BY ConfigAssumption
      <4> QED BY <1>t, <4>1
    <3> QED BY <1>7, <3>1 DEF Tick
  <2>6. BucketsOK' /\ CountWithinLimit' /\ WithinCapacity'
    BY <1>t, <2>1, <2>2, <2>3, <2>4 DEF BucketsOK, CountWithinLimit, WithinCapacity
  <2> QED BY <1>t, <1>q, <1>7, <2>5, <2>6 DEF Tick, SlotsExact, Working
<1>8. ASSUME UNCHANGED vars PROVE IInv'
  BY <1>t, <1>q, <1>u, <1>8 DEF vars, SlotsExact, Working
<1> QED BY <1>1, <1>2, <1>3, <1>4, <1>5, <1>6, <1>7, <1>8 DEF Next

\* limiter.go, auth_limit.go, service/auth.go: for every configuration and any
\* number of keys and concurrent requests, the limiter keeps its types, its
\* counts within the limits, its map within MaxEntries, and exactly as many
\* slots taken as there are requests doing password work.
THEOREM LimiterInvariant == Spec => []IInv
<1>1. Init => IInv
  BY InitIInv
<1>2. IInv /\ [Next]_vars => IInv'
  BY NextIInv
<1> QED BY <1>1, <1>2, PTL DEF Spec

\* limiter.go:19-40: every field of the limiter keeps its type, and the slot
\* channel its capacity.
THEOREM LimiterTypes == Spec => []TypeOK
<1>1. IInv => TypeOK
  BY DEF IInv
<1> QED BY <1>1, LimiterInvariant, PTL

\* limiter.go:100-113: slots are neither leaked nor released early, and there
\* are never more than MaxConcurrent password operations.
THEOREM SlotsNeverLeak == Spec => [](SlotsExact /\ slots <= MaxConcurrent)
<1>1. IInv => SlotsExact /\ slots <= MaxConcurrent
  BY ConfigAssumption DEF IInv, TypeOK
<1> QED BY <1>1, LimiterInvariant, PTL

\* limiter.go:71-98: no stored count passes its limit and the map never
\* outgrows MaxEntries.
THEOREM BucketsBounded == Spec => [](CountWithinLimit /\ WithinCapacity)
<1>1. IInv => CountWithinLimit /\ WithinCapacity
  BY DEF IInv
<1> QED BY <1>1, LimiterInvariant, PTL

\* limiter.go:61-62 and 86: no step but the clock moves the end of an active
\* bucket, and none removes it or lowers its count.
THEOREM ActiveLimitsKept == Spec => ActiveLimitKept
<1> DEFINE Kept == \A k \in Keys : Active(k) =>
                      /\ k \in DOMAIN buckets'
                      /\ buckets'[k].count >= buckets[k].count
                      /\ Tick \/ buckets'[k].left = buckets[k].left
<1>1. IInv /\ [Next]_vars => [Kept]_vars
  <2> SUFFICES ASSUME IInv, Next, NEW j \in Keys, Active(j)
               PROVE  /\ j \in DOMAIN buckets'
                      /\ buckets'[j].count >= buckets[j].count
                      /\ Tick \/ buckets'[j].left = buckets[j].left
    OBVIOUS
  <2>t. /\ BucketsOK /\ CountWithinLimit /\ WithinCapacity
        /\ reqs \in [Reqs -> Request]
    BY DEF IInv, TypeOK, BucketsOK
  <2>b. j \in DOMAIN buckets /\ buckets[j] \in Bucket
    BY <2>t DEF Active, BucketsOK
  <2>1. ASSUME NEW k \in Keys, Allow(k)
        PROVE  /\ j \in DOMAIN buckets'
               /\ buckets'[j].count >= buckets[j].count
               /\ buckets'[j].left = buckets[j].left
    BY <2>1, <2>t, AllowKeepsActive
  <2>2. ASSUME NEW r \in Reqs, NEW p \in Peers, NEW n \in Names, Arrive(r, p, n)
        PROVE  \E k \in Keys : Allow(k)
    BY <2>2, KeysOfRequests DEF Arrive
  <2>3. ASSUME NEW r \in Reqs, ChargeAccount(r)
        PROVE  \E k \in Keys : Allow(k)
    <3> DEFINE k == AccountKey(reqs[r].name)
    <3>1. k \in Keys
      BY <2>t, KeysOfRequests
    <3>2. Allow(k)
      BY <2>3 DEF ChargeAccount
    <3> QED BY <3>1, <3>2
  <2>4. ASSUME NEW r \in Reqs,
               Cancel(r) \/ ReturnEarly(r) \/ Acquire(r) \/ Release(r)
        PROVE  buckets' = buckets
    BY <2>4 DEF Cancel, ReturnEarly, Acquire, Release
  <2>5. CASE Tick
    BY <2>5, <2>b DEF Tick
  <2>6. CASE buckets' = buckets
    BY <2>6, <2>b
  <2> QED BY <2>1, <2>2, <2>3, <2>4, <2>5, <2>6 DEF Next
<1> QED BY <1>1, LimiterInvariant, PTL DEF Spec, ActiveLimitKept

-----------------------------------------------------------------------------
(* The sliding window.  The bucket of a key that is active began           *)
(* Window - left units ago; what passed since then is its count, and       *)
(* what passed before, within the span, was charged to one earlier bucket. *)

WindowOf(k) ==
    /\ \A a, c \in Ages : c <= a => recent[k][c] <= recent[k][a]
    /\ Active(k) =>
         /\ recent[k][Window - buckets[k].left] = buckets[k].count
         /\ recent[k][Window - 1] <= recent[k][Window - buckets[k].left] + Limit(k)
    /\ ~Active(k) => recent[k][0] = 0 /\ recent[k][Window - 1] <= Limit(k)

WindowInv == \A k \in Keys : WindowOf(k)

\* The callers of allow go on exactly when the attempt was stored.
LEMMA StoredPasses ==
    ASSUME BucketsOK, CountWithinLimit, WithinCapacity, NEW k \in Keys
    PROVE  Retry(k) > 0 <=> NoRoom(k) \/ Exhausted(k)
<1>1. CleanupAfter > 0
  BY SweptOK, ConfigAssumption
<1>2. CASE NoRoom(k)
  BY <1>1, <1>2 DEF Retry
<1>3. CASE ~NoRoom(k) /\ Exhausted(k)
  <2>1. Charged(k).left > 0
    <3>1. CASE k \notin DOMAIN Swept \/ Swept[k].left = 0
      BY <3>1, ConfigAssumption DEF Charged
    <3>2. CASE ~(k \notin DOMAIN Swept \/ Swept[k].left = 0)
      <4>1. Swept[k] \in Bucket /\ Charged(k) = Swept[k]
        BY <3>2, SweptOK DEF BucketsOK, Charged
      <4> QED BY <3>2, <4>1
    <3> QED BY <3>1, <3>2
  <2> QED BY <1>3, <2>1 DEF Retry
<1>4. CASE ~NoRoom(k) /\ ~Exhausted(k)
  BY <1>4 DEF Retry
<1> QED BY <1>2, <1>3, <1>4

\* What a call of allow does to the bucket of a key: the charged one counts the
\* attempt, in the window it is in or in a new one; every other bucket, and
\* every bucket when the attempt is refused, stays active or inactive as it is.
LEMMA AllowBucket ==
    ASSUME BucketsOK, CountWithinLimit, WithinCapacity, NEW k \in Keys, Allow(k), NEW j \in Keys
    PROVE  IF j = k /\ ~(NoRoom(k) \/ Exhausted(k))
           THEN /\ Active(j)'
                /\ Active(j) => /\ buckets'[j].left = buckets[j].left
                                /\ buckets'[j].count = buckets[j].count + 1
                /\ ~Active(j) => buckets'[j].left = Window /\ buckets'[j].count = 1
           ELSE /\ Active(j)' <=> Active(j)
                /\ Active(j) => /\ buckets'[j].left = buckets[j].left
                                /\ buckets'[j].count = buckets[j].count
<1>1. /\ DOMAIN Swept \subseteq DOMAIN buckets
      /\ Swept = [i \in DOMAIN Swept |-> buckets[i]]
      /\ Active(j) => j \in DOMAIN Swept
  BY SweptOK
<1>2. j \in DOMAIN Swept => Swept[j] = buckets[j] /\ Swept[j] \in Bucket
  BY <1>1 DEF BucketsOK
<1>3. CASE NoRoom(k) \/ Exhausted(k)
  <2>1. buckets' = Swept
    BY <1>3 DEF Allow
  <2> QED BY <1>1, <1>2, <1>3, <2>1 DEF Active
<1>4. CASE ~(NoRoom(k) \/ Exhausted(k))
  <2>1. buckets' = Stored(k)
    BY <1>4 DEF Allow
  <2>2. CASE j # k
    <3>1. /\ j \in DOMAIN buckets' <=> j \in DOMAIN Swept
          /\ j \in DOMAIN Swept => buckets'[j] = Swept[j]
      BY <2>1, <2>2 DEF Stored
    <3> QED BY <1>1, <1>2, <2>2, <3>1 DEF Active
  <2>3. CASE j = k
    <3>1. j \in DOMAIN buckets' /\ buckets'[j] = [Charged(k) EXCEPT !.count = @ + 1]
      BY <2>1, <2>3 DEF Stored
    <3>2. CASE Active(j)
      <4>1. Charged(k) = buckets[j] /\ buckets[j] \in Bucket /\ buckets[j].left > 0
        BY <1>1, <1>2, <2>3, <3>2 DEF Charged, Active
      <4> QED BY <1>4, <2>3, <3>1, <3>2, <4>1 DEF Active
    <3>3. CASE ~Active(j)
      <4>1. Charged(k) = [count |-> 0, left |-> Window]
        BY <1>1, <1>2, <2>3, <3>3 DEF Charged, Active
      <4> QED BY <1>4, <2>3, <3>1, <3>3, <4>1, ConfigAssumption DEF Active
    <3> QED BY <3>2, <3>3
  <2> QED BY <2>2, <2>3
<1> QED BY <1>3, <1>4

\* An attempt, refused or passed.
LEMMA AllowWindow ==
    ASSUME IInv, WindowInv, NEW k \in Keys, Allow(k),
           IF Retry(k) > 0 THEN recent' = recent ELSE Passed(k)
    PROVE  WindowInv'
<1>t. BucketsOK /\ CountWithinLimit /\ WithinCapacity /\ recent \in [Keys -> [Ages -> Nat]]
  BY DEF IInv, TypeOK, BucketsOK
<1> SUFFICES ASSUME NEW j \in Keys PROVE WindowOf(j)'
  BY DEF WindowInv
<1>0. WindowOf(j) /\ recent[j] \in [Ages -> Nat] /\ Window - 1 \in Ages /\ 0 \in Ages
  BY <1>t, ConfigAssumption DEF WindowInv
<1>1. Limit(j) \in Nat \ {0}
  BY LimitPositive
<1>2. Active(j) => /\ buckets[j].left \in 1 .. Window /\ buckets[j].count \in Nat
                   /\ Window - buckets[j].left \in Ages
  BY <1>t, ConfigAssumption DEF Active, BucketsOK
<1>3. CASE j = k /\ ~(NoRoom(k) \/ Exhausted(k))
  <2>1. /\ Active(j)'
        /\ Active(j) => /\ buckets'[j].left = buckets[j].left
                        /\ buckets'[j].count = buckets[j].count + 1
        /\ ~Active(j) => buckets'[j].left = Window /\ buckets'[j].count = 1
    BY <1>3, <1>t, AllowBucket
  <2>2. \A a \in Ages : recent'[j][a] = recent[j][a] + 1
    BY <1>3, <1>t, StoredPasses DEF Passed
  <2>3. \A a, c \in Ages : c <= a => recent'[j][c] <= recent'[j][a]
    <3> SUFFICES ASSUME NEW a \in Ages, NEW c \in Ages, c <= a
                 PROVE  recent'[j][c] <= recent'[j][a]
      OBVIOUS
    <3>1. recent[j][c] <= recent[j][a] /\ recent[j][c] \in Nat /\ recent[j][a] \in Nat
      BY <1>0 DEF WindowOf
    <3> QED BY <2>2, <3>1
  <2>4. CASE Active(j)
    <3> DEFINE b == Window - buckets[j].left
    <3>1. /\ recent[j][b] = buckets[j].count /\ recent[j][Window - 1] <= recent[j][b] + Limit(j)
          /\ b \in Ages
      BY <1>0, <1>2, <2>4 DEF WindowOf
    <3>2. recent'[j][b] = recent[j][b] + 1 /\ recent'[j][Window - 1] = recent[j][Window - 1] + 1
      BY <1>0, <2>2, <3>1
    <3>3. recent[j][b] \in Nat /\ recent[j][Window - 1] \in Nat
      BY <1>0, <3>1
    <3> HIDE DEF b
    <3>4. /\ recent'[j][b] = buckets'[j].count
          /\ recent'[j][Window - 1] <= recent'[j][b] + Limit(j)
      BY <1>1, <1>2, <2>1, <2>4, <3>1, <3>2, <3>3
    <3>5. Window - buckets'[j].left = b
      BY <2>1, <2>4 DEF b
    <3> QED BY <2>1, <2>3, <3>4, <3>5 DEF WindowOf, Limit
  <2>5. CASE ~Active(j)
    <3>1. recent[j][0] = 0 /\ recent[j][Window - 1] <= Limit(j)
      BY <1>0, <2>5 DEF WindowOf
    <3>2. recent'[j][0] = 1 /\ recent'[j][Window - 1] <= 1 + Limit(j)
      BY <1>0, <1>1, <2>2, <3>1
    <3>3. Window - buckets'[j].left = 0
      BY <2>1, <2>5, ConfigAssumption
    <3> QED BY <2>1, <2>3, <2>5, <3>2, <3>3 DEF WindowOf, Limit
  <2> QED BY <2>4, <2>5
<1>4. CASE ~(j = k /\ ~(NoRoom(k) \/ Exhausted(k)))
  <2>1. /\ Active(j)' <=> Active(j)
        /\ Active(j) => /\ buckets'[j].left = buckets[j].left
                        /\ buckets'[j].count = buckets[j].count
    BY <1>4, <1>t, AllowBucket
  <2>2. recent'[j] = recent[j]
    BY <1>4, <1>t, StoredPasses DEF Passed
  <2> QED BY <1>0, <2>1, <2>2 DEF WindowOf, Limit
<1> QED BY <1>3, <1>4

\* Time passes: the last unit of a window empties the span of what came before
\* it.
LEMMA TickWindow ==
    ASSUME IInv, WindowInv, Tick
    PROVE  WindowInv'
<1>t. BucketsOK /\ CountWithinLimit /\ recent \in [Keys -> [Ages -> Nat]]
  BY DEF IInv, TypeOK, BucketsOK
<1> SUFFICES ASSUME NEW j \in Keys PROVE WindowOf(j)'
  BY DEF WindowInv
<1>0. WindowOf(j) /\ recent[j] \in [Ages -> Nat] /\ Window - 1 \in Ages /\ 0 \in Ages
  BY <1>t, ConfigAssumption DEF WindowInv
<1>1. Limit(j) \in Nat \ {0}
  BY LimitPositive
<1>2. \A a \in Ages : recent'[j][a] = IF a = 0 THEN 0 ELSE recent[j][a - 1]
  BY DEF Tick
<1>3. \A a \in Ages \ {0} : a - 1 \in Ages /\ recent[j][a - 1] \in Nat /\ recent[j][a] \in Nat
  BY <1>0, ConfigAssumption
<1>4. \A a, c \in Ages : c <= a => recent'[j][c] <= recent'[j][a]
  <2> SUFFICES ASSUME NEW a \in Ages, NEW c \in Ages, c <= a
               PROVE  recent'[j][c] <= recent'[j][a]
    OBVIOUS
  <2>1. CASE c = 0
    BY <1>2, <1>3, <2>1
  <2>2. CASE c # 0
    <3>1. a - 1 \in Ages /\ c - 1 \in Ages /\ c - 1 <= a - 1 /\ a # 0
      BY <2>2, ConfigAssumption
    <3>2. recent[j][c - 1] <= recent[j][a - 1]
      BY <1>0, <3>1 DEF WindowOf
    <3> QED BY <1>2, <2>2, <3>1, <3>2
  <2> QED BY <2>1, <2>2
<1>5. recent'[j][0] = 0 /\ recent'[j][Window - 1] <= recent[j][Window - 1]
  <2>1. CASE Window = 1
    BY <1>0, <1>2, <2>1
  <2>2. CASE Window # 1
    <3>1. Window - 1 \in Ages \ {0}
      BY <1>0, <2>2, ConfigAssumption
    <3>2. recent'[j][Window - 1] = recent[j][Window - 1 - 1]
      BY <1>2, <3>1
    <3>3. recent[j][Window - 1 - 1] <= recent[j][Window - 1]
      <4>1. Window - 1 - 1 \in Ages /\ Window - 1 - 1 <= Window - 1
        BY <1>3, <3>1, ConfigAssumption
      <4> QED BY <1>0, <4>1 DEF WindowOf
    <3> QED BY <1>0, <1>2, <3>2, <3>3
  <2> QED BY <2>1, <2>2
<1>6. recent[j][Window - 1] \in Nat /\ recent'[j][Window - 1] \in Nat
  BY <1>0, <1>2, <1>3
<1>7. CASE Active(j)
  <2> DEFINE b == Window - buckets[j].left
  <2>1. /\ buckets[j] \in Bucket /\ buckets[j].left \in 1 .. Window
        /\ buckets[j].count \in 1 .. Limit(j)
    BY <1>t, <1>7, ConfigAssumption DEF Active, BucketsOK, CountWithinLimit
  <2>2. /\ j \in DOMAIN buckets' /\ buckets'[j].left = buckets[j].left - 1
        /\ buckets'[j].count = buckets[j].count
    BY <1>7, <2>1 DEF Tick, Left, Active
  <2>3. b \in Ages /\ recent[j][b] \in Nat
    BY <1>0, <2>1, ConfigAssumption
  <2>4. recent[j][b] = buckets[j].count /\ recent[j][Window - 1] <= recent[j][b] + Limit(j)
    BY <1>0, <1>7 DEF WindowOf
  <2>5. CASE buckets[j].left = 1
    <3>1. ~Active(j)'
      BY <2>2, <2>5 DEF Active
    <3>2. recent[j][Window - 1] <= buckets[j].count
      <4>1. b = Window - 1
        BY <2>5
      <4>2. recent[j][Window - 1] = buckets[j].count
        BY <2>4, <4>1
      <4> QED BY <2>1, <4>2
    <3>3. recent'[j][Window - 1] <= Limit(j)
      BY <1>1, <1>5, <1>6, <2>1, <3>2
    <3> QED BY <1>4, <1>5, <3>1, <3>3 DEF WindowOf, Limit
  <2>6. CASE buckets[j].left # 1
    <3>1. Active(j)' /\ Window - buckets'[j].left = b + 1 /\ b + 1 \in Ages \ {0}
      BY <2>1, <2>2, <2>6, ConfigAssumption DEF Active
    <3>2. recent'[j][b + 1] = recent[j][b]
      <4> DEFINE a == b + 1
      <4> HIDE DEF b
      <4>1. a - 1 = b /\ a # 0 /\ a \in Ages
        BY <2>3, <3>1
      <4> HIDE DEF a
      <4>2. recent'[j][a] = recent[j][a - 1]
        BY <1>2, <4>1
      <4>3. recent'[j][a] = recent[j][b]
        BY <4>1, <4>2, Zenon
      <4> QED BY <4>3 DEF a
    <3> HIDE DEF b
    <3>3. /\ recent'[j][b + 1] = buckets'[j].count
          /\ recent'[j][Window - 1] <= recent'[j][b + 1] + Limit(j)
      BY <1>1, <1>5, <1>6, <2>1, <2>2, <2>3, <2>4, <3>2
    <3> QED BY <1>4, <3>1, <3>3 DEF WindowOf, Limit
  <2> QED BY <2>5, <2>6
<1>8. CASE ~Active(j)
  <2>1. ~Active(j)'
    <3>1. CASE j \in DOMAIN buckets
      <4>1. buckets[j] \in Bucket /\ buckets[j].left = 0
        BY <1>8, <1>t, <3>1 DEF Active, BucketsOK
      <4> QED BY <4>1, <3>1 DEF Active, Tick, Left
    <3>2. CASE j \notin DOMAIN buckets
      BY <3>2 DEF Active, Tick
    <3> QED BY <3>1, <3>2
  <2>2. recent'[j][Window - 1] <= Limit(j)
    BY <1>0, <1>1, <1>5, <1>6, <1>8 DEF WindowOf
  <2> QED BY <1>4, <1>5, <2>1, <2>2 DEF WindowOf, Limit
<1> QED BY <1>7, <1>8

\* Every step keeps what the history says of the buckets.
LEMMA NextWindow == IInv /\ WindowInv /\ [Next]_vars => WindowInv'
<1> SUFFICES ASSUME IInv, WindowInv, [Next]_vars PROVE WindowInv'
  OBVIOUS
<1>t. reqs \in [Reqs -> Request]
  BY DEF IInv, TypeOK
<1>1. ASSUME NEW r \in Reqs, NEW p \in Peers, NEW n \in Names, Arrive(r, p, n) PROVE WindowInv'
  <2>1. Allow(IPKey(p)) /\ IF Retry(IPKey(p)) > 0 THEN recent' = recent ELSE Passed(IPKey(p))
    BY <1>1 DEF Arrive
  <2> QED BY <2>1, KeysOfRequests, AllowWindow
<1>2. ASSUME NEW r \in Reqs, ChargeAccount(r) PROVE WindowInv'
  <2> DEFINE k == AccountKey(reqs[r].name)
  <2>1. Allow(k) /\ IF Retry(k) > 0 THEN recent' = recent ELSE Passed(k)
    BY <1>2 DEF ChargeAccount
  <2>2. k \in Keys
    BY <1>t, KeysOfRequests
  <2> HIDE DEF k
  <2> QED BY <2>1, <2>2, AllowWindow
<1>3. CASE Tick
  BY <1>3, TickWindow
<1>4. ASSUME buckets' = buckets, recent' = recent PROVE WindowInv'
  BY <1>4 DEF WindowInv, WindowOf, Active, Limit
<1>5. ASSUME NEW r \in Reqs, Cancel(r) \/ ReturnEarly(r) \/ Acquire(r) \/ Release(r) PROVE WindowInv'
  BY <1>4, <1>5 DEF Cancel, ReturnEarly, Acquire, Release
<1> QED BY <1>1, <1>2, <1>3, <1>4, <1>5 DEF Next, vars

\* The history and the buckets agree in every state.
LEMMA Windows == Spec => [](IInv /\ WindowInv)
<1>1. Init => WindowInv
  <2> SUFFICES ASSUME Init, NEW k \in Keys PROVE WindowOf(k)
    BY DEF WindowInv
  <2>1. \A a \in Ages : recent[k][a] = 0
    BY DEF Init
  <2>2. ~Active(k)
    BY DEF Init, Active
  <2>3. Window - 1 \in Ages /\ 0 \in Ages /\ \A a \in Ages \ {0} : a - 1 \in Ages
    BY ConfigAssumption
  <2> QED BY <2>1, <2>2, <2>3, LimitPositive DEF WindowOf
<1>2. IInv /\ WindowInv /\ [Next]_vars => WindowInv'
  BY NextWindow
<1> QED BY <1>1, <1>2, LimiterInvariant, PTL DEF Spec

\* limiter.go:71-98: whatever sweeps, expiries and refusals come in between, no
\* key gets more than two limits' worth of requests through in any span of
\* Window units.
THEOREM SlidingWindows == Spec => []SlidingWindowBound
<1>1. IInv /\ WindowInv => SlidingWindowBound
  <2> SUFFICES ASSUME IInv, WindowInv, NEW k \in Keys PROVE recent[k][Window - 1] <= 2 * Limit(k)
    BY DEF SlidingWindowBound
  <2>1. WindowOf(k) /\ recent[k] \in [Ages -> Nat] /\ Window - 1 \in Ages /\ Limit(k) \in Nat
    BY LimitPositive, ConfigAssumption DEF WindowInv, IInv, TypeOK
  <2>2. CASE Active(k)
    <3>1. /\ buckets[k].count \in 1 .. Limit(k)
          /\ Window - buckets[k].left \in Ages
      BY <2>2, ConfigAssumption DEF IInv, CountWithinLimit, TypeOK, Active
    <3>2. /\ recent[k][Window - buckets[k].left] = buckets[k].count
          /\ recent[k][Window - 1] <= recent[k][Window - buckets[k].left] + Limit(k)
          /\ recent[k][Window - 1] \in Nat
      BY <2>1, <2>2 DEF WindowOf
    <3> QED BY <2>1, <3>1, <3>2
  <2>3. CASE ~Active(k)
    BY <2>1, <2>3 DEF WindowOf
  <2> QED BY <2>2, <2>3
<1> QED BY <1>1, Windows, PTL

-----------------------------------------------------------------------------
(* Refusals.  What the limiter holds against a key is what the key used.   *)

\* A key is exhausted by its own active bucket.
LEMMA ExhaustedBucket ==
    ASSUME IInv, NEW k \in Keys, Exhausted(k)
    PROVE  /\ Active(k) /\ buckets[k] \in Bucket /\ buckets[k].left \in 1 .. Window
           /\ buckets[k].count = Limit(k)
<1>t. BucketsOK /\ CountWithinLimit /\ Limit(k) \in Nat \ {0}
  BY LimitPositive DEF IInv, TypeOK, BucketsOK
<1>1. /\ DOMAIN Swept \subseteq DOMAIN buckets
      /\ Swept = [i \in DOMAIN Swept |-> buckets[i]]
  BY <1>t, SweptOK DEF IInv
<1>2. k \in DOMAIN Swept /\ Swept[k].left # 0 /\ Charged(k) = Swept[k]
  BY <1>t DEF Exhausted, Charged
<1>3. k \in DOMAIN buckets /\ buckets[k] \in Bucket /\ Swept[k] = buckets[k]
  BY <1>t, <1>1, <1>2 DEF BucketsOK
<1>4. buckets[k].left \in 1 .. Window
  BY <1>2, <1>3, ConfigAssumption
<1>5. buckets[k].count \in 1 .. Limit(k) /\ buckets[k].count >= Limit(k)
  BY <1>t, <1>2, <1>3 DEF CountWithinLimit, Exhausted
<1> QED BY <1>t, <1>3, <1>4, <1>5 DEF Active

\* An active bucket that reached the limit exhausts its key, sweep or not.
LEMMA ActiveExhausts ==
    ASSUME IInv, NEW k \in Keys, Active(k), buckets[k].count >= Limit(k)
    PROVE  Exhausted(k)
<1>t. BucketsOK /\ CountWithinLimit /\ WithinCapacity
  BY DEF IInv, TypeOK, BucketsOK
<1>1. Swept = [i \in DOMAIN Swept |-> buckets[i]] /\ k \in DOMAIN Swept
  BY <1>t, SweptOK
<1>2. Charged(k) = buckets[k]
  BY <1>1 DEF Charged, Active, BucketsOK
<1> QED BY <1>2 DEF Exhausted

\* When a key is exhausted, told from its bucket alone.
ExhaustedIff ==
    \A k \in Keys : Exhausted(k) <=> Active(k) /\ buckets[k].count >= Limit(k)

\* Whether a sweep is due or not does not matter to an exhausted key.
LEMMA SweepSparesExhausted == IInv => ExhaustedIff
<1> SUFFICES ASSUME IInv, NEW k \in Keys
             PROVE  Exhausted(k) <=> Active(k) /\ buckets[k].count >= Limit(k)
  BY DEF ExhaustedIff
<1>1. Limit(k) \in Nat
  BY LimitPositive
<1> QED BY <1>1, ExhaustedBucket, ActiveExhausts

\* A key is refused for its own use only after its whole limit of requests got
\* past the check within the last Window units, counted back from now: neither
\* refused retries, nor other keys, nor a sweep ever count against it.
RefusedOnlyForUse ==
    \A k \in Keys : Exhausted(k) => recent[k][Window - 1] >= Limit(k)

\* limiter.go:61-62, 82-98: what blocks a key is a full limit of its own
\* requests, none of them older than the window.
THEOREM RefusalsAreEarned == Spec => []RefusedOnlyForUse
<1>1. ASSUME IInv, WindowInv, NEW k \in Keys, Exhausted(k)
      PROVE  recent[k][Window - 1] >= Limit(k)
  <2> DEFINE b == Window - buckets[k].left
  <2>1. Active(k) /\ buckets[k].left \in 1 .. Window /\ buckets[k].count = Limit(k)
    BY <1>1, ExhaustedBucket
  <2>2. recent[k][b] = Limit(k)
    BY <1>1, <2>1 DEF WindowInv, WindowOf
  <2>3. b \in Ages /\ Window - 1 \in Ages /\ b <= Window - 1
    BY <2>1, ConfigAssumption
  <2>4. recent[k] \in [Ages -> Nat] /\ WindowOf(k)
    BY <1>1 DEF IInv, TypeOK, WindowInv
  <2>5. recent[k][b] <= recent[k][Window - 1] /\ recent[k][Window - 1] \in Nat
    <3> HIDE DEF b
    <3> QED BY <2>3, <2>4 DEF WindowOf
  <2>6. Limit(k) \in Nat
    BY LimitPositive
  <2> QED BY <2>2, <2>5, <2>6
<1>2. IInv /\ WindowInv => RefusedOnlyForUse
  BY <1>1 DEF RefusedOnlyForUse
<1> QED BY <1>2, Windows, PTL

\* The time a blocked key still has to wait: nothing for a key that is not
\* exhausted.
Wait(k) == IF Exhausted(k) THEN buckets[k].left ELSE 0

\* While a key is blocked, a unit of time takes one unit from its wait and
\* nothing else, a retry least of all, changes the wait: it is over after at
\* most Window units.
WaitRunsDown ==
    \A k \in Keys : Exhausted(k) =>
        /\ Wait(k) \in 1 .. Window
        /\ Tick => Wait(k)' = Wait(k) - 1
        /\ ~Tick => Wait(k)' = Wait(k)

\* limiter.go:61-62, "blocked until its window ends; retries do not extend it":
\* the safety half of ExhaustedKeyRecovers.  The measure goes down with every
\* unit of time and never up, so the recovery needs only that time passes.
THEOREM BlockedOnlyForAWindow == Spec => [][WaitRunsDown]_vars
<1> DEFINE Kept == \A k \in Keys : Active(k) =>
                      /\ k \in DOMAIN buckets'
                      /\ buckets'[k].count >= buckets[k].count
                      /\ Tick \/ buckets'[k].left = buckets[k].left
<1>1. ASSUME IInv, ExhaustedIff', Kept, NEW k \in Keys, Exhausted(k)
      PROVE  /\ Wait(k) \in 1 .. Window
             /\ Tick => Wait(k)' = Wait(k) - 1
             /\ ~Tick => Wait(k)' = Wait(k)
  <2>1. /\ Active(k) /\ buckets[k] \in Bucket /\ buckets[k].left \in 1 .. Window
        /\ buckets[k].count = Limit(k) /\ Wait(k) = buckets[k].left
    BY <1>1, ExhaustedBucket DEF Wait
  <2>2. /\ k \in DOMAIN buckets' /\ buckets'[k].count >= buckets[k].count
        /\ Tick \/ buckets'[k].left = buckets[k].left
    BY <1>1, <2>1
  <2>3. Tick => buckets'[k].left = buckets[k].left - 1
    BY <2>1 DEF Tick, Left, Active
  <2>4. ASSUME buckets'[k].left > 0 PROVE Exhausted(k)'
    BY <1>1, <2>1, <2>2, <2>4 DEF ExhaustedIff, Active, Limit
  <2>5. ASSUME buckets'[k].left = 0 PROVE ~Exhausted(k)'
    BY <1>1, <2>5 DEF ExhaustedIff, Active
  <2>6. buckets'[k].left \in Nat
    BY <2>1, <2>2, <2>3
  <2> QED BY <2>1, <2>2, <2>3, <2>4, <2>5, <2>6 DEF Wait
<1>2. IInv /\ ExhaustedIff' /\ [Kept]_vars => [WaitRunsDown]_vars
  BY <1>1 DEF WaitRunsDown
<1> QED BY <1>2, SweepSparesExhausted, ActiveLimitsKept, LimiterInvariant, PTL DEF ActiveLimitKept

-----------------------------------------------------------------------------
(* Slots.                                                                  *)

\* Argon2 work ends: while requests do password work, one of them will finish.
\* Weak fairness of each Release gives this, because only the request itself
\* ends its work.
WorkEnds == [](Working # {} => <><<\E r \in Reqs : Release(r)>>_vars)

\* limiter.go:100-113: if password work ends, a full slot channel frees up,
\* because a slot is only ever held by a request that works: whatever is
\* cancelled or refused meanwhile, no slot is left that nobody will release.
THEOREM SlotsFree == Spec /\ WorkEnds => SlotFrees
<1>1. ASSUME IInv, ~(slots < MaxConcurrent) PROVE Working # {}
  <2>1. slots \in Nat /\ slots > 0 /\ slots = Cardinality(Working)
    BY <1>1, ConfigAssumption DEF IInv, TypeOK, SlotsExact
  <2> QED BY <2>1, FS_EmptySet
<1>2. ASSUME IInv, <<\E r \in Reqs : Release(r)>>_vars PROVE (slots < MaxConcurrent)'
  <2>1. slots' = slots - 1 /\ slots \in 0 .. MaxConcurrent
    BY <1>2 DEF Release, IInv, TypeOK
  <2> QED BY <2>1, ConfigAssumption
<1> QED BY <1>1, <1>2, LimiterInvariant, PTL DEF WorkEnds, SlotFrees

-----------------------------------------------------------------------------
(***************************************************************************)
(* The interceptor in front of the limiter (module Dispatch), for any      *)
(* number of calls, any clients and any period of its log.                 *)
(***************************************************************************)

\* The counters, the log and the ends of calls are numbers that agree, and the
\* next line is due a period after the last one.
LogInv ==
    /\ failures \in Nat /\ throttled \in Nat /\ nextLog \in Nat /\ now \in Nat
    /\ lastLog \in Nat
    /\ ended \in [failed : Nat, refused : Nat]
    /\ logged \in [failed : Nat, refused : Nat]
    /\ EveryEndAccounted
    /\ lastLog # 0 => nextLog = lastLog + LogEvery

\* What a call carries agrees with what the client asked for, and the interceptor
\* charges exactly the calls that are about passwords.
GoodCall(cl) ==
    /\ cl.pc = "routed" => cl.name = cl.asked
    /\ cl.pc \in {"decode", "intercept"} =>
          cl.handler.full = cl.asked /\ cl.handler.runs = cl.asked
    /\ cl.pc = "run" =>
          cl.runs = cl.asked /\ (cl.charged <=> cl.asked \in PasswordMethods)
    /\ cl.pc = "record" => cl.runs = cl.asked /\ cl.asked \in PasswordMethods

CallInv ==
    /\ calls = [c \in Calls |-> calls[c]]
    /\ \A c \in Calls : GoodCall(calls[c])

\* Every stub of the generated clients invokes its own name.
LEMMA ClientsAgree == \A x \in Clients : x.name = x.stub
<1>1. \A x \in authServiceClient : x.name = x.stub
    BY DEF authServiceClient, StubsOf
<1>2. \A x \in familyServiceClient : x.name = x.stub
    BY DEF familyServiceClient, StubsOf
<1>3. \A x \in personServiceClient : x.name = x.stub
    BY DEF personServiceClient, StubsOf
<1>4. \A x \in housingServiceClient : x.name = x.stub
    BY DEF housingServiceClient, StubsOf
<1>5. \A x \in incomeServiceClient \cup cPFServiceClient \cup dashboardServiceClient :
        x.name = x.stub
    BY DEF incomeServiceClient, cPFServiceClient, dashboardServiceClient, StubsOf
<1>6. QED BY <1>1, <1>2, <1>3, <1>4, <1>5 DEF Clients

\* Every registered handler passes the interceptor the name it is registered
\* under, and runs the method of that name.
LEMMA HandlersAgree == \A h \in Registered : h.full = h.name /\ h.runs = h.name
<1> DEFINE Agree(hs) == \A h \in hs : h.full = h.name /\ h.runs = h.name
<1>1. Agree(AuthService_ServiceDesc)
    BY DEF AuthService_ServiceDesc, AuthService_Handlers, HandlersOf
<1>2. Agree(FamilyService_ServiceDesc)
    BY DEF FamilyService_ServiceDesc, FamilyService_Handlers, HandlersOf
<1>3. Agree(PersonService_ServiceDesc)
    BY DEF PersonService_ServiceDesc, PersonService_Handlers, HandlersOf
<1>4. Agree(HousingService_ServiceDesc)
    BY DEF HousingService_ServiceDesc, HousingService_Handlers, HandlersOf
<1>5. /\ Agree(IncomeService_ServiceDesc) /\ Agree(CPFService_ServiceDesc)
      /\ Agree(DashboardService_ServiceDesc)
    BY DEF IncomeService_ServiceDesc, IncomeService_Handlers, CPFService_ServiceDesc,
        CPFService_Handlers, DashboardService_ServiceDesc, DashboardService_Handlers, HandlersOf
<1>6. QED BY <1>1, <1>2, <1>3, <1>4, <1>5 DEF Registered

\* The switch names the methods whose service hashes or verifies a password.
LEMMA SwitchAgrees == \A full : ChargedMethod(full) <=> full \in PasswordMethods
<1>1. PasswordMethods = {<<"AuthService", "Login">>, <<"AuthService", "ChangePassword">>,
                         <<"AuthService", "CreateUser">>}
  <2>1. {x \in AuthServer : x[2] \in PasswordWork} =
          {<<"CreateUser", "CreateUser">>, <<"Login", "Login">>, <<"ChangePassword", "ChangePassword">>}
      BY DEF PasswordWork, AuthServer
  <2>2. \A y : y \in PasswordMethods <=>
              \E row \in {x \in AuthServer : x[2] \in PasswordWork} : y = <<"AuthService", row[1]>>
      BY DEF PasswordMethods
  <2>3. \A y : y \in PasswordMethods <=>
              \/ y = <<"AuthService", "CreateUser">> \/ y = <<"AuthService", "Login">>
              \/ y = <<"AuthService", "ChangePassword">>
    <3> DEFINE working == {x \in AuthServer : x[2] \in PasswordWork}
    <3>1. \A row : row \in working <=>
              \/ row = <<"CreateUser", "CreateUser">> \/ row = <<"Login", "Login">>
              \/ row = <<"ChangePassword", "ChangePassword">>
        BY <2>1
    <3> HIDE DEF working
    <3>2. \A y : (\E row \in working : y = <<"AuthService", row[1]>>) <=>
              \/ y = <<"AuthService", "CreateUser">> \/ y = <<"AuthService", "Login">>
              \/ y = <<"AuthService", "ChangePassword">>
      <4>1. <<"CreateUser", "CreateUser">>[1] = "CreateUser" /\ <<"Login", "Login">>[1] = "Login"
            /\ <<"ChangePassword", "ChangePassword">>[1] = "ChangePassword"
          OBVIOUS
      <4>2. ASSUME NEW y, NEW row \in working, y = <<"AuthService", row[1]>>
            PROVE  \/ y = <<"AuthService", "CreateUser">> \/ y = <<"AuthService", "Login">>
                   \/ y = <<"AuthService", "ChangePassword">>
          BY <3>1, <4>1, <4>2, Zenon
      <4>3. /\ \E row \in working : <<"AuthService", "CreateUser">> = <<"AuthService", row[1]>>
            /\ \E row \in working : <<"AuthService", "Login">> = <<"AuthService", row[1]>>
            /\ \E row \in working : <<"AuthService", "ChangePassword">> = <<"AuthService", row[1]>>
          BY <3>1, <4>1
      <4>4. QED BY <4>2, <4>3, Zenon
    <3>3. QED BY <2>2, <3>2, Zenon DEF working
  <2>4. QED BY <2>3
<1>2. QED BY <1>1 DEF ChargedMethod

\* Nothing has ended at first.
LEMMA LogInit == DispatchInit => LogInv
BY DEF DispatchInit, LogInv, EveryEndAccounted

\* Every step accounts for the ends of calls.
LEMMA LogStep ==
    ASSUME LogInv, CallInv, [DispatchNext]_dispatchVars
    PROVE  LogInv'
<1> USE DispatchAssumption
<1>1. CASE UNCHANGED dispatchVars
    BY <1>1 DEF dispatchVars, LogInv, EveryEndAccounted
<1>2. CASE DispatchTick
    BY <1>2 DEF DispatchTick, LogInv, EveryEndAccounted, counters
<1>3. ASSUME NEW c \in Calls, Invoke(c) \/ Route(c) \/ Decode(c) \/ Intercept(c)
      PROVE  UNCHANGED <<counters, now>>
    BY <1>3 DEF Invoke, Route, Decode, Intercept
<1>4. ASSUME NEW c \in Calls, Run(c)
      PROVE  UNCHANGED <<counters, now>>
  <2>1. calls[c].runs = calls[c].asked /\ (calls[c].charged <=> calls[c].asked \in PasswordMethods)
      BY <1>4 DEF Run, At, CallInv, GoodCall
  <2>2. ended' = ended
    <3>1. PICK code \in Codes :
            \/ UNCHANGED ended
            \/ ~calls[c].charged /\ Ended(calls[c], code)
        BY <1>4 DEF Run
    <3>2. QED BY <2>1, <3>1 DEF Ended
  <2>3. QED BY <1>4, <2>2 DEF Run, counters
<1>5. ASSUME NEW c \in Calls, record(c) PROVE LogInv'
  <2> DEFINE code == calls[c].code
  <2>1. CASE ~Counts(code)
      BY <1>5, <2>1 DEF record, LogInv, EveryEndAccounted, counters
  <2>2. CASE Counts(code)
    <3>1. /\ Ended(calls[c], code) /\ now' = now
          /\ LogCounts(failures + Failed(code), throttled + Refused(code))
        BY <1>5, <2>2 DEF record
    <3>2. calls[c].asked \in PasswordMethods
        BY <1>5 DEF record, At, CallInv, GoodCall
    <3>3. ended' = [failed |-> ended.failed + Failed(code), refused |-> ended.refused + Refused(code)]
        BY <3>1, <3>2 DEF Ended
    <3>4. Failed(code) \in Nat /\ Refused(code) \in Nat
        BY DEF Failed, Refused
    <3> HIDE DEF code
    <3>5. CASE now >= nextLog
        BY <3>1, <3>3, <3>4, <3>5 DEF LogCounts, LogInv, EveryEndAccounted
    <3>6. CASE ~(now >= nextLog)
        BY <3>1, <3>3, <3>4, <3>6 DEF LogCounts, LogInv, EveryEndAccounted
    <3>7. QED BY <3>5, <3>6
  <2>3. QED BY <2>1, <2>2
<1>6. ASSUME UNCHANGED <<counters, now>> PROVE LogInv'
    BY <1>6 DEF LogInv, EveryEndAccounted, counters
<1>7. QED
    BY <1>1, <1>2, <1>3, <1>4, <1>5, <1>6 DEF DispatchNext

\* No call is under way at first.
LEMMA CallInit == DispatchInit => CallInv
BY DEF DispatchInit, CallInv, GoodCall, IdleCall

\* A call that changes to a good one keeps the invariant for all.
LEMMA MoveKeeps ==
    ASSUME CallInv, NEW c \in Calls, NEW new, Move(c, new), GoodCall(new)
    PROVE  CallInv'
BY DEF CallInv, Move

\* Every step keeps what holds of the calls.
LEMMA CallsStep == CallInv /\ [DispatchNext]_dispatchVars => CallInv'
<1> SUFFICES ASSUME CallInv, [DispatchNext]_dispatchVars PROVE CallInv'
    OBVIOUS
<1>1. CASE UNCHANGED dispatchVars
    BY <1>1 DEF dispatchVars, CallInv
<1>2. CASE DispatchTick
    BY <1>2 DEF DispatchTick, CallInv
<1>3. ASSUME NEW c \in Calls, Move(c, IdleCall) PROVE CallInv'
    BY <1>3, MoveKeeps DEF IdleCall, GoodCall
<1>4. ASSUME NEW c \in Calls, Invoke(c) PROVE CallInv'
  <2>1. PICK w \in Wire : \E name \in Sent(w) :
          Move(c, [pc |-> "routed", asked |-> w, name |-> name])
      BY <1>4 DEF Invoke
  <2>2. PICK name \in Sent(w) : Move(c, [pc |-> "routed", asked |-> w, name |-> name])
      BY <2>1
  <2>3. name = w
      BY ClientsAgree DEF Sent
  <2>4. QED BY <2>2, <2>3, MoveKeeps DEF GoodCall
<1>5. ASSUME NEW c \in Calls, Route(c) PROVE CallInv'
  <2>1. calls[c].name = calls[c].asked
      BY <1>5 DEF Route, At, CallInv, GoodCall
  <2>2. ASSUME NEW h \in Found(calls[c].name),
               Move(c, [pc |-> "decode", asked |-> calls[c].asked, handler |-> h])
        PROVE  CallInv'
    <3>1. h.full = calls[c].asked /\ h.runs = calls[c].asked
        BY <2>1, HandlersAgree DEF Found
    <3>2. QED BY <2>2, <3>1, MoveKeeps DEF GoodCall
  <2>3. QED BY <1>3, <1>5, <2>2 DEF Route
<1>6. ASSUME NEW c \in Calls, Decode(c) PROVE CallInv'
  <2>1. GoodCall(calls[c]) /\ calls[c].pc = "decode"
      BY <1>6 DEF Decode, CallInv, At
  <2>2. CASE Move(c, IdleCall)
      BY <1>3, <2>2
  <2>3. CASE Move(c, [calls[c] EXCEPT !.pc = "intercept"])
    <3>1. GoodCall([calls[c] EXCEPT !.pc = "intercept"])
        BY <2>1 DEF GoodCall
    <3>2. QED BY <2>3, <3>1, MoveKeeps
  <2>4. QED BY <1>6, <2>2, <2>3 DEF Decode
<1>7. ASSUME NEW c \in Calls, Intercept(c) PROVE CallInv'
  <2>1. calls[c].handler.full = calls[c].asked /\ calls[c].handler.runs = calls[c].asked
      BY <1>7 DEF Intercept, CallInv, GoodCall, At
  <2>2. ChargedMethod(calls[c].handler.full) <=> calls[c].asked \in PasswordMethods
      BY <2>1, SwitchAgrees
  <2>3. CASE ~ChargedMethod(calls[c].handler.full) /\ Move(c, Ran(c, FALSE))
    <3>1. GoodCall(Ran(c, FALSE))
        BY <2>1, <2>2, <2>3 DEF GoodCall, Ran
    <3>2. QED BY <2>3, <3>1, MoveKeeps
  <2>4. CASE ChargedMethod(calls[c].handler.full) /\ Move(c, Ran(c, TRUE))
    <3>1. GoodCall(Ran(c, TRUE))
        BY <2>1, <2>2, <2>4 DEF GoodCall, Ran
    <3>2. QED BY <2>4, <3>1, MoveKeeps
  <2>5. CASE /\ ChargedMethod(calls[c].handler.full)
             /\ Move(c, Over(c, calls[c].handler.runs, "ResourceExhausted"))
    <3>1. GoodCall(Over(c, calls[c].handler.runs, "ResourceExhausted"))
        BY <2>1, <2>2, <2>5 DEF GoodCall, Over
    <3>2. QED BY <2>5, <3>1, MoveKeeps
  <2>6. QED BY <1>7, <2>3, <2>4, <2>5 DEF Intercept
<1>8. ASSUME NEW c \in Calls, Run(c) PROVE CallInv'
  <2>1. calls[c].runs = calls[c].asked /\ (calls[c].charged <=> calls[c].asked \in PasswordMethods)
      BY <1>8 DEF Run, CallInv, GoodCall, At
  <2>2. ASSUME NEW code \in Codes, calls[c].charged, Move(c, Over(c, calls[c].runs, code))
        PROVE  CallInv'
    <3>1. GoodCall(Over(c, calls[c].runs, code))
        BY <2>1, <2>2 DEF GoodCall, Over
    <3>2. QED BY <2>2, <3>1, MoveKeeps
  <2>3. QED BY <1>3, <1>8, <2>2 DEF Run
<1>9. ASSUME NEW c \in Calls, record(c) PROVE CallInv'
    BY <1>3, <1>9 DEF record
<1>10. QED
    BY <1>1, <1>2, <1>4, <1>5, <1>6, <1>7, <1>8, <1>9 DEF DispatchNext

\* The interceptor's counters and what its calls carry.
LEMMA DispatchInvariant == DispatchSpec => [](LogInv /\ CallInv)
<1>1. DispatchInit => LogInv /\ CallInv
    BY LogInit, CallInit
<1>2. LogInv /\ CallInv /\ [DispatchNext]_dispatchVars => (LogInv /\ CallInv)'
    BY LogStep, CallsStep
<1>3. QED BY <1>1, <1>2, PTL DEF DispatchSpec

\* The log loses, doubles and overlooks no failed and no refused call that is about a
\* password (auth_limit.go:25-59 and the generated tables), for any number of
\* concurrent calls, any period and whatever names clients send.
THEOREM NoEndLost == DispatchSpec => []EveryEndAccounted
<1>1. LogInv => EveryEndAccounted
    BY DEF LogInv
<1>2. QED BY <1>1, DispatchInvariant, PTL

\* Log lines keep their distance (auth_limit.go:37-42).
THEOREM LogLinesSpaced == DispatchSpec => LinesSpaced
<1>1. LogInv /\ [DispatchNext]_dispatchVars => [lastLog' # lastLog /\ lastLog # 0 => lastLog' >= lastLog + LogEvery]_dispatchVars
  <2> SUFFICES ASSUME LogInv, DispatchNext, lastLog' # lastLog, lastLog # 0
               PROVE  lastLog' >= lastLog + LogEvery
      BY DEF dispatchVars
  <2>1. PICK c \in Calls : record(c)
      BY DEF DispatchNext, DispatchTick, Invoke, Route, Decode, Intercept, Run, counters
  <2>2. now >= nextLog /\ lastLog' = now
      BY <2>1 DEF record, LogCounts, counters
  <2>3. QED BY <2>2 DEF LogInv
<1>2. QED BY <1>1, DispatchInvariant, PTL DEF DispatchSpec, LinesSpaced

-----------------------------------------------------------------------------
(***************************************************************************)
(* The processes that share the database (module Startup), for any number  *)
(* of processes and accounts and any environments they are started with.   *)
(***************************************************************************)

IsMain(r) == r = [pc |-> r.pc, cfg |-> r.cfg, ctx |-> r.ctx]

\* A row's hash is the one of the password last given to it, an
\* administrator changed the password or must, and the account of a password
\* change exists.
RowsInv ==
    /\ users = [e \in Emails |-> users[e]] /\ known = [e \in Emails |-> known[e]]
    /\ call = [p \in Procs |-> call[p]]
    /\ \A e \in Emails : Exists(e) =>
        users[e].hash.key = IDKey(known[e], users[e].hash.params)
    /\ AdminsChosePassword
    /\ \A p \in Procs : call[p].pc = "change" => call[p].email \in Emails /\ Exists(call[p].email)

\* A handler runs only in a process that serves or waits for it, and such a
\* process has its pool.
ProcessInv ==
    /\ proc = [p \in Procs |-> proc[p]] /\ call = [p \in Procs |-> call[p]]
    /\ \A p \in Procs :
        /\ MainAt(p, "off") \/ IsMain(proc[p])
        /\ proc[p].pc \in (Starting \ {"open", "listen"}) \cup {"listen", "register", "serving", "stopping"}
              => p \in pool
        /\ call[p] # NoCall => proc[p].pc \in {"serving", "stopping"}

\* No process runs at first.
LEMMA ProcessInit == StartupInit => ProcessInv
BY DEF StartupInit, ProcessInv, MainAt, Off, NoCall, Starting

\* At first there is no row.
LEMMA RowsInit == StartupInit => RowsInv
BY DEF StartupInit, RowsInv, NoRow, NoCall, Exists, ActiveAccount,
  ActiveAdmins, AdminsChosePassword

-----------------------------------------------------------------------------
(* Processes.                                                              *)

\* main moves on: only the place changes.
LEMMA GotoFields ==
    ASSUME ProcessInv, NEW p \in Procs, NEW step, ~MainAt(p, "off"), Goto(p, step)
    PROVE  /\ proc' = [q \in Procs |-> proc'[q]]
           /\ proc'[p].pc = step /\ proc'[p].cfg = proc[p].cfg /\ IsMain(proc'[p])
           /\ \A q \in Procs \ {p} : proc'[q] = proc[q]
<1>1. proc[p] = [pc |-> proc[p].pc, cfg |-> proc[p].cfg, ctx |-> proc[p].ctx]
    BY DEF ProcessInv, MainAt, IsMain
<1>2. [proc[p] EXCEPT !.pc = step] = [pc |-> step, cfg |-> proc[p].cfg, ctx |-> proc[p].ctx]
    BY <1>1
<1>3. proc' = [proc EXCEPT ![p] = [pc |-> step, cfg |-> proc[p].cfg, ctx |-> proc[p].ctx]]
    BY <1>2 DEF Goto
<1>4. QED
    BY <1>3 DEF ProcessInv, IsMain

\* The context is done: only that changes.
LEMMA CancelFields ==
    ASSUME ProcessInv, NEW p \in Procs, ~MainAt(p, "off"), proc' = [proc EXCEPT ![p].ctx = "done"]
    PROVE  /\ proc' = [q \in Procs |-> proc'[q]]
           /\ proc'[p].pc = proc[p].pc /\ proc'[p].cfg = proc[p].cfg /\ IsMain(proc'[p])
           /\ \A q \in Procs \ {p} : proc'[q] = proc[q]
<1>1. proc[p] = [pc |-> proc[p].pc, cfg |-> proc[p].cfg, ctx |-> proc[p].ctx]
    BY DEF ProcessInv, MainAt, IsMain
<1>2. [proc[p] EXCEPT !.ctx = "done"] = [pc |-> proc[p].pc, cfg |-> proc[p].cfg, ctx |-> "done"]
    BY <1>1
<1>3. proc' = [proc EXCEPT ![p] = [pc |-> proc[p].pc, cfg |-> proc[p].cfg, ctx |-> "done"]]
    BY <1>2
<1>4. QED
    BY <1>3 DEF ProcessInv, IsMain

\* The context of a running process is done.
LEMMA CancelDone ==
    ASSUME ProcessInv, NEW p \in Procs, ~MainAt(p, "off"), proc' = [proc EXCEPT ![p].ctx = "done"]
    PROVE  proc'[p].ctx = "done"
<1>1. proc[p] = [pc |-> proc[p].pc, cfg |-> proc[p].cfg, ctx |-> proc[p].ctx]
    BY DEF ProcessInv, MainAt, IsMain
<1>2. [proc[p] EXCEPT !.ctx = "done"].ctx = "done"
    BY <1>1
<1>3. proc'[p] = [proc[p] EXCEPT !.ctx = "done"]
    BY DEF ProcessInv
<1>4. QED BY <1>2, <1>3

\* A process that dies leaves nothing behind in memory.
LEMMA DieKeeps ==
    ASSUME ProcessInv, NEW p \in Procs, Die(p)
    PROVE  ProcessInv'
BY DEF Die, ProcessInv, MainAt, Off, NoCall, Starting, IsMain

\* Every step keeps what holds of the processes.
LEMMA ProcessStep == ProcessInv /\ [StartupNext]_startupVars => ProcessInv'
<1> SUFFICES ASSUME ProcessInv, [StartupNext]_startupVars PROVE ProcessInv'
    OBVIOUS
<1>1. CASE UNCHANGED startupVars
    BY <1>1 DEF startupVars, ProcessInv, MainAt
<1>2. ASSUME NEW p \in Procs, Start(p) PROVE ProcessInv'
  <2>1. PICK e \in Envs :
          proc' = [proc EXCEPT ![p] = [pc |-> "open", cfg |-> Load(e), ctx |-> "live"]]
      BY <1>2 DEF Start
  <2>2. call[p] = NoCall
      BY <1>2 DEF Start, ProcessInv, MainAt
  <2>3. QED
      BY <1>2, <2>1, <2>2 DEF Start, ProcessInv, MainAt, Starting, IsMain
<1>3. ASSUME NEW p \in Procs, Open(p) PROVE ProcessInv'
  <2>1. Goto(p, "listen") /\ ~MainAt(p, "off") /\ call[p] = NoCall
      BY <1>3 DEF Open, MainAt, ProcessInv
  <2>2. QED
      BY <1>3, <2>1, GotoFields DEF Open, ProcessInv, MainAt, Starting
<1>4. ASSUME NEW p \in Procs, NEW from \in Starting \ {"open"}, MainAt(p, from),
             NEW to \in (Starting \ {"open"}) \cup {"register"}, Goto(p, to),
             UNCHANGED <<pool, call>>
      PROVE  ProcessInv'
  <2>1. ~MainAt(p, "off") /\ call[p] = NoCall /\ p \in pool
      BY <1>4 DEF MainAt, ProcessInv, Starting
  <2>2. QED
      BY <1>4, <2>1, GotoFields DEF ProcessInv, MainAt, Starting
<1>5. ASSUME NEW p \in Procs,
             \/ Listen(p) \/ CheckConfig(p) \/ HasActiveAdmin(p) \/ HashTemporary(p)
             \/ GetUserByEmail(p) \/ PromoteToBootstrapAdmin(p) \/ CreateUser(p)
      PROVE  ProcessInv'
  <2>1. CASE Listen(p)
      BY <1>4, <2>1 DEF Listen, Starting
  <2>2. CASE CheckConfig(p)
      BY <1>4, <2>2 DEF CheckConfig, Starting
  <2>3. CASE HasActiveAdmin(p)
      BY <1>4, <2>3 DEF HasActiveAdmin, Starting
  <2>4. CASE HashTemporary(p)
      BY <1>4, <2>4 DEF HashTemporary, Starting
  <2>5. CASE GetUserByEmail(p)
      BY <1>4, <2>5 DEF GetUserByEmail, Starting
  <2>6. CASE PromoteToBootstrapAdmin(p)
      BY <1>4, <2>6 DEF PromoteToBootstrapAdmin, WriteBootstrap, Starting
  <2>7. CASE CreateUser(p)
      BY <1>4, <2>7 DEF CreateUser, WriteBootstrap, Starting
  <2>8. QED BY <1>5, <2>1, <2>2, <2>3, <2>4, <2>5, <2>6, <2>7
<1>6. ASSUME NEW p \in Procs,
  Serve(p) \/ Done(p) \/ GracefulStop(p) PROVE ProcessInv'
  <2>1. CASE Serve(p)
    <3>1. Goto(p, "serving") /\ ~MainAt(p, "off") /\ p \in pool
        BY <2>1 DEF Serve, MainAt, ProcessInv
    <3>2. QED BY <2>1, <3>1, GotoFields DEF Serve, ProcessInv, MainAt, Starting
  <2>2. CASE Done(p)
    <3>1. Goto(p, "stopping") /\ ~MainAt(p, "off") /\ p \in pool
        BY <2>2 DEF Done, MainAt, ProcessInv
    <3>2. QED BY <2>2, <3>1, GotoFields DEF Done, ProcessInv, MainAt, Starting
  <2>3. CASE GracefulStop(p)
    <3>1. Goto(p, "returning") /\ ~MainAt(p, "off")
        BY <2>3 DEF GracefulStop, MainAt
    <3>2. QED BY <2>3, <3>1, GotoFields DEF GracefulStop, ProcessInv, MainAt,
      Starting
  <2>4. QED BY <1>6, <2>1, <2>2, <2>3
<1>7. ASSUME NEW p \in Procs, ClosePool(p) PROVE ProcessInv'
    BY <1>7 DEF ClosePool, ProcessInv, MainAt, Starting
<1>8. ASSUME NEW p \in Procs,
             Exit(p) \/ Fail(p) \/ Crash(p) \/ Return(p) \/ PanicsHashing(p)
      PROVE  ProcessInv'
    BY <1>8, DieKeeps DEF Exit, Fail, Crash, Return, PanicsHashing
<1>9. ASSUME NEW p \in Procs, Signal(p) \/ ServeFails(p) PROVE ProcessInv'
  <2>1. /\ ~MainAt(p, "off") /\ proc' = [proc EXCEPT ![p].ctx = "done"]
        /\ UNCHANGED <<pool, call>>
      BY <1>9 DEF Signal, ServeFails, MainAt
  <2>2. QED BY <2>1, CancelFields DEF ProcessInv, MainAt, Starting
<1>10. ASSUME NEW p \in Procs, NEW c, Begin(p, c) PROVE ProcessInv'
    BY <1>10 DEF Begin, ProcessInv, MainAt
<1>11. ASSUME NEW p \in Procs,
  BeginChange(p) \/ BeginCreate(p) \/ BeginDisable(p)
       PROVE  ProcessInv'
    BY <1>10, <1>11 DEF BeginChange, BeginCreate, BeginDisable
<1>12. ASSUME NEW p \in Procs, EndCall(p), UNCHANGED <<proc, pool>> PROVE ProcessInv'
    BY <1>12 DEF EndCall, ProcessInv, MainAt
<1>13. ASSUME NEW p \in Procs,
              UpdateUserPassword(p) \/ InsertUser(p) \/ DisableUser(p) \/ CallFails(p)
       PROVE  ProcessInv'
    BY <1>12, <1>13 DEF UpdateUserPassword, InsertUser, DisableUser,
      CallFails
<1>14. QED
    BY <1>1, <1>2, <1>3, <1>5, <1>6, <1>7, <1>8, <1>9, <1>11, <1>13 DEF StartupNext,
      Step, CallStep

\* No handler finds its pool closed (cmd/core/main.go:42, 126), for any number of
\* processes and any order of signals, failures, calls and restarts.
THEOREM PoolOutlivesCalls == StartupSpec => []CallsHavePool
<1>1. ProcessInv => CallsHavePool
    BY DEF ProcessInv, CallsHavePool, Starting
<1>2. QED BY <1>1, ProcessInit, ProcessStep, PTL DEF StartupSpec

-----------------------------------------------------------------------------
(* Accounts.                                                               *)

\* A row e is replaced by r, which is a row for the password w: an administrator
\* there must change it, or e counts as changed.
LEMMA PutKeeps ==
    ASSUME RowsInv, NEW e, NEW r, NEW w,
           users' = [users EXCEPT ![e] = r], known' = [known EXCEPT ![e] = w],
           r.status # "none", r.hash.key = IDKey(w, r.hash.params),
           \/ changed' = changed \cup {e}
           \/ changed' \in {changed, changed \ {e}} /\ (r.status = "active" /\ r.admin => r.must),
           call' = [p \in Procs |-> call'[p]],
           \A p \in Procs : call'[p] \in {call[p], NoCall}
    PROVE  RowsInv'
<1>1. /\ users' = [f \in Emails |-> users'[f]] /\ known' = [f \in Emails |-> known'[f]]
      /\ \A f \in Emails : users'[f] = IF f = e THEN r ELSE users[f]
      /\ \A f \in Emails : known'[f] = IF f = e THEN w ELSE known[f]
    BY DEF RowsInv
<1>2. \A f \in Emails : Exists(f)' =>
        users'[f].hash.key = IDKey(known'[f], users'[f].hash.params)
    BY <1>1 DEF RowsInv, Exists
<1>3. \A f \in Emails : Exists(f) => Exists(f)'
    BY <1>1 DEF Exists
<1>4. \A p \in Procs : call'[p].pc = "change" =>
        call'[p].email \in Emails /\ users'[call'[p].email].status # "none"
    BY <1>1, <1>3 DEF RowsInv, NoCall, Exists
<1>5. AdminsChosePassword'
  <2> SUFFICES ASSUME NEW f \in Emails, users'[f].status = "active", users'[f].admin
               PROVE  users'[f].must \/ f \in changed'
      BY DEF AdminsChosePassword, ActiveAdmins, ActiveAccount
  <2>1. CASE f = e
      BY <1>1, <2>1
  <2>2. CASE f # e
    <3>1. users[f].must \/ f \in changed
        BY <1>1, <2>2 DEF RowsInv, AdminsChosePassword, ActiveAdmins, ActiveAccount
    <3>2. QED BY <1>1, <2>2, <3>1
  <2>3. QED BY <2>1, <2>2
<1>6. QED
    BY <1>1, <1>2, <1>4, <1>5 DEF RowsInv, Exists

\* Steps that write no account and start no password change.
LEMMA QuietKeeps ==
    ASSUME RowsInv, UNCHANGED rows, call' = [p \in Procs |-> call'[p]],
           \A p \in Procs : call'[p].pc = "change" =>
               call'[p].email \in Emails /\ users[call'[p].email].status # "none"
    PROVE  RowsInv'
BY DEF RowsInv, rows, Exists, AdminsChosePassword, ActiveAdmins, ActiveAccount

\* A stored hash is the key that its own parameters derive.
LEMMA HashIsKnown ==
    ASSUME NEW w, NEW params
    PROVE  HashPassword(w, params).key = IDKey(w, HashPassword(w, params).params)
BY DEF HashPassword

\* Every step keeps what holds of the rows.
LEMMA RowsStep == RowsInv /\ [StartupNext]_startupVars => RowsInv'
<1> SUFFICES ASSUME RowsInv, [StartupNext]_startupVars PROVE RowsInv'
    OBVIOUS
<1>1. CASE UNCHANGED startupVars
    BY <1>1, QuietKeeps DEF startupVars, rows, RowsInv, Exists
<1>2. ASSUME UNCHANGED <<rows, call>> PROVE RowsInv'
    BY <1>2, QuietKeeps DEF RowsInv, Exists
<1>3. ASSUME NEW p \in Procs, EndCall(p), UNCHANGED rows PROVE RowsInv'
    BY <1>3, QuietKeeps DEF EndCall, RowsInv, NoCall, Exists
<1>4. ASSUME NEW p \in Procs, WriteBootstrap(p, Bootstrapped(p)) PROVE RowsInv'
  <2> DEFINE e == proc[p].cfg.email
             w == proc[p].cfg.password
             r == Bootstrapped(p)
  <2>1. r.status = "active" /\ r.must /\ r.hash = HashPassword(w, proc[p].cfg.params)
      BY DEF Bootstrapped, Row
  <2>2. r.hash.key = IDKey(w, r.hash.params)
      BY <2>1, HashIsKnown
  <2>3. /\ users' = [users EXCEPT ![e] = r] /\ known' = [known EXCEPT ![e] = w]
        /\ changed' = changed \ {e} /\ call' = call
      BY <1>4 DEF WriteBootstrap
  <2>4. call' = [q \in Procs |-> call'[q]] /\ \A q \in Procs : call'[q] \in {call[q],
    NoCall}
      BY <2>3 DEF RowsInv
  <2> HIDE DEF e, w, r
  <2>5. QED BY <2>1, <2>2, <2>3, <2>4, PutKeeps
<1>5. ASSUME NEW p \in Procs, BeginChange(p) \/ BeginCreate(p) \/ BeginDisable(p)
      PROVE  RowsInv'
  <2>1. ASSUME NEW c, Begin(p, c),
               c.pc = "change" => c.email \in Emails /\ Exists(c.email)
        PROVE  RowsInv'
    <3>1. UNCHANGED rows /\ call' = [call EXCEPT ![p] = c]
        BY <2>1 DEF Begin
    <3>2. QED BY <2>1, <3>1, QuietKeeps DEF RowsInv, Exists
  <2>2. CASE BeginChange(p)
      BY <2>1, <2>2 DEF BeginChange, ActiveAccount, Exists
  <2>3. CASE BeginCreate(p)
      BY <2>1, <2>3 DEF BeginCreate
  <2>4. CASE BeginDisable(p)
      BY <2>1, <2>4 DEF BeginDisable
  <2>5. QED BY <1>5, <2>2, <2>3, <2>4
<1>6. ASSUME NEW p \in Procs, EndCall(p)
      PROVE  call' = [q \in Procs |-> call'[q]] /\ \A q \in Procs : call'[q] \in {call[q], NoCall}
    BY <1>6 DEF EndCall, RowsInv
<1>7. ASSUME NEW p \in Procs, UpdateUserPassword(p) PROVE RowsInv'
  <2> DEFINE e == call[p].email
             r == Row(users[e].status, users[e].admin, FALSE, HashNew(p))
  <2>1. users[e].status # "none"
      BY <1>7 DEF UpdateUserPassword, RowsInv, Exists
  <2>2. users' = [users EXCEPT ![e] = r]
      BY <1>7 DEF UpdateUserPassword
  <2>3. r.status # "none" /\ r.hash.key = IDKey(call[p].new, r.hash.params)
      BY <2>1, HashIsKnown DEF Row, HashNew
  <2>4. /\ known' = [known EXCEPT ![e] = call[p].new] /\ changed' = changed \cup {e} /\ EndCall(p)
      BY <1>7 DEF UpdateUserPassword
  <2> HIDE DEF e, r
  <2>5. QED BY <1>6, <2>2, <2>3, <2>4, PutKeeps
<1>8. ASSUME NEW p \in Procs, InsertUser(p) PROVE RowsInv'
  <2> DEFINE e == call[p].email
             r == Row("active", call[p].admin, call[p].admin, HashNew(p))
  <2>1. r.status # "none" /\ r.hash.key = IDKey(call[p].new, r.hash.params)
        /\ (r.admin => r.must)
      BY HashIsKnown DEF Row, HashNew
  <2>2. /\ users' = [users EXCEPT ![e] = r] /\ known' = [known EXCEPT ![e] = call[p].new]
        /\ changed' = changed /\ EndCall(p)
      BY <1>8 DEF InsertUser
  <2> HIDE DEF e, r
  <2>3. QED BY <1>6, <2>1, <2>2, PutKeeps
<1>9. ASSUME NEW p \in Procs, DisableUser(p) PROVE RowsInv'
  <2> DEFINE e == call[p].email
             r == Row("disabled", users[e].admin, users[e].must, users[e].hash)
  <2>1. CASE e \notin Emails
    <3>1. users' = users /\ known' = known /\ changed' = changed /\ EndCall(p)
        BY <1>9, <2>1 DEF DisableUser, RowsInv
    <3>2. QED BY <1>3, <3>1 DEF rows
  <2>2. CASE e \in Emails
    <3>1. users[e].hash.key = IDKey(known[e], users[e].hash.params)
        BY <1>9, <2>2 DEF DisableUser, RowsInv
    <3>2. users' = [users EXCEPT ![e] = r]
        BY <1>9 DEF DisableUser
    <3>3. r.status = "disabled" /\ r.hash.key = IDKey(known[e], r.hash.params)
        BY <3>1 DEF Row
    <3>4. known' = [known EXCEPT ![e] = known[e]] /\ changed' = changed /\ EndCall(p)
        BY <1>9, <2>2 DEF DisableUser, RowsInv
    <3> HIDE DEF e, r
    <3>5. QED BY <1>6, <3>2, <3>3, <3>4, PutKeeps
  <2>3. QED BY <2>1, <2>2
<1>10. ASSUME NEW p \in Procs, Die(p) PROVE RowsInv'
    BY <1>3, <1>10 DEF Die, EndCall
<1>11. ASSUME NEW p \in Procs, Step(p) PROVE RowsInv'
    BY <1>2, <1>4, <1>10, <1>11 DEF Step, Open, Listen, CheckConfig,
      HasActiveAdmin,
        HashTemporary, GetUserByEmail, PromoteToBootstrapAdmin,
          CreateUser, Serve, Exit, Done,
        GracefulStop, ClosePool, Return
<1>12. ASSUME NEW p \in Procs, CallStep(p) PROVE RowsInv'
    BY <1>3, <1>7, <1>8, <1>9, <1>10, <1>12 DEF CallStep, PanicsHashing,
      CallFails
<1>13. ASSUME NEW p \in Procs,
  Start(p) \/ Fail(p) \/ Crash(p) \/ Signal(p) \/ ServeFails(p)
       PROVE  RowsInv'
    BY <1>2, <1>10, <1>13 DEF Start, Fail, Crash, Signal, ServeFails
<1>14. QED
    BY <1>1, <1>5, <1>11, <1>12, <1>13 DEF StartupNext

\* The last password given to an account, and no other, opens it
\* (security/password.go:34-60), under any sequence of configurations.
THEOREM PasswordsStayValid == StartupSpec => []PasswordsOutliveConfig
<1>1. RowsInv => PasswordsOutliveConfig
  <2> SUFFICES ASSUME RowsInv, NEW e \in Emails, Exists(e), NEW w
               PROVE  VerifyPassword(w, users[e].hash) <=> w = known[e]
      BY DEF PasswordsOutliveConfig
  <2>1. users[e].hash.key = <<known[e], users[e].hash.params>>
      BY DEF RowsInv, IDKey
  <2>2. QED BY <2>1 DEF VerifyPassword, IDKey
<1>2. QED BY <1>1, RowsInit, RowsStep, PTL DEF StartupSpec

\* Administrators replaced the password set for them, or still must
\* (README.md:205), for any number of processes bootstrapping at once.
THEOREM AdminsReplacePassword == StartupSpec => []AdminsChosePassword
<1>1. RowsInv => AdminsChosePassword
    BY DEF RowsInv
<1>2. QED BY <1>1, RowsInit, RowsStep, PTL DEF StartupSpec

-----------------------------------------------------------------------------
(* The bootstrap.                                                          *)

\* The configuration of a process names an account or none, and a process in the
\* bootstrap has one to write to.
BootInv ==
    \A p \in Procs : ~MainAt(p, "off") =>
        /\ proc[p].cfg.email \in Emails \cup {"unset"}
        /\ proc[p].pc \in InBootstrap => proc[p].cfg.email \in Emails

\* What a step does to main of a process: it ends, it starts with the
\* configuration of an environment, or it keeps its configuration.  Then it is
\* in the bootstrap only if it was or has an account for it, and it leaves the
\* bootstrap for the registration only by a statement that found an
\* administrator or wrote one.
Moves(q) ==
    \/ proc'[q].pc = "off"
    \/ proc'[q].pc = "open" /\ \E e \in Envs : proc'[q].cfg = Load(e)
    \/ /\ ~MainAt(q, "off") /\ proc'[q].cfg = proc[q].cfg
       /\ proc'[q].pc \in InBootstrap => proc[q].pc \in InBootstrap \/ proc[q].cfg.email # "unset"
       /\ proc[q].pc \in InBootstrap /\ proc'[q].pc = "register" =>
            \/ ActiveAdmins # {} /\ users' = users
            \/ users' = [users EXCEPT ![proc[q].cfg.email] = Bootstrapped(q)]

\* How one step moves a process through main.
LEMMA MainMoves ==
    ASSUME ProcessInv, [StartupNext]_startupVars, NEW q \in Procs
    PROVE  Moves(q)
<1>1. ASSUME proc'[q] = proc[q] PROVE Moves(q)
    BY <1>1 DEF Moves, MainAt, InBootstrap
<1>2. ASSUME NEW p \in Procs, Die(p) PROVE Moves(q)
    BY <1>1, <1>2 DEF Die, Off, ProcessInv, Moves
<1>3. ASSUME NEW p \in Procs, Start(p) PROVE Moves(q)
  <2>1. PICK e \in Envs :
          proc' = [proc EXCEPT ![p] = [pc |-> "open", cfg |-> Load(e), ctx |-> "live"]]
      BY <1>3 DEF Start
  <2>2. CASE p = q BY <2>1, <2>2 DEF ProcessInv, Moves
  <2>3. CASE p # q BY <1>1, <2>1, <2>3 DEF ProcessInv
  <2>4. QED BY <2>2, <2>3
<1>4. ASSUME NEW p \in Procs, Signal(p) \/ ServeFails(p) PROVE Moves(q)
  <2>1. ~MainAt(p, "off") /\ proc' = [proc EXCEPT ![p].ctx = "done"]
      BY <1>4 DEF Signal, ServeFails, MainAt
  <2>2. QED BY <1>1, <2>1, CancelFields DEF Moves, MainAt, InBootstrap
<1>5. ASSUME NEW p \in Procs, NEW to, ~MainAt(p, "off"), Goto(p, to),
             to \in InBootstrap => proc[p].pc \in InBootstrap \/ proc[p].cfg.email # "unset",
             proc[p].pc \in InBootstrap /\ to = "register" =>
                \/ ActiveAdmins # {} /\ users' = users
                \/ users' = [users EXCEPT ![proc[p].cfg.email] = Bootstrapped(p)]
      PROVE  Moves(q)
  <2>1. /\ proc'[p].pc = to /\ proc'[p].cfg = proc[p].cfg
        /\ \A r \in Procs \ {p} : proc'[r] = proc[r]
      BY <1>5, GotoFields
  <2>2. CASE p = q BY <1>5, <2>1, <2>2 DEF Moves
  <2>3. CASE p # q BY <1>1, <2>1, <2>3
  <2>4. QED BY <2>2, <2>3
<1>6. ASSUME NEW p \in Procs,
  Open(p) \/ Listen(p) \/ Serve(p) \/ Done(p) \/ GracefulStop(p)
      PROVE  Moves(q)
    BY <1>5, <1>6 DEF Open, Listen, Serve, Done, GracefulStop,
      MainAt, InBootstrap
<1>7. ASSUME NEW p \in Procs, CheckConfig(p) PROVE Moves(q)
    BY <1>5, <1>7 DEF CheckConfig, MainAt, InBootstrap
<1>8. ASSUME NEW p \in Procs, HasActiveAdmin(p) PROVE Moves(q)
    BY <1>5, <1>8 DEF HasActiveAdmin, MainAt, InBootstrap, rows
<1>9. ASSUME NEW p \in Procs, HashTemporary(p) \/ GetUserByEmail(p) PROVE Moves(q)
    BY <1>5, <1>9 DEF HashTemporary, GetUserByEmail, MainAt, InBootstrap
<1>10. ASSUME NEW p \in Procs,
  PromoteToBootstrapAdmin(p) \/ CreateUser(p) PROVE Moves(q)
    BY <1>5, <1>10 DEF PromoteToBootstrapAdmin, CreateUser,
      WriteBootstrap, MainAt, InBootstrap
<1>11. ASSUME NEW p \in Procs, ClosePool(p) PROVE Moves(q)
    BY <1>1, <1>11 DEF ClosePool
<1>12. ASSUME NEW p \in Procs, Step(p) PROVE Moves(q)
    BY <1>2, <1>6, <1>7, <1>8, <1>9, <1>10, <1>11, <1>12 DEF Step, Exit, Return
<1>13. ASSUME NEW p \in Procs, CallStep(p) PROVE Moves(q)
    BY <1>1, <1>2, <1>13 DEF CallStep, UpdateUserPassword, InsertUser,
      DisableUser,
        PanicsHashing, CallFails
<1>14. ASSUME NEW p \in Procs,
  BeginChange(p) \/ BeginCreate(p) \/ BeginDisable(p)
       PROVE  Moves(q)
    BY <1>1, <1>14 DEF BeginChange, BeginCreate, BeginDisable, Begin
<1>15. CASE UNCHANGED startupVars
    BY <1>1, <1>15 DEF startupVars
<1>16. QED
    BY <1>2, <1>3, <1>4, <1>12, <1>13, <1>14, <1>15 DEF StartupNext, Fail, Crash

\* A process in the bootstrap has an address configured.
LEMMA BootStep ==
    ProcessInv /\ BootInv /\ [StartupNext]_startupVars => BootInv'
<1> SUFFICES ASSUME ProcessInv, BootInv, [StartupNext]_startupVars, NEW q \in Procs, proc'[q].pc # "off"
             PROVE  /\ proc'[q].cfg.email \in Emails \cup {"unset"}
                    /\ proc'[q].pc \in InBootstrap => proc'[q].cfg.email \in Emails
    BY DEF BootInv, MainAt
<1>1. Moves(q)
    BY MainMoves
<1>2. CASE proc'[q].pc = "open" /\ \E e \in Envs : proc'[q].cfg = Load(e)
  <2>1. PICK e \in Envs : proc'[q].cfg = Load(e)
      BY <1>2
  <2>2. proc'[q].cfg.email = env(e.email, "unset")
      BY <2>1 DEF Load
  <2>3. QED BY <1>2, <2>2, EnvsAssumption DEF InBootstrap
<1>3. QED
    BY <1>1, <1>2 DEF Moves, BootInv

\* A process with bootstrap variables goes on only in a state with an active
\* administrator (service/auth.go:240-282), for any number of processes and
\* whatever accounts the others write or disable between its statements.
THEOREM BootstrapFindsOrMakesAdmin == StartupSpec => BootstrapLeavesAdmin
<1>1. ASSUME ProcessInv, RowsInv, BootInv, [StartupNext]_startupVars, NEW p \in Procs,
             proc[p].pc \in InBootstrap, proc'[p].pc = "register"
      PROVE  ActiveAdmins' # {}
  <2>1. \/ ActiveAdmins # {} /\ users' = users
        \/ users' = [users EXCEPT ![proc[p].cfg.email] = Bootstrapped(p)]
      BY <1>1, MainMoves DEF Moves
  <2>2. CASE ActiveAdmins # {} /\ users' = users
      BY <2>2 DEF ActiveAdmins, ActiveAccount
  <2>3. CASE users' = [users EXCEPT ![proc[p].cfg.email] = Bootstrapped(p)]
    <3>1. proc[p].cfg.email \in Emails
        BY <1>1 DEF BootInv, MainAt, InBootstrap
    <3>2. users'[proc[p].cfg.email] = Bootstrapped(p)
        BY <1>1, <2>3, <3>1 DEF RowsInv
    <3>3. proc[p].cfg.email \in ActiveAdmins'
        BY <3>1, <3>2 DEF ActiveAdmins, ActiveAccount, Bootstrapped, Row
    <3>4. QED BY <3>3
  <2>4. QED BY <2>1, <2>2, <2>3
<1>2. ProcessInv /\ RowsInv /\ BootInv /\ [StartupNext]_startupVars =>
        [\A p \in Procs :
            proc[p].pc \in InBootstrap /\ proc'[p].pc = "register" => ActiveAdmins' # {}]_startupVars
    BY <1>1
<1>3. StartupInit => BootInv
    BY DEF StartupInit, BootInv, MainAt, Off
<1>4. QED
    BY <1>2, <1>3, ProcessInit, ProcessStep, RowsInit, RowsStep, BootStep, PTL
    DEF StartupSpec, BootstrapLeavesAdmin

-----------------------------------------------------------------------------
(* The end of a process.                                                   *)

\* Main is at one of its statements; from the listener to the graceful stop it
\* listens, or knows that it has to stop; a call in flight is at a statement.
StopInv ==
    \A p \in Procs :
        /\ proc[p].pc \in Starting \cup {"off", "register", "serving", "stopping", "returning"}
        /\ proc[p].pc \in InBootstrap \cup {"check", "register"} => p \in listening
        /\ MainAt(p, "serving") => p \in listening \/ Cancelled(p)
        /\ call[p] = NoCall \/ call[p].pc # "none"

\* Steps main of p takes at most until the process has ended; a graceful stop
\* has one more while a call is in flight, and the return one for the pool.
StepsLeft(p) ==
    CASE MainAt(p, "off") -> 0
      [] MainAt(p, "returning") -> IF p \in pool THEN 2 ELSE 1
      [] MainAt(p, "stopping") -> IF call[p] = NoCall THEN 3 ELSE 4
      [] MainAt(p, "serving") -> 5
      [] MainAt(p, "register") -> 6
      [] proc[p].pc \in {"promote", "create"} -> 7
      [] MainAt(p, "find") -> 8
      [] MainAt(p, "hash") -> 9
      [] MainAt(p, "hasadmin") -> 10
      [] MainAt(p, "check") -> 11
      [] MainAt(p, "listen") -> 12
      [] MainAt(p, "open") -> 13

\* What one step of p does to p: it starts, or its end comes no further away;
\* a step of main, and of a call that main waits for, brings it closer.
Descends(p) ==
    /\ StepsLeft(p)' > StepsLeft(p) => Start(p)
    /\ Step(p) => StepsLeft(p)' < StepsLeft(p)
    /\ CallStep(p) /\ MainAt(p, "stopping") => StepsLeft(p)' < StepsLeft(p)

\* What p alone has stays as it is when another process takes a step.
LEMMA OthersStay ==
    ASSUME ProcessInv, NEW p \in Procs, NEW q \in Procs \ {p},
           \/ Start(p) \/ Step(p) \/ Fail(p) \/ Crash(p) \/ Signal(p) \/ ServeFails(p)
           \/ BeginChange(p) \/ BeginCreate(p) \/ BeginDisable(p) \/ CallStep(p)
    PROVE  /\ proc'[q] = proc[q] /\ call'[q] = call[q]
           /\ q \in pool' <=> q \in pool
           /\ q \in listening' <=> q \in listening
<1>t. proc = [r \in Procs |-> proc[r]] /\ call = [r \in Procs |-> call[r]]
  BY DEF ProcessInv
<1>1. CASE Die(p)
  BY <1>t, <1>1 DEF Die
<1>2. CASE Start(p)
  BY <1>t, <1>2 DEF Start
<1>3. ASSUME NEW to, Goto(p, to) PROVE proc'[q] = proc[q]
  BY <1>t, <1>3 DEF Goto
<1>4. CASE \/ Open(p) \/ Listen(p) \/ CheckConfig(p) \/ HasActiveAdmin(p) \/ HashTemporary(p)
           \/ GetUserByEmail(p) \/ Serve(p) \/ Done(p) \/ GracefulStop(p)
  <2>1. proc'[q] = proc[q]
    BY <1>3, <1>4 DEF Open, Listen, CheckConfig, HasActiveAdmin, HashTemporary, GetUserByEmail,
                      Serve, Done, GracefulStop
  <2> QED BY <1>4, <2>1 DEF Open, Listen, CheckConfig, HasActiveAdmin, HashTemporary,
                            GetUserByEmail, Serve, Done, GracefulStop
<1>5. CASE PromoteToBootstrapAdmin(p) \/ CreateUser(p)
  <2>1. proc'[q] = proc[q]
    BY <1>3, <1>5 DEF PromoteToBootstrapAdmin, CreateUser, WriteBootstrap
  <2> QED BY <1>5, <2>1 DEF PromoteToBootstrapAdmin, CreateUser, WriteBootstrap
<1>6. CASE ClosePool(p)
  BY <1>6 DEF ClosePool
<1>7. CASE Signal(p) \/ ServeFails(p)
  BY <1>t, <1>7 DEF Signal, ServeFails
<1>8. CASE BeginChange(p) \/ BeginCreate(p) \/ BeginDisable(p)
  BY <1>t, <1>8 DEF BeginChange, BeginCreate, BeginDisable, Begin
<1>9. CASE UpdateUserPassword(p) \/ InsertUser(p) \/ DisableUser(p) \/ CallFails(p)
  BY <1>t, <1>9 DEF UpdateUserPassword, InsertUser, DisableUser, CallFails, EndCall
<1> QED
  BY <1>1, <1>2, <1>4, <1>5, <1>6, <1>7, <1>8, <1>9
  DEF Step, CallStep, Exit, Fail, Crash, Return, PanicsHashing

\* The number of steps left is a number.
LEMMA StepsLeftType ==
    ASSUME StopInv, NEW p \in Procs
    PROVE  StepsLeft(p) \in Nat /\ (StepsLeft(p) = 0 <=> MainAt(p, "off"))
<1>1. proc[p].pc \in Starting \cup {"off", "register", "serving", "stopping", "returning"}
  BY DEF StopInv
<1>2. StepsLeft(p) \in Nat
  BY <1>1 DEF StepsLeft, MainAt, Starting
<1>3. ASSUME ~MainAt(p, "off") PROVE StepsLeft(p) # 0
  <2>1. CASE proc[p].pc \in Starting
    BY <2>1 DEF StepsLeft, MainAt, Starting
  <2>2. CASE proc[p].pc \in {"register", "serving"}
    BY <2>2 DEF StepsLeft, MainAt
  <2>3. CASE MainAt(p, "stopping")
    BY <2>3 DEF StepsLeft, MainAt
  <2>4. CASE MainAt(p, "returning")
    BY <2>4 DEF StepsLeft, MainAt
  <2> QED BY <1>1, <1>3, <2>1, <2>2, <2>3, <2>4 DEF MainAt
<1>4. MainAt(p, "off") => StepsLeft(p) = 0
  BY DEF StepsLeft, MainAt
<1> QED BY <1>2, <1>3, <1>4

\* A process that dies is at its end.
LEMMA DeathDescends ==
    ASSUME ProcessInv, StopInv, NEW p \in Procs, ~MainAt(p, "off"), Die(p)
    PROVE  StepsLeft(p)' < StepsLeft(p)
<1>1. proc'[p].pc = "off"
  BY DEF Die, ProcessInv, Off
<1>2. StepsLeft(p)' = 0
  BY <1>1 DEF StepsLeft, MainAt
<1> QED BY <1>2, StepsLeftType

\* Main goes through its statements in one direction.
LEMMA MainDescends ==
    ASSUME ProcessInv, StopInv, NEW p \in Procs, Step(p)
    PROVE  StepsLeft(p)' < StepsLeft(p) /\ StepsLeft(p)' \in Nat
<1>1. ASSUME NEW from, NEW to, MainAt(p, from), from # "off", Goto(p, to)
      PROVE  MainAt(p, from) /\ MainAt(p, to)'
  BY <1>1, GotoFields DEF MainAt
<1>2. CASE \/ Open(p) \/ Listen(p) \/ CheckConfig(p) \/ HasActiveAdmin(p) \/ HashTemporary(p)
           \/ GetUserByEmail(p) \/ Serve(p)
  <2>1. \/ MainAt(p, "open") /\ MainAt(p, "listen")'
        \/ MainAt(p, "listen") /\ MainAt(p, "check")'
        \/ MainAt(p, "check") /\ (MainAt(p, "register")' \/ MainAt(p, "hasadmin")')
        \/ MainAt(p, "hasadmin") /\ (MainAt(p, "register")' \/ MainAt(p, "hash")')
        \/ MainAt(p, "hash") /\ MainAt(p, "find")'
        \/ MainAt(p, "find") /\ (MainAt(p, "promote")' \/ MainAt(p, "create")')
        \/ MainAt(p, "register") /\ MainAt(p, "serving")'
    BY <1>1, <1>2 DEF Open, Listen, CheckConfig, HasActiveAdmin, HashTemporary, GetUserByEmail, Serve
  <2> QED BY <2>1 DEF StepsLeft, MainAt
<1>3. CASE PromoteToBootstrapAdmin(p) \/ CreateUser(p)
  <2>1. (MainAt(p, "promote") \/ MainAt(p, "create")) /\ MainAt(p, "register")'
    BY <1>1, <1>3 DEF PromoteToBootstrapAdmin, CreateUser, WriteBootstrap
  <2> QED BY <2>1 DEF StepsLeft, MainAt
<1>4. CASE Done(p)
  <2>1. MainAt(p, "serving") /\ MainAt(p, "stopping")'
    BY <1>1, <1>4 DEF Done
  <2> QED BY <2>1 DEF StepsLeft, MainAt
<1>5. CASE GracefulStop(p)
  <2>1. MainAt(p, "stopping") /\ MainAt(p, "returning")'
    BY <1>1, <1>5 DEF GracefulStop
  <2> QED BY <2>1 DEF StepsLeft, MainAt
<1>6. CASE ClosePool(p)
  <2>1. MainAt(p, "returning") /\ proc' = proc /\ p \in pool /\ p \notin pool'
    BY <1>6 DEF ClosePool
  <2>2. StepsLeft(p) = 2
    BY <2>1 DEF StepsLeft, MainAt
  <2>3. StepsLeft(p)' = 1
    BY <2>1 DEF StepsLeft, MainAt
  <2> QED BY <2>2, <2>3
<1>7. CASE Exit(p) \/ Return(p)
  <2>1. ~MainAt(p, "off") /\ Die(p)
    BY <1>7 DEF Exit, Return, Doomed, MainAt, InBootstrap
  <2>2. StepsLeft(p)' = 0
    BY <2>1 DEF Die, Off, ProcessInv, StepsLeft, MainAt
  <2> QED BY <2>1, <2>2, DeathDescends
<1> QED BY <1>2, <1>3, <1>4, <1>5, <1>6, <1>7 DEF Step

\* What a call does to the process it runs in.
LEMMA CallDescends ==
    ASSUME ProcessInv, StopInv, NEW p \in Procs, CallStep(p)
    PROVE  /\ StepsLeft(p)' \in Nat /\ StepsLeft(p)' <= StepsLeft(p)
           /\ MainAt(p, "stopping") => StepsLeft(p)' < StepsLeft(p)
<1>1. call[p] # NoCall /\ proc[p].pc \in {"serving", "stopping"}
  <2>1. call[p].pc # "none"
    BY DEF CallStep, UpdateUserPassword, InsertUser, DisableUser, PanicsHashing, CallFails
  <2>2. call[p] # NoCall
    BY <2>1 DEF NoCall
  <2> QED BY <2>2 DEF ProcessInv
<1>2. CASE Die(p)
  <2>1. ~MainAt(p, "off")
    BY <1>1 DEF MainAt
  <2>2. StepsLeft(p)' = 0
    BY <1>2 DEF Die, Off, ProcessInv, StepsLeft, MainAt
  <2> QED BY <1>2, <2>1, <2>2, DeathDescends, StepsLeftType
<1>3. CASE proc' = proc /\ EndCall(p)
  <2>1. call'[p] = NoCall
    BY <1>3 DEF EndCall, ProcessInv
  <2>2. CASE MainAt(p, "serving")
    BY <1>3, <2>2 DEF StepsLeft, MainAt
  <2>3. CASE MainAt(p, "stopping")
    <3>1. StepsLeft(p) = 4
      BY <1>1, <2>3 DEF StepsLeft, MainAt
    <3>2. StepsLeft(p)' = 3
      BY <1>3, <2>1, <2>3 DEF StepsLeft, MainAt
    <3> QED BY <3>1, <3>2
  <2> QED BY <1>1, <2>2, <2>3 DEF MainAt
<1> QED
  BY <1>2, <1>3
  DEF CallStep, UpdateUserPassword, InsertUser, DisableUser, PanicsHashing, CallFails

\* Nothing but a new start takes a process away from its end.
LEMMA StartupDescends ==
    ASSUME ProcessInv, StopInv, [StartupNext]_startupVars, NEW q \in Procs
    PROVE  Descends(q)
<1>0. StepsLeft(q) \in Nat
  BY StepsLeftType
<1>1. Step(q) => StepsLeft(q)' < StepsLeft(q)
  BY MainDescends
<1>2. CallStep(q) /\ MainAt(q, "stopping") => StepsLeft(q)' < StepsLeft(q)
  BY CallDescends
<1>3. ASSUME StepsLeft(q)' > StepsLeft(q) PROVE Start(q)
  <2>1. ASSUME StepsLeft(q)' = StepsLeft(q) PROVE FALSE
    BY <1>0, <1>3, <2>1
  <2>2. ASSUME StepsLeft(q)' \in Nat, StepsLeft(q)' <= StepsLeft(q) PROVE FALSE
    BY <1>0, <1>3, <2>2
  <2>3. ASSUME proc'[q].pc = proc[q].pc, call'[q] = call[q], q \in pool' <=> q \in pool PROVE FALSE
    <3>1. StepsLeft(q)' = StepsLeft(q)
      BY <2>3 DEF StepsLeft, MainAt
    <3> QED BY <2>1, <3>1
  <2>4. ~UNCHANGED startupVars
    BY <2>3 DEF startupVars
  <2>5. PICK p \in Procs :
          \/ Start(p) \/ Step(p) \/ Fail(p) \/ Crash(p) \/ Signal(p) \/ ServeFails(p)
          \/ BeginChange(p) \/ BeginCreate(p) \/ BeginDisable(p) \/ CallStep(p)
    BY <2>4 DEF StartupNext
  <2>6. p = q
    BY <2>3, <2>5, OthersStay
  <2>7. ~Step(q) /\ ~CallStep(q)
    BY <1>0, <2>2, MainDescends, CallDescends
  <2>8. ~Fail(q) /\ ~Crash(q)
    <3>1. ASSUME Die(q) PROVE FALSE
      <4>1. StepsLeft(q)' = 0
        BY <3>1 DEF Die, Off, ProcessInv, StepsLeft, MainAt
      <4> QED BY <1>0, <1>3, <4>1
    <3> QED BY <3>1 DEF Fail, Crash
  <2>9. ~Signal(q) /\ ~ServeFails(q)
    <3>1. ASSUME Signal(q) \/ ServeFails(q) PROVE FALSE
      <4>1. /\ ~MainAt(q, "off") /\ proc' = [proc EXCEPT ![q].ctx = "done"]
            /\ UNCHANGED <<pool, call>>
        BY <3>1 DEF Signal, ServeFails, MainAt
      <4>2. proc'[q].pc = proc[q].pc
        BY <4>1, CancelFields
      <4> QED BY <2>3, <4>1, <4>2
    <3> QED BY <3>1
  <2>10. ~BeginChange(q) /\ ~BeginCreate(q) /\ ~BeginDisable(q)
    <3>1. ASSUME NEW c, Begin(q, c) PROVE FALSE
      <4>1. StepsLeft(q)' = StepsLeft(q)
        BY <3>1 DEF Begin, StepsLeft, MainAt
      <4> QED BY <2>1, <4>1
    <3> QED BY <3>1 DEF BeginChange, BeginCreate, BeginDisable
  <2> QED BY <2>5, <2>6, <2>7, <2>8, <2>9, <2>10
<1> QED BY <1>1, <1>2, <1>3 DEF Descends

\* At first no process runs.
LEMMA StopInit == StartupInit => StopInv
BY DEF StartupInit, StopInv, Off, NoCall, MainAt, Starting, InBootstrap

\* Every step keeps what a stop relies on.
LEMMA StopStep == ProcessInv /\ StopInv /\ [StartupNext]_startupVars => StopInv'
<1> SUFFICES ASSUME ProcessInv, StopInv, [StartupNext]_startupVars PROVE StopInv'
  OBVIOUS
<1> DEFINE Keeps(q) ==
      /\ proc'[q].pc \in Starting \cup {"off", "register", "serving", "stopping", "returning"}
      /\ proc'[q].pc \in InBootstrap \cup {"check", "register"} => q \in listening'
      /\ proc'[q].pc = "serving" => q \in listening' \/ proc'[q].ctx = "done"
      /\ call'[q] = NoCall \/ call'[q].pc # "none"
<1> SUFFICES ASSUME NEW q \in Procs PROVE Keeps(q)
  BY DEF StopInv, MainAt, Cancelled
<1>q. /\ proc[q].pc \in Starting \cup {"off", "register", "serving", "stopping", "returning"}
      /\ proc[q].pc \in InBootstrap \cup {"check", "register"} => q \in listening
      /\ proc[q].pc = "serving" => q \in listening \/ proc[q].ctx = "done"
      /\ call[q] = NoCall \/ call[q].pc # "none"
  BY DEF StopInv, MainAt, Cancelled
<1>1. ASSUME proc'[q] = proc[q], q \in listening' <=> q \in listening,
             call'[q] = NoCall \/ call'[q].pc # "none"
      PROVE  Keeps(q)
  BY <1>q, <1>1
<1>2. CASE UNCHANGED startupVars
  BY <1>q, <1>1, <1>2 DEF startupVars
<1>3. CASE Die(q)
  BY <1>3 DEF Die, Off, ProcessInv, Starting, InBootstrap
<1>4. CASE Start(q)
  <2>1. PICK e \in Envs :
          proc' = [proc EXCEPT ![q] = [pc |-> "open", cfg |-> Load(e), ctx |-> "live"]]
    BY <1>4 DEF Start
  <2> QED BY <1>q, <1>4, <2>1 DEF Start, ProcessInv, Starting, InBootstrap
<1>5. ASSUME NEW to \in {"listen", "stopping", "returning"},
             ~MainAt(q, "off"), Goto(q, to), call' = call
      PROVE  Keeps(q)
  BY <1>q, <1>5, GotoFields DEF Starting, InBootstrap
<1>6. ASSUME NEW to \in InBootstrap \cup {"check", "register", "serving"},
             ~MainAt(q, "off"), Goto(q, to), call' = call, q \in listening'
      PROVE  Keeps(q)
  BY <1>q, <1>6, GotoFields DEF Starting, InBootstrap
<1>7. CASE Open(q) \/ Done(q) \/ GracefulStop(q)
  BY <1>5, <1>7 DEF Open, Done, GracefulStop, MainAt, Starting, InBootstrap
<1>8. CASE Listen(q)
  BY <1>6, <1>8 DEF Listen, MainAt
<1>9. CASE CheckConfig(q) \/ HasActiveAdmin(q) \/ HashTemporary(q) \/ GetUserByEmail(q) \/ Serve(q)
  <2>1. q \in listening /\ listening' = listening /\ call' = call /\ ~MainAt(q, "off")
    BY <1>q, <1>9 DEF CheckConfig, HasActiveAdmin, HashTemporary, GetUserByEmail, Serve, MainAt,
                      InBootstrap
  <2> QED BY <1>6, <1>9, <2>1 DEF CheckConfig, HasActiveAdmin, HashTemporary, GetUserByEmail, Serve,
                                  InBootstrap
<1>10. CASE PromoteToBootstrapAdmin(q) \/ CreateUser(q)
  <2>1. q \in listening /\ listening' = listening /\ call' = call /\ ~MainAt(q, "off")
    BY <1>q, <1>10 DEF PromoteToBootstrapAdmin, CreateUser, WriteBootstrap, MainAt, InBootstrap
  <2> QED BY <1>6, <1>10, <2>1 DEF PromoteToBootstrapAdmin, CreateUser, WriteBootstrap
<1>11. CASE ClosePool(q)
  BY <1>q, <1>1, <1>11 DEF ClosePool
<1>12. CASE Signal(q)
  <2>1. /\ proc'[q].pc = proc[q].pc /\ UNCHANGED <<listening, call>>
        /\ proc'[q].ctx = "done"
    <3>1. ~MainAt(q, "off") /\ proc' = [proc EXCEPT ![q].ctx = "done"] /\ UNCHANGED <<listening, call>>
      BY <1>12 DEF Signal
    <3> QED BY <3>1, CancelFields, CancelDone
  <2> QED BY <1>q, <2>1
<1>13. CASE ServeFails(q)
  <2>1. /\ proc'[q].pc = "serving" /\ call' = call /\ proc'[q].ctx = "done"
    <3>1. /\ ~MainAt(q, "off") /\ proc' = [proc EXCEPT ![q].ctx = "done"] /\ call' = call
          /\ MainAt(q, "serving")
      BY <1>13 DEF ServeFails, MainAt
    <3> QED BY <3>1, CancelFields, CancelDone DEF MainAt
  <2> QED BY <1>q, <2>1 DEF InBootstrap
<1>14. CASE BeginChange(q) \/ BeginCreate(q) \/ BeginDisable(q)
  <2>1. /\ UNCHANGED <<proc, listening>>
        /\ call'[q].pc \in {"change", "insert", "disable"}
    BY <1>14 DEF BeginChange, BeginCreate, BeginDisable, Begin, ProcessInv
  <2> QED BY <1>1, <2>1
<1>15. CASE UpdateUserPassword(q) \/ InsertUser(q) \/ DisableUser(q) \/ CallFails(q)
  <2>1. UNCHANGED <<proc, listening>> /\ call'[q] = NoCall
    BY <1>15 DEF UpdateUserPassword, InsertUser, DisableUser, CallFails, EndCall, ProcessInv
  <2> QED BY <1>1, <2>1
<1>16. ASSUME NEW p \in Procs \ {q},
              \/ Start(p) \/ Step(p) \/ Fail(p) \/ Crash(p) \/ Signal(p) \/ ServeFails(p)
              \/ BeginChange(p) \/ BeginCreate(p) \/ BeginDisable(p) \/ CallStep(p)
       PROVE  Keeps(q)
  BY <1>q, <1>1, <1>16, OthersStay
<1>17. CASE Step(q)
  BY <1>3, <1>7, <1>8, <1>9, <1>10, <1>11, <1>17 DEF Step, Exit, Return
<1>18. CASE CallStep(q)
  BY <1>3, <1>15, <1>18 DEF CallStep, PanicsHashing
<1>19. CASE Fail(q) \/ Crash(q)
  BY <1>3, <1>19 DEF Fail, Crash
<1> HIDE DEF Keeps
<1> QED
  BY <1>2, <1>4, <1>12, <1>13, <1>14, <1>16, <1>17, <1>18, <1>19 DEF StartupNext

\* The conditions of the steps of main and of the call in flight in p.
MayGoOn(p) ==
    \/ Doomed(p)
    \/ MainAt(p, "open") /\ proc[p].cfg.url # "unset" /\ ~Cancelled(p)
    \/ MainAt(p, "listen") /\ AddressFree(p)
    \/ MainAt(p, "check") /\ ~HalfSet(proc[p].cfg)
    \/ proc[p].pc \in {"hasadmin", "find", "promote"} /\ ~Cancelled(p)
    \/ MainAt(p, "hash") /\ ~Cancelled(p) /\ Computes(HashParams(proc[p].cfg.params))
    \/ MainAt(p, "create") /\ ~Cancelled(p) /\ ~Exists(proc[p].cfg.email)
    \/ MainAt(p, "register")
    \/ MainAt(p, "serving") /\ Cancelled(p)
    \/ MainAt(p, "stopping") /\ call[p] = NoCall
    \/ MainAt(p, "returning")
    \/ call[p].pc # "none"

\* A process that runs and does not just wait for calls and a signal can go on.
RunsOrServes ==
    \A p \in Procs :
        ~MainAt(p, "off") /\ ~(MainAt(p, "serving") /\ p \in listening /\ ~Cancelled(p)) => MayGoOn(p)

\* cmd/core/main.go:115-126: what StopNeverBlocks says, with the conditions of
\* the steps written out.  After a signal, or an error of Serve, main or the call
\* it waits for always has a step to take.
THEOREM StopGoesOn == StartupSpec => []RunsOrServes
<1>1. ASSUME ProcessInv, StopInv, NEW p \in Procs, ~MainAt(p, "off"),
             ~(MainAt(p, "serving") /\ p \in listening /\ ~Cancelled(p))
      PROVE  MayGoOn(p)
  <2>1. /\ proc[p].pc \in Starting \cup {"register", "serving", "stopping", "returning"}
        /\ MainAt(p, "serving") => Cancelled(p)
        /\ call[p] = NoCall \/ call[p].pc # "none"
    BY <1>1 DEF StopInv, MainAt
  <2>2. CASE proc[p].pc \in Starting
    BY <2>2 DEF Starting, MayGoOn, Doomed, MainAt, InBootstrap
  <2>3. CASE proc[p].pc \notin Starting
    BY <2>1, <2>3 DEF MayGoOn, MainAt
  <2> QED BY <2>2, <2>3
<1>2. ProcessInv /\ StopInv => RunsOrServes
  BY <1>1 DEF RunsOrServes
<1> QED BY <1>2, ProcessInit, ProcessStep, StopInit, StopStep, PTL DEF StartupSpec

\* cmd/core/main.go:31-127: main is a straight line.  From a start to the end a
\* process has at most thirteen steps of its own, after a signal while serving at
\* most five, and no signal, failure, call or other process adds one: a stop
\* cannot be prolonged by calls that arrive while it waits.
THEOREM StopsAreShort ==
    StartupSpec => [][\A p \in Procs : StepsLeft(p) \in 0 .. 13 /\ Descends(p)]_startupVars
<1>1. ASSUME StopInv, NEW p \in Procs PROVE StepsLeft(p) \in 0 .. 13
  <2>1. proc[p].pc \in Starting \cup {"off", "register", "serving", "stopping", "returning"}
    BY <1>1 DEF StopInv
  <2> QED BY <2>1 DEF StepsLeft, MainAt, Starting
<1>2. ProcessInv /\ StopInv /\ [StartupNext]_startupVars
        => [\A p \in Procs : StepsLeft(p) \in 0 .. 13 /\ Descends(p)]_startupVars
  BY <1>1, StartupDescends
<1> QED BY <1>2, ProcessInit, ProcessStep, StopInit, StopStep, PTL DEF StartupSpec
=============================================================================
