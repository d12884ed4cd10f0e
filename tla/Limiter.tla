------------------------------ MODULE Limiter ------------------------------
(***************************************************************************)
(* The authentication limiter (internal/authlimit) and the requests that   *)
(* pass through it: the gRPC interceptor charges the peer's IP bucket      *)
(* (internal/server/auth_limit.go), the handler may return before any      *)
(* password work, and AuthService.beginPasswordWork charges the account    *)
(* bucket and takes one of the Argon2 slots (internal/service/auth.go).    *)
(*                                                                         *)
(* Time.  The code stores absolute instants and only ever compares them    *)
(* with now or subtracts now from them, so the model stores what is left   *)
(* of them: b.left is max(0, b.until - now), `cleanup' is                  *)
(* max(0, l.nextCleanup - now), and Tick, the passing of one unit, counts  *)
(* both down.  !now.Before(x) is "left = 0".  This needs no bound on the   *)
(* clock.  The zero time of a new Limiter is in the past: cleanup = 0.     *)
(***************************************************************************)
EXTENDS Naturals, FiniteSets, FiniteSetsExt

CONSTANTS
    Peers,          \* transport peer addresses, as net.Addr prints them
    Names,          \* account identities as clients spell them
    IPs, Accounts,  \* the bucket keys: "ip:" and "account:" strings
    PeerIP,         \* authPeerIP: the IP (or "unknown") of a peer
    Canon,          \* trimmed and lower-cased spelling
    IPLimit, AccountLimit, Window, MaxConcurrent, MaxEntries,   \* Config
    Reqs            \* requests in flight at the same time

ASSUME KeysAssumption ==
    /\ IPs \cap Accounts = {}
    /\ Names # {}
    /\ PeerIP \in [Peers -> IPs]
    /\ Canon \in [Names -> Accounts]

\* New replaces every non-positive field of Config by a positive default.
ASSUME ConfigAssumption ==
    /\ IPLimit \in Nat \ {0}
    /\ AccountLimit \in Nat \ {0}
    /\ Window \in Nat \ {0}
    /\ MaxConcurrent \in Nat \ {0}
    /\ MaxEntries \in Nat \ {0}

VARIABLES
    buckets,    \* l.buckets: a partial function from keys to buckets
    cleanup,    \* time left until l.nextCleanup
    slots,      \* len(l.slots)
    reqs,       \* the requests: where each one is, its account, its context
    recent      \* history: recent[k][a] requests passed k's check within the last a units

vars == <<buckets, cleanup, slots, reqs, recent>>

Keys == IPs \cup Accounts
Ages == 0 .. Window - 1
Bucket == [count : Nat, left : 0 .. Window]
Request == [pc : {"idle", "handler", "admitted", "working"},
            name : Names, cancelled : BOOLEAN]

-----------------------------------------------------------------------------
(* Limiter.allow, split into the values its statements compute.            *)

Limit(k) == IF k \in IPs THEN IPLimit ELSE AccountLimit

\* Fault: the sweep drops active buckets as well.
Swept_EvictsActive == IF cleanup = 0 THEN Restrict(buckets, {}) ELSE buckets

\* The map after the periodic sweep of expired buckets.
Swept == IF cleanup = 0
         THEN Restrict(buckets, {k \in DOMAIN buckets : buckets[k].left > 0})
         ELSE buckets

\* Fault: the sweep does not schedule the next one.
CleanupAfter_NotScheduled == cleanup

CleanupAfter == IF cleanup = 0 THEN Window ELSE cleanup

\* Fault: off by one at the cap.
NoRoom_OffByOne(k) == /\ k \notin DOMAIN Swept
                      /\ Cardinality(DOMAIN Swept) > MaxEntries

\* A new key finds the map full: the early return that stores nothing.
NoRoom(k) == /\ k \notin DOMAIN Swept
             /\ Cardinality(DOMAIN Swept) >= MaxEntries

\* The bucket the attempt is charged to: a fresh one if none is active.
Charged(k) == IF k \notin DOMAIN Swept \/ Swept[k].left = 0
              THEN [count |-> 0, left |-> Window]
              ELSE Swept[k]

Exhausted(k) == Charged(k).count >= Limit(k)

\* The duration allow returns.  Callers go on when it is not positive.
Retry(k) == IF NoRoom(k) THEN CleanupAfter
            ELSE IF Exhausted(k) THEN Charged(k).left
            ELSE 0

Stored(k) == [j \in DOMAIN Swept \cup {k} |->
                IF j = k THEN [Charged(k) EXCEPT !.count = @ + 1] ELSE Swept[j]]

\* Fault: a refused attempt restarts the window.
Allow_Extends(k) ==
    /\ cleanup' = CleanupAfter
    /\ buckets' = IF NoRoom(k) THEN Swept
                  ELSE IF Exhausted(k) THEN [Swept EXCEPT ![k].left = Window]
                  ELSE Stored(k)

\* The state change of one call of allow, under l.mu.
Allow(k) ==
    /\ cleanup' = CleanupAfter
    /\ buckets' = IF NoRoom(k) \/ Exhausted(k) THEN Swept ELSE Stored(k)

-----------------------------------------------------------------------------
(* Requests.                                                               *)

AnyName == CHOOSE n \in Names : TRUE
Idle == [pc |-> "idle", name |-> AnyName, cancelled |-> FALSE]

Init ==
    /\ buckets = [k \in {} |-> 0]
    /\ cleanup = 0
    /\ slots = 0
    /\ reqs = [r \in Reqs |-> Idle]
    /\ recent = [k \in Keys |-> [a \in Ages |-> 0]]

\* History: one more request got past the check of key k.
Passed(k) == recent' = [recent EXCEPT ![k] = [a \in Ages |-> @[a] + 1]]

IPKey(p) == PeerIP[p]
AccountKey(n) == Canon[n]

\* The interceptor charges the IP and refuses, or calls the handler.
Arrive(r, p, n) ==
    /\ reqs[r].pc = "idle"
    /\ Allow(IPKey(p))
    /\ IF Retry(IPKey(p)) > 0
       THEN UNCHANGED <<reqs, recent>>
       ELSE /\ reqs' = [reqs EXCEPT ![r] =
                          [pc |-> "handler", name |-> n, cancelled |-> FALSE]]
            /\ Passed(IPKey(p))
    /\ UNCHANGED slots

\* The client goes away or its deadline expires: the context is done.
Cancel(r) ==
    /\ reqs[r].pc # "idle"
    /\ ~reqs[r].cancelled
    /\ reqs' = [reqs EXCEPT ![r].cancelled = TRUE]
    /\ UNCHANGED <<buckets, cleanup, slots, recent>>

\* The handler or service refuses the request before any password work:
\* missing metadata, not an admin, empty fields; or beginPasswordWork finds
\* the context done.
ReturnEarly(r) ==
    /\ reqs[r].pc = "handler"
    /\ reqs' = [reqs EXCEPT ![r] = Idle]
    /\ UNCHANGED <<buckets, cleanup, slots, recent>>

\* beginPasswordWork up to AllowAccount.
ChargeAccount(r) ==
    LET k == AccountKey(reqs[r].name) IN
    /\ reqs[r].pc = "handler"
    /\ ~reqs[r].cancelled
    /\ Allow(k)
    /\ IF Retry(k) > 0
       THEN /\ reqs' = [reqs EXCEPT ![r] = Idle]
            /\ UNCHANGED recent
       ELSE /\ reqs' = [reqs EXCEPT ![r].pc = "admitted"]
            /\ Passed(k)
    /\ UNCHANGED slots

\* Limiter.Acquire: context error, a free slot, or an immediate refusal.
Acquire(r) ==
    /\ reqs[r].pc = "admitted"
    /\ IF ~reqs[r].cancelled /\ slots < MaxConcurrent
       THEN /\ slots' = slots + 1
            /\ reqs' = [reqs EXCEPT ![r].pc = "working"]
       ELSE /\ reqs' = [reqs EXCEPT ![r] = Idle]
            /\ UNCHANGED slots
    /\ UNCHANGED <<buckets, cleanup, recent>>

\* Fault: the release is skipped when the context was cancelled.
Release_SkippedOnCancel(r) ==
    /\ reqs[r].pc = "working"
    /\ slots' = IF reqs[r].cancelled THEN slots ELSE slots - 1
    /\ reqs' = [reqs EXCEPT ![r] = Idle]
    /\ UNCHANGED <<buckets, cleanup, recent>>

\* The deferred release: password work ended, whatever its result and
\* whether or not the context was cancelled meanwhile.
Release(r) ==
    /\ reqs[r].pc = "working"
    /\ slots' = slots - 1
    /\ reqs' = [reqs EXCEPT ![r] = Idle]
    /\ UNCHANGED <<buckets, cleanup, recent>>

\* One unit of time passes.
Left(n) == IF n = 0 THEN 0 ELSE n - 1
Tick ==
    /\ buckets' = [k \in DOMAIN buckets |-> [buckets[k] EXCEPT !.left = Left(@)]]
    /\ cleanup' = Left(cleanup)
    /\ recent' = [k \in Keys |->
                    [a \in Ages |-> IF a = 0 THEN 0 ELSE recent[k][a - 1]]]
    /\ UNCHANGED <<slots, reqs>>

Next ==
    \/ \E r \in Reqs :
        \/ \E p \in Peers, n \in Names : Arrive(r, p, n)
        \/ Cancel(r)
        \/ ReturnEarly(r)
        \/ ChargeAccount(r)
        \/ Acquire(r)
        \/ Release(r)
    \/ Tick

Spec == Init /\ [][Next]_vars

(* Time passes; handlers run to completion (none of the steps blocks on    *)
(* another request) and Argon2 work ends.                                  *)
Fairness ==
    /\ WF_vars(Tick)
    /\ \A r \in Reqs : /\ WF_vars(ChargeAccount(r) \/ ReturnEarly(r))
                       /\ WF_vars(Acquire(r))
                       /\ WF_vars(Release(r))

FairSpec == Spec /\ Fairness

-----------------------------------------------------------------------------
(* Properties.                                                             *)

\* limiter.go:19-40.  Types of the limiter's fields and of the requests; the
\* slot channel never holds more than its capacity.
TypeOK ==
    /\ IsFiniteSet(DOMAIN buckets)
    /\ DOMAIN buckets \subseteq Keys
    /\ buckets \in [DOMAIN buckets -> Bucket]
    /\ cleanup \in 0 .. Window
    /\ slots \in 0 .. MaxConcurrent
    /\ reqs \in [Reqs -> Request]
    /\ recent \in [Keys -> [Ages -> Nat]]

\* limiter.go:71-98.  Whatever the sweeps, expiries and refusals in between,
\* no key gets more than two limits' worth of requests through in any span
\* of Window units (the worst case is a burst on both sides of a window end).
SlidingWindowBound ==
    \A k \in Keys : recent[k][Window - 1] <= 2 * Limit(k)

\* limiter.go:82-98.  No stored count exceeds its key's limit.
CountWithinLimit ==
    \A k \in DOMAIN buckets : buckets[k].count \in 1 .. Limit(k)

\* limiter.go:85-89.  The map never outgrows MaxEntries.
WithinCapacity == Cardinality(DOMAIN buckets) <= MaxEntries

Working == {r \in Reqs : reqs[r].pc = "working"}

\* limiter.go:100-113.  The slots taken are exactly the requests doing password
\* work, cancelled ones included: none is leaked and none released early.
SlotsExact == IsFiniteSet(Working) /\ slots = Cardinality(Working)

Active(k) == k \in DOMAIN buckets /\ buckets[k].left > 0

\* limiter.go:61-62 and 86, "retries do not extend it", "Never evict active
\* limits": only time moves the end of an active bucket, and its count never
\* goes down.
ActiveLimitKept ==
    [][\A k \in Keys : Active(k) =>
          /\ k \in DOMAIN buckets'
          /\ buckets'[k].count >= buckets[k].count
          /\ Tick \/ buckets'[k].left = buckets[k].left]_vars

\* limiter.go:61-62, "blocked until its window ends": however often it is
\* retried, an exhausted key always becomes admissible again.
ExhaustedKeyRecovers == \A k \in Keys : []<>(~Exhausted(k))

\* limiter.go:100-113.  A full slot channel always frees up.
SlotFrees == []<>(slots < MaxConcurrent)
=============================================================================
