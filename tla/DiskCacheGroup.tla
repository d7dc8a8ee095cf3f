---------------------------- MODULE DiskCacheGroup ----------------------------
(***************************************************************************)
(* The disks of a cache node and the tenant quotas in front of them:       *)
(* src/src/cache/disk_cache_group.cc.                                      *)
(*                                                                         *)
(* A key belongs to a tenant and is routed to one disk.  A write of a key  *)
(* that is not on its disk is admitted only within the tenant's quota.     *)
(* PUT and REMOVE hold the lock of their tenant's stripe from the check to *)
(* the end of the write; a batch holds all the stripes of its items.  A    *)
(* disk evicts blocks of any tenant at any time, under no stripe.          *)
(***************************************************************************)
EXTENDS Integers, Sequences, FiniteSets, FiniteSetsExt, SequencesExt, Functions

CONSTANTS QKeys,      \* keys
          QTenant,    \* [QKeys -> tenants]
          QStripe,    \* TenantStripe: [tenants -> Nat]
          QDisk,      \* RouteIndex: [QKeys -> disks]
          QBytes,     \* [QKeys -> Nat \ {0}]
          Quota,      \* TenantLimit: [tenants -> Nat], 0 for no limit
          QThreads,
          Mixes       \* bounds: [calls, batches, evict, fail]

ASSUME DiskCacheGroupAssumption ==
    /\ QStripe \in [Range(QTenant) -> Nat]
    /\ Quota \in [Range(QTenant) -> Nat]
    /\ QBytes \in [QKeys -> Nat \ {0}]

VARIABLES mix,     \* the bounds of this behaviour
          onDisk,  \* the keys that are committed
          stripe,  \* the holder of each tenant stripe
          qop,     \* what each thread is doing
          qcalls,  \* calls still to come
          rewritten \* history: keys on disk that a batch admitted free of charge

quotaVars == <<mix, onDisk, stripe, qop, qcalls, rewritten>>

Stripes == Range(QStripe)
Free    == "free"
IdleQop == [pc |-> "idle", fn |-> "none", items |-> <<>>, locks |-> {},
            at |-> 0, out |-> <<>>, charged |-> {}, disks |-> {}]

StripeOf(k) == QStripe[QTenant[k]]

TenantUsedBytes(n) ==
    MapThenSumSet(LAMBDA k : QBytes[k], {k \in onDisk : QTenant[k] = n})

DiskCacheGroupInit ==
    /\ mix \in Mixes
    /\ onDisk = {}
    /\ stripe = [s \in Stripes |-> Free]
    /\ qop = [t \in QThreads |-> IdleQop]
    /\ qcalls = mix.calls
    /\ rewritten = {}

(* With no limit, or within it, without wrapping below zero.               *)
QuotaAllowsNewLocked(n, current, additional) ==
    Quota[n] = 0 \/ (current <= Quota[n] /\ additional <= Quota[n] - current)

BeginQop(t, fn, items) ==
    /\ qcalls > 0
    /\ qop[t].pc = "idle"
    /\ qop' = [qop EXCEPT ![t] = [IdleQop EXCEPT
          !.pc = "lock", !.fn = fn, !.items = items,
          !.locks = {StripeOf(items[i]) : i \in DOMAIN items},
          !.out = [i \in DOMAIN items |-> "invalid"]]]
    /\ qcalls' = qcalls - 1
    /\ UNCHANGED <<mix, onDisk, stripe, rewritten>>

CacheOne(t, k) == BeginQop(t, "Cache", <<k>>)
CacheDirectOne(t, k) == BeginQop(t, "CacheDirect", <<k>>)
RemoveOne(t, k) == BeginQop(t, "Remove", <<k>>)
CacheDirectBatch(t, items) == items \in mix.batches /\ BeginQop(t, "Batch", items)

(***************************************************************************)
(* The stripes are taken in ascending order and given back at the end.     *)
(***************************************************************************)
NextStripe(t) == Min(qop[t].locks)

LockStripe(t) ==
    /\ qop[t].pc = "lock"
    /\ qop[t].locks # {}
    /\ stripe[NextStripe(t)] = Free
    /\ stripe' = [stripe EXCEPT ![NextStripe(t)] = t]
    /\ qop' = [qop EXCEPT ![t].locks = @ \ {NextStripe(t)}]
    /\ UNCHANGED <<mix, onDisk, qcalls, rewritten>>

Locked(t) ==
    /\ qop[t].pc = "lock"
    /\ qop[t].locks = {}
    /\ qop' = [qop EXCEPT ![t].pc = IF qop[t].fn = "Remove" THEN "remove" ELSE "admit",
                          ![t].at = 1]
    /\ UNCHANGED <<mix, onDisk, stripe, qcalls, rewritten>>

(***************************************************************************)
(* Admission, item by item in the caller's order, each with its own look   *)
(* at the disk.  An item that is there, or that repeats an admitted one,   *)
(* costs nothing; another one is charged with the items charged before it. *)
(***************************************************************************)
Duplicate(o, i) ==
    \E j \in 1 .. i - 1 : o.out[j] = "ok" /\ o.items[j] = o.items[i]

\* Mutant: earlier items of the batch are not charged.
ChargesItself(o, i) == QBytes[o.items[i]]

Additional(o, i) ==
    QBytes[o.items[i]] + MapThenSumSet(LAMBDA j : QBytes[o.items[j]],
        {j \in o.charged : QTenant[o.items[j]] = QTenant[o.items[i]]})

AdmitItem(t) ==
    LET o == qop[t] i == o.at k == o.items[i] n == QTenant[k]
        free == k \in onDisk \/ Duplicate(o, i)
        allowed == QuotaAllowsNewLocked(n, TenantUsedBytes(n), Additional(o, i))
    IN  /\ o.pc = "admit"
        /\ i <= Len(o.items)
        /\ qop' = [qop EXCEPT ![t].at = i + 1,
              ![t].out[i] = IF free \/ allowed THEN "ok" ELSE "quota exceeded",
              ![t].charged = IF ~free /\ allowed THEN @ \union {i} ELSE @]
        /\ UNCHANGED <<mix, onDisk, stripe, qcalls, rewritten>>

(* The admitted items are grouped by disk.                                 *)
GroupByDisk(t) ==
    LET o == qop[t]
    IN  /\ o.pc = "admit"
        /\ o.at > Len(o.items)
        /\ qop' = [qop EXCEPT ![t].pc = "write", ![t].disks =
              {QDisk[o.items[i]] : i \in {j \in DOMAIN o.items : o.out[j] = "ok"}}]
        /\ UNCHANGED <<mix, onDisk, stripe, qcalls, rewritten>>

(***************************************************************************)
(* run_disk, in any order of the disks: the engine answers for each item   *)
(* of the disk, which is there afterwards or has failed.                   *)
(***************************************************************************)
RunDisk(t, d) ==
    LET o == qop[t]
        mine == {i \in DOMAIN o.items : o.out[i] = "ok" /\ QDisk[o.items[i]] = d}
    IN  /\ o.pc = "write"
        /\ d \in o.disks
        /\ \E written \in SUBSET mine :
              /\ mix.fail \/ written = mine
              /\ onDisk' = onDisk \union {o.items[i] : i \in written}
              /\ rewritten' = rewritten \union ({o.items[i] : i \in written}
                    \ (onDisk \union {o.items[i] : i \in o.charged}))
              /\ qop' = [qop EXCEPT ![t].disks = @ \ {d}, ![t].out =
                    [i \in DOMAIN o.items |->
                        IF i \in mine \ written THEN "io error" ELSE o.out[i]]]
        /\ UNCHANGED <<mix, stripe, qcalls>>

RemoveFromDisk(t) ==
    /\ qop[t].pc = "remove"
    /\ onDisk' = onDisk \ {qop[t].items[1]}
    /\ rewritten' = rewritten \ {qop[t].items[1]}
    /\ qop' = [qop EXCEPT ![t].pc = "write"]
    /\ UNCHANGED <<mix, stripe, qcalls>>

UnlockStripes(t) ==
    /\ qop[t].pc = "write"
    /\ qop[t].disks = {}
    /\ stripe' = [s \in Stripes |-> IF stripe[s] = t THEN Free ELSE stripe[s]]
    /\ qop' = [qop EXCEPT ![t] = IdleQop]
    /\ UNCHANGED <<mix, onDisk, qcalls, rewritten>>

(* A disk makes room: a block of any tenant leaves it.                     *)
EngineEvicts(k) ==
    /\ mix.evict
    /\ k \in onDisk
    /\ onDisk' = onDisk \ {k}
    /\ rewritten' = rewritten \ {k}
    /\ UNCHANGED <<mix, stripe, qop, qcalls>>

DiskCacheGroupNext ==
    \/ \E t \in QThreads :
          \/ \E k \in QKeys : CacheOne(t, k) \/ CacheDirectOne(t, k) \/ RemoveOne(t, k)
          \/ \E b \in mix.batches : CacheDirectBatch(t, b)
          \/ LockStripe(t) \/ Locked(t) \/ AdmitItem(t) \/ GroupByDisk(t)
          \/ RemoveFromDisk(t) \/ UnlockStripes(t)
          \/ \E d \in Range(QDisk) : RunDisk(t, d)
    \/ \E k \in QKeys : EngineEvicts(k)

DiskCacheGroupSpec == DiskCacheGroupInit /\ [][DiskCacheGroupNext]_quotaVars

(***************************************************************************)
(* docs/ARCHITECTURE.md:339-340: "Locks remain held through storage        *)
(* writes, so concurrent single/batch requests cannot oversubscribe."      *)
(* What the disks hold of a tenant is within its quota, whatever requests  *)
(* run at once and whichever of them fail half-way, but for the blocks a   *)
(* request found on disk, was not charged for, and wrote again because the *)
(* disk had evicted them meanwhile.                                        *)
(***************************************************************************)
QuotaHolds ==
    \A n \in Range(QTenant) : Quota[n] # 0 =>
        MapThenSumSet(LAMBDA k : QBytes[k], {k \in onDisk \ rewritten : QTenant[k] = n})
            <= Quota[n]

(***************************************************************************)
(* Requests never wait for each other's stripes in a circle: batches of    *)
(* several tenants and single requests run against each other, and each    *)
(* batch holds one stripe while it waits for the next (476-479).           *)
(***************************************************************************)
NoStripeCycle ==
    \A t, u \in QThreads :
        /\ t # u
        /\ qop[t].pc = "lock" /\ qop[t].locks # {}
        /\ qop[u].pc = "lock" /\ qop[u].locks # {}
        => ~(stripe[NextStripe(t)] = u /\ stripe[NextStripe(u)] = t)

(***************************************************************************)
(* The stripes do what they are for: they keep tenants within their quota, *)
(* and nobody waits for ever for one.                                      *)
(***************************************************************************)
StripesAreSound == QuotaHolds /\ NoStripeCycle
=============================================================================
