------------------------------ MODULE Retention ------------------------------
(***************************************************************************)
(* RETAIN: the minimum lifetime a client may give an object of one disk's  *)
(* slab store.  A protection is a deadline on the slot, an entry of the    *)
(* allocator's timing wheel, a share of a budget, and two fields of the    *)
(* slot's durable record, from which a clean restart brings it back.       *)
(*                                                                         *)
(* The allocator is one size class with all extents bound and slots of     *)
(* size one; which slot CLOCK or the watermark sweep would pick is left    *)
(* open among those they may pick.  A metadata I/O error fails the store   *)
(* for good and is not modelled.                                           *)
(***************************************************************************)
EXTENDS Integers, FiniteSets

CONSTANTS
  Keys,             \* the objects
  Capacity,         \* slots of the store
  WheelTick,        \* kWheelTickS, in seconds
  MaxTTL,           \* max_ttl_s
  Budget,           \* the smaller of budget_bytes and the class cap, in slots
  PersistMinDelta,  \* persist_min_delta_s
  Instants          \* bound: the values the clock takes after the first

ASSUME ConstantsAssumption ==
  /\ IsFiniteSet(Keys)
  /\ Capacity \in Nat /\ WheelTick \in Nat \ {0} /\ MaxTTL \in Nat \ {0}
  /\ Budget \in Nat /\ PersistMinDelta \in Nat /\ Instants \subseteq Nat

VARIABLES
  clock,     \* the realtime clock
  resident,  \* keys that own a slot
  writing,   \* keys whose slot is pinned by the PUT filling it
  reading,   \* keys whose slot is pinned by a reader
  pending,   \* remove_pending: removed while pinned
  removed,   \* history: keys a REMOVE has taken since their last PUT
  until,     \* retain_until, 0 when unprotected
  ttl,       \* retain_ttl_s
  saved,     \* retain_persisted_until
  record,    \* the retention fields of the slot's durable record
  protected, \* protected_slots_
  rnow,      \* retain_now_s_
  wheel,     \* the wheel's entries, a set of <<key, until>>
  wtick,     \* wheel_tick_
  restored   \* history: protections the last restart brought back

slots == <<resident, writing, reading, pending, removed>>
retain == <<until, ttl, saved, record, protected, rnow, wheel, wtick, restored>>
vars == <<clock, slots, retain>>

---------------------------------------------------------------------------
Larger(a, b) == IF a >= b THEN a ELSE b
Smaller(a, b) == IF a <= b THEN a ELSE b

Pinned == writing \cup reading
Committed == resident \ (writing \cup pending)
\* Mutant: eviction looks at pins only.
EvictableProtected == {k \in resident : k \notin Pinned}

Evictable == {k \in resident : k \notin Pinned /\ until[k] = 0}
Protected == {k \in Keys : until[k] # 0}

\* What a caller reads from the clock; it may be one step old, or stepped back.
Samples == {s \in {clock - 1, clock} : s >= 2 * WheelTick}

WheelSize == (MaxTTL \div WheelTick) + 2
Bucket(u) == (u \div WheelTick) % WheelSize
Drained(now) == IF now \div WheelTick = 0 THEN 0 ELSE (now \div WheelTick) - 1

NoRecord == [until |-> 0, ttl |-> 0]

\* FreeSlotLocked: a protected slot is unprotected first, and its metadata and
\* its durable record go.
FreeSlot(k) ==
  /\ resident' = resident \ {k}
  /\ until' = [until EXCEPT ![k] = 0]
  /\ ttl' = [ttl EXCEPT ![k] = 0]
  /\ saved' = [saved EXCEPT ![k] = 0]
  /\ record' = [record EXCEPT ![k] = NoRecord]
  /\ protected' = IF until[k] # 0 THEN protected - 1 ELSE protected
  /\ UNCHANGED <<rnow, wheel, wtick, restored>>

---------------------------------------------------------------------------
Init ==
  /\ clock = 2 * WheelTick
  /\ resident = {} /\ writing = {} /\ reading = {} /\ pending = {} /\ removed = {}
  /\ until = [k \in Keys |-> 0]
  /\ ttl = [k \in Keys |-> 0]
  /\ saved = [k \in Keys |-> 0]
  /\ record = [k \in Keys |-> NoRecord]
  /\ protected = 0
  /\ rnow = 2 * WheelTick /\ wheel = {} /\ wtick = Drained(2 * WheelTick)
  /\ restored = 0

Advance ==
  /\ \E c \in Instants : c > clock /\ clock' = c
  /\ UNCHANGED <<slots, retain>>

---------------------------------------------------------------------------
(* PUT, GET, REMOVE and eviction, as far as they move slots.               *)

\* SlabAllocator::Put of a new key; a full store evicts first.
Put(k) ==
  /\ k \notin resident /\ Cardinality(resident) < Capacity
  /\ resident' = resident \cup {k}
  /\ writing' = writing \cup {k}
  /\ removed' = removed \ {k}
  /\ UNCHANGED <<clock, reading, pending, retain>>

\* EvictOneFrom, EvictColdToTarget and the steals.
Evict(k) ==
  /\ k \in Evictable
  /\ FreeSlot(k)
  /\ UNCHANGED <<clock, writing, reading, pending, removed>>

\* The write of k ends: published, or its slot freed because it failed or a
\* REMOVE came in between.
Commit(k) ==
  /\ k \in writing /\ k \notin pending
  /\ writing' = writing \ {k}
  /\ UNCHANGED <<clock, resident, reading, pending, removed, retain>>

Abandon(k) ==
  /\ k \in writing
  /\ writing' = writing \ {k} /\ pending' = pending \ {k}
  /\ FreeSlot(k)
  /\ UNCHANGED <<clock, reading, removed>>

\* GetAndPin and Unpin; the last Unpin of a removed slot frees it.
Read(k) ==
  /\ k \in Committed /\ k \notin reading
  /\ reading' = reading \cup {k}
  /\ UNCHANGED <<clock, resident, writing, pending, removed, retain>>

ReadEnd(k) ==
  /\ k \in reading
  /\ reading' = reading \ {k} /\ pending' = pending \ {k}
  /\ IF k \in pending THEN FreeSlot(k) ELSE UNCHANGED <<resident, retain>>
  /\ UNCHANGED <<clock, writing, removed>>

RemoveNow(k) ==
  /\ k \in resident \ (pending \cup Pinned)
  /\ FreeSlot(k)
  /\ removed' = removed \cup {k}
  /\ UNCHANGED <<clock, writing, reading, pending>>

RemoveLater(k) ==
  /\ k \in Pinned /\ k \notin pending
  /\ pending' = pending \cup {k} /\ removed' = removed \cup {k}
  /\ UNCHANGED <<clock, resident, writing, reading, retain>>

---------------------------------------------------------------------------
(* RETAIN: SET carries a TTL, REFRESH renews the stored one.               *)

Modes == {"set", "refresh"}
EffectiveTTL(k, req, mode) ==
  LET stored == Smaller(ttl[k], MaxTTL)
  IN  IF mode = "refresh" THEN stored ELSE Larger(stored, Smaller(req, MaxTTL))

\* The deadline moved so far that a restart may not forget it.
PersistFloor(eff) == Larger(PersistMinDelta, eff \div 4)

\* Durable record: always for a new or raised TTL, else only for a deadline
\* that moved far enough from the last one written.
Persists(k, eff, new) ==
  \/ until[k] = 0
  \/ eff > Smaller(ttl[k], MaxTTL)
  \/ new >= saved[k] + PersistFloor(eff)

Admits(k) == until[k] # 0 \/ protected + 1 <= Budget

\* kHitUnprotected and kDenied.
RetainRefused(k, req, mode) ==
  /\ k \in Committed
  /\ EffectiveTTL(k, req, mode) = 0 \/ ~Admits(k)
  /\ \E s \in Samples : rnow' = Larger(rnow, s)
  /\ UNCHANGED <<clock, slots, until, ttl, saved, record, protected, wheel, wtick, restored>>

\* kProtectedNew, kUpgraded, kRefreshed and kUnchanged.
RetainGranted(k, req, mode) ==
  /\ k \in Committed
  /\ EffectiveTTL(k, req, mode) # 0 /\ Admits(k)
  /\ \E s \in Samples :
       LET now == Larger(rnow, s)
           eff == EffectiveTTL(k, req, mode)
           new == Larger(until[k], now + eff)
           persist == Persists(k, eff, new)
       IN  /\ rnow' = now
           /\ protected' = IF until[k] = 0 THEN protected + 1 ELSE protected
           /\ ttl' = [ttl EXCEPT ![k] = eff]
           /\ until' = [until EXCEPT ![k] = new]
           /\ wheel' = IF new # until[k] THEN wheel \cup {<<k, new>>} ELSE wheel
           /\ saved' = IF persist THEN [saved EXCEPT ![k] = new] ELSE saved
           /\ record' = IF persist THEN [record EXCEPT ![k] = [until |-> new, ttl |-> eff]]
                        ELSE record
  /\ UNCHANGED <<clock, slots, wtick, restored>>

\* Mutant: a pass that skips to the last lap starts one bucket late.
VisitedTicksShort(from, target) ==
  ((IF target - from > WheelSize THEN target - WheelSize + 1 ELSE from) + 1)..target

\* The ticks of the wheel between `from' and `target', a full lap at most.
VisitedTicks(from, target) ==
  ((IF target - from > WheelSize THEN target - WheelSize ELSE from) + 1)..target

\* The entries due in the buckets that these ticks visit.
DueEntries(now, target) ==
  {e \in wheel : /\ e[2] <= now
                 /\ \E b \in VisitedTicks(wtick, target) : b % WheelSize = Bucket(e[2])}

ExpireRetention ==
  /\ \E s \in Samples :
       LET now == Larger(rnow, s)
           target == Drained(now)
           due == IF target <= wtick THEN {} ELSE DueEntries(now, target)
           over == {k \in Keys : <<k, until[k]>> \in due}
       IN  /\ rnow' = now
           /\ wheel' = wheel \ due
           /\ wtick' = Larger(wtick, target)
           /\ until' = [k \in Keys |-> IF k \in over THEN 0 ELSE until[k]]
           /\ protected' = protected - Cardinality(over)
  /\ UNCHANGED <<clock, slots, ttl, saved, record, restored>>

---------------------------------------------------------------------------
\* A clean restart: ConfigureRetention, then RestoreBulk of every record.
Restart ==
  /\ writing = {} /\ reading = {}
  /\ \E s \in Samples :
       LET back == {k \in resident : record[k].until > s /\ record[k].ttl # 0}
           due(k) == Smaller(record[k].until, s + record[k].ttl)
       IN  /\ rnow' = s
           /\ until' = [k \in Keys |-> IF k \in back THEN due(k) ELSE 0]
           /\ saved' = [k \in Keys |-> IF k \in back THEN due(k) ELSE 0]
           /\ ttl' = [k \in Keys |-> record[k].ttl]
           /\ wheel' = {<<k, due(k)>> : k \in back}
           /\ wtick' = Drained(s)
           /\ protected' = Cardinality(back)
           /\ restored' = Cardinality(back)
  /\ UNCHANGED <<clock, slots, record>>

KeyStep(k) ==
  \/ Put(k) \/ Evict(k) \/ Commit(k) \/ Abandon(k) \/ Read(k) \/ ReadEnd(k)
  \/ RemoveNow(k) \/ RemoveLater(k)
  \/ \E req \in 0..MaxTTL, mode \in Modes :
       RetainRefused(k, req, mode) \/ RetainGranted(k, req, mode)

Next == Advance \/ (\E k \in Keys : KeyStep(k)) \/ ExpireRetention \/ Restart

Spec == Init /\ [][Next]_vars

---------------------------------------------------------------------------
(* Properties.                                                             *)

TypeOK ==
  /\ clock \in Nat /\ rnow \in Nat /\ wtick \in Nat
  /\ resident \subseteq Keys /\ writing \subseteq resident
  /\ reading \subseteq resident \ writing /\ pending \subseteq Pinned \cap removed
  /\ until \in [Keys -> Nat] /\ ttl \in [Keys -> 0..MaxTTL] /\ saved \in [Keys -> Nat]
  /\ record \in [Keys -> [until : Nat, ttl : 0..MaxTTL]]
  /\ wheel \subseteq Keys \X Nat
  /\ protected \in Nat /\ restored \in Nat

\* No protection outlives the reclaimer: a protected slot has an entry for
\* its very deadline in a bucket ExpireRetention has yet to drain, whatever
\* the refreshes, stalls of the pass and steps of the clock.
ProtectionExpires ==
  \A k \in Protected : <<k, until[k]>> \in wheel /\ until[k] \div WheelTick > wtick

\* protected_slots_, the number the budget is checked against, counts exactly
\* the protected slots, through evictions, removals, expiries and restarts.
ProtectedIsExact == protected = Cardinality(Protected)

\* The protected slots stay within the budget, or within what the last
\* restart found protected (RestoreBulk does not check the budget).
BudgetHolds == Cardinality(Protected) <= Larger(Budget, restored)

\* The durable record of a protected slot carries its TTL and a deadline at
\* most PersistFloor behind: Retain skips the write of small renewals only.
RecordIsFresh ==
  \A k \in Protected :
    /\ record[k].ttl = ttl[k]
    /\ until[k] <= record[k].until + Larger(PersistFloor(ttl[k]) - 1, 0)

\* Every protection will expire, the counts and the budget are exact and the
\* durable records keep up, all in the same state.
RetentionIsExact ==
  TypeOK /\ ProtectionExpires /\ ProtectedIsExact /\ BudgetHolds /\ RecordIsFresh

\* A granted protection never ends early: short of a restart, only a REMOVE of
\* the key, or a clock past the deadline, takes it away, and no eviction path
\* frees the slot meanwhile.
NeverEndsEarly ==
  [][\A k \in Keys :
       until[k] # 0 /\ until'[k] < until[k] =>
         Restart \/ rnow' >= until[k] \/ k \in removed']_vars
====
