-------------------------- MODULE DiskSlabInvariant -------------------------
(***************************************************************************)
(* The inductive invariant of the slab engine of one disk (DiskSlabStore), *)
(* what the operators of the engine do to the state it speaks of, the      *)
(* steps of a PUT until its record is written, and the steps that end a    *)
(* hold on a slot.  DiskSlabProofs has the rest and the theorems.          *)
(***************************************************************************)
EXTENDS DiskSlabStore, FiniteSetTheorems, TLAPS

-----------------------------------------------------------------------------
(* The inductive invariant.                                                *)

Table == [Slots -> Keys \cup {None}]
Contents == [Slots -> Payloads \cup {Torn}]
Mems == [owner : Table, pins : [Slots -> Nat], doomed : SUBSET Slots,
         committed : SUBSET Keys, flights : [Keys -> Threads \cup {None}],
         deferred : SUBSET Keys, inflight : [Keys -> Nat], failed : BOOLEAN,
         rec : Table, data : Contents]
ItemRecs == [key : Keys, val : Vals, st : ItemStates, by : Threads \cup {None}, seen : BOOLEAN]
Batches == [pc : {"idle", "L1", "window", "io", "L2", "wait"}, items : Seq(ItemRecs), i : Nat]
Reads == [key : Keys \cup {None}, slot : Slots \cup {None}, want : Payloads \cup {Torn, None}]

StoreType ==
  /\ mem \in Mems /\ lock \in Threads \cup {None} /\ phase \in Phases
  /\ put \in [Threads -> Batches] /\ rd \in [Readers -> Reads]
  /\ media \in [rec : Table, data : Contents, epoch : 0..MaxEpoch, clean : BOOLEAN]
  /\ hist \in [removed : SUBSET Keys, last : [Keys -> Vals \cup {None}]]

ReadersOf(k) == {r \in Readers : rd[r].key = k}
Flying(k) == IF mem.flights[k] = None THEN 0 ELSE 1

(* A key has one slot, whose pins are the key's holders: the readers, or   *)
(* one leading batch; never both, for a key is read only while it is       *)
(* committed and written only while it is not.                             *)
SlotsAreOwned ==
  /\ mem.doomed = {}
  /\ \A s, u \in Slots : mem.owner[s] # None /\ mem.owner[s] = mem.owner[u] => s = u
  /\ \A s \in Slots :
       mem.pins[s] = IF mem.owner[s] = None THEN 0 ELSE mem.inflight[mem.owner[s]]
  /\ \A k \in Keys : mem.inflight[k] > 0 => \E s \in Slots : mem.owner[s] = k

HoldersAreCounted ==
  \A k \in Keys :
    /\ mem.inflight[k] = Cardinality(ReadersOf(k)) + Flying(k)
    /\ mem.flights[k] # None => k \notin mem.committed /\ ReadersOf(k) = {}
    /\ k \in mem.deferred => mem.inflight[k] > 0 /\ k \notin mem.committed

ReadsArePinned ==
  \A r \in Readers :
    \/ rd[r] = NoRead
    \/ /\ rd[r].key \in mem.committed \cup mem.deferred /\ rd[r].slot \in Slots
       /\ mem.owner[rd[r].slot] = rd[r].key /\ mem.data[rd[r].slot] = rd[r].want

Leading == {"lead", "written", "recorded", "bad"}
LeadsOf(b) == {j \in DOMAIN b.items : b.items[j].st \in Leading}
WaitsOf(b) == {j \in DOMAIN b.items : b.items[j].st = "follow"}

(* The place of a batch: it leads nothing before it is judged and nothing  *)
(* after its L2.                                                           *)
InOrder(b) ==
  /\ b.pc \in {"L1", "window", "L2"} => b.i \in 1..Len(b.items)
  /\ b.pc \in {"L1", "window"} =>
       \A j \in DOMAIN b.items : j >= b.i => b.items[j].st = "todo"
  /\ b.pc = "L2" => \A j \in LeadsOf(b) : j >= b.i /\ b.items[j].st \in {"recorded", "bad"}
  /\ b.pc \in {"idle", "wait"} => LeadsOf(b) = {}

(* put_flights_ names the one batch, and its one item, that leads a key;   *)
(* who follows, follows a flight that is still there.                      *)
Follows(b, flights) ==
  \A j \in WaitsOf(b) : b.items[j].by # None /\ flights[b.items[j].key] = b.items[j].by

FlightsAreLed ==
  /\ \A t \in Threads : \A j \in LeadsOf(put[t]) :
       /\ mem.flights[put[t].items[j].key] = t
       /\ \A l \in LeadsOf(put[t]) : put[t].items[l].key = put[t].items[j].key => l = j
  /\ \A k \in Keys : mem.flights[k] # None =>
       \E j \in LeadsOf(put[mem.flights[k]]) : put[mem.flights[k]].items[j].key = k

QuietUnlessUp ==
  phase # "up" => (\A t \in Threads : put[t] = NoBatch) /\ \A r \in Readers : rd[r] = NoRead

(* What is committed is recorded, whole and not removed; what is being      *)
(* written gets there in the order payload, record, commit.                *)
CommittedIsWhole ==
  \A k \in mem.committed :
    /\ k \notin hist.removed /\ hist.last[k] # None
    /\ \E s \in Slots : /\ mem.owner[s] = k /\ mem.rec[s] = k
                        /\ mem.data[s] = <<k, hist.last[k]>>

WrittenInOrder ==
  /\ \A t \in Threads : \A j \in LeadsOf(put[t]) : \A s \in Slots :
       LET it == put[t].items[j]
       IN  mem.owner[s] = it.key =>
             /\ it.st \in {"written", "recorded"} => mem.data[s] = <<it.key, it.val>>
             /\ it.st = "recorded" => mem.rec[s] = it.key
             /\ it.st # "recorded" /\ ~mem.failed => mem.rec[s] = None
  /\ \A k \in Keys : mem.flights[k] # None /\ k \notin mem.deferred => k \notin hist.removed

(* While the store is healthy its table names only slots in use.           *)
TableIsLive ==
  phase \in {"restored", "up", "payloads synced", "table synced"} /\ ~mem.failed =>
    \A s \in Slots : mem.rec[s] # None =>
      /\ mem.owner[s] = mem.rec[s]
      /\ mem.rec[s] \in mem.committed \/ mem.inflight[mem.rec[s]] > 0

Exact(rec, data) ==
  \A s \in Slots : rec[s] # None =>
    /\ rec[s] \notin hist.removed /\ hist.last[rec[s]] # None
    /\ data[s] = <<rec[s], hist.last[rec[s]]>>
    /\ \A u \in Slots \ {s} : rec[u] # rec[s]

(* A start trusts only a table that is exact, and an exit in order leaves   *)
(* the medium equal to the page cache before it marks it clean.            *)
RestartIsExact ==
  /\ media.clean => /\ phase \in {"down", "reset", "restored"}
                    /\ mem.rec = media.rec /\ mem.data = media.data
                    /\ Exact(media.rec, media.data)
  /\ phase \in {"down", "opened", "reset"} => mem.committed = {}
  /\ phase \in {"reset", "restored"} => Exact(mem.rec, mem.data)
  /\ phase \in {"payloads synced", "table synced"} => ~mem.failed /\ media.data = mem.data
  /\ phase = "table synced" => media.rec = mem.rec

Holders == SlotsAreOwned /\ HoldersAreCounted /\ ReadsArePinned
BatchesOk ==
  /\ \A t \in Threads : InOrder(put[t]) /\ Follows(put[t], mem.flights)
  /\ FlightsAreLed /\ QuietUnlessUp
Bytes == CommittedIsWhole /\ WrittenInOrder /\ TableIsLive

StoreInv == StoreType /\ Holders /\ BatchesOk /\ Bytes /\ RestartIsExact

-----------------------------------------------------------------------------
(* What the allocator's operators do to the slot of a key that has one.     *)

LEMMA SlotOfOwner ==
  ASSUME NEW m \in Mems, NEW k \in Keys, NEW s \in Slots, m.owner[s] = k,
         \A u \in Slots : m.owner[u] = k => u = s
  PROVE  Holding(m, k) = {s} /\ SlotOf(m, k) = s
  <1>1. Holding(m, k) = {s}
    BY Zenon DEF Holding
  <1> QED BY Zenon, <1>1 DEF SlotOf

LEMMA PinEffect ==
  ASSUME NEW m \in Mems, NEW k \in Keys, NEW s \in Slots, SlotOf(m, k) = s
  PROVE  LET n == Pin(m, k)
         IN  /\ n \in Mems
             /\ n.pins = [m.pins EXCEPT ![s] = @ + 1]
             /\ n.inflight = [m.inflight EXCEPT ![k] = @ + 1]
             /\ n.owner = m.owner /\ n.doomed = m.doomed /\ n.committed = m.committed
             /\ n.flights = m.flights /\ n.deferred = m.deferred /\ n.failed = m.failed
             /\ n.rec = m.rec /\ n.data = m.data
  <1>1. m.pins \in [Slots -> Nat] /\ m.inflight \in [Keys -> Nat]
    BY Zenon DEF Mems
  <1>2. m.pins[s] + 1 \in Nat /\ m.inflight[k] + 1 \in Nat
    BY <1>1
  <1> DEFINE p == [m.pins EXCEPT ![s] = @ + 1]
             q == [m.inflight EXCEPT ![k] = @ + 1]
  <1>3. p \in [Slots -> Nat] /\ q \in [Keys -> Nat]
    BY Zenon, <1>1, <1>2
  <1>4. Pin(m, k) = [m EXCEPT !.pins = p, !.inflight = q]
    BY Zenon DEF Pin, Mems
  <1> HIDE DEF p, q
  <1>5. /\ Pin(m, k) \in Mems /\ Pin(m, k).pins = p /\ Pin(m, k).inflight = q
    BY Zenon, <1>3, <1>4 DEF Mems
  <1> QED BY Zenon, <1>4, <1>5 DEF Mems, p, q

LEMMA FreeSlotEffect ==
  ASSUME NEW m \in Mems, NEW s \in Slots, m.doomed = {}
  PROVE  LET n == FreeSlot(m, s)
         IN  /\ n \in Mems
             /\ n.owner = [m.owner EXCEPT ![s] = None]
             /\ n.doomed = {} /\ n.committed = m.committed /\ n.pins = m.pins
             /\ n.inflight = m.inflight
             /\ n.flights = m.flights /\ n.deferred = m.deferred /\ n.failed = m.failed
             /\ n.rec = m.rec /\ n.data = m.data
  BY Zenon DEF FreeSlot, Mems, Table

LEMMA UnpinEffect ==
  ASSUME NEW m \in Mems, NEW k \in Keys, NEW s \in Slots,
         Holding(m, k) = {s}, SlotOf(m, k) = s, m.doomed = {}, m.pins[s] > 0
  PROVE  LET n == [Unpin(m, k) EXCEPT !.inflight[k] = @ - 1]
         IN  m.inflight[k] > 0 =>
             /\ n \in Mems
             /\ n.pins = [m.pins EXCEPT ![s] = @ - 1]
             /\ n.inflight = [m.inflight EXCEPT ![k] = @ - 1]
             /\ n.owner = m.owner /\ n.doomed = m.doomed /\ n.committed = m.committed
             /\ n.flights = m.flights /\ n.deferred = m.deferred /\ n.failed = m.failed
             /\ n.rec = m.rec /\ n.data = m.data
  <1> SUFFICES ASSUME m.inflight[k] > 0
               PROVE  LET n == [Unpin(m, k) EXCEPT !.inflight[k] = @ - 1]
                      IN  /\ n \in Mems
                          /\ n.pins = [m.pins EXCEPT ![s] = @ - 1]
                          /\ n.inflight = [m.inflight EXCEPT ![k] = @ - 1]
                          /\ n.owner = m.owner /\ n.doomed = m.doomed
                          /\ n.committed = m.committed
                          /\ n.flights = m.flights /\ n.deferred = m.deferred
                          /\ n.failed = m.failed /\ n.rec = m.rec /\ n.data = m.data
    BY Zenon
  <1>1. m.pins \in [Slots -> Nat] /\ m.inflight \in [Keys -> Nat]
    BY Zenon DEF Mems
  <1>2. m.pins[s] - 1 \in Nat /\ m.inflight[k] - 1 \in Nat
    BY <1>1
  <1> DEFINE p == [m.pins EXCEPT ![s] = @ - 1]
             q == [m.inflight EXCEPT ![k] = @ - 1]
             n == [Unpin(m, k) EXCEPT !.inflight[k] = @ - 1]
  <1>3. p \in [Slots -> Nat] /\ q \in [Keys -> Nat]
    BY Zenon, <1>1, <1>2
  <1>4. Unpin(m, k) = [m EXCEPT !.pins[s] = @ - 1]
    BY Zenon DEF Unpin
  <1>5. n = [m EXCEPT !.pins = p, !.inflight = q]
    BY Zenon, <1>4 DEF Mems
  <1> HIDE DEF p, q, n
  <1>6. n \in Mems /\ n.pins = p /\ n.inflight = q
    BY Zenon, <1>3, <1>5 DEF Mems
  <1>7. /\ n.owner = m.owner /\ n.doomed = m.doomed /\ n.committed = m.committed
        /\ n.flights = m.flights /\ n.deferred = m.deferred /\ n.failed = m.failed
        /\ n.rec = m.rec /\ n.data = m.data
    BY Zenon, <1>5 DEF Mems
  <1> QED BY Zenon, <1>6, <1>7 DEF p, q, n

LEMMA AllocRemoveEffect ==
  ASSUME NEW m \in Mems, NEW k \in Keys, NEW s \in Slots,
         Holding(m, k) = {s}, SlotOf(m, k) = s, m.doomed = {}, m.pins[s] = 0
  PROVE  LET n == AllocRemove(m, k)
         IN  /\ n \in Mems
             /\ n.owner = [m.owner EXCEPT ![s] = None]
             /\ n.doomed = {} /\ n.committed = m.committed /\ n.pins = m.pins
             /\ n.inflight = m.inflight
             /\ n.flights = m.flights /\ n.deferred = m.deferred /\ n.failed = m.failed
             /\ n.rec = m.rec /\ n.data = m.data
  <1>1. AllocRemove(m, k) = FreeSlot(m, s)
    BY DEF AllocRemove
  <1> QED BY <1>1, FreeSlotEffect

LEMMA EvictEffect ==
  ASSUME NEW m \in Mems, NEW s \in Slots, m.doomed = {}
  PROVE  LET n == Evict(m, s, TRUE)
         IN  /\ n \in Mems
             /\ n.owner = [m.owner EXCEPT ![s] = None]
             /\ n.rec = [m.rec EXCEPT ![s] = None]
             /\ n.committed = m.committed \ {m.owner[s]}
             /\ n.doomed = {} /\ n.pins = m.pins /\ n.inflight = m.inflight
             /\ n.flights = m.flights /\ n.deferred = m.deferred /\ n.failed = m.failed
             /\ n.data = m.data
  <1> DEFINE f == FreeSlot(m, s)
  <1>1. /\ f \in Mems /\ f.owner = [m.owner EXCEPT ![s] = None]
        /\ f.doomed = {} /\ f.committed = m.committed /\ f.pins = m.pins
        /\ f.inflight = m.inflight
        /\ f.flights = m.flights /\ f.deferred = m.deferred /\ f.failed = m.failed
        /\ f.rec = m.rec /\ f.data = m.data
    BY Zenon, FreeSlotEffect
  <1>2. Evict(m, s, TRUE) = [f EXCEPT !.rec[s] = None, !.committed = @ \ {m.owner[s]}]
    BY Zenon DEF Evict
  <1> HIDE DEF f
  <1>3. [f EXCEPT !.rec[s] = None, !.committed = @ \ {m.owner[s]}] \in Mems
    BY Zenon, <1>1 DEF Mems, Table
  <1> QED BY Zenon, <1>1, <1>2, <1>3 DEF Mems

LEMMA FailEffect ==
  ASSUME NEW m \in Mems
  PROVE  LET n == [m EXCEPT !.failed = TRUE]
         IN  /\ n \in Mems /\ n.failed = TRUE
             /\ n.owner = m.owner /\ n.doomed = m.doomed /\ n.committed = m.committed
             /\ n.pins = m.pins /\ n.inflight = m.inflight
             /\ n.flights = m.flights /\ n.deferred = m.deferred
             /\ n.rec = m.rec /\ n.data = m.data
  BY Zenon DEF Mems

(* ReleaseInflightLocked, called by a holder of k: the last one runs the    *)
(* deferred REMOVE, which frees the slot or fails the store.               *)
Released(m, n, k, s, ok) ==
  LET runs == RunsRemove(m, k)
      frees == runs /\ ok /\ ~m.failed
  IN  /\ n \in Mems
      /\ n.pins = [m.pins EXCEPT ![s] = @ - 1]
      /\ n.inflight = [m.inflight EXCEPT ![k] = @ - 1]
      /\ n.doomed = {} /\ n.flights = m.flights /\ n.data = m.data
      /\ n.committed = IF runs THEN m.committed \ {k} ELSE m.committed
      /\ n.deferred = IF runs THEN m.deferred \ {k} ELSE m.deferred
      /\ n.failed = IF runs /\ ~ok THEN TRUE ELSE m.failed
      /\ n.owner = IF frees THEN [m.owner EXCEPT ![s] = None] ELSE m.owner
      /\ n.rec = IF frees THEN [m.rec EXCEPT ![s] = None] ELSE m.rec

LEMMA ReleaseEffect ==
  ASSUME NEW m \in Mems, NEW k \in Keys, NEW s \in Slots, NEW ok \in BOOLEAN,
         m.owner[s] = k, \A u \in Slots : m.owner[u] = k => u = s,
         m.doomed = {}, m.inflight[k] > 0, m.pins[s] = m.inflight[k]
  PROVE  Released(m, ReleaseInflight(m, k, ok), k, s, ok)
  <1> USE DEF Released
  <1>1. Holding(m, k) = {s} /\ SlotOf(m, k) = s
    BY SlotOfOwner
  <1> DEFINE u == [Unpin(m, k) EXCEPT !.inflight[k] = @ - 1]
             r == [u EXCEPT !.deferred = @ \ {k}, !.committed = @ \ {k}]
             c == [r EXCEPT !.rec[SlotOf(r, k)] = None]
  <1>2. /\ u \in Mems
        /\ u.pins = [m.pins EXCEPT ![s] = @ - 1]
        /\ u.inflight = [m.inflight EXCEPT ![k] = @ - 1]
        /\ u.owner = m.owner /\ u.doomed = m.doomed /\ u.committed = m.committed
        /\ u.flights = m.flights /\ u.deferred = m.deferred /\ u.failed = m.failed
        /\ u.rec = m.rec /\ u.data = m.data
    BY <1>1, UnpinEffect
  <1>3. ReleaseInflight(m, k, ok) =
          IF ~RunsRemove(m, k) THEN u
          ELSE IF ~Contains(r, k) THEN r
          ELSE IF m.failed \/ ~ok THEN [r EXCEPT !.failed = TRUE]
          ELSE AllocRemove(c, k)
    BY Zenon DEF ReleaseInflight
  <1> HIDE DEF u
  <1>4. CASE ~RunsRemove(m, k)
    BY Zenon, <1>2, <1>3, <1>4
  <1>5. CASE RunsRemove(m, k)
    <2>1. /\ r \in Mems /\ r.pins = u.pins /\ r.inflight = u.inflight
          /\ r.owner = m.owner /\ r.doomed = {} /\ r.committed = m.committed \ {k}
          /\ r.flights = m.flights /\ r.deferred = m.deferred \ {k}
          /\ r.failed = m.failed /\ r.rec = m.rec /\ r.data = m.data
      BY Zenon, <1>2 DEF Mems
    <2> HIDE DEF r
    <2>2. Holding(r, k) = {s} /\ SlotOf(r, k) = s
      BY <2>1, SlotOfOwner
    <2>3. Contains(r, k)
      BY Zenon, <2>1, <2>2 DEF Contains
    <2>4. CASE m.failed \/ ~ok
      <3>1. ReleaseInflight(m, k, ok) = [r EXCEPT !.failed = TRUE]
        BY Zenon, <1>3, <1>5, <2>3, <2>4
      <3>2. IF ~ok THEN TRUE ELSE m.failed = TRUE
        BY Zenon, <2>4 DEF Mems
      <3> DEFINE n == [r EXCEPT !.failed = TRUE]
      <3>3. /\ n \in Mems /\ n.failed = TRUE
            /\ n.owner = r.owner /\ n.doomed = r.doomed /\ n.committed = r.committed
            /\ n.pins = r.pins /\ n.inflight = r.inflight
            /\ n.flights = r.flights /\ n.deferred = r.deferred
            /\ n.rec = r.rec /\ n.data = r.data
        BY Zenon, <2>1, FailEffect
      <3> HIDE DEF n
      <3>4. ReleaseInflight(m, k, ok) = n
        BY Zenon, <3>1 DEF n
      <3> QED BY Zenon, <1>2, <1>5, <2>1, <2>4, <3>2, <3>3, <3>4
    <2>5. CASE ~m.failed /\ ok
      <3>1. ReleaseInflight(m, k, ok) = AllocRemove(c, k)
        BY Zenon, <1>3, <1>5, <2>3, <2>5
      <3>2. c = [r EXCEPT !.rec[s] = None]
        BY Zenon, <2>2
      <3>3. /\ c \in Mems /\ c.pins = u.pins /\ c.inflight = u.inflight
            /\ c.owner = m.owner /\ c.doomed = {} /\ c.committed = m.committed \ {k}
            /\ c.flights = m.flights /\ c.deferred = m.deferred \ {k}
            /\ c.failed = m.failed /\ c.rec = [m.rec EXCEPT ![s] = None] /\ c.data = m.data
        BY Zenon, <2>1, <3>2 DEF Mems, Table
      <3> HIDE DEF c
      <3>4. Holding(c, k) = {s} /\ SlotOf(c, k) = s
        BY <3>3, SlotOfOwner
      <3>5. c.pins[s] = 0
        <4>1. m.inflight[k] = 1 /\ m.pins \in [Slots -> Nat]
          BY Zenon, <1>5 DEF RunsRemove, Mems
        <4> QED BY <1>2, <3>3, <4>1
      <3> DEFINE n == AllocRemove(c, k)
      <3>6. /\ n \in Mems
            /\ n.owner = [c.owner EXCEPT ![s] = None]
            /\ n.doomed = {} /\ n.committed = c.committed /\ n.pins = c.pins
            /\ n.inflight = c.inflight
            /\ n.flights = c.flights /\ n.deferred = c.deferred /\ n.failed = c.failed
            /\ n.rec = c.rec /\ n.data = c.data
        BY <3>3, <3>4, <3>5, AllocRemoveEffect
      <3>7. ReleaseInflight(m, k, ok) = n
        BY Zenon, <3>1
      <3> HIDE DEF n
      <3> QED BY Zenon, <1>2, <1>5, <2>5, <3>3, <3>6, <3>7
    <2> QED BY Zenon, <2>4, <2>5
  <1> QED BY Zenon, <1>4, <1>5

(* Put and Pin for a batch that becomes the leader of k: the slot it gets   *)
(* was free or is taken from an idle key, and its record is clear.          *)
TakesSlot(n, k, t, s) ==
  /\ n \in Mems /\ mem.pins[s] = 0
  /\ n.owner = [mem.owner EXCEPT ![s] = k]
  /\ n.rec = [mem.rec EXCEPT ![s] = None]
  /\ n.committed = mem.committed \ {mem.owner[s]}
  /\ n.pins = [mem.pins EXCEPT ![s] = 1]
  /\ n.inflight = [mem.inflight EXCEPT ![k] = @ + 1]
  /\ n.flights = [mem.flights EXCEPT ![k] = t]
  /\ n.doomed = {} /\ n.deferred = mem.deferred /\ n.failed = FALSE
  /\ n.data = mem.data

LEMMA LeadEffect ==
  ASSUME StoreType, SlotsAreOwned, TableIsLive, phase = "up", ~mem.failed,
         NEW k \in Keys, NEW t \in Threads, Holding(mem, k) = {},
         NEW m \in AllocPut(mem, k), Contains(m, k)
  PROVE  \E s \in Slots : TakesSlot(Pin([m EXCEPT !.flights[k] = t], k), k, t, s)
  <1>1. mem \in Mems /\ mem.doomed = {} /\ mem.failed = FALSE
    BY Zenon DEF StoreType, SlotsAreOwned, Mems
  <1>2. PICK s \in Slots :
          /\ mem.pins[s] = 0
          /\ \/ mem.owner[s] = None /\ m = [mem EXCEPT !.owner[s] = k]
             \/ mem.owner[s] # None /\ m = [Evict(mem, s, TRUE) EXCEPT !.owner[s] = k]
    <2>1. \A s \in Slots : Evict(mem, s, FALSE) = [mem EXCEPT !.failed = TRUE]
      BY Zenon DEF Evict
    <2>2. \A s \in Slots : ~Contains(Evict(mem, s, FALSE), k)
      <3> TAKE s \in Slots
      <3> DEFINE n == [mem EXCEPT !.failed = TRUE]
      <3>1. n.owner = mem.owner
        BY Zenon, <1>1, FailEffect
      <3>2. Holding(n, k) = {}
        BY Zenon, <3>1 DEF Holding
      <3> HIDE DEF n
      <3>3. ~Contains(n, k)
        BY Zenon, <3>2 DEF Contains
      <3> QED BY Zenon, <2>1, <3>3 DEF n
    <2>3. ~Contains(mem, k)
      BY Zenon DEF Contains
    <2>4. CASE Unused(mem) # {}
      <3>1. PICK s \in Unused(mem) : m = [mem EXCEPT !.owner[s] = k]
        BY Zenon, <2>4 DEF AllocPut
      <3> QED BY Zenon, <3>1 DEF Unused, SlotsAreOwned
    <2>5. CASE Unused(mem) = {} /\ Victims(mem) # {}
      <3>1. PICK s \in Victims(mem) : m = [Evict(mem, s, TRUE) EXCEPT !.owner[s] = k]
                                      \/ m = Evict(mem, s, FALSE)
        BY Zenon, <2>5 DEF AllocPut
      <3> QED BY Zenon, <2>2, <3>1 DEF Victims
    <2>6. CASE Unused(mem) = {} /\ Victims(mem) = {}
      BY Zenon, <2>3, <2>6 DEF AllocPut
    <2> QED BY Zenon, <2>4, <2>5, <2>6
  <1> DEFINE e == IF mem.owner[s] = None THEN mem ELSE Evict(mem, s, TRUE)
             g == [m EXCEPT !.flights[k] = t]
  <1>3. /\ e \in Mems /\ e.rec = [mem.rec EXCEPT ![s] = None]
        /\ [e.owner EXCEPT ![s] = k] = [mem.owner EXCEPT ![s] = k]
        /\ e.committed = mem.committed \ {mem.owner[s]}
        /\ e.doomed = {} /\ e.pins = mem.pins /\ e.inflight = mem.inflight
        /\ e.flights = mem.flights /\ e.deferred = mem.deferred /\ e.failed = FALSE
        /\ e.data = mem.data
    <2>1. CASE mem.owner[s] = None
      <3>1. mem.rec[s] = None /\ mem.rec \in Table
        <4>1. mem.rec[s] # None => mem.owner[s] = mem.rec[s]
          BY Zenon DEF TableIsLive
        <4> QED BY Zenon, <2>1, <4>1, <1>1 DEF Mems
      <3>2. [mem.rec EXCEPT ![s] = None] = mem.rec
        BY Zenon, <3>1 DEF Table
      <3>3. mem.committed \ {mem.owner[s]} = mem.committed
        BY Zenon, <1>1, <2>1, StoreAssumption DEF Mems
      <3> QED BY Zenon, <1>1, <2>1, <3>2, <3>3
    <2>2. CASE mem.owner[s] # None
      <3>1. e = Evict(mem, s, TRUE)
        BY Zenon, <2>2
      <3>2. mem.owner \in Table
        BY Zenon, <1>1 DEF Mems
      <3> HIDE DEF e
      <3>3. /\ e \in Mems /\ e.owner = [mem.owner EXCEPT ![s] = None]
            /\ e.rec = [mem.rec EXCEPT ![s] = None]
            /\ e.committed = mem.committed \ {mem.owner[s]}
            /\ e.doomed = {} /\ e.pins = mem.pins /\ e.inflight = mem.inflight
            /\ e.flights = mem.flights /\ e.deferred = mem.deferred /\ e.failed = mem.failed
            /\ e.data = mem.data
        BY Zenon, <1>1, <3>1, EvictEffect
      <3>4. [e.owner EXCEPT ![s] = k] = [mem.owner EXCEPT ![s] = k]
        BY Zenon, <3>2, <3>3 DEF Table
      <3> QED BY Zenon, <1>1, <3>3, <3>4
    <2> QED BY Zenon, <2>1, <2>2
  <1>4. m = [e EXCEPT !.owner[s] = k]
    BY Zenon, <1>2
  <1> HIDE DEF e
  <1>5. /\ g \in Mems /\ g.owner = [mem.owner EXCEPT ![s] = k] /\ g.rec = e.rec
        /\ g.committed = e.committed /\ g.doomed = {} /\ g.pins = e.pins
        /\ g.inflight = e.inflight /\ g.flights = [mem.flights EXCEPT ![k] = t]
        /\ g.deferred = e.deferred /\ g.failed = FALSE /\ g.data = e.data
    <2>1. /\ m \in Mems /\ m.owner = [mem.owner EXCEPT ![s] = k] /\ m.rec = e.rec
          /\ m.committed = e.committed /\ m.doomed = {} /\ m.pins = e.pins
          /\ m.inflight = e.inflight /\ m.flights = mem.flights
          /\ m.deferred = e.deferred /\ m.failed = FALSE /\ m.data = e.data
      BY Zenon, <1>3, <1>4 DEF Mems, Table
    <2> QED BY Zenon, <2>1 DEF Mems
  <1> HIDE DEF g
  <1>6. SlotOf(g, k) = s
    <2>1. g.owner[s] = k /\ \A u \in Slots : g.owner[u] = k => u = s
      BY Zenon, <1>1, <1>5 DEF Holding, Mems, Table
    <2>2. g \in Mems
      BY Zenon, <1>5
    <2> QED BY <2>1, <2>2, SlotOfOwner
  <1>7. [mem.pins EXCEPT ![s] = @ + 1] = [mem.pins EXCEPT ![s] = 1]
    BY <1>2
  <1> DEFINE n == Pin(g, k)
  <1>8. /\ n \in Mems
        /\ n.pins = [g.pins EXCEPT ![s] = @ + 1]
        /\ n.inflight = [g.inflight EXCEPT ![k] = @ + 1]
        /\ n.owner = g.owner /\ n.doomed = g.doomed /\ n.committed = g.committed
        /\ n.flights = g.flights /\ n.deferred = g.deferred /\ n.failed = g.failed
        /\ n.rec = g.rec /\ n.data = g.data
    <2>1. g \in Mems
      BY Zenon, <1>5
    <2> QED BY <1>6, <2>1, PinEffect
  <1>9. n = Pin([m EXCEPT !.flights[k] = t], k)
    BY Zenon DEF g
  <1> HIDE DEF n
  <1>10. n.pins = [mem.pins EXCEPT ![s] = 1] /\ mem.pins[s] = 0
    BY <1>2, <1>3, <1>5, <1>7, <1>8
  <1>11. n.inflight = [mem.inflight EXCEPT ![k] = @ + 1]
    BY Zenon, <1>3, <1>5, <1>8
  <1>12. /\ n \in Mems /\ n.owner = [mem.owner EXCEPT ![s] = k]
         /\ n.rec = [mem.rec EXCEPT ![s] = None]
         /\ n.committed = mem.committed \ {mem.owner[s]}
         /\ n.flights = [mem.flights EXCEPT ![k] = t]
         /\ n.doomed = {} /\ n.deferred = mem.deferred /\ n.failed = FALSE
         /\ n.data = mem.data
    BY Zenon, <1>3, <1>5, <1>8
  <1>13. TakesSlot(n, k, t, s)
    BY Zenon, <1>10, <1>11, <1>12 DEF TakesSlot
  <1> QED BY Zenon, <1>9, <1>13

(* No room, or a record that could not be cleared.                         *)
LEMMA NoLeadEffect ==
  ASSUME StoreType, SlotsAreOwned, NEW k \in Keys, Holding(mem, k) = {},
         NEW m \in AllocPut(mem, k), ~Contains(m, k)
  PROVE  m = mem \/ m = [mem EXCEPT !.failed = TRUE]
  <1>1. mem \in Mems /\ mem.doomed = {}
    BY Zenon DEF StoreType, SlotsAreOwned
  <1>2. \A s \in Slots : Contains([mem EXCEPT !.owner[s] = k], k)
    <2> TAKE s \in Slots
    <2>1. [mem EXCEPT !.owner[s] = k].owner[s] = k /\ [mem EXCEPT !.owner[s] = k].doomed = {}
      BY Zenon, <1>1 DEF Mems, Table
    <2> QED BY Zenon, <2>1 DEF Contains, Holding
  <1>3. \A s \in Slots : Contains([Evict(mem, s, TRUE) EXCEPT !.owner[s] = k], k)
    <2> TAKE s \in Slots
    <2> DEFINE e == Evict(mem, s, TRUE)
    <2>1. e \in Mems /\ e.doomed = {}
      BY Zenon, <1>1, EvictEffect
    <2> HIDE DEF e
    <2>2. [e EXCEPT !.owner[s] = k].owner[s] = k /\ [e EXCEPT !.owner[s] = k].doomed = {}
      BY Zenon, <2>1 DEF Mems, Table
    <2> QED BY Zenon, <2>2 DEF Contains, Holding, e
  <1>4. \A s \in Slots : Evict(mem, s, FALSE) = [mem EXCEPT !.failed = TRUE]
    BY Zenon DEF Evict
  <1>5. CASE Unused(mem) # {}
    <2>1. PICK s \in Unused(mem) : m = [mem EXCEPT !.owner[s] = k]
      BY Zenon, <1>5 DEF AllocPut
    <2> QED BY Zenon, <1>2, <2>1 DEF Unused
  <1>6. CASE Unused(mem) = {} /\ Victims(mem) # {}
    <2>1. PICK s \in Victims(mem) : m = [Evict(mem, s, TRUE) EXCEPT !.owner[s] = k]
                                    \/ m = Evict(mem, s, FALSE)
      BY Zenon, <1>6 DEF AllocPut
    <2> QED BY Zenon, <1>3, <1>4, <2>1 DEF Victims
  <1>7. CASE Unused(mem) = {} /\ Victims(mem) = {}
    BY Zenon, <1>7 DEF AllocPut
  <1> QED BY Zenon, <1>5, <1>6, <1>7

-----------------------------------------------------------------------------
(* What the operators on batches do.                                       *)

LEMMA ItemType ==
  ASSUME NEW b \in Batches, NEW j \in DOMAIN b.items
  PROVE  /\ b.items \in Seq(ItemRecs) /\ b.items[j] \in ItemRecs
         /\ b.items[j].key \in Keys /\ b.items[j].val \in Vals
         /\ b.items[j].st \in ItemStates /\ b.items[j].by \in Threads \cup {None}
  <1>1. b.items \in Seq(ItemRecs)
    BY Zenon DEF Batches
  <1>2. b.items[j] \in ItemRecs
    BY <1>1
  <1> QED BY Zenon, <1>1, <1>2 DEF ItemRecs

LEMMA SettleEffect ==
  ASSUME NEW b \in Batches, b.i \in 1..Len(b.items), NEW st \in ItemStates,
         NEW pc \in {"idle", "L1", "window", "io", "L2", "wait"}
  PROVE  LET c == Settle(b, st, pc)
         IN  /\ c \in Batches /\ Len(c.items) = Len(b.items)
             /\ DOMAIN c.items = DOMAIN b.items
             /\ c.items[b.i].st = st
             /\ \A j \in DOMAIN b.items :
                  /\ c.items[j].key = b.items[j].key /\ c.items[j].val = b.items[j].val
                  /\ c.items[j].by = b.items[j].by
                  /\ j # b.i => c.items[j].st = b.items[j].st
             /\ c.i = IF b.i = Len(b.items) THEN 0 ELSE b.i + 1
             /\ c.pc = IF b.i = Len(b.items) THEN pc ELSE b.pc
  <1>1. b.items \in Seq(ItemRecs) /\ b.i \in Nat
    BY Zenon DEF Batches
  <1> DEFINE it == [b.items[b.i] EXCEPT !.st = st]
             s == [b.items EXCEPT ![b.i] = it]
             d == [b EXCEPT !.items = s, !.i = b.i + 1]
             c == Settle(b, st, pc)
  <1>2. b.i \in DOMAIN b.items /\ b.items[b.i] \in ItemRecs
    BY <1>1
  <1>3. /\ it \in ItemRecs /\ it.st = st /\ it.key = b.items[b.i].key
        /\ it.val = b.items[b.i].val /\ it.by = b.items[b.i].by
    BY Zenon, <1>2 DEF ItemRecs
  <1> HIDE DEF it
  <1>4. /\ s \in Seq(ItemRecs) /\ Len(s) = Len(b.items) /\ DOMAIN s = DOMAIN b.items
        /\ s[b.i] = it /\ \A j \in DOMAIN b.items : j # b.i => s[j] = b.items[j]
    BY <1>1, <1>2, <1>3
  <1>5. b.i + 1 \in Nat
    BY <1>1
  <1>6. c = IF b.i = Len(b.items) THEN [d EXCEPT !.pc = pc, !.i = 0] ELSE d
    BY Zenon DEF Settle, it, Batches
  <1> HIDE DEF s
  <1>7. /\ d \in Batches /\ d.items = s /\ d.i = b.i + 1 /\ d.pc = b.pc
    BY Zenon, <1>4, <1>5 DEF Batches
  <1> HIDE DEF d
  <1>8. /\ [d EXCEPT !.pc = pc, !.i = 0] \in Batches
        /\ [d EXCEPT !.pc = pc, !.i = 0].items = s
        /\ [d EXCEPT !.pc = pc, !.i = 0].i = 0
        /\ [d EXCEPT !.pc = pc, !.i = 0].pc = pc
    BY Zenon, <1>7 DEF Batches
  <1>9. /\ c \in Batches /\ c.items = s
        /\ c.i = IF b.i = Len(b.items) THEN 0 ELSE b.i + 1
        /\ c.pc = IF b.i = Len(b.items) THEN pc ELSE b.pc
    BY Zenon, <1>6, <1>7, <1>8
  <1> HIDE DEF c
  <1>10. \A j \in DOMAIN b.items :
           /\ s[j].key = b.items[j].key /\ s[j].val = b.items[j].val
           /\ s[j].by = b.items[j].by
           /\ j # b.i => s[j].st = b.items[j].st
    BY Zenon, <1>3, <1>4
  <1> QED BY Zenon, <1>3, <1>4, <1>9, <1>10 DEF c

LEMMA CompletedEffect ==
  ASSUME NEW b \in Batches, NEW t \in Threads, NEW k \in Keys, NEW st \in ItemStates
  PROVE  LET c == Completed(b, t, k, st)
         IN  /\ c \in Batches /\ Len(c.items) = Len(b.items)
             /\ DOMAIN c.items = DOMAIN b.items /\ c.i = b.i /\ c.pc = b.pc
             /\ \A j \in DOMAIN b.items :
                  /\ c.items[j].key = b.items[j].key /\ c.items[j].val = b.items[j].val
                  /\ c.items[j].by = b.items[j].by
                  /\ c.items[j].st = IF b.items[j].st = "follow" /\ b.items[j].by = t
                                        /\ b.items[j].key = k
                                     THEN st ELSE b.items[j].st
  <1>1. b.items \in Seq(ItemRecs) /\ b.i \in Nat
    BY Zenon DEF Batches
  <1> DEFINE It(j) == IF b.items[j].st = "follow" /\ b.items[j].by = t /\ b.items[j].key = k
                      THEN [b.items[j] EXCEPT !.st = st] ELSE b.items[j]
             s == [j \in DOMAIN b.items |-> It(j)]
             c == Completed(b, t, k, st)
  <1>2. \A j \in DOMAIN b.items : b.items[j] \in ItemRecs
    BY <1>1
  <1>3. \A j \in DOMAIN b.items :
          /\ It(j) \in ItemRecs /\ It(j).key = b.items[j].key /\ It(j).val = b.items[j].val
          /\ It(j).by = b.items[j].by
          /\ It(j).st = IF b.items[j].st = "follow" /\ b.items[j].by = t /\ b.items[j].key = k
                        THEN st ELSE b.items[j].st
    BY Zenon, <1>2 DEF ItemRecs
  <1>4. c = [b EXCEPT !.items = s]
    BY Zenon DEF Completed
  <1> HIDE DEF It, c
  <1>5. /\ s \in Seq(ItemRecs) /\ Len(s) = Len(b.items) /\ DOMAIN s = DOMAIN b.items
        /\ \A j \in DOMAIN b.items : s[j] = It(j)
    BY <1>1, <1>3
  <1> HIDE DEF s
  <1>6. c \in Batches /\ c.items = s /\ c.i = b.i /\ c.pc = b.pc
    BY Zenon, <1>4, <1>5 DEF Batches
  <1> QED BY Zenon, <1>3, <1>5, <1>6 DEF c

LEMMA SawEffect ==
  ASSUME NEW b \in Batches, NEW k \in Keys
  PROVE  LET c == Saw(b, k)
         IN  /\ c \in Batches /\ Len(c.items) = Len(b.items)
             /\ DOMAIN c.items = DOMAIN b.items /\ c.i = b.i /\ c.pc = b.pc
             /\ \A j \in DOMAIN b.items :
                  /\ c.items[j].key = b.items[j].key /\ c.items[j].val = b.items[j].val
                  /\ c.items[j].by = b.items[j].by /\ c.items[j].st = b.items[j].st
  <1>1. b.items \in Seq(ItemRecs) /\ b.i \in Nat
    BY Zenon DEF Batches
  <1> DEFINE It(j) == IF b.items[j].key = k THEN [b.items[j] EXCEPT !.seen = TRUE]
                      ELSE b.items[j]
             s == [j \in DOMAIN b.items |-> It(j)]
             c == Saw(b, k)
  <1>2. \A j \in DOMAIN b.items : b.items[j] \in ItemRecs
    BY <1>1
  <1>3. \A j \in DOMAIN b.items :
          /\ It(j) \in ItemRecs /\ It(j).key = b.items[j].key /\ It(j).val = b.items[j].val
          /\ It(j).by = b.items[j].by /\ It(j).st = b.items[j].st
    BY Zenon, <1>2 DEF ItemRecs
  <1>4. c = [b EXCEPT !.items = s]
    BY Zenon DEF Saw
  <1> HIDE DEF It, c
  <1>5. /\ s \in Seq(ItemRecs) /\ Len(s) = Len(b.items) /\ DOMAIN s = DOMAIN b.items
        /\ \A j \in DOMAIN b.items : s[j] = It(j)
    BY <1>1, <1>3
  <1> HIDE DEF s
  <1>6. c \in Batches /\ c.items = s /\ c.i = b.i /\ c.pc = b.pc
    BY Zenon, <1>4, <1>5 DEF Batches
  <1> QED BY Zenon, <1>3, <1>5, <1>6 DEF c

(* One item's state changes: WritePayload and WriteRecord.                 *)
LEMMA ItemEffect ==
  ASSUME NEW b \in Batches, NEW i \in DOMAIN b.items, NEW st \in ItemStates
  PROVE  LET c == [b EXCEPT !.items[i].st = st]
         IN  /\ c \in Batches /\ Len(c.items) = Len(b.items)
             /\ DOMAIN c.items = DOMAIN b.items /\ c.i = b.i /\ c.pc = b.pc
             /\ c.items[i].st = st
             /\ \A j \in DOMAIN b.items :
                  /\ c.items[j].key = b.items[j].key /\ c.items[j].val = b.items[j].val
                  /\ c.items[j].by = b.items[j].by
                  /\ j # i => c.items[j].st = b.items[j].st
  <1>1. b.items \in Seq(ItemRecs) /\ b.items[i] \in ItemRecs
    BY DEF Batches
  <1> DEFINE it == [b.items[i] EXCEPT !.st = st]
             s == [b.items EXCEPT ![i] = it]
             c == [b EXCEPT !.items[i].st = st]
  <1>2. /\ it \in ItemRecs /\ it.st = st /\ it.key = b.items[i].key
        /\ it.val = b.items[i].val /\ it.by = b.items[i].by
    BY Zenon, <1>1 DEF ItemRecs
  <1>3. c = [b EXCEPT !.items = s]
    BY Zenon DEF Batches
  <1> HIDE DEF it, c
  <1>4. /\ s \in Seq(ItemRecs) /\ Len(s) = Len(b.items) /\ DOMAIN s = DOMAIN b.items
        /\ s[i] = it /\ \A j \in DOMAIN b.items : j # i => s[j] = b.items[j]
    BY <1>1, <1>2
  <1> HIDE DEF s
  <1>5. c \in Batches /\ c.items = s /\ c.i = b.i /\ c.pc = b.pc
    BY Zenon, <1>3, <1>4 DEF Batches
  <1>6. \A j \in DOMAIN b.items :
          /\ s[j].key = b.items[j].key /\ s[j].val = b.items[j].val
          /\ s[j].by = b.items[j].by
          /\ j # i => s[j].st = b.items[j].st
    BY Zenon, <1>2, <1>4
  <1> QED BY <1>2, <1>4, <1>5, <1>6 DEF c

-----------------------------------------------------------------------------
(* Steps that leave what a batch leads as it is.                           *)

SameLeads(b, c) ==
  /\ LeadsOf(c) = LeadsOf(b)
  /\ \A j \in LeadsOf(b) : /\ c.items[j].key = b.items[j].key
                           /\ c.items[j].val = b.items[j].val
                           /\ c.items[j].st = b.items[j].st

BatchesMove ==
  /\ put' \in [Threads -> Batches]
  /\ \A t \in Threads : /\ InOrder(put'[t]) /\ Follows(put'[t], mem.flights)
                        /\ SameLeads(put[t], put'[t])

LEMMA OneBatchMoves ==
  ASSUME StoreType, BatchesOk, NEW t \in Threads, NEW b \in Batches,
         put' = [put EXCEPT ![t] = b],
         InOrder(b), Follows(b, mem.flights), SameLeads(put[t], b)
  PROVE  BatchesMove
  <1>1. put' \in [Threads -> Batches] /\ put \in [Threads -> Batches]
    BY Zenon DEF StoreType
  <1>2. \A u \in Threads : SameLeads(put[u], put[u])
    BY Zenon DEF SameLeads
  <1>3. \A u \in Threads : InOrder(put[u]) /\ Follows(put[u], mem.flights)
    BY Zenon DEF BatchesOk
  <1> QED BY Zenon, <1>1, <1>2, <1>3 DEF BatchesMove

LEMMA NoBatchMoves ==
  ASSUME StoreType, BatchesOk, put' = put
  PROVE  BatchesMove
  <1>1. put' \in [Threads -> Batches]
    BY Zenon DEF StoreType
  <1>2. \A u \in Threads : SameLeads(put[u], put[u])
    BY Zenon DEF SameLeads
  <1>3. \A u \in Threads : InOrder(put[u]) /\ Follows(put[u], mem.flights)
    BY Zenon DEF BatchesOk
  <1> QED BY Zenon, <1>1, <1>2, <1>3 DEF BatchesMove

LEMMA BatchesStay ==
  ASSUME StoreType, BatchesOk, phase' = "up", mem'.flights = mem.flights,
         \A t \in Threads :
           /\ InOrder(put'[t]) /\ Follows(put'[t], mem.flights)
           /\ LeadsOf(put'[t]) = LeadsOf(put[t])
           /\ \A j \in LeadsOf(put[t]) : put'[t].items[j].key = put[t].items[j].key
  PROVE  BatchesOk'
  <1>1. \A t \in Threads : InOrder(put'[t]) /\ Follows(put'[t], mem'.flights)
    BY Zenon
  <1>2. \A t \in Threads :
          /\ LeadsOf(put'[t]) = LeadsOf(put[t])
          /\ \A j \in LeadsOf(put[t]) : put'[t].items[j].key = put[t].items[j].key
    BY Zenon
  <1>3. \A t \in Threads : \A j \in LeadsOf(put'[t]) :
          /\ mem'.flights[put'[t].items[j].key] = t
          /\ \A l \in LeadsOf(put'[t]) : put'[t].items[l].key = put'[t].items[j].key => l = j
    BY <1>2 DEF BatchesOk, FlightsAreLed
  <1>4. \A k \in Keys : mem'.flights[k] # None =>
          \E j \in LeadsOf(put'[mem'.flights[k]]) : put'[mem'.flights[k]].items[j].key = k
    <2> SUFFICES ASSUME NEW k \in Keys, mem'.flights[k] # None
                 PROVE  \E j \in LeadsOf(put'[mem'.flights[k]]) :
                          put'[mem'.flights[k]].items[j].key = k
      BY Zenon
    <2>1. mem.flights[k] \in Threads
      BY Zenon DEF StoreType, Mems
    <2>2. \E j \in LeadsOf(put[mem.flights[k]]) : put[mem.flights[k]].items[j].key = k
      BY Zenon DEF BatchesOk, FlightsAreLed
    <2> QED BY Zenon, <1>2, <2>1, <2>2
  <1>5. FlightsAreLed'
    BY Zenon, <1>3, <1>4 DEF FlightsAreLed
  <1>6. QuietUnlessUp'
    BY Zenon DEF QuietUnlessUp
  <1> QED BY Zenon, <1>1, <1>5, <1>6 DEF BatchesOk

LEMMA UpIsDirty ==
  ASSUME StoreType, RestartIsExact, phase = "up", phase' = "up", media'.clean = media.clean
  PROVE  RestartIsExact' /\ media.clean = FALSE
  BY Zenon DEF RestartIsExact, StoreType

(* Nothing changes but batches, the history of begun PUTs, and perhaps the *)
(* health of the store.                                                    *)
LEMMA OnlyBatchesMove ==
  ASSUME StoreInv, BatchesMove, phase = "up", phase' = phase, rd' = rd, media' = media,
         lock' \in Threads \cup {None},
         mem' \in Mems, mem.failed => mem'.failed,
         mem'.owner = mem.owner, mem'.doomed = mem.doomed, mem'.committed = mem.committed,
         mem'.pins = mem.pins, mem'.inflight = mem.inflight, mem'.flights = mem.flights,
         mem'.deferred = mem.deferred, mem'.rec = mem.rec, mem'.data = mem.data,
         hist' \in [removed : SUBSET Keys, last : [Keys -> Vals \cup {None}]],
         hist'.removed \subseteq hist.removed, hist'.last = hist.last
  PROVE  StoreInv'
  <1> USE DEF StoreInv
  <1>1. StoreType'
    BY Zenon DEF StoreType, BatchesMove
  <1>2. Holders'
    BY DEF Holders, SlotsAreOwned, HoldersAreCounted, ReadsArePinned, ReadersOf, Flying
  <1>3. BatchesOk'
    BY Zenon, BatchesStay DEF BatchesMove, SameLeads
  <1>4. CommittedIsWhole'
    BY SMTT(30) DEF Bytes, CommittedIsWhole
  <1>5. WrittenInOrder'
    <2>1. \A t \in Threads :
            /\ LeadsOf(put'[t]) = LeadsOf(put[t])
            /\ \A j \in LeadsOf(put[t]) : /\ put'[t].items[j].key = put[t].items[j].key
                                          /\ put'[t].items[j].val = put[t].items[j].val
                                          /\ put'[t].items[j].st = put[t].items[j].st
      BY Zenon DEF BatchesMove, SameLeads
    <2> QED BY <2>1 DEF Bytes, WrittenInOrder
  <1>6. TableIsLive'
    BY Zenon DEF Bytes, TableIsLive
  <1>7. RestartIsExact'
    BY Zenon, UpIsDirty
  <1> QED BY Zenon, <1>1, <1>2, <1>3, <1>4, <1>5, <1>6, <1>7 DEF Bytes

(* An item judged without becoming a leader, and one that L2 passes over.   *)
LEMMA JudgedItem ==
  ASSUME NEW flights, NEW b \in Batches, b.pc = "L1", InOrder(b), Follows(b, flights),
         NEW st \in {"ok", "ioerror", "follow"},
         st = "follow" => b.items[b.i].by # None
                          /\ flights[b.items[b.i].key] = b.items[b.i].by
  PROVE  LET c == Settle(b, st, "io")
         IN  c \in Batches /\ InOrder(c) /\ Follows(c, flights) /\ SameLeads(b, c)
  <1> DEFINE c == Settle(b, st, "io")
  <1>1. b.i \in 1..Len(b.items) /\ b.items \in Seq(ItemRecs) /\ st \in ItemStates
    BY Zenon DEF InOrder, Batches, ItemStates
  <1>2. b.i \in DOMAIN b.items /\ \A j \in DOMAIN b.items : j >= b.i => b.items[j].st = "todo"
    BY SMTT(60), <1>1 DEF InOrder
  <1>3. /\ c \in Batches /\ Len(c.items) = Len(b.items)
        /\ DOMAIN c.items = DOMAIN b.items
        /\ c.items[b.i].st = st
        /\ \A j \in DOMAIN b.items :
             /\ c.items[j].key = b.items[j].key /\ c.items[j].val = b.items[j].val
             /\ c.items[j].by = b.items[j].by
             /\ j # b.i => c.items[j].st = b.items[j].st
        /\ c.i = IF b.i = Len(b.items) THEN 0 ELSE b.i + 1
        /\ c.pc = IF b.i = Len(b.items) THEN "io" ELSE "L1"
    BY <1>1, SettleEffect
  <1> HIDE DEF c
  <1>4. LeadsOf(c) = LeadsOf(b)
    BY SMTT(60), <1>2, <1>3 DEF LeadsOf, Leading
  <1>5. SameLeads(b, c)
    BY Zenon, <1>2, <1>3, <1>4 DEF SameLeads, LeadsOf, Leading
  <1>6. Follows(c, flights)
    BY <1>3 DEF Follows, WaitsOf
  <1>7. InOrder(c)
    <2>1. DOMAIN b.items = 1..Len(b.items) /\ Len(b.items) \in Nat
      BY <1>1
    <2> QED BY SMTT(60), <1>1, <1>2, <1>3, <2>1 DEF InOrder
  <1> QED BY Zenon, <1>3, <1>5, <1>6, <1>7 DEF c

LEMMA PassedItem ==
  ASSUME NEW flights, NEW b \in Batches, b.pc = "L2", InOrder(b), Follows(b, flights),
         b.i \notin LeadsOf(b)
  PROVE  LET c == Settle(b, b.items[b.i].st, "wait")
         IN  c \in Batches /\ InOrder(c) /\ Follows(c, flights) /\ SameLeads(b, c)
  <1> DEFINE c == Settle(b, b.items[b.i].st, "wait")
  <1>1. b.i \in 1..Len(b.items) /\ b.items \in Seq(ItemRecs)
    BY Zenon DEF InOrder, Batches
  <1>2. b.i \in DOMAIN b.items /\ b.items[b.i] \in ItemRecs
    BY SMTT(60), <1>1
  <1>3. /\ c \in Batches /\ Len(c.items) = Len(b.items)
        /\ DOMAIN c.items = DOMAIN b.items
        /\ c.items[b.i].st = b.items[b.i].st
        /\ \A j \in DOMAIN b.items :
             /\ c.items[j].key = b.items[j].key /\ c.items[j].val = b.items[j].val
             /\ c.items[j].by = b.items[j].by
             /\ j # b.i => c.items[j].st = b.items[j].st
        /\ c.i = IF b.i = Len(b.items) THEN 0 ELSE b.i + 1
        /\ c.pc = IF b.i = Len(b.items) THEN "wait" ELSE "L2"
    <2>1. b.items[b.i].st \in ItemStates
      BY Zenon, <1>2 DEF ItemRecs
    <2> QED BY SMTT(60), <1>1, <2>1, SettleEffect
  <1> HIDE DEF c
  <1>4. LeadsOf(c) = LeadsOf(b)
    BY Zenon, <1>2, <1>3 DEF LeadsOf
  <1>5. SameLeads(b, c)
    BY Zenon, <1>2, <1>3, <1>4 DEF SameLeads, LeadsOf
  <1>6. Follows(c, flights)
    BY <1>3 DEF Follows, WaitsOf
  <1>7. \A j \in LeadsOf(b) : j > b.i /\ j \in 1..Len(b.items)
                              /\ c.items[j].st \in {"recorded", "bad"}
    <2>1. DOMAIN b.items = 1..Len(b.items)
      BY <1>1
    <2>2. \A j \in LeadsOf(b) : j >= b.i /\ j # b.i /\ b.items[j].st \in {"recorded", "bad"}
                                /\ j \in DOMAIN b.items
      BY Zenon DEF InOrder, LeadsOf
    <2> QED BY <1>1, <1>3, <2>1, <2>2
  <1>8. InOrder(c)
    <2>1. Len(b.items) \in Nat
      BY <1>1
    <2> QED BY <1>1, <1>3, <1>4, <1>7, <2>1 DEF InOrder
  <1> QED BY Zenon, <1>3, <1>5, <1>6, <1>8 DEF c

(* A batch of a live store in terms of the invariant.                      *)
LEMMA BatchFacts ==
  ASSUME StoreInv, NEW t \in Threads
  PROVE  /\ put[t] \in Batches /\ InOrder(put[t]) /\ Follows(put[t], mem.flights)
         /\ mem \in Mems /\ hist \in [removed : SUBSET Keys, last : [Keys -> Vals \cup {None}]]
         /\ put[t].pc # "idle" => phase = "up"
  BY DEF StoreInv, StoreType, BatchesOk, QuietUnlessUp, NoBatch

LEMMA PlainBatchStep ==
  ASSUME StoreInv, NEW t \in Threads, NEW b \in Batches, phase = "up",
         put' = [put EXCEPT ![t] = b], lock' \in Threads \cup {None},
         InOrder(b), Follows(b, mem.flights), SameLeads(put[t], b),
         UNCHANGED <<mem, rd, media, phase, hist>>
  PROVE  StoreInv'
  <1>1. BatchesMove
    BY Zenon, OneBatchMoves DEF StoreInv
  <1>2. mem' \in Mems /\ hist' \in [removed : SUBSET Keys, last : [Keys -> Vals \cup {None}]]
    BY Zenon DEF StoreInv, StoreType
  <1> QED BY Zenon, <1>1, <1>2, OnlyBatchesMove

LEMMA PutBeginStep ==
  ASSUME StoreInv, NEW t \in Threads, PutBegin(t)
  PROVE  StoreInv'
  <1>1. PICK n \in 1..BatchMax : \E ks \in [1..n -> Keys], v \in Vals :
          put' = [put EXCEPT ![t] =
            [pc |-> "L1", i |-> 1,
             items |-> [j \in 1..n |-> [key |-> ks[j], val |-> v, st |-> "todo",
                                        by |-> None, seen |-> ks[j] \in mem.committed]]]]
    BY Zenon DEF PutBegin
  <1>2. PICK ks \in [1..n -> Keys], v \in Vals :
          put' = [put EXCEPT ![t] =
            [pc |-> "L1", i |-> 1,
             items |-> [j \in 1..n |-> [key |-> ks[j], val |-> v, st |-> "todo",
                                        by |-> None, seen |-> ks[j] \in mem.committed]]]]
    BY Zenon, <1>1
  <1> DEFINE items == [j \in 1..n |-> [key |-> ks[j], val |-> v, st |-> "todo",
                                       by |-> None, seen |-> ks[j] \in mem.committed]]
             b == [pc |-> "L1", i |-> 1, items |-> items]
  <1>3. n \in Nat /\ n >= 1
    BY StoreAssumption
  <1>4. items \in Seq(ItemRecs) /\ Len(items) = n /\ DOMAIN items = 1..n
        /\ \A j \in DOMAIN items : items[j].st = "todo"
    <2>1. \A j \in 1..n : [key |-> ks[j], val |-> v, st |-> "todo", by |-> None,
                           seen |-> ks[j] \in mem.committed] \in ItemRecs
      BY DEF ItemRecs, ItemStates
    <2> QED BY <1>3, <2>1
  <1> HIDE DEF items
  <1>5. b \in Batches
    BY Zenon, <1>4 DEF Batches
  <1>6. LeadsOf(b) = {} /\ WaitsOf(b) = {}
    BY Zenon, <1>4 DEF LeadsOf, WaitsOf, Leading
  <1>7. InOrder(b)
    BY <1>3, <1>4 DEF InOrder
  <1>8. Follows(b, mem.flights)
    BY Zenon, <1>6 DEF Follows
  <1>9. LeadsOf(put[t]) = {}
    BY Zenon, BatchFacts DEF PutBegin, InOrder
  <1>10. SameLeads(put[t], b)
    BY Zenon, <1>6, <1>9 DEF SameLeads
  <1> HIDE DEF b
  <1>11. put' = [put EXCEPT ![t] = b]
    BY Zenon, <1>2 DEF b, items
  <1>12. phase = "up" /\ lock' \in Threads \cup {None} /\ UNCHANGED <<mem, rd, media, phase, hist>>
    BY Zenon DEF PutBegin, Serving
  <1> QED BY Zenon, <1>5, <1>7, <1>8, <1>10, <1>11, <1>12, PlainBatchStep

(* CacheDirectBatch's L1: keep-first, a broken store, following, waiting.   *)
LEMMA JudgeSettledStep ==
  ASSUME StoreInv, NEW t \in Threads, Judge(t), JudgeSettled(t)
  PROVE  StoreInv'
  <1>1. PICK st \in {"ok", "ioerror", "follow"} : st # "follow" /\ Advance(t, st, "io")
    BY Zenon DEF JudgeSettled
  <1>2. put[t].pc = "L1" /\ phase = "up" /\ UNCHANGED <<mem, rd, media, phase, hist>>
    BY Zenon DEF Judge, JudgeSettled, Serving
  <1> DEFINE b == Settle(put[t], st, "io")
  <1>3. b \in Batches /\ InOrder(b) /\ Follows(b, mem.flights) /\ SameLeads(put[t], b)
    BY Zenon, <1>1, <1>2, BatchFacts, JudgedItem
  <1>4. put' = [put EXCEPT ![t] = b] /\ lock' \in Threads \cup {None}
    BY Zenon, <1>1 DEF Advance
  <1> HIDE DEF b
  <1> QED BY Zenon, <1>2, <1>3, <1>4, PlainBatchStep

LEMMA JudgeFollowStep ==
  ASSUME StoreInv, NEW t \in Threads, Judge(t), JudgeFollow(t)
  PROVE  StoreInv'
  <1>1. put[t].pc = "L1" /\ phase = "up" /\ UNCHANGED <<mem, rd, media, phase, hist>>
    BY Zenon DEF Judge, JudgeFollow, Serving
  <1>2. PICK b \in Batches : b = put[t] /\ InOrder(b) /\ Follows(b, mem.flights)
    BY Zenon, BatchFacts
  <1>3. PICK f : f = mem.flights
    BY Zenon
  <1>4. b.items \in Seq(ItemRecs) /\ b.i \in DOMAIN b.items /\ b.items[b.i] \in ItemRecs
        /\ b.items[b.i].st = "todo"
    <2>1. b.i \in 1..Len(b.items) /\ b.items \in Seq(ItemRecs)
      BY Zenon, <1>1, <1>2 DEF InOrder, Batches
    <2>2. b.i \in DOMAIN b.items /\ b.i >= b.i
      BY SMTT(60), <2>1
    <2> QED BY SMTT(60), <1>1, <1>2, <2>1, <2>2 DEF InOrder
  <1>5. PICK k \in Keys : k = b.items[b.i].key
    BY Zenon, <1>4 DEF ItemRecs
  <1>6. f[k] \in Threads
    BY Zenon, <1>1, <1>2, <1>3, <1>5, BatchFacts DEF JudgeFollow, Item, Mems
  <1> DEFINE it == [b.items[b.i] EXCEPT !.by = f[k]]
             s == [b.items EXCEPT ![b.i] = it]
             d == [b EXCEPT !.items[b.i].by = f[k]]
             c == Settle(d, "follow", "io")
  <1>7. it \in ItemRecs /\ it.by = f[k] /\ it.key = k /\ it.val = b.items[b.i].val
        /\ it.st = "todo"
    BY Zenon, <1>4, <1>5, <1>6 DEF ItemRecs
  <1>8. d = [b EXCEPT !.items = s]
    BY Zenon DEF Batches
  <1> HIDE DEF it, d
  <1>9. /\ s \in Seq(ItemRecs) /\ Len(s) = Len(b.items) /\ DOMAIN s = DOMAIN b.items
        /\ s[b.i] = it /\ \A j \in DOMAIN b.items : j # b.i => s[j] = b.items[j]
    BY <1>4, <1>7
  <1> HIDE DEF s
  <1>10. d \in Batches /\ d.items = s /\ d.i = b.i /\ d.pc = "L1"
    BY Zenon, <1>1, <1>2, <1>8, <1>9 DEF Batches
  <1>11. /\ DOMAIN d.items = DOMAIN b.items /\ Len(d.items) = Len(b.items)
         /\ \A j \in DOMAIN b.items : /\ d.items[j].st = b.items[j].st
                                      /\ d.items[j].key = b.items[j].key
                                      /\ d.items[j].val = b.items[j].val
                                      /\ d.items[j].st = "follow" => d.items[j] = b.items[j]
    BY Zenon, <1>4, <1>5, <1>7, <1>9, <1>10
  <1>12. InOrder(d)
    <2>1. b.pc = "L1" /\ d.pc = "L1" /\ d.i = b.i
      BY Zenon, <1>1, <1>2, <1>10
    <2>2. b.i \in 1..Len(b.items)
          /\ \A j \in DOMAIN b.items : j >= b.i => b.items[j].st = "todo"
      BY Zenon, <1>2, <2>1 DEF InOrder
    <2> QED BY Zenon, <1>11, <2>1, <2>2 DEF InOrder
  <1>13. Follows(d, f)
    <2>1. Follows(b, f)
      BY Zenon, <1>2, <1>3
    <2> QED BY Zenon, <1>11, <2>1 DEF Follows, WaitsOf
  <1>14. SameLeads(b, d)
    BY Zenon, <1>11 DEF SameLeads, LeadsOf
  <1>15. d.items[d.i].by # None /\ f[d.items[d.i].key] = d.items[d.i].by
    BY SMTT(60), <1>6, <1>7, <1>9, <1>10, StoreAssumption
  <1>16. c \in Batches /\ InOrder(c) /\ Follows(c, f) /\ SameLeads(d, c)
    BY Zenon, <1>10, <1>12, <1>13, <1>15, JudgedItem
  <1>17. SameLeads(b, c)
    BY Zenon, <1>14, <1>16 DEF SameLeads
  <1>18. put' = [put EXCEPT ![t] = c] /\ lock' \in Threads \cup {None}
    BY Zenon, <1>2, <1>3, <1>5 DEF JudgeFollow, Item, d
  <1> HIDE DEF c
  <1> QED BY Zenon, <1>1, <1>2, <1>3, <1>16, <1>17, <1>18, PlainBatchStep

LEMMA PcMoves ==
  ASSUME NEW flights, NEW b \in Batches, InOrder(b), Follows(b, flights),
         NEW p \in {"L1", "window", "io", "wait"},
         p \in {"L1", "window"} => b.pc \in {"L1", "window"},
         p = "wait" => LeadsOf(b) = {}
  PROVE  LET c == [b EXCEPT !.pc = p]
         IN  c \in Batches /\ InOrder(c) /\ Follows(c, flights) /\ SameLeads(b, c)
  <1> DEFINE c == [b EXCEPT !.pc = p]
  <1>1. c \in Batches /\ c.items = b.items /\ c.i = b.i /\ c.pc = p
    BY Zenon DEF Batches
  <1> HIDE DEF c
  <1>2. LeadsOf(c) = LeadsOf(b)
    BY Zenon, <1>1 DEF LeadsOf
  <1>3. SameLeads(b, c) /\ Follows(c, flights)
    BY Zenon, <1>1, <1>2 DEF SameLeads, Follows, WaitsOf
  <1>4. InOrder(c)
    BY Zenon, <1>1, <1>2 DEF InOrder
  <1> QED BY Zenon, <1>1, <1>3, <1>4 DEF c

LEMMA JudgeWindowStep ==
  ASSUME StoreInv, NEW t \in Threads, Judge(t), JudgeWindow(t)
  PROVE  StoreInv'
  <1>1. put[t].pc = "L1" /\ phase = "up" /\ UNCHANGED <<mem, rd, media, phase, hist>>
    BY Zenon DEF Judge, JudgeWindow, Serving
  <1> DEFINE b == [put[t] EXCEPT !.pc = "window"]
  <1>2. b \in Batches /\ InOrder(b) /\ Follows(b, mem.flights) /\ SameLeads(put[t], b)
    BY Zenon, <1>1, BatchFacts, PcMoves
  <1>3. put' = [put EXCEPT ![t] = b] /\ lock' \in Threads \cup {None}
    BY Zenon DEF JudgeWindow
  <1> HIDE DEF b
  <1> QED BY Zenon, <1>1, <1>2, <1>3, PlainBatchStep

LEMMA WindowClosedStep ==
  ASSUME StoreInv, NEW t \in Threads, WindowClosed(t)
  PROVE  StoreInv'
  <1>1. put[t].pc = "window" /\ phase = "up" /\ UNCHANGED <<mem, rd, media, phase, hist>>
    BY Zenon DEF WindowClosed, Serving
  <1> DEFINE b == [put[t] EXCEPT !.pc = "L1"]
  <1>2. b \in Batches /\ InOrder(b) /\ Follows(b, mem.flights) /\ SameLeads(put[t], b)
    BY Zenon, <1>1, BatchFacts, PcMoves
  <1>3. put' = [put EXCEPT ![t] = b] /\ lock' \in Threads \cup {None}
    BY Zenon DEF WindowClosed
  <1> HIDE DEF b
  <1> QED BY Zenon, <1>1, <1>2, <1>3, PlainBatchStep

LEMMA WindowTimeoutStep ==
  ASSUME StoreInv, NEW t \in Threads, WindowTimeout(t)
  PROVE  StoreInv'
  <1>1. put[t].pc = "window" /\ phase = "up" /\ UNCHANGED <<mem, rd, media, phase, hist>>
    BY Zenon DEF WindowTimeout, Serving
  <1> DEFINE d == [put[t] EXCEPT !.pc = "L1"]
             b == Settle(d, "ioerror", "io")
  <1>2. d \in Batches /\ InOrder(d) /\ Follows(d, mem.flights) /\ SameLeads(put[t], d)
    BY Zenon, <1>1, BatchFacts, PcMoves
  <1>3. d.pc = "L1"
    BY Zenon, BatchFacts DEF Batches
  <1>4. put' = [put EXCEPT ![t] = b] /\ lock' \in Threads \cup {None}
    BY Zenon DEF WindowTimeout
  <1> HIDE DEF d
  <1>5. b \in Batches /\ InOrder(b) /\ Follows(b, mem.flights) /\ SameLeads(d, b)
    BY Zenon, <1>2, <1>3, JudgedItem
  <1>6. SameLeads(put[t], b)
    BY Zenon, <1>2, <1>5 DEF SameLeads
  <1> HIDE DEF b
  <1> QED BY Zenon, <1>1, <1>4, <1>5, <1>6, PlainBatchStep

LEMMA L2BeginStep ==
  ASSUME StoreInv, NEW t \in Threads, L2Begin(t)
  PROVE  StoreInv'
  <1>1. put[t].pc = "io" /\ phase = "up" /\ UNCHANGED <<mem, rd, media, phase, hist>>
    BY Zenon DEF L2Begin, Serving
  <1>2. Leads(t) = LeadsOf(put[t])
    BY Zenon DEF Leads, LeadsOf, Leading
  <1>3. put[t] \in Batches /\ InOrder(put[t]) /\ Follows(put[t], mem.flights)
    BY Zenon, BatchFacts
  <1>4. CASE LeadsOf(put[t]) = {}
    <2> DEFINE b == [put[t] EXCEPT !.pc = "wait"]
    <2>1. b \in Batches /\ InOrder(b) /\ Follows(b, mem.flights) /\ SameLeads(put[t], b)
      BY Zenon, <1>3, <1>4, PcMoves
    <2>2. put' = [put EXCEPT ![t] = b] /\ lock' \in Threads \cup {None}
      BY Zenon, <1>2, <1>4 DEF L2Begin
    <2> HIDE DEF b
    <2> QED BY Zenon, <1>1, <2>1, <2>2, PlainBatchStep
  <1>5. CASE LeadsOf(put[t]) # {}
    <2>1. PICK a \in Batches : a = put[t]
      BY Zenon, <1>3
    <2> DEFINE b == [a EXCEPT !.pc = "L2", !.i = 1]
    <2>2. b \in Batches /\ b.items = a.items /\ b.i = 1 /\ b.pc = "L2"
      BY Zenon DEF Batches
    <2>3. put' = [put EXCEPT ![t] = b] /\ lock' \in Threads \cup {None}
      BY Zenon, <1>2, <1>5, <2>1 DEF L2Begin
    <2> HIDE DEF b
    <2>4. a.items \in Seq(ItemRecs)
      BY Zenon DEF Batches
    <2>5. LeadsOf(b) = LeadsOf(a)
      BY Zenon, <2>2 DEF LeadsOf
    <2>6. SameLeads(a, b) /\ Follows(b, mem.flights)
      BY Zenon, <1>3, <2>1, <2>2, <2>5 DEF SameLeads, Follows, WaitsOf
    <2>7. InOrder(b)
      <3>1. \A j \in LeadsOf(a) : j \in 1..Len(a.items) /\ a.items[j].st \in {"recorded", "bad"}
        BY <2>1, <2>4 DEF L2Begin, LeadsOf, Leading
      <3>2. 1 \in 1..Len(a.items)
        BY <1>5, <2>1, <2>4, <3>1
      <3> QED BY SMTT(60), <2>2, <2>4, <2>5, <3>1, <3>2 DEF InOrder
    <2> QED BY Zenon, <1>1, <2>1, <2>2, <2>3, <2>6, <2>7, PlainBatchStep
  <1> QED BY Zenon, <1>4, <1>5

LEMMA PutAnswerStep ==
  ASSUME StoreInv, NEW t \in Threads, PutAnswer(t)
  PROVE  StoreInv'
  <1>1. put[t].pc = "wait" /\ phase = "up" /\ UNCHANGED <<mem, rd, media, phase, hist>>
    BY Zenon DEF PutAnswer, Serving
  <1>2. NoBatch \in Batches /\ LeadsOf(NoBatch) = {} /\ WaitsOf(NoBatch) = {}
    BY DEF NoBatch, Batches, LeadsOf, WaitsOf
  <1>3. InOrder(NoBatch) /\ Follows(NoBatch, mem.flights)
    BY Zenon, <1>2 DEF InOrder, Follows, NoBatch
  <1>4. SameLeads(put[t], NoBatch)
    BY Zenon, <1>1, <1>2, BatchFacts DEF InOrder, SameLeads
  <1>5. put' = [put EXCEPT ![t] = NoBatch] /\ lock' \in Threads \cup {None}
    BY Zenon DEF PutAnswer, StoreInv, StoreType
  <1> QED BY Zenon, <1>1, <1>2, <1>3, <1>4, <1>5, PlainBatchStep

-----------------------------------------------------------------------------
(* Steps that change who holds a slot.                                     *)

(* The readers of a key pin its slot.                                      *)
LEMMA ReadersPin ==
  ASSUME StoreInv, NEW r \in Readers, rd[r] # NoRead
  PROVE  /\ rd[r].key \in Keys /\ rd[r].slot \in Slots
         /\ mem.owner[rd[r].slot] = rd[r].key /\ mem.data[rd[r].slot] = rd[r].want
         /\ rd[r].key \in mem.committed \cup mem.deferred
         /\ mem.inflight[rd[r].key] > 0 /\ mem.pins[rd[r].slot] > 0
  <1>1. /\ rd[r].key \in mem.committed \cup mem.deferred /\ rd[r].slot \in Slots
        /\ mem.owner[rd[r].slot] = rd[r].key /\ mem.data[rd[r].slot] = rd[r].want
    BY Zenon DEF StoreInv, Holders, ReadsArePinned
  <1>2. rd[r].key \in Keys
    BY Zenon, <1>1 DEF StoreInv, StoreType, Mems
  <1>3. ReadersOf(rd[r].key) # {} /\ ReadersOf(rd[r].key) \subseteq Readers
    BY Zenon DEF ReadersOf
  <1>4. IsFiniteSet(ReadersOf(rd[r].key))
    BY Zenon, <1>3, FS_Subset, StoreAssumption
  <1>5. Cardinality(ReadersOf(rd[r].key)) \in Nat /\ Cardinality(ReadersOf(rd[r].key)) # 0
    BY Zenon, <1>3, <1>4, FS_EmptySet, FS_CardinalityType
  <1>6. mem.inflight[rd[r].key] = Cardinality(ReadersOf(rd[r].key)) + Flying(rd[r].key)
    BY Zenon, <1>2 DEF StoreInv, Holders, HoldersAreCounted
  <1>7. Flying(rd[r].key) \in {0, 1}
    BY Zenon DEF Flying
  <1>8. mem.inflight[rd[r].key] > 0
    BY SMTT(60), <1>5, <1>6, <1>7
  <1>9. mem.pins[rd[r].slot] = mem.inflight[rd[r].key]
    BY Zenon, <1>1, <1>2, StoreAssumption DEF StoreInv, Holders, SlotsAreOwned
  <1> QED BY Zenon, <1>1, <1>2, <1>8, <1>9

(* L1: the batch takes a slot and becomes the key's leader.                *)
LEMMA LeadStep ==
  ASSUME StoreInv, NEW t \in Threads, NEW k \in Keys, NEW s \in Slots,
         phase = "up", put[t].pc = "L1", put[t].items[put[t].i].key = k,
         k \notin mem.committed, mem.flights[k] = None, k \notin mem.deferred,
         ~mem.failed, Holding(mem, k) = {}, TakesSlot(mem', k, t, s),
         put' = [put EXCEPT ![t] = Settle(put[t], "lead", "io")],
         lock' \in Threads \cup {None}, UNCHANGED <<rd, media, phase>>,
         hist' = [hist EXCEPT !.removed = @ \ {k}]
  PROVE  StoreInv'
  <1> USE DEF StoreInv, TakesSlot
  <1>1. /\ mem \in Mems /\ put \in [Threads -> Batches]
        /\ hist' \in [removed : SUBSET Keys, last : [Keys -> Vals \cup {None}]]
        /\ hist'.removed = hist.removed \ {k} /\ hist'.last = hist.last
    BY Zenon DEF StoreType
  <1>2. /\ mem'.owner[s] = k /\ mem'.rec[s] = None /\ mem'.pins[s] = 1
        /\ \A u \in Slots : u # s => /\ mem'.owner[u] = mem.owner[u] /\ mem'.rec[u] = mem.rec[u]
                                     /\ mem'.pins[u] = mem.pins[u]
    BY <1>1 DEF Mems, Table
  <1>3. /\ mem'.inflight[k] = mem.inflight[k] + 1 /\ mem'.flights[k] = t
        /\ \A x \in Keys : x # k => /\ mem'.inflight[x] = mem.inflight[x]
                                    /\ mem'.flights[x] = mem.flights[x]
    BY <1>1 DEF Mems
  <1>4. \A u \in Slots : mem.owner[u] # k
    BY Zenon DEF Holding
  <1>5. mem.inflight[k] = 0
    <2>1. ~(mem.inflight[k] > 0)
      BY <1>4 DEF Holders, SlotsAreOwned
    <2>2. mem.inflight[k] \in Nat
      BY <1>1 DEF Mems
    <2> QED BY <2>1, <2>2
  <1>6. ReadersOf(k) = {}
    <2> SUFFICES ASSUME NEW r \in Readers, rd[r].key = k PROVE FALSE
      BY Zenon DEF ReadersOf
    <2>1. rd[r] # NoRead
      BY StoreAssumption DEF NoRead
    <2> QED BY <1>4, <2>1, ReadersPin
  <1>7. \A x \in Keys : ReadersOf(x)' = ReadersOf(x)
    BY Zenon DEF ReadersOf
  <1>8. \A u \in Slots : u # s /\ mem.owner[u] # None => mem.owner[u] # mem.owner[s]
    BY DEF Holders, SlotsAreOwned
  <1>9. StoreType'
    <2>1. put[t] \in Batches /\ put[t].i \in 1..Len(put[t].items)
      BY Zenon, <1>1, BatchFacts DEF InOrder
    <2>2. Settle(put[t], "lead", "io") \in Batches
      <3>1. "lead" \in ItemStates
        BY Zenon DEF ItemStates
      <3> QED BY Zenon, <2>1, <3>1, SettleEffect
    <2>3. put' \in [Threads -> Batches]
      BY Zenon, <1>1, <2>2
    <2> QED BY Zenon, <1>1, <2>3 DEF StoreType
  <1>10. SlotsAreOwned'
    <2>1. \A u, v \in Slots : mem'.owner[u] # None /\ mem'.owner[u] = mem'.owner[v] => u = v
      BY <1>2, <1>4 DEF Holders, SlotsAreOwned
    <2>2. ASSUME NEW u \in Slots
          PROVE  mem'.pins[u] = IF mem'.owner[u] = None THEN 0 ELSE mem'.inflight[mem'.owner[u]]
      <3>1. CASE u = s
        BY SMTT(60), <1>2, <1>3, <1>5, <3>1, StoreAssumption
      <3>2. CASE u # s
        <4>1. mem.owner[u] # None => mem.owner[u] \in Keys
          BY <1>1 DEF Mems, Table
        <4> QED BY SMTT(60), <1>2, <1>3, <1>4, <3>2, <4>1 DEF Holders, SlotsAreOwned
      <3> QED BY Zenon, <3>1, <3>2
    <2>3. ASSUME NEW x \in Keys, mem'.inflight[x] > 0
          PROVE  \E u \in Slots : mem'.owner[u] = x
      <3>1. CASE x = k
        BY Zenon, <1>2, <3>1
      <3>2. CASE x # k
        <4>1. mem.inflight[x] > 0
          BY Zenon, <1>3, <2>3, <3>2
        <4>2. PICK u \in Slots : mem.owner[u] = x
          BY Zenon, <4>1 DEF Holders, SlotsAreOwned
        <4>3. mem.pins[u] = mem.inflight[x]
          BY Zenon, <4>2, StoreAssumption DEF Holders, SlotsAreOwned
        <4>4. u # s
          BY <4>1, <4>3
        <4> QED BY Zenon, <1>2, <4>2, <4>4
      <3> QED BY Zenon, <3>1, <3>2
    <2> QED BY Zenon, <2>1, <2>2, <2>3 DEF SlotsAreOwned
  <1>11. HoldersAreCounted'
    <2> SUFFICES ASSUME NEW x \in Keys
                 PROVE  /\ mem'.inflight[x] = Cardinality(ReadersOf(x)) + Flying(x)'
                        /\ mem'.flights[x] # None => x \notin mem'.committed /\ ReadersOf(x) = {}
                        /\ x \in mem'.deferred => mem'.inflight[x] > 0 /\ x \notin mem'.committed
      BY <1>7 DEF HoldersAreCounted
    <2>1. CASE x = k
      <3>1. Cardinality(ReadersOf(k)) = 0
        BY Zenon, <1>6, FS_EmptySet
      <3>2. Flying(k)' = 1
        BY <1>3, StoreAssumption DEF Flying
      <3> QED BY Zenon, <1>3, <1>5, <1>6, <2>1, <3>1, <3>2
    <2>2. CASE x # k
      <3>1. Flying(x)' = Flying(x)
        BY Zenon, <1>3, <2>2 DEF Flying
      <3> QED BY <1>3, <2>2, <3>1 DEF Holders, HoldersAreCounted
    <2> QED BY Zenon, <2>1, <2>2
  <1>12. ReadsArePinned'
    <2> SUFFICES ASSUME NEW r \in Readers, rd[r] # NoRead
                 PROVE  /\ rd[r].key \in mem'.committed \cup mem'.deferred /\ rd[r].slot \in Slots
                        /\ mem'.owner[rd[r].slot] = rd[r].key
                        /\ mem'.data[rd[r].slot] = rd[r].want
      BY Zenon DEF ReadsArePinned
    <2>1. /\ rd[r].key \in Keys /\ rd[r].slot \in Slots
          /\ mem.owner[rd[r].slot] = rd[r].key /\ mem.data[rd[r].slot] = rd[r].want
          /\ rd[r].key \in mem.committed \cup mem.deferred /\ mem.pins[rd[r].slot] > 0
      BY Zenon, ReadersPin
    <2>2. rd[r].slot # s
      BY <2>1
    <2>3. rd[r].key # mem.owner[s]
      BY SMTT(60), <1>8, <2>1, <2>2, StoreAssumption
    <2> QED BY Zenon, <1>2, <2>1, <2>2, <2>3
  <1>13. BatchesOk'
    <2>1. PICK b \in Batches : b = put[t] /\ InOrder(b) /\ Follows(b, mem.flights)
      BY Zenon, BatchFacts
    <2>2. b.i \in 1..Len(b.items) /\ b.items \in Seq(ItemRecs) /\ b.i \in DOMAIN b.items
          /\ \A j \in DOMAIN b.items : j >= b.i => b.items[j].st = "todo"
      BY <2>1 DEF InOrder, Batches
    <2>3. PICK c : c = Settle(b, "lead", "io")
      BY Zenon
    <2>4. /\ c \in Batches /\ Len(c.items) = Len(b.items)
          /\ DOMAIN c.items = DOMAIN b.items
          /\ c.items[b.i].st = "lead"
          /\ \A j \in DOMAIN b.items :
               /\ c.items[j].key = b.items[j].key /\ c.items[j].val = b.items[j].val
               /\ c.items[j].by = b.items[j].by
               /\ j # b.i => c.items[j].st = b.items[j].st
          /\ c.i = IF b.i = Len(b.items) THEN 0 ELSE b.i + 1
          /\ c.pc = IF b.i = Len(b.items) THEN "io" ELSE "L1"
      <3>1. "lead" \in ItemStates
        BY Zenon DEF ItemStates
      <3> QED BY SMTT(30), <2>1, <2>2, <2>3, <3>1, SettleEffect
    <2>5. put'[t] = c /\ \A u \in Threads : u # t => put'[u] = put[u]
      BY Zenon, <1>1, <2>1, <2>3
    <2>6. LeadsOf(c) = LeadsOf(b) \cup {b.i} /\ b.i \notin LeadsOf(b)
      BY <2>2, <2>4 DEF LeadsOf, Leading
    <2>7. InOrder(c)
      <3>1. DOMAIN b.items = 1..Len(b.items) /\ Len(b.items) \in Nat
        BY SMTT(60), <2>2
      <3> QED BY SMTT(30), <2>2, <2>4, <3>1 DEF InOrder
    <2>8. \A u \in Threads : Follows(put[u], mem'.flights)
      <3>1. \A u \in Threads : Follows(put[u], mem.flights) /\ put[u] \in Batches
        BY Zenon, BatchFacts
      <3>2. \A u \in Threads : \A j \in WaitsOf(put[u]) : put[u].items[j].key \in Keys
        BY Zenon, <3>1, ItemType DEF WaitsOf
      <3> QED BY <1>3, <3>1, <3>2 DEF Follows
    <2>9. Follows(c, mem'.flights)
      <3>1. \A j \in WaitsOf(c) : j \in WaitsOf(b) /\ c.items[j].by = b.items[j].by
                                  /\ c.items[j].key = b.items[j].key
        BY Zenon, <2>4 DEF WaitsOf
      <3> QED BY SMTT(60), <2>1, <2>8, <3>1 DEF Follows
    <2>10. \A u \in Threads : InOrder(put'[u]) /\ Follows(put'[u], mem'.flights)
      BY Zenon, <2>5, <2>7, <2>8, <2>9, BatchFacts
    <2>11. \A u \in Threads : \A j \in LeadsOf(put[u]) :
             /\ put[u].items[j].key \in Keys \ {k} /\ mem'.flights[put[u].items[j].key] = u
      <3> SUFFICES ASSUME NEW u \in Threads, NEW j \in LeadsOf(put[u])
                   PROVE  /\ put[u].items[j].key \in Keys \ {k}
                          /\ mem'.flights[put[u].items[j].key] = u
        BY Zenon
      <3>1. put[u].items[j].key \in Keys
        BY Zenon, <1>1, ItemType DEF LeadsOf
      <3>2. mem.flights[put[u].items[j].key] = u /\ u # None
        BY SMTT(60), StoreAssumption DEF BatchesOk, FlightsAreLed
      <3> QED BY Zenon, <1>3, <3>1, <3>2
    <2>12. \A u \in Threads : \A j \in LeadsOf(put'[u]) :
             /\ mem'.flights[put'[u].items[j].key] = u
             /\ \A l \in LeadsOf(put'[u]) : put'[u].items[l].key = put'[u].items[j].key => l = j
      <3>1. ASSUME NEW u \in Threads, u # t
            PROVE  \A j \in LeadsOf(put'[u]) :
                     /\ mem'.flights[put'[u].items[j].key] = u
                     /\ \A l \in LeadsOf(put'[u]) :
                          put'[u].items[l].key = put'[u].items[j].key => l = j
        BY SMTT(60), <2>5, <2>11, <3>1 DEF BatchesOk, FlightsAreLed
      <3>2. \A j \in LeadsOf(c) : mem'.flights[c.items[j].key] = t
        BY SMTT(30), <1>3, <2>1, <2>2, <2>4, <2>6, <2>11 DEF LeadsOf
      <3>3. \A j, l \in LeadsOf(b) : c.items[j].key = c.items[l].key => l = j
        BY SMTT(60), <2>1, <2>4 DEF LeadsOf, BatchesOk, FlightsAreLed
      <3>4. \A j \in LeadsOf(b) : c.items[j].key # k
        BY SMTT(60), <2>1, <2>4, <2>11 DEF LeadsOf
      <3>5. c.items[b.i].key = k
        BY Zenon, <2>1, <2>2, <2>4
      <3>6. \A j, l \in LeadsOf(c) : c.items[j].key = c.items[l].key => l = j
        BY SMTT(60), <2>6, <3>3, <3>4, <3>5
      <3> QED BY SMTT(60), <2>5, <3>1, <3>2, <3>6
    <2>13. \A x \in Keys : mem'.flights[x] # None =>
             \E j \in LeadsOf(put'[mem'.flights[x]]) : put'[mem'.flights[x]].items[j].key = x
      <3> SUFFICES ASSUME NEW x \in Keys, mem'.flights[x] # None
                   PROVE  \E j \in LeadsOf(put'[mem'.flights[x]]) :
                            put'[mem'.flights[x]].items[j].key = x
        BY Zenon
      <3>1. CASE x = k
        <4>1. c.items[b.i].key = k
          BY Zenon, <2>1, <2>2, <2>4
        <4> QED BY SMTT(30), <1>3, <2>5, <2>6, <3>1, <4>1
      <3>2. CASE x # k
        <4>1. mem'.flights[x] = mem.flights[x] /\ mem.flights[x] \in Threads
          BY SMTT(60), <1>1, <1>3, <3>2 DEF Mems
        <4>2. PICK j \in LeadsOf(put[mem.flights[x]]) : put[mem.flights[x]].items[j].key = x
          BY Zenon, <4>1 DEF BatchesOk, FlightsAreLed
        <4>3. CASE mem.flights[x] = t
          <5>1. j \in LeadsOf(c) /\ c.items[j].key = x
            BY SMTT(60), <2>1, <2>4, <2>6, <4>2, <4>3 DEF LeadsOf
          <5> QED BY SMTT(30), <2>5, <4>1, <4>3, <5>1
        <4>4. CASE mem.flights[x] # t
          BY SMTT(60), <2>5, <4>1, <4>2, <4>4
        <4> QED BY Zenon, <4>3, <4>4
      <3> QED BY Zenon, <3>1, <3>2
    <2>14. FlightsAreLed'
      BY Zenon, <2>12, <2>13 DEF FlightsAreLed
    <2>15. QuietUnlessUp'
      BY Zenon DEF QuietUnlessUp
    <2> QED BY Zenon, <2>10, <2>14, <2>15 DEF BatchesOk
  <1>14. CommittedIsWhole'
    <2> SUFFICES ASSUME NEW x \in mem'.committed
                 PROVE  /\ x \notin hist'.removed /\ hist'.last[x] # None
                        /\ \E u \in Slots : /\ mem'.owner[u] = x /\ mem'.rec[u] = x
                                            /\ mem'.data[u] = <<x, hist'.last[x]>>
      BY Zenon DEF CommittedIsWhole
    <2>1. x \in mem.committed /\ x # mem.owner[s]
      BY Zenon
    <2>2. PICK u \in Slots : /\ mem.owner[u] = x /\ mem.rec[u] = x
                             /\ mem.data[u] = <<x, hist.last[x]>>
      BY ZenonT(60), <2>1 DEF Bytes, CommittedIsWhole
    <2> QED BY <1>1, <1>2, <2>1, <2>2 DEF Bytes, CommittedIsWhole
  <1>15. WrittenInOrder'
    <2>1. ASSUME NEW u \in Threads, NEW j \in LeadsOf(put'[u]), NEW v \in Slots,
                 mem'.owner[v] = put'[u].items[j].key
          PROVE  /\ put'[u].items[j].st \in {"written", "recorded"} =>
                      mem'.data[v] = <<put'[u].items[j].key, put'[u].items[j].val>>
                 /\ put'[u].items[j].st = "recorded" => mem'.rec[v] = put'[u].items[j].key
                 /\ put'[u].items[j].st # "recorded" /\ ~mem'.failed => mem'.rec[v] = None
      <3>1. put[t] \in Batches /\ put[t].i \in 1..Len(put[t].items)
            /\ put[t].i \in DOMAIN put[t].items
        BY <1>1, BatchFacts DEF InOrder, Batches
      <3>2. PICK c : c = Settle(put[t], "lead", "io")
        BY Zenon
      <3>3. "lead" \in ItemStates
        BY Zenon DEF ItemStates
      <3>4. /\ DOMAIN c.items = DOMAIN put[t].items
            /\ c.items[put[t].i].st = "lead"
            /\ \A l \in DOMAIN put[t].items :
                 /\ c.items[l].key = put[t].items[l].key /\ c.items[l].val = put[t].items[l].val
                 /\ l # put[t].i => c.items[l].st = put[t].items[l].st
        BY SMTT(30), <3>1, <3>2, <3>3, SettleEffect
      <3>5. put'[t] = c /\ (u # t => put'[u] = put[u])
        BY Zenon, <1>1, <3>2
      <3>6. CASE u = t /\ j = put[t].i
        <4>1. put'[u].items[j].st = "lead" /\ put'[u].items[j].key = k
          BY SMTT(60), <3>1, <3>4, <3>5, <3>6
        <4>2. v = s
          BY Zenon, <1>2, <1>4, <2>1, <4>1
        <4> QED BY Zenon, <1>2, <4>1, <4>2
      <3>7. CASE ~(u = t /\ j = put[t].i)
        <4>1. /\ j \in LeadsOf(put[u]) /\ put'[u].items[j].key = put[u].items[j].key
              /\ put'[u].items[j].val = put[u].items[j].val
              /\ put'[u].items[j].st = put[u].items[j].st
          BY SMTT(60), <3>4, <3>5, <3>7 DEF LeadsOf
        <4>2. put[u].items[j].key # k
          BY SMTT(60), <4>1, StoreAssumption DEF BatchesOk, FlightsAreLed
        <4>3. v # s /\ mem.owner[v] = put[u].items[j].key
          BY Zenon, <1>2, <2>1, <4>1, <4>2
        <4> QED BY SMTT(60), <1>2, <4>1, <4>3 DEF Bytes, WrittenInOrder
      <3> QED BY Zenon, <3>6, <3>7
    <2>2. \A x \in Keys : mem'.flights[x] # None /\ x \notin mem'.deferred => x \notin hist'.removed
      BY Zenon, <1>1, <1>3 DEF Bytes, WrittenInOrder
    <2> QED BY Zenon, <2>1, <2>2 DEF WrittenInOrder
  <1>16. TableIsLive'
    <2> SUFFICES ASSUME NEW u \in Slots, mem'.rec[u] # None
                 PROVE  /\ mem'.owner[u] = mem'.rec[u]
                        /\ mem'.rec[u] \in mem'.committed \/ mem'.inflight[mem'.rec[u]] > 0
      BY Zenon DEF TableIsLive
    <2>1. u # s /\ mem'.rec[u] = mem.rec[u] /\ mem'.owner[u] = mem.owner[u]
      BY Zenon, <1>2
    <2>2. /\ mem.owner[u] = mem.rec[u]
          /\ mem.rec[u] \in mem.committed \/ mem.inflight[mem.rec[u]] > 0
      BY Zenon, <2>1 DEF Bytes, TableIsLive
    <2>3. mem.rec[u] # mem.owner[s] /\ mem.rec[u] # k /\ mem.rec[u] \in Keys
      BY SMTT(30), <1>1, <1>4, <1>8, <2>1, <2>2 DEF Mems, Table
    <2> QED BY SMTT(60), <1>3, <2>1, <2>2, <2>3
  <1>17. RestartIsExact'
    BY Zenon, UpIsDirty
  <1> QED BY SMTT(30), <1>9, <1>10, <1>11, <1>12, <1>13, <1>14, <1>15, <1>16, <1>17
          DEF Holders, Bytes

(* A key that is led: one slot, no readers, not committed.                 *)
LEMMA LedKey ==
  ASSUME StoreInv, NEW t \in Threads, NEW j \in LeadsOf(put[t])
  PROVE  LET k == put[t].items[j].key
         IN  /\ k \in Keys /\ mem.flights[k] = t /\ t # None
             /\ mem.inflight[k] = 1 /\ ReadersOf(k) = {} /\ k \notin mem.committed
             /\ \E s \in Slots : /\ mem.owner[s] = k /\ mem.pins[s] = 1
                                 /\ Holding(mem, k) = {s} /\ SlotOf(mem, k) = s
                                 /\ \A u \in Slots : mem.owner[u] = k => u = s
             /\ \A u \in Threads : \A l \in LeadsOf(put[u]) :
                  put[u].items[l].key = k => u = t /\ l = j
  <1> USE DEF StoreInv
  <1>1. PICK k \in Keys : k = put[t].items[j].key
    BY Zenon, BatchFacts, ItemType DEF LeadsOf
  <1>2. mem.flights[k] = t /\ t # None /\ mem \in Mems
    BY SMTT(60), <1>1, StoreAssumption DEF BatchesOk, FlightsAreLed, StoreType
  <1>3. ReadersOf(k) = {} /\ k \notin mem.committed
    BY Zenon, <1>2 DEF Holders, HoldersAreCounted
  <1>4. mem.inflight[k] = 1
    <2>1. Cardinality(ReadersOf(k)) = 0
      BY Zenon, <1>3, FS_EmptySet
    <2>2. mem.inflight[k] = Cardinality(ReadersOf(k)) + Flying(k)
      BY Zenon DEF Holders, HoldersAreCounted
    <2> QED BY <1>2, <2>1, <2>2 DEF Flying
  <1>5. PICK s \in Slots : mem.owner[s] = k
    BY <1>4 DEF Holders, SlotsAreOwned
  <1>6. mem.pins[s] = 1
    BY Zenon, <1>4, <1>5, StoreAssumption DEF Holders, SlotsAreOwned
  <1>7. \A u \in Slots : mem.owner[u] = k => u = s
    BY <1>5, StoreAssumption DEF Holders, SlotsAreOwned
  <1>8. Holding(mem, k) = {s} /\ SlotOf(mem, k) = s
    BY SMTT(60), <1>2, <1>5, <1>7, SlotOfOwner
  <1>9. \A u \in Threads : \A l \in LeadsOf(put[u]) :
          put[u].items[l].key = k => u = t /\ l = j
    BY <1>1, <1>2 DEF BatchesOk, FlightsAreLed
  <1> QED BY SMTT(30), <1>1, <1>2, <1>3, <1>4, <1>5, <1>6, <1>7, <1>8, <1>9

(* A write of a led item's payload or record, that succeeds or fails.      *)
WroteItem(t, j, st, s, bytes, r) ==
  LET it == put[t].items[j]
  IN  /\ put[t].pc = "io" /\ phase = "up" /\ mem.owner[s] = it.key
      /\ put' = [put EXCEPT ![t] = [put[t] EXCEPT !.items[j].st = st]]
      /\ UNCHANGED <<lock, rd, media, phase, hist>>
      /\ mem' \in Mems /\ mem'.owner = mem.owner /\ mem'.doomed = mem.doomed
      /\ mem'.committed = mem.committed /\ mem'.pins = mem.pins
      /\ mem'.inflight = mem.inflight /\ mem'.flights = mem.flights
      /\ mem'.deferred = mem.deferred /\ (mem.failed => mem'.failed)
      /\ mem'.rec = [mem.rec EXCEPT ![s] = r] /\ mem'.data = [mem.data EXCEPT ![s] = bytes]
      /\ st \in {"written", "recorded"} => bytes = <<it.key, it.val>>
      /\ st = "recorded" => r = it.key
      /\ ~mem'.failed => r = IF st = "recorded" THEN it.key ELSE None

LEMMA WriteStep ==
  ASSUME StoreInv, NEW t \in Threads, NEW j \in LeadsOf(put[t]), NEW st \in Leading,
         NEW s \in Slots, NEW bytes, NEW r, WroteItem(t, j, st, s, bytes, r)
  PROVE  StoreInv'
  <1>0. LET x == put[t].items[j].key
        IN  /\ x \in Keys /\ mem.flights[x] = t /\ t # None
            /\ mem.inflight[x] = 1 /\ ReadersOf(x) = {} /\ x \notin mem.committed
            /\ \A u \in Threads : \A l \in LeadsOf(put[u]) :
                 put[u].items[l].key = x => u = t /\ l = j
    BY SMTT(30), LedKey
  <1>a. PICK k, val : k = put[t].items[j].key /\ val = put[t].items[j].val
    BY Zenon
  <1>b. /\ put[t].pc = "io" /\ phase = "up" /\ mem.owner[s] = k
        /\ put' = [put EXCEPT ![t] = [put[t] EXCEPT !.items[j].st = st]]
        /\ lock' = lock /\ rd' = rd /\ media' = media /\ phase' = phase /\ hist' = hist
        /\ mem' \in Mems /\ mem'.owner = mem.owner /\ mem'.doomed = mem.doomed
        /\ mem'.committed = mem.committed /\ mem'.pins = mem.pins
        /\ mem'.inflight = mem.inflight /\ mem'.flights = mem.flights
        /\ mem'.deferred = mem.deferred /\ (mem.failed => mem'.failed)
        /\ mem'.rec = [mem.rec EXCEPT ![s] = r] /\ mem'.data = [mem.data EXCEPT ![s] = bytes]
        /\ st \in {"written", "recorded"} => bytes = <<k, val>>
        /\ st = "recorded" => r = k
        /\ ~mem'.failed => r = IF st = "recorded" THEN k ELSE None
    BY Zenon, <1>a DEF WroteItem
  <1> USE <1>b DEF StoreInv
  <1>1. /\ mem \in Mems /\ put \in [Threads -> Batches] /\ put[t] \in Batches
        /\ j \in DOMAIN put[t].items /\ st \in ItemStates
    BY Zenon DEF StoreType, LeadsOf, Leading, ItemStates
  <1>2. /\ k \in Keys /\ mem.flights[k] = t /\ t # None
        /\ mem.inflight[k] = 1 /\ ReadersOf(k) = {} /\ k \notin mem.committed
        /\ \A u \in Threads : \A l \in LeadsOf(put[u]) :
             put[u].items[l].key = k => u = t /\ l = j
    BY <1>0, <1>a
  <1>3. /\ mem'.rec[s] = r /\ mem'.data[s] = bytes
        /\ \A u \in Slots : u # s => mem'.rec[u] = mem.rec[u] /\ mem'.data[u] = mem.data[u]
    BY Zenon, <1>1 DEF Mems, Table, Contents
  <1>4. PICK b \in Batches : b = put[t] /\ InOrder(b) /\ Follows(b, mem.flights)
    BY Zenon, BatchFacts
  <1>5. PICK c : c = [b EXCEPT !.items[j].st = st]
    BY Zenon
  <1>6. /\ c \in Batches /\ Len(c.items) = Len(b.items)
        /\ DOMAIN c.items = DOMAIN b.items /\ c.i = b.i /\ c.pc = b.pc
        /\ c.items[j].st = st
        /\ \A l \in DOMAIN b.items :
             /\ c.items[l].key = b.items[l].key /\ c.items[l].val = b.items[l].val
             /\ c.items[l].by = b.items[l].by
             /\ l # j => c.items[l].st = b.items[l].st
    BY <1>1, <1>4, <1>5, ItemEffect
  <1>7. put'[t] = c /\ \A u \in Threads : u # t => put'[u] = put[u]
    BY Zenon, <1>1, <1>4, <1>5
  <1>8. LeadsOf(c) = LeadsOf(b) /\ \A l \in LeadsOf(b) : c.items[l].key = b.items[l].key
    BY <1>4, <1>6 DEF LeadsOf
  <1>9. StoreType'
    <2>1. put' \in [Threads -> Batches]
      BY Zenon, <1>1, <1>4, <1>5, <1>6
    <2> QED BY Zenon, <2>1 DEF StoreType
  <1>10. SlotsAreOwned' /\ HoldersAreCounted'
    <2>1. SlotsAreOwned'
      BY DEF Holders, SlotsAreOwned
    <2>2. \A x \in Keys : ReadersOf(x)' = ReadersOf(x) /\ Flying(x)' = Flying(x)
      BY Zenon DEF ReadersOf, Flying
    <2>3. HoldersAreCounted'
      BY <2>2 DEF Holders, HoldersAreCounted
    <2> QED BY Zenon, <2>1, <2>3
  <1>11. ReadsArePinned'
    <2> SUFFICES ASSUME NEW q \in Readers, rd[q] # NoRead
                 PROVE  /\ rd[q].key \in mem'.committed \cup mem'.deferred /\ rd[q].slot \in Slots
                        /\ mem'.owner[rd[q].slot] = rd[q].key
                        /\ mem'.data[rd[q].slot] = rd[q].want
      BY Zenon DEF ReadsArePinned
    <2>1. /\ rd[q].key \in Keys /\ rd[q].slot \in Slots
          /\ mem.owner[rd[q].slot] = rd[q].key /\ mem.data[rd[q].slot] = rd[q].want
          /\ rd[q].key \in mem.committed \cup mem.deferred
      BY Zenon, ReadersPin
    <2>2. rd[q].key # k
      BY Zenon, <1>2 DEF ReadersOf
    <2> QED BY Zenon, <1>3, <2>1, <2>2
  <1>12. BatchesOk'
    <2>1. InOrder(c)
      BY Zenon, <1>4, <1>6 DEF InOrder
    <2>2. Follows(c, mem.flights)
      <3>1. st # "follow" /\ b.items[j].st # "follow"
        BY Zenon, <1>4 DEF Leading, LeadsOf
      <3> QED BY SMTT(30), <1>1, <1>4, <1>6, <3>1 DEF Follows, WaitsOf
    <2>3. \A u \in Threads : InOrder(put[u]) /\ Follows(put[u], mem.flights)
      BY Zenon DEF BatchesOk
    <2>4. \A u \in Threads : InOrder(put'[u]) /\ Follows(put'[u], mem.flights)
      BY Zenon, <1>7, <2>1, <2>2, <2>3
    <2>5. \A u \in Threads :
            /\ LeadsOf(put'[u]) = LeadsOf(put[u])
            /\ \A l \in LeadsOf(put[u]) : put'[u].items[l].key = put[u].items[l].key
      BY SMTT(60), <1>4, <1>7, <1>8
    <2> QED BY Zenon, <2>4, <2>5, BatchesStay
  <1>13. CommittedIsWhole'
    <2> SUFFICES ASSUME NEW x \in mem'.committed
                 PROVE  /\ x \notin hist'.removed /\ hist'.last[x] # None
                        /\ \E u \in Slots : /\ mem'.owner[u] = x /\ mem'.rec[u] = x
                                            /\ mem'.data[u] = <<x, hist'.last[x]>>
      BY Zenon DEF CommittedIsWhole
    <2>1. PICK u \in Slots : /\ mem.owner[u] = x /\ mem.rec[u] = x
                             /\ mem.data[u] = <<x, hist.last[x]>>
      BY Zenon DEF Bytes, CommittedIsWhole
    <2>2. u # s
      BY <1>2, <2>1
    <2>3. x \notin hist.removed /\ hist.last[x] # None
      BY Zenon DEF Bytes, CommittedIsWhole
    <2> QED BY SMTT(30), <1>3, <2>1, <2>2, <2>3
  <1>14. WrittenInOrder'
    <2>1. ASSUME NEW u \in Threads, NEW l \in LeadsOf(put'[u]), NEW v \in Slots,
                 mem'.owner[v] = put'[u].items[l].key
          PROVE  /\ put'[u].items[l].st \in {"written", "recorded"} =>
                      mem'.data[v] = <<put'[u].items[l].key, put'[u].items[l].val>>
                 /\ put'[u].items[l].st = "recorded" => mem'.rec[v] = put'[u].items[l].key
                 /\ put'[u].items[l].st # "recorded" /\ ~mem'.failed => mem'.rec[v] = None
      <3>1. CASE u = t /\ l = j
        <4>1. put'[u].items[l].st = st /\ put'[u].items[l].key = k /\ put'[u].items[l].val = val
          BY SMTT(30), <1>1, <1>4, <1>6, <1>7, <1>a, <3>1
        <4>2. v = s
          BY SMTT(30), <1>2, <2>1, <4>1, StoreAssumption DEF Holders, SlotsAreOwned
        <4> QED BY Zenon, <1>3, <4>1, <4>2
      <3>2. CASE ~(u = t /\ l = j)
        <4>1. /\ l \in LeadsOf(put[u]) /\ put'[u].items[l].key = put[u].items[l].key
              /\ put'[u].items[l].val = put[u].items[l].val
              /\ put'[u].items[l].st = put[u].items[l].st
          BY SMTT(30), <1>4, <1>6, <1>7, <1>8, <3>2 DEF LeadsOf
        <4>2. put[u].items[l].key # k
          BY SMTT(60), <1>2, <3>2, <4>1
        <4>3. v # s /\ mem.owner[v] = put[u].items[l].key
          BY Zenon, <2>1, <4>1, <4>2
        <4> QED BY SMTT(60), <1>3, <4>1, <4>3 DEF Bytes, WrittenInOrder
      <3> QED BY Zenon, <3>1, <3>2
    <2>2. \A x \in Keys : mem'.flights[x] # None /\ x \notin mem'.deferred => x \notin hist'.removed
      BY Zenon DEF Bytes, WrittenInOrder
    <2> QED BY Zenon, <2>1, <2>2 DEF WrittenInOrder
  <1>15. TableIsLive'
    <2> SUFFICES ASSUME ~mem'.failed, NEW u \in Slots, mem'.rec[u] # None
                 PROVE  /\ mem'.owner[u] = mem'.rec[u]
                        /\ mem'.rec[u] \in mem'.committed \/ mem'.inflight[mem'.rec[u]] > 0
      BY Zenon DEF TableIsLive
    <2>1. CASE u = s
      BY SMTT(60), <1>2, <1>3, <2>1
    <2>2. CASE u # s
      BY Zenon, <1>3, <2>2 DEF Bytes, TableIsLive
    <2> QED BY Zenon, <2>1, <2>2
  <1>16. RestartIsExact'
    BY Zenon, UpIsDirty
  <1> QED BY Zenon, <1>9, <1>10, <1>11, <1>12, <1>13, <1>14, <1>15, <1>16 DEF Holders, Bytes

LEMMA WritePayloadStep ==
  ASSUME StoreInv, NEW t \in Threads, WritePayload(t)
  PROVE  StoreInv'
  <1>1. /\ put[t].pc = "io" /\ phase = "up" /\ put[t] \in Batches /\ mem \in Mems
        /\ UNCHANGED <<lock, rd, media, phase, hist>>
    BY Zenon, BatchFacts DEF WritePayload, Serving
  <1>a. PICK j \in DOMAIN put[t].items : \E st, bytes, f :
          /\ put[t].items[j].st = "lead"
          /\ put' = [put EXCEPT ![t].items[j].st = st]
          /\ mem' = [mem EXCEPT !.data[SlotOf(mem, put[t].items[j].key)] = bytes, !.failed = f]
          /\ \/ st = "written" /\ bytes = <<put[t].items[j].key, put[t].items[j].val>>
             \/ st = "bad" /\ bytes = Torn
          /\ f = mem.failed \/ f = TRUE
    BY Zenon DEF WritePayload
  <1>2. PICK st, bytes, f :
          /\ put[t].items[j].st = "lead"
          /\ put' = [put EXCEPT ![t].items[j].st = st]
          /\ mem' = [mem EXCEPT !.data[SlotOf(mem, put[t].items[j].key)] = bytes, !.failed = f]
          /\ \/ st = "written" /\ bytes = <<put[t].items[j].key, put[t].items[j].val>>
             \/ st = "bad" /\ bytes = Torn
          /\ f = mem.failed \/ f = TRUE
    BY Zenon, <1>a
  <1>3. j \in LeadsOf(put[t]) /\ st \in Leading
    BY Zenon, <1>2 DEF LeadsOf, Leading
  <1>4. PICK k \in Keys, val \in Vals : k = put[t].items[j].key /\ val = put[t].items[j].val
    BY Zenon, <1>1, ItemType
  <1>5. PICK s \in Slots : /\ mem.owner[s] = k /\ SlotOf(mem, k) = s
    <2>1. \E s \in Slots : mem.owner[s] = put[t].items[j].key
                           /\ SlotOf(mem, put[t].items[j].key) = s
      BY <1>3, LedKey
    <2> QED BY Zenon, <1>4, <2>1
  <1>6. bytes \in Payloads \cup {Torn} /\ f \in BOOLEAN
    <2>1. mem.failed \in BOOLEAN
      BY Zenon, <1>1 DEF Mems
    <2>2. bytes = Torn \/ bytes = <<k, val>>
      BY Zenon, <1>2, <1>4
    <2>3. f = mem.failed \/ f = TRUE
      BY Zenon, <1>2
    <2>4. bytes \in Payloads \cup {Torn}
      BY <2>2 DEF Payloads
    <2> QED BY Zenon, <2>1, <2>3, <2>4
  <1>7. mem' = [mem EXCEPT !.data[s] = bytes, !.failed = f]
    BY Zenon, <1>2, <1>4, <1>5
  <1>8. /\ mem' \in Mems /\ mem'.owner = mem.owner /\ mem'.doomed = mem.doomed
        /\ mem'.committed = mem.committed /\ mem'.pins = mem.pins
        /\ mem'.inflight = mem.inflight /\ mem'.flights = mem.flights
        /\ mem'.deferred = mem.deferred /\ mem'.failed = f
        /\ mem'.rec = mem.rec /\ mem'.data = [mem.data EXCEPT ![s] = bytes]
    BY Zenon, <1>1, <1>6, <1>7 DEF Mems, Contents
  <1>9. PICK r \in Keys \cup {None} : r = mem.rec[s]
    BY Zenon, <1>1 DEF Mems, Table
  <1>10. mem'.rec = [mem.rec EXCEPT ![s] = r]
    BY Zenon, <1>1, <1>8, <1>9 DEF Mems, Table
  <1>11. ~mem'.failed => r = None
    BY SMTT(30), <1>1, <1>2, <1>3, <1>4, <1>5, <1>8, <1>9
    DEF StoreInv, Bytes, WrittenInOrder, Mems
  <1>12. st # "recorded" /\ (st \in {"written", "recorded"} => bytes = <<k, val>>)
    BY Zenon, <1>2, <1>4
  <1>13. mem.failed => mem'.failed
    BY Zenon, <1>2, <1>8
  <1>14. put' = [put EXCEPT ![t] = [put[t] EXCEPT !.items[j].st = st]]
    BY Zenon, <1>2
  <1>15. WroteItem(t, j, st, s, bytes, r)
    BY SMTT(30), <1>1, <1>4, <1>5, <1>8, <1>10, <1>11, <1>12, <1>13, <1>14 DEF WroteItem
  <1> QED BY Zenon, <1>3, <1>15, WriteStep

LEMMA WriteRecordStep ==
  ASSUME StoreInv, NEW t \in Threads, WriteRecord(t)
  PROVE  StoreInv'
  <1>1. /\ put[t].pc = "io" /\ phase = "up" /\ put[t] \in Batches /\ mem \in Mems
        /\ UNCHANGED <<lock, rd, media, phase, hist>>
    BY Zenon, BatchFacts DEF WriteRecord, Serving
  <1>2. PICK j \in DOMAIN put[t].items :
          /\ put[t].items[j].st = "written"
          /\ \/ /\ ~mem.failed
                /\ mem' = [mem EXCEPT !.rec[SlotOf(mem, put[t].items[j].key)] =
                                         put[t].items[j].key]
                /\ put' = [put EXCEPT ![t].items[j].st = "recorded"]
             \/ /\ mem' = [mem EXCEPT !.failed = TRUE]
                /\ put' = [put EXCEPT ![t].items[j].st = "bad"]
    BY Zenon DEF WriteRecord
  <1>3. j \in LeadsOf(put[t]) /\ "recorded" \in Leading /\ "bad" \in Leading
    BY Zenon, <1>2 DEF LeadsOf, Leading
  <1>4. PICK k \in Keys, val \in Vals : k = put[t].items[j].key /\ val = put[t].items[j].val
    BY Zenon, <1>1, ItemType
  <1>5. PICK s \in Slots : /\ mem.owner[s] = k /\ SlotOf(mem, k) = s
    BY SMTT(30), <1>3, <1>4, LedKey
  <1>6. PICK bytes \in Payloads \cup {Torn} : bytes = mem.data[s]
    BY Zenon, <1>1 DEF Mems, Contents
  <1>7. bytes = <<k, val>>
    BY SMTT(30), <1>2, <1>3, <1>4, <1>5, <1>6 DEF StoreInv, Bytes, WrittenInOrder
  <1>8. mem.data = [mem.data EXCEPT ![s] = bytes]
    BY Zenon, <1>1, <1>6 DEF Mems, Contents
  <1>9. CASE /\ ~mem.failed /\ mem' = [mem EXCEPT !.rec[s] = k]
             /\ put' = [put EXCEPT ![t].items[j].st = "recorded"]
    <2>1. /\ mem' \in Mems /\ mem'.owner = mem.owner /\ mem'.doomed = mem.doomed
          /\ mem'.committed = mem.committed /\ mem'.pins = mem.pins
          /\ mem'.inflight = mem.inflight /\ mem'.flights = mem.flights
          /\ mem'.deferred = mem.deferred /\ mem'.failed = mem.failed
          /\ mem'.rec = [mem.rec EXCEPT ![s] = k] /\ mem'.data = mem.data
      BY Zenon, <1>1, <1>9 DEF Mems, Table
    <2>2. put' = [put EXCEPT ![t] = [put[t] EXCEPT !.items[j].st = "recorded"]]
      BY Zenon, <1>9
    <2>3. mem'.data = [mem.data EXCEPT ![s] = bytes]
      BY Zenon, <1>8, <2>1
    <2>4. WroteItem(t, j, "recorded", s, bytes, k)
      BY SMTT(30), <1>1, <1>4, <1>5, <1>7, <2>1, <2>2, <2>3 DEF WroteItem
    <2> QED BY Zenon, <1>3, <2>4, WriteStep
  <1>10. CASE /\ mem' = [mem EXCEPT !.failed = TRUE]
              /\ put' = [put EXCEPT ![t].items[j].st = "bad"]
    <2>1. /\ mem' \in Mems /\ mem'.owner = mem.owner /\ mem'.doomed = mem.doomed
          /\ mem'.committed = mem.committed /\ mem'.pins = mem.pins
          /\ mem'.inflight = mem.inflight /\ mem'.flights = mem.flights
          /\ mem'.deferred = mem.deferred /\ mem'.failed = TRUE
          /\ mem'.rec = mem.rec /\ mem'.data = mem.data
      BY Zenon, <1>1, <1>10 DEF Mems
    <2>2. put' = [put EXCEPT ![t] = [put[t] EXCEPT !.items[j].st = "bad"]]
      BY Zenon, <1>10
    <2>3. PICK r \in Keys \cup {None} : r = mem.rec[s]
      BY Zenon, <1>1 DEF Mems, Table
    <2>4. mem'.rec = [mem.rec EXCEPT ![s] = r] /\ mem'.data = [mem.data EXCEPT ![s] = bytes]
      BY Zenon, <1>1, <1>8, <2>1, <2>3 DEF Mems, Table
    <2>5. WroteItem(t, j, "bad", s, bytes, r)
      BY Zenon, <1>1, <1>4, <1>5, <2>1, <2>2, <2>4 DEF WroteItem
    <2> QED BY Zenon, <1>3, <2>5, WriteStep
  <1> QED BY Zenon, <1>2, <1>4, <1>5, <1>9, <1>10

LEMMA JudgeLeadStep ==
  ASSUME StoreInv, NEW t \in Threads, Judge(t), JudgeLead(t)
  PROVE  StoreInv'
  <1>1. /\ put[t].pc = "L1" /\ phase = "up" /\ UNCHANGED <<rd, media, phase>>
        /\ mem \in Mems /\ put[t] \in Batches
        /\ InOrder(put[t]) /\ Follows(put[t], mem.flights)
    BY Zenon, BatchFacts DEF Judge, Serving
  <1>2. PICK k \in Keys : k = put[t].items[put[t].i].key
    <2>1. put[t].i \in DOMAIN put[t].items
      BY SMTT(60), <1>1 DEF InOrder, Batches
    <2> QED BY Zenon, <1>1, <2>1, ItemType
  <1>3. /\ ~mem.failed /\ k \notin mem.committed /\ mem.flights[k] = None /\ k \notin mem.deferred
        /\ hist' = [hist EXCEPT !.removed = @ \ {k}]
    BY Zenon, <1>2 DEF JudgeLead, Item
  <1>4. /\ hist' \in [removed : SUBSET Keys, last : [Keys -> Vals \cup {None}]]
        /\ hist'.removed \subseteq hist.removed /\ hist'.last = hist.last
    BY Zenon, <1>3, BatchFacts
  <1>5. ASSUME NEW m \in Mems, mem' = m, m = mem \/ m = [mem EXCEPT !.failed = TRUE],
               Advance(t, "ioerror", "io")
        PROVE  StoreInv'
    <2> DEFINE b == Settle(put[t], "ioerror", "io")
    <2>1. b \in Batches /\ InOrder(b) /\ Follows(b, mem.flights) /\ SameLeads(put[t], b)
      BY Zenon, <1>1, JudgedItem
    <2>2. put' = [put EXCEPT ![t] = b] /\ lock' \in Threads \cup {None}
      BY Zenon, <1>5 DEF Advance
    <2> HIDE DEF b
    <2>3. BatchesMove
      BY Zenon, <2>1, <2>2, OneBatchMoves DEF StoreInv
    <2>4. /\ mem.failed => mem'.failed
          /\ mem'.owner = mem.owner /\ mem'.doomed = mem.doomed /\ mem'.committed = mem.committed
          /\ mem'.pins = mem.pins /\ mem'.inflight = mem.inflight /\ mem'.flights = mem.flights
          /\ mem'.deferred = mem.deferred /\ mem'.rec = mem.rec /\ mem'.data = mem.data
      BY ZenonT(60), <1>1, <1>5, FailEffect
    <2> QED BY Zenon, <1>1, <1>4, <1>5, <2>2, <2>3, <2>4, OnlyBatchesMove
  <1>6. CASE Contains(mem, k)
    BY Zenon, <1>1, <1>2, <1>5, <1>6 DEF JudgeLead, Item
  <1>7. CASE ~Contains(mem, k)
    <2>1. PICK m \in AllocPut(mem, k) :
            IF Contains(m, k)
            THEN mem' = Pin([m EXCEPT !.flights[k] = t], k) /\ Advance(t, "lead", "io")
            ELSE mem' = m /\ Advance(t, "ioerror", "io")
      BY Zenon, <1>2, <1>7 DEF JudgeLead, Item
    <2>2. Holding(mem, k) = {}
      BY Zenon, <1>7 DEF Contains, StoreInv, Holders, SlotsAreOwned
    <2>3. StoreType /\ SlotsAreOwned /\ TableIsLive
      BY Zenon DEF StoreInv, Holders, Bytes
    <2>4. CASE ~Contains(m, k)
      <3>1. m = mem \/ m = [mem EXCEPT !.failed = TRUE]
        BY Zenon, <2>2, <2>3, <2>4, NoLeadEffect
      <3>2. m \in Mems
        BY Zenon, <1>1, <3>1, FailEffect
      <3> QED BY Zenon, <1>5, <2>1, <2>4, <3>1, <3>2
    <2>5. CASE Contains(m, k)
      <3>1. PICK n : n = Pin([m EXCEPT !.flights[k] = t], k)
        BY Zenon
      <3>2. PICK s \in Slots : TakesSlot(n, k, t, s)
        BY SMTT(30), <1>1, <1>3, <2>2, <2>3, <2>5, <3>1, LeadEffect
      <3>3. mem' = n /\ put' = [put EXCEPT ![t] = Settle(put[t], "lead", "io")]
            /\ lock' \in Threads \cup {None}
        BY Zenon, <2>1, <2>5, <3>1 DEF Advance
      <3> QED BY Zenon, <1>1, <1>2, <1>3, <2>2, <3>2, <3>3, LeadStep
    <2> QED BY Zenon, <2>4, <2>5
  <1> QED BY Zenon, <1>6, <1>7

(* A holder of k leaves: a reader that is done, or the leader in L2, which  *)
(* publishes the value v or not.  The slot is freed by who rolls back or   *)
(* runs the deferred REMOVE.                                               *)
Leaves(k, s, v, publish, frees) ==
  /\ mem' \in Mems /\ mem.owner[s] = k /\ mem.inflight[k] > 0
  /\ mem'.owner = IF frees THEN [mem.owner EXCEPT ![s] = None] ELSE mem.owner
  /\ mem'.rec = mem.rec \/ (frees /\ mem'.rec = [mem.rec EXCEPT ![s] = None])
  /\ mem'.pins = [mem.pins EXCEPT ![s] = @ - 1]
  /\ mem'.inflight = [mem.inflight EXCEPT ![k] = @ - 1]
  /\ mem'.doomed = {} /\ mem'.data = mem.data
  /\ mem'.committed = IF publish THEN mem.committed \cup {k} ELSE mem.committed
  /\ mem.failed => mem'.failed
  /\ frees => /\ mem.inflight[k] = 1 /\ k \notin mem.committed /\ ~publish
              /\ mem'.failed \/ mem'.rec[s] = None
  /\ publish => /\ v \in Vals /\ k \notin hist.removed /\ mem.rec[s] = k /\ ~mem'.failed
                /\ mem.data[s] = <<k, v>> /\ hist' = [hist EXCEPT !.last[k] = v]
  /\ ~publish => hist' = hist
  /\ ~frees /\ ~publish => mem'.failed \/ k \in mem.committed \/ mem.inflight[k] > 1

LEMMA LeavesInOrder ==
  ASSUME StoreInv, NEW k \in Keys, NEW s \in Slots, NEW v, NEW publish \in BOOLEAN,
         NEW frees \in BOOLEAN, Leaves(k, s, v, publish, frees), phase = "up", phase' = "up"
  PROVE  /\ SlotsAreOwned' /\ CommittedIsWhole' /\ TableIsLive'
         /\ hist' \in [removed : SUBSET Keys, last : [Keys -> Vals \cup {None}]]
         /\ hist'.removed = hist.removed
         /\ \A u \in Slots \ {s} : mem'.owner[u] = mem.owner[u] /\ mem'.rec[u] = mem.rec[u]
         /\ \A x \in Keys \ {k} : mem'.inflight[x] = mem.inflight[x]
         /\ mem'.inflight[k] = mem.inflight[k] - 1
         /\ mem'.owner[s] \in {k, None}
  <1> USE DEF StoreInv
  <1>1. /\ mem \in Mems /\ mem.pins \in [Slots -> Nat] /\ mem.inflight \in [Keys -> Nat]
        /\ hist \in [removed : SUBSET Keys, last : [Keys -> Vals \cup {None}]]
    BY Zenon DEF StoreType, Mems
  <1>2. /\ mem.owner[s] = k /\ \A u \in Slots : mem.owner[u] = k => u = s
        /\ mem.pins[s] = mem.inflight[k] /\ mem.inflight[k] > 0
    BY StoreAssumption DEF Leaves, Holders, SlotsAreOwned
  <1>3. /\ mem'.owner[s] = IF frees THEN None ELSE k
        /\ \A u \in Slots \ {s} : mem'.owner[u] = mem.owner[u] /\ mem'.rec[u] = mem.rec[u]
        /\ mem'.rec[s] # None => mem'.rec[s] = mem.rec[s]
    BY <1>1, <1>2 DEF Leaves, Mems, Table
  <1>4. /\ mem'.pins[s] = mem.pins[s] - 1
        /\ \A u \in Slots \ {s} : mem'.pins[u] = mem.pins[u]
        /\ mem'.inflight[k] = mem.inflight[k] - 1
        /\ \A x \in Keys \ {k} : mem'.inflight[x] = mem.inflight[x]
    BY <1>1 DEF Leaves
  <1>5. /\ hist' \in [removed : SUBSET Keys, last : [Keys -> Vals \cup {None}]]
        /\ hist'.removed = hist.removed
        /\ \A x \in Keys : hist'.last[x] = IF publish /\ x = k THEN v ELSE hist.last[x]
    <2>1. CASE publish
      BY <1>1, <2>1 DEF Leaves
    <2>2. CASE ~publish
      BY Zenon, <1>1, <2>2 DEF Leaves
    <2> QED BY Zenon, <2>1, <2>2
  <1>6. SlotsAreOwned'
    <2>1. mem'.doomed = {}
      BY Zenon DEF Leaves
    <2>2. \A u, w \in Slots : mem'.owner[u] # None /\ mem'.owner[u] = mem'.owner[w] => u = w
      BY SMTT(60), <1>2, <1>3 DEF Holders, SlotsAreOwned
    <2>3. ASSUME NEW u \in Slots
          PROVE  mem'.pins[u] = IF mem'.owner[u] = None THEN 0 ELSE mem'.inflight[mem'.owner[u]]
      <3>1. CASE u = s
        <4>1. frees => mem.inflight[k] = 1
          BY Zenon DEF Leaves
        <4> QED BY SMTT(30), <1>1, <1>2, <1>3, <1>4, <3>1, <4>1, StoreAssumption
      <3>2. CASE u # s
        <4>1. mem.owner[u] # None => mem.owner[u] \in Keys \ {k}
          BY Zenon, <1>1, <1>2, <3>2 DEF Mems, Table
        <4> QED BY SMTT(30), <1>3, <1>4, <3>2, <4>1 DEF Holders, SlotsAreOwned
      <3> QED BY Zenon, <3>1, <3>2
    <2>4. ASSUME NEW x \in Keys, mem'.inflight[x] > 0
          PROVE  \E u \in Slots : mem'.owner[u] = x
      <3>1. CASE x = k
        <4>1. ~frees
          BY SMTT(60), <1>1, <1>4, <2>4, <3>1 DEF Leaves
        <4> QED BY Zenon, <1>3, <3>1, <4>1
      <3>2. CASE x # k
        <4>1. PICK u \in Slots : mem.owner[u] = x
          BY Zenon, <1>4, <2>4, <3>2 DEF Holders, SlotsAreOwned
        <4> QED BY Zenon, <1>2, <1>3, <3>2, <4>1
      <3> QED BY Zenon, <3>1, <3>2
    <2> QED BY Zenon, <2>1, <2>2, <2>3, <2>4 DEF SlotsAreOwned
  <1>7. CommittedIsWhole'
    <2> SUFFICES ASSUME NEW x \in mem'.committed
                 PROVE  /\ x \notin hist'.removed /\ hist'.last[x] # None
                        /\ \E u \in Slots : /\ mem'.owner[u] = x /\ mem'.rec[u] = x
                                            /\ mem'.data[u] = <<x, hist'.last[x]>>
      BY Zenon DEF CommittedIsWhole
    <2>1. mem'.data = mem.data /\ x \in Keys
      BY Zenon DEF Leaves, Mems
    <2>2. CASE publish /\ x = k
      <3>1. ~frees /\ mem'.rec = mem.rec /\ mem.rec[s] = k /\ mem.data[s] = <<k, v>>
            /\ v \in Vals /\ k \notin hist.removed
        BY Zenon, <2>2 DEF Leaves
      <3> QED BY SMTT(30), <1>3, <1>5, <2>1, <2>2, <3>1, StoreAssumption
    <2>3. CASE ~(publish /\ x = k)
      <3>1. x \in mem.committed
        BY Zenon, <2>3 DEF Leaves
      <3>2. PICK u \in Slots : /\ mem.owner[u] = x /\ mem.rec[u] = x
                               /\ mem.data[u] = <<x, hist.last[x]>>
        BY Zenon, <3>1 DEF Bytes, CommittedIsWhole
      <3>3. x \notin hist.removed /\ hist.last[x] # None
        BY Zenon, <3>1 DEF Bytes, CommittedIsWhole
      <3>4. hist'.last[x] = hist.last[x]
        BY Zenon, <1>5, <2>1, <2>3
      <3>5. CASE u # s
        BY SMTT(30), <1>3, <1>5, <2>1, <3>2, <3>3, <3>4, <3>5
      <3>6. CASE u = s
        <4>1. ~frees
          BY Zenon, <1>2, <3>1, <3>2, <3>6 DEF Leaves
        <4>2. mem'.rec = mem.rec
          BY Zenon, <4>1 DEF Leaves
        <4> QED BY SMTT(30), <1>2, <1>3, <1>5, <2>1, <3>2, <3>3, <3>4, <3>6, <4>1, <4>2
      <3> QED BY Zenon, <3>5, <3>6
    <2> QED BY Zenon, <2>2, <2>3
  <1>8. TableIsLive'
    <2> SUFFICES ASSUME ~mem'.failed, NEW u \in Slots, mem'.rec[u] # None
                 PROVE  /\ mem'.owner[u] = mem'.rec[u]
                        /\ mem'.rec[u] \in mem'.committed \/ mem'.inflight[mem'.rec[u]] > 0
      BY Zenon DEF TableIsLive
    <2>1. ~mem.failed /\ mem'.rec[u] = mem.rec[u]
      BY Zenon, <1>3 DEF Leaves
    <2>2. /\ mem.owner[u] = mem.rec[u]
          /\ mem.rec[u] \in mem.committed \/ mem.inflight[mem.rec[u]] > 0
      BY Zenon, <2>1 DEF Bytes, TableIsLive
    <2>3. mem.committed \subseteq mem'.committed
      BY Zenon DEF Leaves
    <2>4. CASE u # s
      <3>1. mem.rec[u] \in Keys \ {k}
        BY Zenon, <1>1, <1>2, <2>1, <2>2, <2>4 DEF Mems, Table
      <3> QED BY SMTT(30), <1>3, <1>4, <2>1, <2>2, <2>3, <2>4, <3>1
    <2>5. CASE u = s
      <3>1. ~frees
        BY Zenon, <2>5 DEF Leaves
      <3>2. k \in mem'.committed \/ mem.inflight[k] > 1
        BY Zenon, <3>1 DEF Leaves
      <3> QED BY SMTT(30), <1>1, <1>2, <1>3, <1>4, <2>1, <2>2, <2>5, <3>1, <3>2
    <2> QED BY Zenon, <2>4, <2>5
  <1> QED BY Zenon, <1>3, <1>4, <1>5, <1>6, <1>7, <1>8

-----------------------------------------------------------------------------
(* The steps that end a hold on a slot: a GET releases its reader; a batch  *)
(* of PUTs commits a record, or gives up the slot it had reserved, and      *)
(* tells the batches that follow it.                                        *)

LEMMA ReleaseReadStep ==
  ASSUME StoreInv, NEW r \in Readers, ReleaseRead(r)
  PROVE  StoreInv'
  <1>1. PICK k \in Keys, s \in Slots :
          /\ k = rd[r].key /\ s = rd[r].slot /\ mem.owner[s] = k
          /\ k \in mem.committed \cup mem.deferred
          /\ mem.inflight[k] > 0 /\ mem.pins[s] > 0
    BY Zenon, ReadersPin DEF ReleaseRead
  <1> USE DEF StoreInv
  <1>2. /\ mem \in Mems /\ phase = "up" /\ phase' = phase /\ lock' = lock /\ put' = put
        /\ media' = media /\ hist' = hist /\ rd \in [Readers -> Reads]
        /\ rd' = [rd EXCEPT ![r] = NoRead]
    BY Zenon DEF StoreType, ReleaseRead, Serving
  <1>3. PICK ok \in BOOLEAN : mem' = ReleaseInflight(mem, k, ok)
    BY Zenon, <1>1 DEF ReleaseRead
  <1>4. /\ \A u \in Slots : mem.owner[u] = k => u = s
        /\ mem.doomed = {} /\ mem.pins[s] = mem.inflight[k]
    BY <1>1, StoreAssumption DEF Holders, SlotsAreOwned
  <1>5. PICK runs \in BOOLEAN, frees \in BOOLEAN :
          /\ runs = RunsRemove(mem, k) /\ frees = (runs /\ ok /\ ~mem.failed)
    BY Zenon DEF RunsRemove
  <1>6. /\ mem' \in Mems
        /\ mem'.pins = [mem.pins EXCEPT ![s] = @ - 1]
        /\ mem'.inflight = [mem.inflight EXCEPT ![k] = @ - 1]
        /\ mem'.doomed = {} /\ mem'.flights = mem.flights /\ mem'.data = mem.data
        /\ mem'.committed = IF runs THEN mem.committed \ {k} ELSE mem.committed
        /\ mem'.deferred = IF runs THEN mem.deferred \ {k} ELSE mem.deferred
        /\ mem'.failed = IF runs /\ ~ok THEN TRUE ELSE mem.failed
        /\ mem'.owner = IF frees THEN [mem.owner EXCEPT ![s] = None] ELSE mem.owner
        /\ mem'.rec = IF frees THEN [mem.rec EXCEPT ![s] = None] ELSE mem.rec
    <2>1. Released(mem, mem', k, s, ok)
      BY Zenon, <1>1, <1>2, <1>3, <1>4, ReleaseEffect
    <2> QED BY Zenon, <1>5, <2>1 DEF Released
  <1>7. /\ runs => mem.inflight[k] = 1 /\ k \in mem.deferred
        /\ ~runs => mem.inflight[k] # 1 \/ k \notin mem.deferred
        /\ mem.inflight[k] \in Nat
    BY Zenon, <1>2, <1>5 DEF RunsRemove, Mems
  <1>8. k \in mem.deferred => k \notin mem.committed
    BY Zenon DEF Holders, HoldersAreCounted
  <1>a. PICK publish \in BOOLEAN : publish = FALSE
    BY Zenon
  <1>9. Leaves(k, s, None, publish, frees)
    <2>1. mem'.committed = mem.committed
      <3>1. CASE runs
        <4>1. k \notin mem.committed
          BY Zenon, <1>7, <1>8, <3>1
        <4>2. mem'.committed = mem.committed \ {k}
          BY Zenon, <1>6, <3>1
        <4> QED BY Zenon, <4>1, <4>2
      <3>2. CASE ~runs
        BY Zenon, <1>6, <3>2
      <3> QED BY Zenon, <3>1, <3>2
    <2>2. mem.failed => mem'.failed
      BY Zenon, <1>6
    <2>3. frees => /\ mem.inflight[k] = 1 /\ k \notin mem.committed
                   /\ mem'.failed \/ mem'.rec[s] = None
      BY SMTT(60), <1>2, <1>5, <1>6, <1>7, <1>8 DEF Mems, Table
    <2>4. ~frees => mem'.failed \/ k \in mem.committed \/ mem.inflight[k] > 1
      BY SMTT(60), <1>1, <1>5, <1>6, <1>7
    <2>5. mem'.rec = mem.rec \/ (frees /\ mem'.rec = [mem.rec EXCEPT ![s] = None])
      BY Zenon, <1>6
    <2> QED BY SMTT(30), <1>1, <1>2, <1>6, <2>1, <2>2, <2>3, <2>4, <2>5, <1>a DEF Leaves
  <1>10. /\ SlotsAreOwned' /\ CommittedIsWhole' /\ TableIsLive'
         /\ \A u \in Slots \ {s} : mem'.owner[u] = mem.owner[u] /\ mem'.rec[u] = mem.rec[u]
         /\ \A x \in Keys \ {k} : mem'.inflight[x] = mem.inflight[x]
         /\ mem'.inflight[k] = mem.inflight[k] - 1
         /\ mem'.owner[s] \in {k, None}
    <2> HIDE DEF StoreInv
    <2>1. phase = "up" /\ phase' = "up" 
      BY Zenon, <1>2
    <2> QED BY <1>9, <2>1, LeavesInOrder
  <1>11. mem.flights[k] = None
    <2>1. r \in ReadersOf(k)
      BY Zenon, <1>1 DEF ReadersOf
    <2> QED BY Zenon, <2>1 DEF Holders, HoldersAreCounted
  <1>12. StoreType'
    <2>1. NoRead \in Reads
      BY Zenon DEF NoRead, Reads
    <2> QED BY Zenon, <1>2, <1>6, <2>1 DEF StoreType
  <1>13. /\ ReadersOf(k)' = ReadersOf(k) \ {r} /\ r \in ReadersOf(k)
         /\ \A x \in Keys \ {k} : ReadersOf(x)' = ReadersOf(x)
         /\ IsFiniteSet(ReadersOf(k))
    <2>1. r \in ReadersOf(k) /\ NoRead.key \notin Keys
      BY Zenon, <1>1, StoreAssumption DEF ReadersOf, NoRead
    <2>2. IsFiniteSet(ReadersOf(k))
      BY Zenon, FS_Subset, StoreAssumption DEF ReadersOf
    <2>3. rd'[r] = NoRead /\ \A q \in Readers : q # r => rd'[q] = rd[q]
      BY Zenon, <1>2
    <2>4. ReadersOf(k)' = ReadersOf(k) \ {r}
      BY Zenon, <2>1, <2>3 DEF ReadersOf
    <2>5. \A x \in Keys \ {k} : ReadersOf(x)' = ReadersOf(x)
      BY Zenon, <1>1, <2>1, <2>3 DEF ReadersOf
    <2> QED BY Zenon, <2>1, <2>2, <2>4, <2>5
  <1>14. /\ Cardinality(ReadersOf(k)') = Cardinality(ReadersOf(k)) - 1
         /\ IsFiniteSet(ReadersOf(k)')
         /\ Cardinality(ReadersOf(k)') \in Nat /\ Cardinality(ReadersOf(k)) \in Nat
    BY <1>13, FS_RemoveElement, FS_CardinalityType
  <1>15. mem.inflight[k] = Cardinality(ReadersOf(k))
    <2>1. mem.inflight[k] = Cardinality(ReadersOf(k)) + Flying(k) /\ Flying(k) = 0
      BY Zenon, <1>11 DEF Holders, HoldersAreCounted, Flying
    <2> QED BY <1>14, <2>1
  <1>16. HoldersAreCounted'
    <2> SUFFICES ASSUME NEW x \in Keys
                 PROVE  /\ mem'.inflight[x] = Cardinality(ReadersOf(x)') + Flying(x)'
                        /\ mem'.flights[x] # None => x \notin mem'.committed /\ ReadersOf(x)' = {}
                        /\ x \in mem'.deferred => mem'.inflight[x] > 0 /\ x \notin mem'.committed
      BY Zenon DEF HoldersAreCounted
    <2>1. CASE x = k
      <3>1. Flying(k)' = 0
        BY Zenon, <1>6, <1>11 DEF Flying
      <3>2. mem'.inflight[k] = Cardinality(ReadersOf(k)') + Flying(k)'
        BY SMTT(60), <1>10, <1>14, <1>15, <3>1
      <3>3. k \in mem'.deferred => mem'.inflight[k] > 0 /\ k \notin mem'.committed
        BY SMTT(60), <1>1, <1>6, <1>7, <1>8, <1>10
      <3> QED BY Zenon, <1>6, <1>11, <2>1, <3>2, <3>3
    <2>2. CASE x # k
      <3>1. Flying(x)' = Flying(x)
        BY Zenon, <1>6 DEF Flying
      <3>2. /\ mem.inflight[x] = Cardinality(ReadersOf(x)) + Flying(x)
            /\ mem.flights[x] # None => x \notin mem.committed /\ ReadersOf(x) = {}
            /\ x \in mem.deferred => mem.inflight[x] > 0 /\ x \notin mem.committed
        BY Zenon DEF Holders, HoldersAreCounted
      <3> QED BY Zenon, <1>6, <1>10, <1>13, <2>2, <3>1, <3>2
    <2> QED BY Zenon, <2>1, <2>2
  <1>17. ReadsArePinned'
    <2> SUFFICES ASSUME NEW q \in Readers, rd'[q] # NoRead
                 PROVE  /\ rd'[q].key \in mem'.committed \cup mem'.deferred /\ rd'[q].slot \in Slots
                        /\ mem'.owner[rd'[q].slot] = rd'[q].key
                        /\ mem'.data[rd'[q].slot] = rd'[q].want
      BY Zenon DEF ReadsArePinned
    <2>1. q # r /\ rd'[q] = rd[q]
      BY Zenon, <1>2
    <2>2. /\ rd[q].key \in Keys /\ rd[q].slot \in Slots
          /\ mem.owner[rd[q].slot] = rd[q].key /\ mem.data[rd[q].slot] = rd[q].want
          /\ rd[q].key \in mem.committed \cup mem.deferred
      BY Zenon, <2>1, ReadersPin
    <2>3. CASE rd[q].key # k
      BY SMTT(30), <1>1, <1>6, <1>10, <2>1, <2>2, <2>3
    <2>4. CASE rd[q].key = k
      <3>1. q \in ReadersOf(k)'
        BY Zenon, <1>13, <2>1, <2>4 DEF ReadersOf
      <3>2. Cardinality(ReadersOf(k)') # 0
        BY Zenon, <1>14, <3>1, FS_EmptySet
      <3>3. ~runs /\ ~frees
        BY SMTT(60), <1>5, <1>7, <1>14, <1>15, <3>2
      <3> QED BY Zenon, <1>6, <2>1, <2>2, <3>3
    <2> QED BY Zenon, <2>3, <2>4
  <1>18. BatchesOk'
    <2>1. \A t \in Threads : InOrder(put'[t]) /\ Follows(put'[t], mem.flights)
      BY Zenon, <1>2 DEF BatchesOk
    <2> QED BY Zenon, <1>2, <1>6, <2>1, BatchesStay
  <1>19. WrittenInOrder'
    <2>1. ASSUME NEW u \in Threads, NEW l \in LeadsOf(put[u]), NEW w \in Slots,
                 mem'.owner[w] = put[u].items[l].key
          PROVE  /\ put[u].items[l].st \in {"written", "recorded"} =>
                      mem'.data[w] = <<put[u].items[l].key, put[u].items[l].val>>
                 /\ put[u].items[l].st = "recorded" => mem'.rec[w] = put[u].items[l].key
                 /\ put[u].items[l].st # "recorded" /\ ~mem'.failed => mem'.rec[w] = None
      <3>1. put[u].items[l].key # k /\ put[u].items[l].key # None
        <4>1. /\ put[u].items[l].key \in Keys /\ u # None
              /\ mem.flights[put[u].items[l].key] = u
          BY Zenon, LedKey
        <4> QED BY Zenon, <1>11, <4>1, StoreAssumption
      <3>2. w # s
        BY Zenon, <1>10, <2>1, <3>1
      <3>3. mem.owner[w] = put[u].items[l].key /\ mem'.rec[w] = mem.rec[w]
        BY Zenon, <1>10, <2>1, <3>2
      <3>4. mem.failed => mem'.failed
        BY Zenon, <1>6
      <3> QED BY SMTT(60), <1>6, <3>3, <3>4 DEF Bytes, WrittenInOrder
    <2>2. \A x \in Keys : mem'.flights[x] # None /\ x \notin mem'.deferred => x \notin hist'.removed
      BY Zenon, <1>2, <1>6, <1>11 DEF Bytes, WrittenInOrder
    <2> QED BY SMTT(60), <1>2, <2>1, <2>2 DEF WrittenInOrder
  <1>20. RestartIsExact'
    BY Zenon, <1>2, UpIsDirty
  <1> QED BY SMTT(30), <1>10, <1>12, <1>16, <1>17, <1>18, <1>19, <1>20 DEF Holders, Bytes

(* CompletePut: the followers of k's flight are told, and nothing else of   *)
(* their batches changes.                                                  *)
TellsFollowers(b, c, k) ==
  /\ c \in Batches /\ Len(c.items) = Len(b.items) /\ DOMAIN c.items = DOMAIN b.items
  /\ c.i = b.i /\ c.pc = b.pc
  /\ \A j \in DOMAIN b.items :
       /\ c.items[j].key = b.items[j].key /\ c.items[j].val = b.items[j].val
       /\ c.items[j].by = b.items[j].by
  /\ LeadsOf(c) = LeadsOf(b) /\ \A j \in LeadsOf(b) : c.items[j].st = b.items[j].st
  /\ InOrder(c)
  /\ \A j \in WaitsOf(c) : j \in WaitsOf(b) /\ c.items[j].key # k

LEMMA FollowersAreTold ==
  ASSUME NEW b \in Batches, NEW flights, NEW t \in Threads, NEW k \in Keys,
         NEW st \in {"ok", "ioerror"}, NEW d, d = b \/ d = Saw(b, k),
         InOrder(b), Follows(b, flights), flights[k] = t
  PROVE  TellsFollowers(b, Completed(d, t, k, st), k)
  <1>1. /\ d \in Batches /\ Len(d.items) = Len(b.items)
        /\ DOMAIN d.items = DOMAIN b.items /\ d.i = b.i /\ d.pc = b.pc
        /\ \A j \in DOMAIN b.items :
             /\ d.items[j].key = b.items[j].key /\ d.items[j].val = b.items[j].val
             /\ d.items[j].by = b.items[j].by /\ d.items[j].st = b.items[j].st
    BY SawEffect
  <1>2. st \in ItemStates
    BY Zenon DEF ItemStates
  <1>3. PICK c : c = Completed(d, t, k, st)
    BY Zenon
  <1>4. /\ c \in Batches /\ Len(c.items) = Len(d.items)
        /\ DOMAIN c.items = DOMAIN d.items /\ c.i = d.i /\ c.pc = d.pc
        /\ \A j \in DOMAIN d.items :
             /\ c.items[j].key = d.items[j].key /\ c.items[j].val = d.items[j].val
             /\ c.items[j].by = d.items[j].by
             /\ c.items[j].st = IF d.items[j].st = "follow" /\ d.items[j].by = t
                                   /\ d.items[j].key = k
                                THEN st ELSE d.items[j].st
    BY SMTT(60), <1>1, <1>2, <1>3, CompletedEffect
  <1>5. /\ c \in Batches /\ Len(c.items) = Len(b.items)
        /\ DOMAIN c.items = DOMAIN b.items /\ c.i = b.i /\ c.pc = b.pc
        /\ \A j \in DOMAIN b.items :
             /\ c.items[j].key = b.items[j].key /\ c.items[j].val = b.items[j].val
             /\ c.items[j].by = b.items[j].by
             /\ c.items[j].st = IF b.items[j].st = "follow" /\ b.items[j].by = t
                                   /\ b.items[j].key = k
                                THEN st ELSE b.items[j].st
    BY <1>1, <1>4
  <1>6. LeadsOf(c) = LeadsOf(b) /\ \A j \in LeadsOf(b) : c.items[j].st = b.items[j].st
    <2>1. \A j \in DOMAIN b.items :
            /\ c.items[j].st \in Leading <=> b.items[j].st \in Leading
            /\ b.items[j].st \in Leading => c.items[j].st = b.items[j].st
      BY Zenon, <1>5 DEF Leading
    <2>2. DOMAIN c.items = DOMAIN b.items
      BY Zenon, <1>5
    <2>3. LeadsOf(c) = LeadsOf(b)
      <3>1. \A j \in DOMAIN b.items : c.items[j].st \in Leading <=> b.items[j].st \in Leading
        BY Zenon, <2>1
      <3> QED BY Zenon, <2>2, <3>1 DEF LeadsOf
    <2>4. \A j \in LeadsOf(b) : c.items[j].st = b.items[j].st
      BY Zenon, <2>1 DEF LeadsOf
    <2> QED BY Zenon, <2>3, <2>4
  <1>7. \A j \in WaitsOf(c) : j \in WaitsOf(b) /\ c.items[j].key # k
    <2> SUFFICES ASSUME NEW j \in WaitsOf(c)
                 PROVE  j \in WaitsOf(b) /\ c.items[j].key # k
      BY Zenon
    <2>1. j \in DOMAIN b.items /\ c.items[j].st = "follow"
      BY Zenon, <1>5 DEF WaitsOf
    <2>2. b.items[j].st = "follow" /\ ~(b.items[j].by = t /\ b.items[j].key = k)
      BY Zenon, <1>5, <2>1
    <2>3. j \in WaitsOf(b) /\ flights[b.items[j].key] = b.items[j].by
      BY Zenon, <2>1, <2>2 DEF WaitsOf, Follows
    <2> QED BY Zenon, <1>5, <2>1, <2>2, <2>3
  <1>8. InOrder(c)
    <2>1. \A j \in DOMAIN b.items : b.items[j].st = "todo" => c.items[j].st = "todo"
      BY Zenon, <1>5
    <2>2. /\ Len(c.items) = Len(b.items) /\ DOMAIN c.items = DOMAIN b.items
          /\ c.i = b.i /\ c.pc = b.pc
      BY Zenon, <1>5
    <2>3. b.pc \in {"L1", "window", "L2"} => b.i \in 1..Len(b.items)
      BY Zenon DEF InOrder
    <2>4. b.pc \in {"L1", "window"} =>
            \A j \in DOMAIN b.items : j >= b.i => b.items[j].st = "todo"
      BY Zenon DEF InOrder
    <2>5. /\ b.pc = "L2" => \A j \in LeadsOf(b) : j >= b.i /\ b.items[j].st \in {"recorded", "bad"}
          /\ b.pc \in {"idle", "wait"} => LeadsOf(b) = {}
      BY Zenon DEF InOrder
    <2>6. /\ c.pc = "L2" => \A j \in LeadsOf(c) : j >= c.i /\ c.items[j].st \in {"recorded", "bad"}
          /\ c.pc \in {"idle", "wait"} => LeadsOf(c) = {}
      BY Zenon, <1>6, <2>2, <2>5
    <2>7. c.pc \in {"L1", "window"} =>
            \A j \in DOMAIN c.items : j >= c.i => c.items[j].st = "todo"
      BY Zenon, <2>1, <2>2, <2>4
    <2> QED BY Zenon, <2>2, <2>3, <2>6, <2>7 DEF InOrder
  <1> QED BY Zenon, <1>3, <1>5, <1>6, <1>7, <1>8 DEF TellsFollowers

AfterL2(t, told, st) ==
  [u \in Threads |-> IF u = t THEN Settle(told[t], st, "wait") ELSE told[u]]

EndsFlight(t, k, st, told) ==
  /\ put[t].pc = "L2" /\ put[t].i \in LeadsOf(put[t]) /\ k = put[t].items[put[t].i].key
  /\ \A u \in Threads : TellsFollowers(put[u], told[u], k)
  /\ put' = AfterL2(t, told, st)
  /\ mem'.flights = [mem.flights EXCEPT ![k] = None]

LEMMA CommitBatches ==
  ASSUME StoreInv, NEW t \in Threads, NEW k \in Keys, NEW st \in {"ok", "ioerror"},
         NEW told, EndsFlight(t, k, st, told), phase' = "up"
  PROVE  /\ BatchesOk' /\ put' \in [Threads -> Batches]
         /\ \A u \in Threads : \A j \in LeadsOf(put'[u]) :
              /\ j \in LeadsOf(put[u]) /\ put'[u].items[j].key = put[u].items[j].key
              /\ put'[u].items[j].key \in Keys \ {k}
              /\ put'[u].items[j].val = put[u].items[j].val
              /\ put'[u].items[j].st = put[u].items[j].st
  <1>a. /\ put[t].pc = "L2" /\ put[t].i \in LeadsOf(put[t])
        /\ k = put[t].items[put[t].i].key
    BY Zenon DEF EndsFlight
  <1>b. \A u \in Threads : TellsFollowers(put[u], told[u], k)
    BY Zenon DEF EndsFlight
  <1>c. put' = AfterL2(t, told, st)
    BY Zenon DEF EndsFlight
  <1>d. mem'.flights = [mem.flights EXCEPT ![k] = None]
    BY Zenon DEF EndsFlight
  <1>1. /\ mem.flights \in [Keys -> Threads \cup {None}] /\ put \in [Threads -> Batches]
        /\ mem.flights[k] = t /\ t # None
    <2>1. mem.flights[k] = t /\ t # None
      BY Zenon, <1>a, LedKey
    <2> QED BY Zenon, <2>1 DEF StoreInv, StoreType, Mems
  <1>2. mem'.flights[k] = None /\ \A x \in Keys : x # k => mem'.flights[x] = mem.flights[x]
    BY Zenon, <1>1, <1>d
  <1>3. PICK b \in Batches : b = put[t] /\ InOrder(b)
    BY Zenon, BatchFacts
  <1>e. b.pc = "L2" /\ b.i \in LeadsOf(b) /\ k = b.items[b.i].key
    BY Zenon, <1>a, <1>3
  <1>4. PICK d \in Batches : d = told[t]
    BY Zenon, <1>b DEF TellsFollowers
  <1>5. PICK c : c = Settle(d, st, "wait")
    BY Zenon
  <1>6. TellsFollowers(b, d, k)
    BY Zenon, <1>b, <1>3, <1>4
  <1>7. /\ b.i \in 1..Len(b.items) /\ b.items \in Seq(ItemRecs) /\ b.i \in DOMAIN b.items
        /\ \A j \in LeadsOf(b) : j >= b.i /\ b.items[j].st \in {"recorded", "bad"}
    BY SMTT(60), <1>3, <1>e DEF InOrder, Batches
  <1>8. /\ c \in Batches /\ Len(c.items) = Len(d.items)
        /\ DOMAIN c.items = DOMAIN d.items
        /\ c.items[d.i].st = st
        /\ \A j \in DOMAIN d.items :
             /\ c.items[j].key = d.items[j].key /\ c.items[j].val = d.items[j].val
             /\ c.items[j].by = d.items[j].by
             /\ j # d.i => c.items[j].st = d.items[j].st
        /\ c.i = IF d.i = Len(d.items) THEN 0 ELSE d.i + 1
        /\ c.pc = IF d.i = Len(d.items) THEN "wait" ELSE d.pc
    <2>1. st \in ItemStates /\ d.i \in 1..Len(d.items)
      BY Zenon, <1>6, <1>7 DEF ItemStates, TellsFollowers
    <2> QED BY SMTT(60), <1>5, <2>1, SettleEffect
  <1>9. put'[t] = c /\ \A u \in Threads : u # t => put'[u] = told[u]
    BY Zenon, <1>c, <1>4, <1>5 DEF AfterL2
  <1>10. LeadsOf(c) = LeadsOf(b) \ {b.i} /\ \A j \in LeadsOf(c) : c.items[j].st = b.items[j].st
    <2>1. /\ LeadsOf(d) = LeadsOf(b) /\ d.i = b.i /\ DOMAIN d.items = DOMAIN b.items
          /\ \A j \in LeadsOf(b) : d.items[j].st = b.items[j].st
      BY Zenon, <1>6 DEF TellsFollowers
    <2>2. st \notin Leading
      BY Zenon DEF Leading
    <2>3. LeadsOf(c) = LeadsOf(d) \ {d.i}
      BY SMTT(60), <1>7, <1>8, <2>1, <2>2 DEF LeadsOf
    <2>4. \A j \in LeadsOf(c) : j \in DOMAIN d.items /\ j # d.i /\ j \in LeadsOf(b)
      BY Zenon, <2>1, <2>3 DEF LeadsOf
    <2> QED BY Zenon, <1>8, <2>1, <2>3, <2>4
  <1>11. InOrder(c)
    <2>1. /\ d.i = b.i /\ d.pc = "L2" /\ Len(d.items) = Len(b.items)
      BY Zenon, <1>e, <1>6 DEF TellsFollowers
    <2>2. \A j \in LeadsOf(c) : j > b.i /\ j \in 1..Len(b.items)
                                /\ c.items[j].st \in {"recorded", "bad"}
      <3>1. DOMAIN b.items = 1..Len(b.items)
        BY <1>7
      <3>2. \A j \in LeadsOf(c) : j \in LeadsOf(b) /\ j # b.i /\ j \in DOMAIN b.items
        BY Zenon, <1>10 DEF LeadsOf
      <3> QED BY SMTT(60), <1>7, <1>10, <3>1, <3>2
    <2>3. Len(b.items) \in Nat
      BY <1>7
    <2> QED BY SMTT(60), <1>7, <1>8, <2>1, <2>2, <2>3 DEF InOrder
  <1>12. WaitsOf(c) = WaitsOf(d)
    <2>1. d.items[d.i].st # "follow" /\ st # "follow" /\ d.i \in DOMAIN d.items
      BY Zenon, <1>e, <1>6, <1>7 DEF TellsFollowers, LeadsOf, Leading
    <2> QED BY Zenon, <1>8, <2>1 DEF WaitsOf
  <1>13. ASSUME NEW u \in Threads
         PROVE  InOrder(put'[u]) /\ Follows(put'[u], mem'.flights) /\ put'[u] \in Batches
    <2>1. TellsFollowers(put[u], told[u], k) /\ Follows(put[u], mem.flights) /\ put[u] \in Batches
      BY Zenon, <1>b, BatchFacts
    <2>2. \A j \in WaitsOf(told[u]) :
            /\ told[u].items[j].by # None /\ told[u].items[j].key \in Keys \ {k}
            /\ mem.flights[told[u].items[j].key] = told[u].items[j].by
      <3> SUFFICES ASSUME NEW j \in WaitsOf(told[u])
                   PROVE  /\ told[u].items[j].by # None /\ told[u].items[j].key \in Keys \ {k}
                          /\ mem.flights[told[u].items[j].key] = told[u].items[j].by
        BY Zenon
      <3>1. j \in WaitsOf(put[u]) /\ told[u].items[j].key # k
        BY Zenon, <2>1 DEF TellsFollowers
      <3>2. j \in DOMAIN put[u].items
        BY Zenon, <3>1 DEF WaitsOf
      <3>3. /\ told[u].items[j].key = put[u].items[j].key
            /\ told[u].items[j].by = put[u].items[j].by
        BY Zenon, <2>1, <3>2 DEF TellsFollowers
      <3>4. put[u].items[j].key \in Keys
        BY Zenon, <2>1, <3>2, ItemType
      <3>5. put[u].items[j].by # None /\ mem.flights[put[u].items[j].key] = put[u].items[j].by
        BY Zenon, <2>1, <3>1 DEF Follows
      <3> QED BY Zenon, <3>1, <3>3, <3>4, <3>5
    <2>3. Follows(told[u], mem'.flights)
      BY Zenon, <1>2, <2>2 DEF Follows
    <2>4. CASE u = t
      <3>1. \A j \in WaitsOf(c) : c.items[j].by = d.items[j].by /\ c.items[j].key = d.items[j].key
        BY Zenon, <1>8, <1>12 DEF WaitsOf
      <3>2. Follows(c, mem'.flights)
        BY SMTT(60), <1>4, <1>12, <2>3, <2>4, <3>1 DEF Follows
      <3> QED BY Zenon, <1>8, <1>9, <1>11, <2>4, <3>2
    <2>5. CASE u # t
      BY Zenon, <1>9, <2>1, <2>3, <2>5 DEF TellsFollowers
    <2> QED BY Zenon, <2>4, <2>5
  <1>14. ASSUME NEW u \in Threads, NEW j \in LeadsOf(put'[u])
         PROVE  /\ j \in LeadsOf(put[u]) /\ put'[u].items[j].key = put[u].items[j].key
                /\ put'[u].items[j].key \in Keys \ {k}
                /\ put'[u].items[j].val = put[u].items[j].val
                /\ put'[u].items[j].st = put[u].items[j].st
    <2>1. TellsFollowers(put[u], told[u], k)
      BY Zenon, <1>b
    <2>2. CASE u = t
      <3>1. j \in LeadsOf(b) /\ j # b.i /\ c.items[j].st = b.items[j].st /\ j \in DOMAIN b.items
        BY Zenon, <1>9, <1>10, <1>14, <2>2 DEF LeadsOf
      <3>2. c.items[j].key = b.items[j].key /\ c.items[j].val = b.items[j].val
        BY ZenonT(60), <1>6, <1>8, <3>1 DEF TellsFollowers
      <3>3. b.items[j].key # k /\ b.items[j].key \in Keys
        BY SMTT(60), <1>3, <1>e, <2>2, <3>1, LedKey
      <3> QED BY SMTT(60), <1>3, <1>9, <2>2, <3>1, <3>2, <3>3
    <2>3. CASE u # t
      <3>1. j \in LeadsOf(put[u]) /\ j \in DOMAIN put[u].items
        BY Zenon, <1>9, <1>14, <2>1, <2>3 DEF TellsFollowers, LeadsOf
      <3>2. /\ told[u].items[j].key = put[u].items[j].key
            /\ told[u].items[j].val = put[u].items[j].val
            /\ told[u].items[j].st = put[u].items[j].st
        BY Zenon, <2>1, <3>1 DEF TellsFollowers
      <3>3. put[u].items[j].key # k /\ put[u].items[j].key \in Keys
        BY SMTT(60), <1>1, <2>3, <3>1, LedKey
      <3> QED BY Zenon, <1>9, <2>3, <3>1, <3>2, <3>3
    <2> QED BY Zenon, <2>2, <2>3
  <1>15. put' \in [Threads -> Batches]
    BY Zenon, <1>c, <1>13 DEF AfterL2
  <1>16. \A u \in Threads : \A j \in LeadsOf(put'[u]) :
           /\ mem'.flights[put'[u].items[j].key] = u
           /\ \A l \in LeadsOf(put'[u]) : put'[u].items[l].key = put'[u].items[j].key => l = j
    <2> SUFFICES ASSUME NEW u \in Threads, NEW j \in LeadsOf(put'[u])
                 PROVE  /\ mem'.flights[put'[u].items[j].key] = u
                        /\ \A l \in LeadsOf(put'[u]) :
                             put'[u].items[l].key = put'[u].items[j].key => l = j
      BY Zenon
    <2>1. /\ j \in LeadsOf(put[u]) /\ put'[u].items[j].key = put[u].items[j].key
          /\ put'[u].items[j].key \in Keys \ {k}
      BY Zenon, <1>14
    <2>2. /\ mem.flights[put[u].items[j].key] = u
          /\ \A l \in LeadsOf(put[u]) : put[u].items[l].key = put[u].items[j].key => l = j
      BY Zenon, <2>1 DEF StoreInv, BatchesOk, FlightsAreLed
    <2>3. \A l \in LeadsOf(put'[u]) :
            l \in LeadsOf(put[u]) /\ put'[u].items[l].key = put[u].items[l].key
      BY Zenon, <1>14
    <2>4. mem'.flights[put'[u].items[j].key] = u
      BY Zenon, <1>2, <2>1, <2>2
    <2>5. \A l \in LeadsOf(put'[u]) : put'[u].items[l].key = put'[u].items[j].key => l = j
      BY Zenon, <2>1, <2>2, <2>3
    <2> QED BY Zenon, <2>4, <2>5
  <1>17. \A x \in Keys : mem'.flights[x] # None =>
           \E j \in LeadsOf(put'[mem'.flights[x]]) : put'[mem'.flights[x]].items[j].key = x
    <2> SUFFICES ASSUME NEW x \in Keys, mem'.flights[x] # None
                 PROVE  \E j \in LeadsOf(put'[mem'.flights[x]]) :
                          put'[mem'.flights[x]].items[j].key = x
      BY Zenon
    <2>a. x # k /\ mem'.flights[x] = mem.flights[x]
      BY Zenon, <1>2
    <2>b. mem.flights[x] \in Threads
      BY Zenon, <1>1, <2>a
    <2>1. PICK u \in Threads : u = mem.flights[x] /\ u = mem'.flights[x] /\ x # k
      BY Zenon, <2>a, <2>b
    <2>2. PICK j \in LeadsOf(put[u]) : put[u].items[j].key = x
      <3>1. FlightsAreLed
        BY Zenon DEF StoreInv, BatchesOk
      <3>2. mem.flights[x] # None =>
              \E j \in LeadsOf(put[mem.flights[x]]) : put[mem.flights[x]].items[j].key = x
        BY Zenon, <3>1 DEF FlightsAreLed
      <3> QED BY Zenon, <2>1, <3>2
    <2>3. CASE u = t
      <3>1. j \in LeadsOf(c) /\ j \in DOMAIN b.items
        <4>1. j \in LeadsOf(b) /\ b.items[j].key = x /\ x # k
          BY Zenon, <1>3, <2>1, <2>2, <2>3
        <4>2. j # b.i
          BY Zenon, <1>e, <4>1
        <4> QED BY Zenon, <1>10, <4>1, <4>2 DEF LeadsOf
      <3>2. c.items[j].key = x
        BY SMTT(30), <1>3, <1>6, <1>8, <2>2, <2>3, <3>1 DEF TellsFollowers
      <3> QED BY Zenon, <1>9, <2>1, <2>3, <3>1, <3>2
    <2>4. CASE u # t
      <3>1. TellsFollowers(put[u], told[u], k) /\ j \in DOMAIN put[u].items
        BY Zenon, <1>b, <2>2 DEF LeadsOf
      <3>2. j \in LeadsOf(told[u]) /\ told[u].items[j].key = x
        BY Zenon, <2>2, <3>1 DEF TellsFollowers
      <3> QED BY Zenon, <1>9, <2>1, <2>4, <3>2
    <2> QED BY Zenon, <2>3, <2>4
  <1>18. FlightsAreLed'
    BY Zenon, <1>16, <1>17 DEF FlightsAreLed
  <1>19. BatchesOk'
    BY Zenon, <1>13, <1>18 DEF BatchesOk, QuietUnlessUp
  <1> QED BY Zenon, <1>14, <1>15, <1>19

(* L2 of one item the batch leads, whatever its outcome.                   *)
LEMMA CommitStep ==
  ASSUME StoreInv, NEW t \in Threads, NEW k \in Keys, NEW st \in {"ok", "ioerror"},
         NEW s \in Slots, NEW v, NEW publish \in BOOLEAN, NEW frees \in BOOLEAN, NEW told,
         EndsFlight(t, k, st, told), Leaves(k, s, v, publish, frees),
         mem'.deferred = mem.deferred \ {k}, lock' \in Threads \cup {None},
         rd' = rd, media' = media, phase = "up", phase' = "up"
  PROVE  StoreInv'
  <1>1. /\ mem.flights[k] = t /\ t # None /\ mem.inflight[k] = 1 /\ ReadersOf(k) = {}
    <2>1. PICK j \in LeadsOf(put[t]) : k = put[t].items[j].key
      BY Zenon DEF EndsFlight
    <2> QED BY SMTT(60), <2>1, LedKey
  <1>2. /\ mem'.flights = [mem.flights EXCEPT ![k] = None]
        /\ mem'.deferred = mem.deferred \ {k}
    BY Zenon DEF EndsFlight
  <1>3. /\ SlotsAreOwned' /\ CommittedIsWhole' /\ TableIsLive'
        /\ hist' \in [removed : SUBSET Keys, last : [Keys -> Vals \cup {None}]]
        /\ hist'.removed = hist.removed
        /\ \A u \in Slots \ {s} : mem'.owner[u] = mem.owner[u] /\ mem'.rec[u] = mem.rec[u]
        /\ \A x \in Keys \ {k} : mem'.inflight[x] = mem.inflight[x]
        /\ mem'.inflight[k] = mem.inflight[k] - 1
        /\ mem'.owner[s] \in {k, None}
    BY SMTT(60), LeavesInOrder
  <1>4. /\ BatchesOk' /\ put' \in [Threads -> Batches]
        /\ \A u \in Threads : \A j \in LeadsOf(put'[u]) :
             /\ j \in LeadsOf(put[u]) /\ put'[u].items[j].key = put[u].items[j].key
             /\ put'[u].items[j].key \in Keys \ {k}
             /\ put'[u].items[j].val = put[u].items[j].val
             /\ put'[u].items[j].st = put[u].items[j].st
    BY CommitBatches
  <1>5. /\ mem' \in Mems /\ mem'.data = mem.data /\ (mem.failed => mem'.failed)
        /\ mem'.committed \subseteq mem.committed \cup {k} /\ mem.committed \subseteq mem'.committed
        /\ mem.owner[s] = k
    BY Zenon DEF Leaves
  <1>6. /\ mem'.flights[k] = None
        /\ \A x \in Keys : x # k => mem'.flights[x] = mem.flights[x]
    BY Zenon, <1>2 DEF StoreInv, StoreType, Mems
  <1>7. StoreType'
    BY Zenon, <1>3, <1>4, <1>5 DEF StoreInv, StoreType
  <1>8. HoldersAreCounted'
    <2> SUFFICES ASSUME NEW x \in Keys
                 PROVE  /\ mem'.inflight[x] = Cardinality(ReadersOf(x)') + Flying(x)'
                        /\ mem'.flights[x] # None => x \notin mem'.committed /\ ReadersOf(x)' = {}
                        /\ x \in mem'.deferred => mem'.inflight[x] > 0 /\ x \notin mem'.committed
      BY Zenon DEF HoldersAreCounted
    <2>1. ReadersOf(x)' = ReadersOf(x)
      BY Zenon DEF ReadersOf
    <2>2. CASE x = k
      <3>1. Cardinality(ReadersOf(x)') = 0
        BY Zenon, <1>1, <2>1, <2>2, FS_EmptySet
      <3>2. Flying(x)' = 0
        BY Zenon, <1>6, <2>2 DEF Flying
      <3>3. mem'.inflight[x] = 0 /\ mem'.flights[x] = None /\ x \notin mem'.deferred
        <4>1. mem'.inflight[k] = 0
          BY SMTT(60), <1>1, <1>3
        <4> QED BY Zenon, <1>2, <1>6, <2>2, <4>1
      <3> QED BY SMTT(60), <3>1, <3>2, <3>3
    <2>3. CASE x # k
      <3>1. Flying(x)' = Flying(x)
        BY SMTT(60), <1>6, <2>3 DEF Flying
      <3>2. /\ mem.inflight[x] = Cardinality(ReadersOf(x)) + Flying(x)
            /\ mem.flights[x] # None => x \notin mem.committed /\ ReadersOf(x) = {}
            /\ x \in mem.deferred => mem.inflight[x] > 0 /\ x \notin mem.committed
        BY Zenon DEF StoreInv, Holders, HoldersAreCounted
      <3> QED BY Zenon, <1>2, <1>3, <1>5, <1>6, <2>1, <2>3, <3>1, <3>2
    <2> QED BY Zenon, <2>2, <2>3
  <1>9. ReadsArePinned'
    <2> SUFFICES ASSUME NEW q \in Readers, rd[q] # NoRead
                 PROVE  /\ rd[q].key \in mem'.committed \cup mem'.deferred /\ rd[q].slot \in Slots
                        /\ mem'.owner[rd[q].slot] = rd[q].key
                        /\ mem'.data[rd[q].slot] = rd[q].want
      BY Zenon DEF ReadsArePinned
    <2>1. /\ rd[q].key \in Keys /\ rd[q].slot \in Slots
          /\ mem.owner[rd[q].slot] = rd[q].key /\ mem.data[rd[q].slot] = rd[q].want
          /\ rd[q].key \in mem.committed \cup mem.deferred
      BY Zenon, ReadersPin
    <2>2. rd[q].key # k
      BY Zenon, <1>1 DEF ReadersOf
    <2> QED BY Zenon, <1>2, <1>3, <1>5, <2>1, <2>2
  <1>10. WrittenInOrder'
    <2>1. ASSUME NEW u \in Threads, NEW l \in LeadsOf(put'[u]), NEW w \in Slots,
                 mem'.owner[w] = put'[u].items[l].key
          PROVE  /\ put'[u].items[l].st \in {"written", "recorded"} =>
                      mem'.data[w] = <<put'[u].items[l].key, put'[u].items[l].val>>
                 /\ put'[u].items[l].st = "recorded" => mem'.rec[w] = put'[u].items[l].key
                 /\ put'[u].items[l].st # "recorded" /\ ~mem'.failed => mem'.rec[w] = None
      <3>1. /\ l \in LeadsOf(put[u]) /\ put'[u].items[l].key = put[u].items[l].key
            /\ put'[u].items[l].key \in Keys \ {k}
            /\ put'[u].items[l].val = put[u].items[l].val
            /\ put'[u].items[l].st = put[u].items[l].st
        BY Zenon, <1>4
      <3>2. w # s
        <4>1. PICK y \in Keys \ {k} : y = put'[u].items[l].key
          BY Zenon, <3>1
        <4>2. mem'.owner[s] # y
          BY SMTT(60), <1>3, <4>1, StoreAssumption
        <4> QED BY Zenon, <2>1, <4>1, <4>2
      <3>3. mem.owner[w] = put[u].items[l].key /\ mem'.rec[w] = mem.rec[w]
        BY Zenon, <1>3, <2>1, <3>1, <3>2
      <3>4. /\ put[u].items[l].st \in {"written", "recorded"} =>
                 mem.data[w] = <<put[u].items[l].key, put[u].items[l].val>>
            /\ put[u].items[l].st = "recorded" => mem.rec[w] = put[u].items[l].key
            /\ put[u].items[l].st # "recorded" /\ ~mem.failed => mem.rec[w] = None
        BY SMTT(60), <3>1, <3>3 DEF StoreInv, Bytes, WrittenInOrder
      <3> QED BY Zenon, <1>5, <3>1, <3>3, <3>4
    <2>2. \A x \in Keys : mem'.flights[x] # None /\ x \notin mem'.deferred => x \notin hist'.removed
      BY SMTT(60), <1>2, <1>3, <1>6 DEF StoreInv, Bytes, WrittenInOrder
    <2> QED BY Zenon, <2>1, <2>2 DEF WrittenInOrder
  <1>11. RestartIsExact'
    BY Zenon, UpIsDirty DEF StoreInv
  <1> QED BY SMTT(60), <1>3, <1>4, <1>7, <1>8, <1>9, <1>10, <1>11 DEF StoreInv, Holders, Bytes

(* What L2 does with one led item, the operators of CommitItem named.      *)
CommitsAs(t, k, st, v, m, n, good, publish, removed) ==
  /\ good \in BOOLEAN /\ publish \in BOOLEAN /\ removed \in BOOLEAN
  /\ (removed <=> k \in mem.deferred) /\ publish = (good /\ ~removed)
  /\ st = IF good THEN "ok" ELSE "ioerror"
  /\ n = IF publish THEN [m EXCEPT !.committed = @ \cup {k}]
         ELSE IF ~good /\ ~removed THEN AllocRemove(m, k) ELSE m
  /\ mem' = [n EXCEPT !.flights[k] = None]
  /\ put' = AfterL2(t, [u \in Threads |-> Completed(IF publish THEN Saw(put[u], k) ELSE put[u],
                                                    t, k, st)], st)
  /\ hist' = IF publish THEN [hist EXCEPT !.last[k] = v] ELSE hist

LEMMA CommitNamed ==
  ASSUME NEW t \in Threads, CommitItem(t), put[t].i \in Leads(t),
         NEW k, k = put[t].items[put[t].i].key
  PROVE  \E ok \in BOOLEAN : \E m, n, good, publish, removed, st :
           /\ m = ReleaseInflight(mem, k, ok)
           /\ good = (put[t].items[put[t].i].st = "recorded" /\ ReleaseOk(mem, k, ok) /\ ~m.failed)
           /\ CommitsAs(t, k, st, put[t].items[put[t].i].val, m, n, good, publish, removed)
  <1>1. PICK ok \in BOOLEAN :
          LET it == put[t].items[put[t].i]
              x == it.key
              removed == RemovedWhileWriting(x)
              m == ReleaseInflight(mem, x, ok)
              good == it.st = "recorded" /\ ReleaseOk(mem, x, ok) /\ ~m.failed
              publish == good /\ ~removed
              n == IF publish THEN [m EXCEPT !.committed = @ \cup {x}]
                   ELSE IF ~good /\ ~removed THEN AllocRemove(m, x) ELSE m
              st == IF good THEN "ok" ELSE "ioerror"
              Told(b) == Completed(IF publish THEN Saw(b, x) ELSE b, t, x, st)
          IN  /\ mem' = [n EXCEPT !.flights[x] = None]
              /\ put' = [u \in Threads |->
                           IF u = t THEN Settle(Told(put[t]), st, "wait") ELSE Told(put[u])]
              /\ hist' = IF publish THEN [hist EXCEPT !.last[x] = it.val] ELSE hist
    BY Zenon DEF CommitItem, Item
  <1>2. PICK m : m = ReleaseInflight(mem, k, ok)
    BY Zenon
  <1>3. PICK good \in BOOLEAN :
          good = (put[t].items[put[t].i].st = "recorded" /\ ReleaseOk(mem, k, ok) /\ ~m.failed)
    BY Zenon DEF ReleaseOk
  <1>4. PICK removed \in BOOLEAN : removed <=> k \in mem.deferred
    <2>1. CASE k \in mem.deferred
      BY Zenon, <2>1
    <2>2. CASE k \notin mem.deferred
      BY Zenon, <2>2
    <2> QED BY Zenon, <2>1, <2>2
  <1>5. PICK publish \in BOOLEAN : publish = (good /\ ~removed)
    BY Zenon
  <1>6. PICK st : st = IF good THEN "ok" ELSE "ioerror"
    BY Zenon
  <1>7. PICK n : n = IF publish THEN [m EXCEPT !.committed = @ \cup {k}]
                     ELSE IF ~good /\ ~removed THEN AllocRemove(m, k) ELSE m
    BY Zenon
  <1>8. /\ mem' = [n EXCEPT !.flights[k] = None]
        /\ hist' = IF publish THEN [hist EXCEPT !.last[k] = put[t].items[put[t].i].val] ELSE hist
    BY Zenon, <1>1, <1>2, <1>3, <1>4, <1>5, <1>7 DEF RemovedWhileWriting
  <1>9. put' = [u \in Threads |->
                  IF u = t
                  THEN Settle(Completed(IF publish THEN Saw(put[t], k) ELSE put[t], t, k, st),
                              st, "wait")
                  ELSE Completed(IF publish THEN Saw(put[u], k) ELSE put[u], t, k, st)]
    BY ZenonT(60), <1>1, <1>2, <1>3, <1>4, <1>5, <1>6 DEF RemovedWhileWriting
  <1>10. put' = AfterL2(t, [u \in Threads |->
                   Completed(IF publish THEN Saw(put[u], k) ELSE put[u], t, k, st)], st)
    BY Zenon, <1>9 DEF AfterL2
  <1>11. CommitsAs(t, k, st, put[t].items[put[t].i].val, m, n, good, publish, removed)
    BY ZenonT(60), <1>4, <1>5, <1>6, <1>7, <1>8, <1>10 DEF CommitsAs
  <1> QED BY Zenon, <1>2, <1>3, <1>11

EndsLed(t, k, s, v, st, publish, frees) ==
  /\ \E told : EndsFlight(t, k, st, told)
  /\ Leaves(k, s, v, publish, frees) /\ mem'.deferred = mem.deferred \ {k}
  /\ lock' \in Threads \cup {None} /\ rd' = rd /\ media' = media
  /\ phase = "up" /\ phase' = "up" /\ k \notin mem.committed

LEMMA CommitLedEffect ==
  ASSUME StoreInv, NEW t \in Threads, CommitItem(t), put[t].i \in Leads(t)
  PROVE  \E k \in Keys, s \in Slots, v \in Vals, st \in {"ok", "ioerror"},
            publish \in BOOLEAN, frees \in BOOLEAN : EndsLed(t, k, s, v, st, publish, frees)
  <1>1. PICK j \in LeadsOf(put[t]) : j = put[t].i
    BY Zenon DEF Leads, LeadsOf, Leading
  <1>2. PICK k \in Keys : k = put[t].items[j].key
    BY Zenon, LedKey
  <1>3. PICK s \in Slots : /\ mem.owner[s] = k /\ mem.pins[s] = 1
                           /\ \A u \in Slots : mem.owner[u] = k => u = s
    BY SMTT(60), <1>2, LedKey
  <1>4. /\ mem.inflight[k] = 1 /\ mem.flights[k] = t /\ t # None /\ k \notin mem.committed
    BY SMTT(60), <1>2, LedKey
  <1>5. PICK ok \in BOOLEAN : \E m, n, good, publish, removed, st :
           /\ m = ReleaseInflight(mem, k, ok)
           /\ good = (put[t].items[j].st = "recorded" /\ ReleaseOk(mem, k, ok) /\ ~m.failed)
           /\ CommitsAs(t, k, st, put[t].items[j].val, m, n, good, publish, removed)
    BY ZenonT(60), <1>1, <1>2, CommitNamed
  <1>6. PICK m, n, good, publish, removed, st :
           /\ m = ReleaseInflight(mem, k, ok)
           /\ good = (put[t].items[j].st = "recorded" /\ ReleaseOk(mem, k, ok) /\ ~m.failed)
           /\ CommitsAs(t, k, st, put[t].items[j].val, m, n, good, publish, removed)
    BY Zenon, <1>5
  <1>7. PICK told : told = [u \in Threads |->
                      Completed(IF publish THEN Saw(put[u], k) ELSE put[u], t, k, st)]
    BY ZenonT(60)
  <1>8. /\ good \in BOOLEAN /\ publish \in BOOLEAN /\ removed \in BOOLEAN
        /\ (removed <=> k \in mem.deferred) /\ publish = (good /\ ~removed)
        /\ st \in {"ok", "ioerror"}
        /\ n = IF publish THEN [m EXCEPT !.committed = @ \cup {k}]
               ELSE IF ~good /\ ~removed THEN AllocRemove(m, k) ELSE m
        /\ mem' = [n EXCEPT !.flights[k] = None]
        /\ put' = AfterL2(t, told, st)
        /\ hist' = IF publish THEN [hist EXCEPT !.last[k] = put[t].items[j].val] ELSE hist
    BY Zenon, <1>6, <1>7 DEF CommitsAs
  <1>9. /\ mem \in Mems /\ mem.doomed = {} /\ phase = "up" /\ phase' = "up" /\ rd' = rd
        /\ media' = media /\ lock' \in Threads \cup {None} /\ put[t].pc = "L2"
    BY ZenonT(60) DEF CommitItem, Serving, Leads, StoreInv, StoreType, Holders, SlotsAreOwned
  <1>10. Released(mem, m, k, s, ok)
    BY SMTT(60), <1>3, <1>4, <1>6, <1>9, ReleaseEffect
  <1>11. /\ m \in Mems /\ m.doomed = {}
         /\ m.pins = [mem.pins EXCEPT ![s] = @ - 1] /\ m.flights = mem.flights
         /\ m.inflight = [mem.inflight EXCEPT ![k] = @ - 1] /\ m.data = mem.data
         /\ m.committed = mem.committed /\ m.deferred = mem.deferred \ {k}
         /\ (mem.failed => m.failed)
         /\ removed /\ m.failed => m.owner = mem.owner /\ m.rec = mem.rec
         /\ removed /\ ~m.failed => /\ m.owner = [mem.owner EXCEPT ![s] = None]
                                    /\ m.rec = [mem.rec EXCEPT ![s] = None]
         /\ ~removed => m.owner = mem.owner /\ m.rec = mem.rec /\ m.failed = mem.failed
    <2>1. RunsRemove(mem, k) = removed
      BY Zenon, <1>4, <1>8 DEF RunsRemove
    <2>2. mem.failed \in BOOLEAN /\ mem.committed \subseteq Keys /\ mem.deferred \subseteq Keys
      BY Zenon, <1>9 DEF Mems
    <2>3. mem.committed \ {k} = mem.committed /\ (~removed => mem.deferred \ {k} = mem.deferred)
      BY Zenon, <1>4, <1>8
    <2> HIDE <1>8
    <2>4. CASE removed
      BY SMTT(60), <1>10, <2>1, <2>2, <2>3, <2>4 DEF Released
    <2>5. CASE ~removed
      BY SMTT(60), <1>10, <2>1, <2>2, <2>3, <2>5 DEF Released
    <2> QED BY Zenon, <1>8, <2>4, <2>5
  <1>12. PICK v \in Vals : v = put[t].items[j].val
    BY Zenon, <1>1, BatchFacts, ItemType DEF LeadsOf
  <1>13. PICK stored : stored = put[t].items[j].st
    BY ZenonT(60)
  <1>14. /\ stored \in {"recorded", "bad"}
         /\ stored = "recorded" => mem.rec[s] = k /\ mem.data[s] = <<k, v>>
         /\ stored # "recorded" /\ ~mem.failed => mem.rec[s] = None
         /\ ~removed => k \notin hist.removed
    <2>1. stored \in {"recorded", "bad"}
      BY Zenon, <1>1, <1>9, <1>13, BatchFacts DEF InOrder
    <2>2. WrittenInOrder
      BY Zenon DEF StoreInv, Bytes
    <2> QED BY SMTT(60), <1>2, <1>3, <1>4, <1>8, <1>12, <1>13, <2>1, <2>2 DEF WrittenInOrder
  <1>15. good => stored = "recorded" /\ ~m.failed
    BY Zenon, <1>6, <1>13
  <1>16. ~good /\ ~removed /\ stored = "recorded" => m.failed
    BY Zenon, <1>4, <1>6, <1>8, <1>13 DEF ReleaseOk, RunsRemove
  <1>17. PICK frees \in BOOLEAN : frees <=> (~m.failed /\ removed) \/ (~good /\ ~removed)
    BY ZenonT(60)
  <1>18. mem.owner \in Table /\ mem.rec \in Table /\ mem.inflight[k] \in Nat
    BY Zenon, <1>9 DEF Mems
  <1> HIDE <1>6
  <1>19. /\ Leaves(k, s, v, publish, frees)
         /\ mem'.flights = [mem.flights EXCEPT ![k] = None]
         /\ mem'.deferred = mem.deferred \ {k}
    <2>1. CASE publish
      <3>1. /\ mem' \in Mems /\ mem'.owner = mem.owner /\ mem'.rec = mem.rec
            /\ mem'.pins = m.pins /\ mem'.inflight = m.inflight /\ mem'.doomed = {}
            /\ mem'.data = m.data /\ mem'.committed = mem.committed \cup {k}
            /\ mem'.failed = m.failed /\ mem'.deferred = m.deferred
            /\ mem'.flights = [m.flights EXCEPT ![k] = None]
        BY Zenon, <1>8, <1>11, <2>1 DEF Mems
      <3>2. good /\ ~removed /\ ~frees /\ stored = "recorded" /\ ~m.failed
        BY Zenon, <1>8, <1>15, <1>17, <2>1
      <3>3. hist' = [hist EXCEPT !.last[k] = v]
        BY Zenon, <1>8, <1>12, <2>1
      <3> QED BY SMTT(30), <1>3, <1>4, <1>11, <1>14, <2>1, <3>1, <3>2, <3>3 DEF Leaves
    <2>2. CASE ~good /\ ~removed
      <3>1. ~publish /\ frees /\ n = AllocRemove(m, k) /\ hist' = hist
        BY Zenon, <1>8, <1>17, <2>2
      <3>2. /\ m.owner[s] = k /\ \A u \in Slots : m.owner[u] = k => u = s
        BY Zenon, <1>3, <1>11, <2>2
      <3>3. m.pins[s] = 0
        BY SMTT(60), <1>3, <1>9, <1>11 DEF Mems
      <3>4. m \in Mems /\ m.doomed = {} /\ Holding(m, k) = {s} /\ SlotOf(m, k) = s
        BY SMTT(60), <1>11, <3>2, SlotOfOwner
      <3>5. /\ n \in Mems
            /\ n.owner = [m.owner EXCEPT ![s] = None]
            /\ n.doomed = {} /\ n.committed = m.committed /\ n.pins = m.pins
            /\ n.inflight = m.inflight
            /\ n.flights = m.flights /\ n.deferred = m.deferred /\ n.failed = m.failed
            /\ n.rec = m.rec /\ n.data = m.data
        BY SMTT(60), <3>1, <3>3, <3>4, AllocRemoveEffect
      <3>6. /\ mem' \in Mems
            /\ mem'.owner = [mem.owner EXCEPT ![s] = None] /\ mem'.rec = mem.rec
            /\ mem'.pins = m.pins /\ mem'.inflight = m.inflight /\ mem'.doomed = {}
            /\ mem'.data = m.data /\ mem'.committed = mem.committed
            /\ mem'.failed = m.failed /\ mem'.deferred = m.deferred
            /\ mem'.flights = [m.flights EXCEPT ![k] = None]
        BY ZenonT(60), <1>8, <1>11, <2>2, <3>5 DEF Mems
      <3>7. mem'.failed \/ mem'.rec[s] = None
        BY SMTT(30), <1>11, <1>14, <1>16, <2>2, <3>6
      <3> QED BY SMTT(30), <1>3, <1>4, <1>11, <3>1, <3>6, <3>7 DEF Leaves
    <2>3. CASE removed
      <3>1. ~publish /\ n = m /\ hist' = hist /\ (frees <=> ~m.failed)
        BY Zenon, <1>8, <1>17, <2>3
      <3>2. /\ mem' \in Mems /\ mem'.owner = m.owner /\ mem'.rec = m.rec
            /\ mem'.pins = m.pins /\ mem'.inflight = m.inflight /\ mem'.doomed = {}
            /\ mem'.data = m.data /\ mem'.committed = mem.committed
            /\ mem'.failed = m.failed /\ mem'.deferred = m.deferred
            /\ mem'.flights = [m.flights EXCEPT ![k] = None]
        BY Zenon, <1>8, <1>11, <3>1 DEF Mems
      <3>3. CASE m.failed
        <4>1. ~frees /\ mem'.failed /\ m.owner = mem.owner /\ m.rec = mem.rec
          BY Zenon, <1>11, <2>3, <3>1, <3>2, <3>3
        <4> QED BY SMTT(30), <1>3, <1>4, <1>11, <3>1, <3>2, <4>1 DEF Leaves
      <3>4. CASE ~m.failed
        <4>1. m.rec[s] = None
          BY Zenon, <1>11, <1>18, <2>3, <3>4 DEF Table
        <4> QED BY SMTT(30), <1>3, <1>4, <1>11, <2>3, <3>1, <3>2, <3>4, <4>1 DEF Leaves
      <3> QED BY Zenon, <3>3, <3>4
    <2> QED BY Zenon, <1>8, <2>1, <2>2, <2>3
  <1>20. EndsFlight(t, k, st, told)
    <2>1. \A u \in Threads : TellsFollowers(put[u], told[u], k)
      <3> SUFFICES ASSUME NEW u \in Threads
                   PROVE  TellsFollowers(put[u], told[u], k)
        BY Zenon
      <3>1. PICK d : d = IF publish THEN Saw(put[u], k) ELSE put[u]
        BY Zenon
      <3>2. d = put[u] \/ d = Saw(put[u], k)
        BY Zenon, <3>1
      <3>3. told[u] = Completed(d, t, k, st)
        BY Zenon, <1>7, <3>1
      <3>4. put[u] \in Batches /\ InOrder(put[u]) /\ Follows(put[u], mem.flights)
        BY Zenon, BatchFacts DEF StoreInv, BatchesOk
      <3> QED BY SMTT(30), <1>4, <1>8, <3>2, <3>3, <3>4, FollowersAreTold
    <2> QED BY ZenonT(60), <1>1, <1>2, <1>8, <1>9, <1>19, <2>1 DEF EndsFlight
  <1> HIDE <1>8
  <1>21. st \in {"ok", "ioerror"} /\ publish \in BOOLEAN
    BY Zenon, <1>8
  <1>22. EndsLed(t, k, s, v, st, publish, frees)
    BY Zenon, <1>4, <1>9, <1>19, <1>20 DEF EndsLed
  <1> QED BY Zenon, <1>21, <1>22

LEMMA CommitLedStep ==
  ASSUME StoreInv, NEW t \in Threads, CommitItem(t), put[t].i \in Leads(t)
  PROVE  StoreInv'
  <1>1. PICK k \in Keys, s \in Slots, v \in Vals, st \in {"ok", "ioerror"},
             publish \in BOOLEAN, frees \in BOOLEAN : EndsLed(t, k, s, v, st, publish, frees)
    BY Zenon, CommitLedEffect
  <1>2. PICK told : EndsFlight(t, k, st, told)
    BY Zenon, <1>1 DEF EndsLed
  <1>3. /\ Leaves(k, s, v, publish, frees) /\ mem'.deferred = mem.deferred \ {k}
        /\ lock' \in Threads \cup {None} /\ rd' = rd /\ media' = media
        /\ phase = "up" /\ phase' = "up"
    BY Zenon, <1>1 DEF EndsLed
  <1> QED BY SMTT(60), <1>2, <1>3, CommitStep

LEMMA CommitItemStep ==
  ASSUME StoreInv, NEW t \in Threads, CommitItem(t)
  PROVE  StoreInv'
  <1>1. CASE put[t].i \in Leads(t)
    BY Zenon, <1>1, CommitLedStep
  <1>2. CASE put[t].i \notin Leads(t)
    <2>1. PICK b \in Batches : b = put[t] /\ InOrder(b) /\ Follows(b, mem.flights)
      BY Zenon, BatchFacts
    <2>2. b.pc = "L2" /\ b.i \notin LeadsOf(b)
      BY Zenon, <1>2, <2>1 DEF CommitItem, Leads, LeadsOf, Leading
    <2>3. PICK c : c = Settle(b, b.items[b.i].st, "wait")
      BY Zenon
    <2>4. c \in Batches /\ InOrder(c) /\ Follows(c, mem.flights) /\ SameLeads(b, c)
      BY Zenon, <2>1, <2>2, <2>3, PassedItem
    <2>5. /\ phase = "up" /\ put' = [put EXCEPT ![t] = c] /\ lock' \in Threads \cup {None}
          /\ UNCHANGED <<mem, rd, media, phase, hist>>
      BY Zenon, <1>2, <2>1, <2>3 DEF CommitItem, Serving, Item, Advance
    <2> QED BY Zenon, <2>1, <2>4, <2>5, PlainBatchStep
  <1> QED BY Zenon, <1>1, <1>2

=============================================================================
