--------------------------- MODULE DiskSlabProofs ---------------------------
(***************************************************************************)
(* Proofs about the slab engine of one disk (DiskSlabStore), for any       *)
(* number of keys, slots, batches, readers and restarts: the counts of     *)
(* holders are exact, a clean epoch is exact, and the engine implements    *)
(* the contract CacheStore.                                                *)
(***************************************************************************)
EXTENDS DiskSlabInvariant

(* AcquireForRead: the key is committed, so no batch leads it.              *)
LEMMA AcquireForReadStep ==
  ASSUME StoreInv, NEW r \in Readers, NEW k \in Keys, AcquireForRead(r, k)
  PROVE  StoreInv'
  <1>1. /\ phase = "up" /\ rd[r] = NoRead /\ k \in mem.committed /\ Contains(mem, k)
        /\ ~mem.failed /\ mem' = Pin(mem, k)
        /\ rd' = [rd EXCEPT ![r] = [key |-> k, slot |-> SlotOf(mem, k),
                                    want |-> mem.data[SlotOf(mem, k)]]]
        /\ UNCHANGED <<lock, put, media, phase, hist>>
    BY Zenon DEF AcquireForRead, Serving
  <1>2. mem \in Mems /\ rd \in [Readers -> Reads] /\ mem.doomed = {}
    BY Zenon DEF StoreInv, StoreType, Holders, SlotsAreOwned
  <1>3. PICK s \in Slots : mem.owner[s] = k
    BY Zenon, <1>1 DEF Contains, Holding
  <1>4. /\ \A u \in Slots : mem.owner[u] = k => u = s
        /\ mem.pins[s] = mem.inflight[k]
    BY Zenon, <1>3, StoreAssumption DEF StoreInv, Holders, SlotsAreOwned
  <1>5. Holding(mem, k) = {s} /\ SlotOf(mem, k) = s
    BY SMTT(30), <1>2, <1>3, <1>4, SlotOfOwner
  <1>6. /\ mem' \in Mems
        /\ mem'.pins = [mem.pins EXCEPT ![s] = @ + 1]
        /\ mem'.inflight = [mem.inflight EXCEPT ![k] = @ + 1]
        /\ mem'.owner = mem.owner /\ mem'.doomed = mem.doomed /\ mem'.committed = mem.committed
        /\ mem'.flights = mem.flights /\ mem'.deferred = mem.deferred
        /\ mem'.failed = mem.failed /\ mem'.rec = mem.rec /\ mem'.data = mem.data
    BY SMTT(30), <1>1, <1>2, <1>5, PinEffect
  <1>7. mem.flights[k] = None /\ k \notin mem.deferred
    BY Zenon, <1>1 DEF StoreInv, Holders, HoldersAreCounted
  <1>8. StoreType'
    <2>1. [key |-> k, slot |-> s, want |-> mem.data[s]] \in Reads
      BY Zenon, <1>2 DEF Reads, Mems, Contents
    <2> QED BY Zenon, <1>1, <1>2, <1>5, <1>6, <2>1 DEF StoreInv, StoreType
  <1>9. /\ ReadersOf(k)' = ReadersOf(k) \cup {r} /\ r \notin ReadersOf(k)
        /\ \A x \in Keys \ {k} : ReadersOf(x)' = ReadersOf(x)
        /\ IsFiniteSet(ReadersOf(k))
    <2>1. rd[r].key = None /\ None \notin Keys
      BY <1>1, StoreAssumption DEF NoRead
    <2>2. IsFiniteSet(ReadersOf(k))
      BY Zenon, FS_Subset, StoreAssumption DEF ReadersOf
    <2>3. rd'[r].key = k /\ \A q \in Readers : q # r => rd'[q] = rd[q]
      BY Zenon, <1>1, <1>2
    <2>4. ReadersOf(k)' = ReadersOf(k) \cup {r} /\ r \notin ReadersOf(k)
      BY Zenon, <2>1, <2>3 DEF ReadersOf
    <2>5. \A x \in Keys \ {k} : ReadersOf(x)' = ReadersOf(x)
      BY Zenon, <2>1, <2>3 DEF ReadersOf
    <2> QED BY Zenon, <2>2, <2>4, <2>5
  <1>10. /\ Cardinality(ReadersOf(k)') = Cardinality(ReadersOf(k)) + 1
         /\ Cardinality(ReadersOf(k)) \in Nat
    BY SMTT(30), <1>9, FS_AddElement, FS_CardinalityType
  <1>11. /\ mem'.inflight[k] = mem.inflight[k] + 1 /\ mem.inflight[k] \in Nat
         /\ mem'.pins[s] = mem.pins[s] + 1
         /\ \A x \in Keys \ {k} : mem'.inflight[x] = mem.inflight[x]
         /\ \A u \in Slots \ {s} : mem'.pins[u] = mem.pins[u]
    BY Zenon, <1>2, <1>6 DEF Mems
  <1>12. SlotsAreOwned'
    <2>1. /\ mem'.doomed = {}
          /\ \A w, u \in Slots : mem'.owner[w] # None /\ mem'.owner[w] = mem'.owner[u] => w = u
      BY <1>6 DEF StoreInv, Holders, SlotsAreOwned
    <2>2. ASSUME NEW w \in Slots
          PROVE  mem'.pins[w] = IF mem'.owner[w] = None THEN 0 ELSE mem'.inflight[mem'.owner[w]]
      <3>1. mem.pins[w] = IF mem.owner[w] = None THEN 0 ELSE mem.inflight[mem.owner[w]]
        BY Zenon DEF StoreInv, Holders, SlotsAreOwned
      <3>2. mem.owner[w] \in Keys \cup {None}
        BY Zenon, <1>2 DEF Mems, Table
      <3>3. CASE w = s
        BY SMTT(30), <1>3, <1>4, <1>6, <1>11, <3>3, StoreAssumption
      <3>4. CASE w # s
        BY SMTT(30), <1>4, <1>6, <1>11, <3>1, <3>2, <3>4
      <3> QED BY Zenon, <3>3, <3>4
    <2>3. \A x \in Keys : mem'.inflight[x] > 0 => \E w \in Slots : mem'.owner[w] = x
      BY SMTT(30), <1>3, <1>6, <1>11 DEF StoreInv, Holders, SlotsAreOwned
    <2> QED BY Zenon, <2>1, <2>2, <2>3 DEF SlotsAreOwned
  <1>13. HoldersAreCounted'
    <2> SUFFICES ASSUME NEW x \in Keys
                 PROVE  /\ mem'.inflight[x] = Cardinality(ReadersOf(x)') + Flying(x)'
                        /\ mem'.flights[x] # None => x \notin mem'.committed /\ ReadersOf(x)' = {}
                        /\ x \in mem'.deferred => mem'.inflight[x] > 0 /\ x \notin mem'.committed
      BY Zenon DEF HoldersAreCounted
    <2>1. /\ mem.inflight[x] = Cardinality(ReadersOf(x)) + Flying(x)
          /\ mem.flights[x] # None => x \notin mem.committed /\ ReadersOf(x) = {}
          /\ x \in mem.deferred => mem.inflight[x] > 0 /\ x \notin mem.committed
      BY Zenon DEF StoreInv, Holders, HoldersAreCounted
    <2>2. Flying(x)' = Flying(x)
      BY Zenon, <1>6 DEF Flying
    <2>3. CASE x = k
      <3>1. Flying(k) = 0
        BY Zenon, <1>7 DEF Flying
      <3>2. mem'.inflight[k] = Cardinality(ReadersOf(k)') + Flying(k)'
        BY SMTT(30), <1>10, <1>11, <2>1, <2>2, <2>3, <3>1
      <3> QED BY Zenon, <1>6, <1>7, <2>3, <3>2
    <2>4. CASE x # k
      BY Zenon, <1>6, <1>9, <1>11, <2>1, <2>2, <2>4
    <2> QED BY Zenon, <2>3, <2>4
  <1>14. ReadsArePinned'
    <2> SUFFICES ASSUME NEW q \in Readers, rd'[q] # NoRead
                 PROVE  /\ rd'[q].key \in mem'.committed \cup mem'.deferred /\ rd'[q].slot \in Slots
                        /\ mem'.owner[rd'[q].slot] = rd'[q].key
                        /\ mem'.data[rd'[q].slot] = rd'[q].want
      BY Zenon DEF ReadsArePinned
    <2>1. CASE q = r
      BY SMTT(30), <1>1, <1>2, <1>3, <1>5, <1>6, <2>1
    <2>2. CASE q # r
      <3>1. rd'[q] = rd[q]
        BY SMTT(60), <1>1, <2>2
      <3> QED BY SMTT(30), <1>6, <3>1, ReadersPin
    <2> QED BY Zenon, <2>1, <2>2
  <1>15. BatchesOk'
    <2>1. \A t \in Threads : InOrder(put'[t]) /\ Follows(put'[t], mem.flights)
      BY Zenon, <1>1 DEF StoreInv, BatchesOk
    <2> QED BY Zenon, <1>1, <1>6, <2>1, BatchesStay DEF StoreInv
  <1>16. Bytes'
    <2>1. Bytes
      BY Zenon DEF StoreInv
    <2>2. /\ put' = put /\ hist' = hist /\ mem'.owner = mem.owner /\ mem'.data = mem.data
          /\ mem'.rec = mem.rec /\ mem'.failed = mem.failed /\ mem'.flights = mem.flights
          /\ mem'.deferred = mem.deferred /\ mem'.committed = mem.committed
      BY Zenon, <1>1, <1>6
    <2>3. CommittedIsWhole' /\ WrittenInOrder'
      BY SMTT(60), <2>1, <2>2 DEF Bytes, CommittedIsWhole, WrittenInOrder
    <2>4. TableIsLive'
      <3>1. \A x \in Keys : mem.inflight[x] > 0 => mem'.inflight[x] > 0
        BY <1>11
      <3>2. \A w \in Slots : mem.rec[w] # None => mem.rec[w] \in Keys
        BY Zenon, <1>2 DEF Mems, Table
      <3> QED BY SMTT(30), <1>1, <1>6, <2>1, <3>1, <3>2 DEF Bytes, TableIsLive
    <2> QED BY Zenon, <2>3, <2>4 DEF Bytes
  <1>17. RestartIsExact'
    BY Zenon, <1>1, UpIsDirty DEF StoreInv
  <1> QED BY SMTT(30), <1>8, <1>12, <1>13, <1>14, <1>15, <1>16, <1>17 DEF StoreInv, Holders



(* An idle slot is given back: by REMOVE, or by the reclaimer.              *)
FreesIdle(k, s) ==
  /\ mem' \in Mems /\ mem.owner[s] = k /\ mem.inflight[k] = 0
  /\ mem'.owner = [mem.owner EXCEPT ![s] = None] /\ mem'.rec = [mem.rec EXCEPT ![s] = None]
  /\ mem'.committed = mem.committed \ {k} /\ mem'.doomed = {}
  /\ mem'.pins = mem.pins /\ mem'.inflight = mem.inflight /\ mem'.flights = mem.flights
  /\ mem'.deferred = mem.deferred /\ mem'.failed = mem.failed /\ mem'.data = mem.data
  /\ hist' \in [removed : SUBSET Keys, last : [Keys -> Vals \cup {None}]]
  /\ hist'.removed \subseteq hist.removed \cup {k}
  /\ \A x \in Keys \ {k} : hist'.last[x] = hist.last[x]

LEMMA IdleFreed ==
  ASSUME StoreInv, NEW k \in Keys, NEW s \in Slots, FreesIdle(k, s), BatchesMove,
         phase = "up", phase' = "up", UNCHANGED <<lock, rd, media>>
  PROVE  StoreInv'
  <1>1. /\ mem' \in Mems /\ mem.owner[s] = k /\ mem.inflight[k] = 0
        /\ mem'.owner = [mem.owner EXCEPT ![s] = None] /\ mem'.rec = [mem.rec EXCEPT ![s] = None]
        /\ mem'.committed = mem.committed \ {k} /\ mem'.doomed = {}
        /\ mem'.pins = mem.pins /\ mem'.inflight = mem.inflight /\ mem'.flights = mem.flights
        /\ mem'.deferred = mem.deferred /\ mem'.failed = mem.failed /\ mem'.data = mem.data
    BY Zenon DEF FreesIdle
  <1>2. /\ hist' \in [removed : SUBSET Keys, last : [Keys -> Vals \cup {None}]]
        /\ hist'.removed \subseteq hist.removed \cup {k}
        /\ \A x \in Keys \ {k} : hist'.last[x] = hist.last[x]
    BY Zenon DEF FreesIdle
  <1>3. /\ mem \in Mems /\ mem.owner \in Table /\ mem.rec \in Table
        /\ mem.inflight \in [Keys -> Nat] /\ mem.flights \in [Keys -> Threads \cup {None}]
    BY Zenon DEF StoreInv, StoreType, Mems
  <1>4. /\ mem'.owner[s] = None /\ mem'.rec[s] = None
        /\ \A u \in Slots \ {s} : mem'.owner[u] = mem.owner[u] /\ mem'.rec[u] = mem.rec[u]
    BY Zenon, <1>1, <1>3 DEF Table
  <1>5. k # None /\ \A u \in Slots : mem.owner[u] = k => u = s
    BY Zenon, <1>1, StoreAssumption DEF StoreInv, Holders, SlotsAreOwned
  <1>6. mem.flights[k] = None /\ k \notin mem.deferred /\ ReadersOf(k) = {}
    <2>1. IsFiniteSet(ReadersOf(k))
      BY Zenon, FS_Subset, StoreAssumption DEF ReadersOf
    <2>2. Cardinality(ReadersOf(k)) \in Nat /\ (Cardinality(ReadersOf(k)) = 0 => ReadersOf(k) = {})
      BY Zenon, <2>1, FS_CardinalityType, FS_EmptySet
    <2>3. /\ mem.inflight[k] = Cardinality(ReadersOf(k)) + Flying(k)
          /\ k \in mem.deferred => mem.inflight[k] > 0
      BY Zenon DEF StoreInv, Holders, HoldersAreCounted
    <2>4. Flying(k) \in {0, 1} /\ (Flying(k) = 0 => mem.flights[k] = None)
      BY SMTT(60) DEF Flying
    <2> QED BY SMTT(30), <1>1, <2>2, <2>3, <2>4
  <1>7. StoreType'
    BY Zenon, <1>1, <1>2 DEF StoreInv, StoreType, BatchesMove
  <1>8. SlotsAreOwned'
    <2>1. SlotsAreOwned
      BY Zenon DEF StoreInv, Holders
    <2>2. \A w, u \in Slots : mem'.owner[w] # None /\ mem'.owner[w] = mem'.owner[u] => w = u
      BY <1>4, <2>1 DEF SlotsAreOwned
    <2>3. ASSUME NEW w \in Slots
          PROVE  mem'.pins[w] = IF mem'.owner[w] = None THEN 0 ELSE mem'.inflight[mem'.owner[w]]
      <3>1. mem.pins[w] = IF mem.owner[w] = None THEN 0 ELSE mem.inflight[mem.owner[w]]
        BY Zenon, <2>1 DEF SlotsAreOwned
      <3>2. CASE w = s
        BY Zenon, <1>1, <1>4, <1>5, <3>1, <3>2
      <3>3. CASE w # s
        BY Zenon, <1>1, <1>4, <3>1, <3>3
      <3> QED BY Zenon, <3>2, <3>3
    <2>4. ASSUME NEW x \in Keys, mem'.inflight[x] > 0
          PROVE  \E w \in Slots : mem'.owner[w] = x
      <3>1. x # k /\ mem.inflight[x] > 0
        BY SMTT(60), <1>1, <2>4
      <3>2. PICK w \in Slots : mem.owner[w] = x
        BY Zenon, <2>1, <3>1 DEF SlotsAreOwned
      <3> QED BY Zenon, <1>1, <1>4, <3>1, <3>2
    <2> QED BY Zenon, <1>1, <2>2, <2>3, <2>4 DEF SlotsAreOwned
  <1>9. HoldersAreCounted'
    BY SMTT(60), <1>1 DEF StoreInv, Holders, HoldersAreCounted, ReadersOf, Flying
  <1>10. ReadsArePinned'
    <2> SUFFICES ASSUME NEW q \in Readers, rd[q] # NoRead
                 PROVE  /\ rd[q].key \in mem'.committed \cup mem'.deferred /\ rd[q].slot \in Slots
                        /\ mem'.owner[rd[q].slot] = rd[q].key
                        /\ mem'.data[rd[q].slot] = rd[q].want
      BY Zenon DEF ReadsArePinned
    <2>1. /\ rd[q].key \in Keys /\ rd[q].slot \in Slots
          /\ mem.owner[rd[q].slot] = rd[q].key /\ mem.data[rd[q].slot] = rd[q].want
          /\ rd[q].key \in mem.committed \cup mem.deferred
      BY Zenon, ReadersPin
    <2>2. rd[q].key # k
      BY Zenon, <1>6 DEF ReadersOf
    <2>3. rd[q].slot # s
      BY Zenon, <1>1, <2>1, <2>2
    <2> QED BY Zenon, <1>1, <1>4, <2>1, <2>2, <2>3
  <1>11. BatchesOk'
    BY Zenon, <1>1, BatchesStay DEF StoreInv, BatchesMove, SameLeads
  <1>12. CommittedIsWhole'
    <2> SUFFICES ASSUME NEW x \in mem'.committed
                 PROVE  /\ x \notin hist'.removed /\ hist'.last[x] # None
                        /\ \E w \in Slots : /\ mem'.owner[w] = x /\ mem'.rec[w] = x
                                            /\ mem'.data[w] = <<x, hist'.last[x]>>
      BY Zenon DEF CommittedIsWhole
    <2>1. x \in Keys \ {k} /\ x \in mem.committed
      BY Zenon, <1>1, <1>3 DEF Mems
    <2>2. PICK w \in Slots : /\ mem.owner[w] = x /\ mem.rec[w] = x
                             /\ mem.data[w] = <<x, hist.last[x]>>
                             /\ x \notin hist.removed /\ hist.last[x] # None
      BY Zenon, <2>1 DEF StoreInv, Bytes, CommittedIsWhole
    <2>3. w # s
      BY Zenon, <1>1, <2>1, <2>2
    <2> QED BY SMTT(30), <1>1, <1>2, <1>4, <2>1, <2>2, <2>3
  <1>13. WrittenInOrder'
    <2>1. ASSUME NEW u \in Threads, NEW l \in LeadsOf(put'[u]), NEW w \in Slots,
                 mem'.owner[w] = put'[u].items[l].key
          PROVE  /\ put'[u].items[l].st \in {"written", "recorded"} =>
                      mem'.data[w] = <<put'[u].items[l].key, put'[u].items[l].val>>
                 /\ put'[u].items[l].st = "recorded" => mem'.rec[w] = put'[u].items[l].key
                 /\ put'[u].items[l].st # "recorded" /\ ~mem'.failed => mem'.rec[w] = None
      <3>1. /\ l \in LeadsOf(put[u]) /\ put'[u].items[l].key = put[u].items[l].key
            /\ put'[u].items[l].val = put[u].items[l].val
            /\ put'[u].items[l].st = put[u].items[l].st
        BY Zenon DEF BatchesMove, SameLeads
      <3>2. put[u].items[l].key \in Keys
        BY Zenon, <3>1, LedKey
      <3>3. w # s
        BY Zenon, <1>4, <2>1, <3>1, <3>2, StoreAssumption
      <3>4. mem.owner[w] = put[u].items[l].key /\ mem'.rec[w] = mem.rec[w]
        BY SMTT(60), <1>4, <2>1, <3>1, <3>3
      <3> QED BY SMTT(60), <1>1, <3>1, <3>4 DEF StoreInv, Bytes, WrittenInOrder
    <2>2. \A x \in Keys : mem'.flights[x] # None /\ x \notin mem'.deferred => x \notin hist'.removed
      BY SMTT(60), <1>1, <1>2, <1>6 DEF StoreInv, Bytes, WrittenInOrder
    <2> QED BY Zenon, <2>1, <2>2 DEF WrittenInOrder
  <1>14. TableIsLive'
    <2> SUFFICES ASSUME ~mem'.failed, NEW w \in Slots, mem'.rec[w] # None
                 PROVE  /\ mem'.owner[w] = mem'.rec[w]
                        /\ mem'.rec[w] \in mem'.committed \/ mem'.inflight[mem'.rec[w]] > 0
      BY Zenon DEF TableIsLive
    <2>1. w # s /\ mem'.rec[w] = mem.rec[w] /\ mem'.owner[w] = mem.owner[w]
      BY Zenon, <1>4
    <2>2. /\ mem.owner[w] = mem.rec[w]
          /\ mem.rec[w] \in mem.committed \/ mem.inflight[mem.rec[w]] > 0
      BY Zenon, <1>1, <2>1 DEF StoreInv, Bytes, TableIsLive
    <2>3. mem.rec[w] # k
      BY Zenon, <1>5, <2>1, <2>2
    <2> QED BY Zenon, <1>1, <2>1, <2>2, <2>3
  <1>15. RestartIsExact'
    BY Zenon, UpIsDirty DEF StoreInv
  <1> QED BY SMTT(30), <1>7, <1>8, <1>9, <1>10, <1>11, <1>12, <1>13, <1>14, <1>15
          DEF StoreInv, Holders, Bytes


LEMMA SawMoves ==
  ASSUME StoreInv, NEW k \in Keys, put' = [t \in Threads |-> Saw(put[t], k)]
  PROVE  BatchesMove
  <1> SUFFICES ASSUME NEW t \in Threads
               PROVE  /\ Saw(put[t], k) \in Batches /\ InOrder(Saw(put[t], k))
                      /\ Follows(Saw(put[t], k), mem.flights) /\ SameLeads(put[t], Saw(put[t], k))
    BY Zenon DEF BatchesMove
  <1>1. PICK b \in Batches : b = put[t] /\ InOrder(b) /\ Follows(b, mem.flights)
    BY Zenon, BatchFacts
  <1>2. PICK c : c = Saw(b, k)
    BY Zenon
  <1>3. /\ c \in Batches /\ Len(c.items) = Len(b.items)
        /\ DOMAIN c.items = DOMAIN b.items /\ c.i = b.i /\ c.pc = b.pc
        /\ \A j \in DOMAIN b.items :
             /\ c.items[j].key = b.items[j].key /\ c.items[j].val = b.items[j].val
             /\ c.items[j].by = b.items[j].by /\ c.items[j].st = b.items[j].st
    BY Zenon, <1>2, SawEffect
  <1>4. LeadsOf(c) = LeadsOf(b) /\ WaitsOf(c) = WaitsOf(b)
    BY Zenon, <1>3 DEF LeadsOf, WaitsOf
  <1>5. InOrder(c)
    <2>1. \A j \in LeadsOf(b) : j \in DOMAIN b.items
      BY Zenon DEF LeadsOf
    <2> QED BY SMTT(30), <1>1, <1>3, <1>4, <2>1 DEF InOrder
  <1>6. Follows(c, mem.flights)
    <2>1. \A j \in WaitsOf(b) : j \in DOMAIN b.items
      BY Zenon DEF WaitsOf
    <2> QED BY SMTT(60), <1>1, <1>3, <1>4, <2>1 DEF Follows
  <1>7. SameLeads(b, c)
    BY Zenon, <1>3, <1>4 DEF SameLeads, LeadsOf
  <1> QED BY SMTT(30), <1>1, <1>2, <1>3, <1>5, <1>6, <1>7

(* REMOVE of a key in flight hides it and leaves the rest to its holders.   *)
LEMMA RemoveDeferred ==
  ASSUME StoreInv, NEW k \in Keys, mem.inflight[k] > 0, BatchesMove,
         mem' = [mem EXCEPT !.deferred = @ \cup {k}, !.committed = @ \ {k}],
         hist' = [hist EXCEPT !.removed = @ \cup {k}, !.last[k] = None],
         phase = "up", phase' = "up", UNCHANGED <<lock, rd, media>>
  PROVE  StoreInv'
  <1>1. mem \in Mems /\ hist \in [removed : SUBSET Keys, last : [Keys -> Vals \cup {None}]]
    BY Zenon DEF StoreInv, StoreType
  <1>2. /\ mem' \in Mems
        /\ mem'.owner = mem.owner /\ mem'.rec = mem.rec /\ mem'.doomed = mem.doomed
        /\ mem'.committed = mem.committed \ {k} /\ mem'.deferred = mem.deferred \cup {k}
        /\ mem'.pins = mem.pins /\ mem'.inflight = mem.inflight /\ mem'.flights = mem.flights
        /\ mem'.failed = mem.failed /\ mem'.data = mem.data
    BY Zenon, <1>1 DEF Mems
  <1>3. /\ hist' \in [removed : SUBSET Keys, last : [Keys -> Vals \cup {None}]]
        /\ hist'.removed = hist.removed \cup {k}
        /\ \A x \in Keys \ {k} : hist'.last[x] = hist.last[x]
    BY Zenon, <1>1
  <1>4. StoreType'
    BY Zenon, <1>2, <1>3 DEF StoreInv, StoreType, BatchesMove
  <1>5. SlotsAreOwned'
    BY <1>2 DEF StoreInv, Holders, SlotsAreOwned
  <1>6. HoldersAreCounted'
    BY <1>2 DEF StoreInv, Holders, HoldersAreCounted, ReadersOf, Flying
  <1>7. ReadsArePinned'
    BY Zenon, <1>2 DEF StoreInv, Holders, ReadsArePinned
  <1>8. BatchesOk'
    BY Zenon, <1>2, BatchesStay DEF StoreInv, BatchesMove, SameLeads
  <1>9. CommittedIsWhole'
    <2>1. \A x \in mem'.committed : x \in mem.committed /\ x \in Keys \ {k}
      BY Zenon, <1>1, <1>2 DEF Mems
    <2> QED BY SMTT(30), <1>2, <1>3, <2>1 DEF StoreInv, Bytes, CommittedIsWhole
  <1>10. WrittenInOrder'
    <2>1. \A u \in Threads : \A l \in LeadsOf(put'[u]) :
            /\ l \in LeadsOf(put[u]) /\ put'[u].items[l].key = put[u].items[l].key
            /\ put'[u].items[l].val = put[u].items[l].val
            /\ put'[u].items[l].st = put[u].items[l].st
      BY Zenon DEF BatchesMove, SameLeads
    <2> QED BY SMTT(30), <1>2, <1>3, <2>1 DEF StoreInv, Bytes, WrittenInOrder
  <1>11. TableIsLive'
    BY Zenon, <1>2 DEF StoreInv, Bytes, TableIsLive
  <1>12. RestartIsExact'
    BY Zenon, UpIsDirty DEF StoreInv
  <1> QED BY SMTT(30), <1>4, <1>5, <1>6, <1>7, <1>8, <1>9, <1>10, <1>11, <1>12
          DEF StoreInv, Holders, Bytes

LEMMA StoreFails ==
  ASSUME StoreInv, BatchesMove, mem' = [mem EXCEPT !.failed = TRUE],
         phase = "up", UNCHANGED <<lock, rd, media, phase, hist>>
  PROVE  StoreInv'
  <1>1. /\ mem \in Mems /\ lock' \in Threads \cup {None}
        /\ hist \in [removed : SUBSET Keys, last : [Keys -> Vals \cup {None}]]
    BY Zenon DEF StoreInv, StoreType
  <1>2. /\ mem' \in Mems /\ mem'.failed = TRUE
        /\ mem'.owner = mem.owner /\ mem'.doomed = mem.doomed /\ mem'.committed = mem.committed
        /\ mem'.pins = mem.pins /\ mem'.inflight = mem.inflight
        /\ mem'.flights = mem.flights /\ mem'.deferred = mem.deferred
        /\ mem'.rec = mem.rec /\ mem'.data = mem.data
    BY Zenon, <1>1, FailEffect
  <1> QED BY Zenon, <1>1, <1>2, OnlyBatchesMove

LEMMA RemoveStep ==
  ASSUME StoreInv, NEW k \in Keys, Remove(k)
  PROVE  StoreInv'
  <1>1. /\ phase = "up" /\ phase' = "up" /\ ~mem.failed /\ Contains(mem, k)
        /\ put' = [t \in Threads |-> Saw(put[t], k)]
        /\ UNCHANGED <<lock, rd, media, phase>>
    BY Zenon DEF Remove, Serving
  <1>2. BatchesMove
    BY Zenon, <1>1, SawMoves
  <1>3. /\ mem \in Mems /\ mem.inflight[k] \in Nat
        /\ hist \in [removed : SUBSET Keys, last : [Keys -> Vals \cup {None}]]
    BY Zenon DEF StoreInv, StoreType, Mems
  <1>4. CASE /\ mem.inflight[k] > 0
             /\ mem' = [mem EXCEPT !.deferred = @ \cup {k}, !.committed = @ \ {k}]
             /\ hist' = [hist EXCEPT !.removed = @ \cup {k}, !.last[k] = None]
    BY Zenon, <1>1, <1>2, <1>4, RemoveDeferred
  <1>5. CASE /\ mem.inflight[k] = 0
             /\ mem' = [AllocRemove([mem EXCEPT !.rec[SlotOf(mem, k)] = None], k)
                          EXCEPT !.committed = @ \ {k}]
             /\ hist' = [hist EXCEPT !.removed = @ \cup {k}, !.last[k] = None]
    <2>1. PICK s \in Slots : mem.owner[s] = k
      BY Zenon, <1>1 DEF Contains, Holding
    <2>2. /\ \A u \in Slots : mem.owner[u] = k => u = s
          /\ mem.pins[s] = 0 /\ mem.doomed = {}
      BY Zenon, <1>5, <2>1, StoreAssumption DEF StoreInv, Holders, SlotsAreOwned
    <2>3. SlotOf(mem, k) = s
      BY SMTT(60), <1>3, <2>1, <2>2, SlotOfOwner
    <2>4. PICK m : m = [mem EXCEPT !.rec[s] = None]
      BY Zenon
    <2>5. /\ m \in Mems /\ m.owner = mem.owner /\ m.rec = [mem.rec EXCEPT ![s] = None]
          /\ m.doomed = {} /\ m.committed = mem.committed /\ m.pins = mem.pins
          /\ m.inflight = mem.inflight /\ m.flights = mem.flights
          /\ m.deferred = mem.deferred /\ m.failed = mem.failed /\ m.data = mem.data
      BY Zenon, <1>3, <2>2, <2>4 DEF Mems, Table
    <2>6. Holding(m, k) = {s} /\ SlotOf(m, k) = s /\ m.pins[s] = 0
      BY SMTT(60), <2>1, <2>2, <2>5, SlotOfOwner
    <2>7. PICK n : n = AllocRemove(m, k)
      BY Zenon
    <2>8. /\ n \in Mems /\ n.owner = [m.owner EXCEPT ![s] = None]
          /\ n.doomed = {} /\ n.committed = m.committed /\ n.pins = m.pins
          /\ n.inflight = m.inflight
          /\ n.flights = m.flights /\ n.deferred = m.deferred /\ n.failed = m.failed
          /\ n.rec = m.rec /\ n.data = m.data
      BY SMTT(30), <2>5, <2>6, <2>7, AllocRemoveEffect
    <2>9. mem' = [n EXCEPT !.committed = @ \ {k}]
      BY Zenon, <1>5, <2>3, <2>4, <2>7
    <2>10. /\ mem' \in Mems /\ mem'.owner = n.owner /\ mem'.committed = n.committed \ {k}
           /\ mem'.rec = n.rec /\ mem'.doomed = n.doomed /\ mem'.pins = n.pins
           /\ mem'.inflight = n.inflight /\ mem'.flights = n.flights
           /\ mem'.deferred = n.deferred /\ mem'.failed = n.failed /\ mem'.data = n.data
      BY Zenon, <2>8, <2>9 DEF Mems
    <2>11. /\ hist' \in [removed : SUBSET Keys, last : [Keys -> Vals \cup {None}]]
           /\ hist'.removed \subseteq hist.removed \cup {k}
           /\ \A x \in Keys \ {k} : hist'.last[x] = hist.last[x]
      BY Zenon, <1>3, <1>5
    <2>12. FreesIdle(k, s)
      BY SMTT(30), <1>5, <2>1, <2>5, <2>8, <2>10, <2>11 DEF FreesIdle
    <2> QED BY Zenon, <1>1, <1>2, <2>12, IdleFreed
  <1>6. CASE mem' = [mem EXCEPT !.failed = TRUE] /\ UNCHANGED hist
    BY Zenon, <1>1, <1>2, <1>6, StoreFails
  <1> QED BY Zenon, <1>4, <1>5, <1>6 DEF Remove

LEMMA ReclaimStep ==
  ASSUME StoreInv, Reclaim
  PROVE  StoreInv'
  <1>1. /\ phase = "up" /\ phase' = "up" /\ UNCHANGED <<lock, put, rd, media, phase, hist>>
    BY Zenon DEF Reclaim, Serving
  <1>2. BatchesMove
    BY Zenon, <1>1, NoBatchMoves DEF StoreInv
  <1>3. PICK s \in Victims(mem) : \E ok \in BOOLEAN : mem' = Evict(mem, s, ok)
    BY Zenon DEF Reclaim
  <1>4. /\ mem \in Mems /\ mem.doomed = {}
        /\ hist \in [removed : SUBSET Keys, last : [Keys -> Vals \cup {None}]]
    BY Zenon DEF StoreInv, StoreType, Holders, SlotsAreOwned
  <1>5. PICK k \in Keys : s \in Slots /\ mem.owner[s] = k /\ mem.pins[s] = 0
    BY Zenon, <1>3, <1>4 DEF Victims, Mems, Table
  <1>6. CASE mem' = Evict(mem, s, TRUE)
    <2>1. mem.inflight[k] = 0
      BY Zenon, <1>5, StoreAssumption DEF StoreInv, Holders, SlotsAreOwned
    <2>2. /\ mem' \in Mems
          /\ mem'.owner = [mem.owner EXCEPT ![s] = None]
          /\ mem'.rec = [mem.rec EXCEPT ![s] = None]
          /\ mem'.committed = mem.committed \ {mem.owner[s]}
          /\ mem'.doomed = {} /\ mem'.pins = mem.pins /\ mem'.inflight = mem.inflight
          /\ mem'.flights = mem.flights /\ mem'.deferred = mem.deferred
          /\ mem'.failed = mem.failed /\ mem'.data = mem.data
      BY ZenonT(60), <1>4, <1>5, <1>6, EvictEffect
    <2>3. FreesIdle(k, s)
      BY Zenon, <1>1, <1>4, <1>5, <2>1, <2>2 DEF FreesIdle
    <2> QED BY Zenon, <1>1, <1>2, <1>5, <2>3, IdleFreed
  <1>7. CASE mem' = Evict(mem, s, FALSE)
    BY Zenon, <1>1, <1>2, <1>7, StoreFails DEF Evict
  <1> QED BY Zenon, <1>3, <1>6, <1>7

-----------------------------------------------------------------------------
(* The medium and the life of the process.                                 *)

Medium == [rec : Table, data : Contents, epoch : 0..MaxEpoch, clean : BOOLEAN]

(* With no call under way nothing is held.                                 *)
LEMMA QuietHoldsNothing ==
  ASSUME StoreInv, \A t \in Threads : put[t] = NoBatch, \A r \in Readers : rd[r] = NoRead
  PROVE  /\ \A k \in Keys : mem.flights[k] = None /\ mem.inflight[k] = 0 /\ k \notin mem.deferred
         /\ \A s \in Slots : mem.pins[s] = 0
         /\ \A t \in Threads : LeadsOf(put[t]) = {}
  <1>1. \A t \in Threads : LeadsOf(put[t]) = {}
    BY DEF LeadsOf, NoBatch
  <1>2. ASSUME NEW k \in Keys
        PROVE  mem.flights[k] = None /\ mem.inflight[k] = 0 /\ k \notin mem.deferred
    <2>1. mem.flights[k] = None
      <3>1. mem.flights[k] \in Threads \cup {None}
        BY Zenon DEF StoreInv, StoreType, Mems
      <3> QED BY Zenon, <1>1, <3>1 DEF StoreInv, BatchesOk, FlightsAreLed
    <2>2. ReadersOf(k) = {}
      BY StoreAssumption DEF ReadersOf, NoRead
    <2>3. Cardinality(ReadersOf(k)) = 0
      BY Zenon, <2>2, FS_EmptySet
    <2>4. Flying(k) = 0
      BY Zenon, <2>1 DEF Flying
    <2> QED BY SMTT(60), <2>1, <2>3, <2>4 DEF StoreInv, Holders, HoldersAreCounted
  <1>3. \A s \in Slots : mem.pins[s] = 0
    <2>1. \A s \in Slots : mem.owner[s] \in Keys \cup {None}
      BY Zenon DEF StoreInv, StoreType, Mems, Table
    <2> QED BY Zenon, <1>2, <2>1 DEF StoreInv, Holders, SlotsAreOwned
  <1> QED BY Zenon, <1>1, <1>2, <1>3

(* A process that has ended holds nothing, whatever table it leaves.        *)
LEMMA EndedStep ==
  ASSUME StoreInv, NEW rec \in Table, NEW data \in Contents, Ended(rec, data), hist' = hist,
         media' \in Medium,
         media'.clean => rec = media'.rec /\ data = media'.data /\ Exact(rec, data)
  PROVE  StoreInv'
  <1>1. /\ mem' = Fresh(rec, data) /\ lock' = None /\ phase' = "down"
        /\ put' = [t \in Threads |-> NoBatch] /\ rd' = [r \in Readers |-> NoRead]
    BY Zenon DEF Ended
  <1>2. EmptyTable \in Table /\ \A s \in Slots : EmptyTable[s] = None
    BY Zenon DEF EmptyTable, Table
  <1>3. /\ mem' \in Mems /\ mem'.owner = EmptyTable /\ mem'.doomed = {} /\ mem'.committed = {}
        /\ mem'.deferred = {} /\ mem'.failed = FALSE /\ mem'.rec = rec /\ mem'.data = data
        /\ \A s \in Slots : mem'.pins[s] = 0
        /\ \A k \in Keys : mem'.inflight[k] = 0 /\ mem'.flights[k] = None
    BY Zenon, <1>1, <1>2 DEF Fresh, Mems
  <1>4. NoBatch \in Batches /\ NoRead \in Reads
    <2>1. <<>> \in Seq(ItemRecs)
      BY SMTT(60)
    <2> QED BY Zenon, <2>1 DEF NoBatch, NoRead, Batches, Reads
  <1>5. StoreType'
    BY Zenon, <1>1, <1>3, <1>4 DEF StoreInv, StoreType, Phases, Medium
  <1>6. SlotsAreOwned'
    BY SMTT(60), <1>2, <1>3 DEF SlotsAreOwned
  <1>7. HoldersAreCounted'
    <2> SUFFICES ASSUME NEW x \in Keys
                 PROVE  mem'.inflight[x] = Cardinality(ReadersOf(x)') + Flying(x)'
      BY Zenon, <1>3 DEF HoldersAreCounted
    <2>1. ReadersOf(x)' = {}
      BY Zenon, <1>1, StoreAssumption DEF ReadersOf, NoRead
    <2>2. Cardinality(ReadersOf(x)') = 0 /\ Flying(x)' = 0
      BY Zenon, <1>3, <2>1, FS_EmptySet DEF Flying
    <2> QED BY SMTT(60), <1>3, <2>2
  <1>8. ReadsArePinned'
    BY Zenon, <1>1 DEF ReadsArePinned
  <1>9. \A t \in Threads : put'[t] = NoBatch /\ LeadsOf(put'[t]) = {} /\ WaitsOf(put'[t]) = {}
    BY <1>1 DEF LeadsOf, WaitsOf, NoBatch
  <1>10. BatchesOk'
    <2>1. \A t \in Threads : InOrder(put'[t])
      BY SMTT(60), <1>9 DEF InOrder, NoBatch
    <2>2. \A t \in Threads : Follows(put'[t], mem'.flights)
      BY Zenon, <1>9 DEF Follows
    <2>3. FlightsAreLed'
      BY Zenon, <1>3, <1>9 DEF FlightsAreLed
    <2>4. QuietUnlessUp'
      BY Zenon, <1>1 DEF QuietUnlessUp
    <2> QED BY Zenon, <2>1, <2>2, <2>3, <2>4 DEF BatchesOk
  <1>11. Bytes'
    BY Zenon, <1>1, <1>3, <1>9 DEF Bytes, CommittedIsWhole, WrittenInOrder, TableIsLive
  <1>12. RestartIsExact'
    BY SMTT(30), <1>1, <1>3 DEF RestartIsExact, Exact
  <1> QED BY SMTT(30), <1>5, <1>6, <1>7, <1>8, <1>10, <1>11, <1>12 DEF StoreInv, Holders

(* A step that moves only the phase or the medium.                         *)
LEMMA LifeStep ==
  ASSUME StoreInv, UNCHANGED <<mem, lock, put, rd, hist>>, phase' \in Phases, media' \in Medium,
         TableIsLive', QuietUnlessUp', RestartIsExact'
  PROVE  StoreInv'
  <1>1. StoreType'
    BY Zenon DEF StoreInv, StoreType, Medium
  <1>2. Holders'
    BY SMTT(60)
    DEF StoreInv, Holders, SlotsAreOwned, HoldersAreCounted, ReadsArePinned, ReadersOf, Flying
  <1>3. BatchesOk'
    BY Zenon DEF StoreInv, BatchesOk, FlightsAreLed
  <1>4. CommittedIsWhole' /\ WrittenInOrder'
    BY SMTT(30) DEF StoreInv, Bytes, CommittedIsWhole, WrittenInOrder
  <1> QED BY Zenon, <1>1, <1>2, <1>3, <1>4 DEF StoreInv, Bytes

LEMMA MediumFacts ==
  ASSUME StoreInv
  PROVE  /\ media \in Medium /\ mem.rec \in Table /\ mem.data \in Contents
         /\ mem.owner \in Table
         /\ RestartIsExact /\ TableIsLive /\ QuietUnlessUp /\ SlotsAreOwned /\ CommittedIsWhole
  BY Zenon DEF StoreInv, StoreType, Mems, Bytes, BatchesOk, Medium, Holders

LEMMA WritebackStep ==
  ASSUME StoreInv, NEW s \in Slots, Writeback(s)
  PROVE  StoreInv'
  <1>1. UNCHANGED <<mem, lock, put, rd, phase, hist>> /\ phase' \in Phases
    BY Zenon DEF Writeback, StoreInv, StoreType
  <1>2. /\ media' \in Medium /\ media'.clean = media.clean
        /\ media.rec = mem.rec => media'.rec = mem.rec
        /\ media.data = mem.data => media'.data = mem.data
        /\ media.rec = mem.rec /\ media.data = mem.data => media' = media
    <2>1. CASE media.rec[s] # mem.rec[s] /\ media' = [media EXCEPT !.rec[s] = mem.rec[s]]
      <3>1. mem.rec[s] \in Keys \cup {None}
        BY Zenon, MediumFacts DEF Table
      <3>2. [media.rec EXCEPT ![s] = mem.rec[s]] \in Table
        BY Zenon, <3>1, MediumFacts DEF Table, Medium
      <3> QED BY Zenon, <2>1, <3>2, MediumFacts DEF Medium
    <2>2. CASE \E d \in {mem.data[s], Torn} :
                 media.data[s] # mem.data[s] /\ media' = [media EXCEPT !.data[s] = d]
      <3>1. PICK d \in {mem.data[s], Torn} :
              media.data[s] # mem.data[s] /\ media' = [media EXCEPT !.data[s] = d]
        BY Zenon, <2>2
      <3>2. d \in Payloads \cup {Torn}
        BY Zenon, MediumFacts DEF Contents
      <3>3. [media.data EXCEPT ![s] = d] \in Contents
        BY Zenon, <3>2, MediumFacts DEF Contents, Medium
      <3> QED BY Zenon, <3>1, <3>3, MediumFacts DEF Medium
    <2> QED BY Zenon, <2>1, <2>2 DEF Writeback
  <1>3. TableIsLive' /\ QuietUnlessUp'
    BY ZenonT(60), <1>1, MediumFacts DEF TableIsLive, QuietUnlessUp
  <1>4. RestartIsExact'
    BY ZenonT(60), <1>1, <1>2, MediumFacts DEF RestartIsExact, Exact
  <1> QED BY Zenon, <1>1, <1>2, <1>3, <1>4, LifeStep

LEMMA SyncTableStep ==
  ASSUME StoreInv, SyncTable
  PROVE  StoreInv'
  <1>1. phase = "up" /\ UNCHANGED <<lock, put, rd, phase, hist>>
    BY Zenon DEF SyncTable, Serving
  <1>2. CASE media' = [media EXCEPT !.rec = mem.rec] /\ UNCHANGED mem
    <2>1. media' \in Medium /\ media'.clean = media.clean
      BY Zenon, <1>2, MediumFacts DEF Medium
    <2>2. TableIsLive' /\ QuietUnlessUp' /\ phase' \in Phases
      BY Zenon, <1>1, <1>2, MediumFacts DEF TableIsLive, QuietUnlessUp, Phases
    <2>3. RestartIsExact'
      BY Zenon, <1>1, <2>1, UpIsDirty DEF StoreInv
    <2> QED BY Zenon, <1>1, <1>2, <2>1, <2>2, <2>3, LifeStep
  <1>3. CASE mem' = [mem EXCEPT !.failed = TRUE] /\ UNCHANGED media
    <2>1. BatchesMove
      BY Zenon, <1>1, NoBatchMoves DEF StoreInv
    <2> QED BY Zenon, <1>1, <1>3, <2>1, StoreFails
  <1> QED BY Zenon, <1>2, <1>3 DEF SyncTable

LEMMA CrashStep ==
  ASSUME StoreInv, Crash
  PROVE  StoreInv'
  <1>1. media' = media /\ hist' = hist /\ media' \in Medium
    BY Zenon, MediumFacts DEF Crash
  <1>2. PICK r \in Table : r = mem.rec
    BY Zenon, MediumFacts
  <1>3. PICK d \in Contents : d = mem.data
    BY Zenon, MediumFacts
  <1>4. CASE phase # "down" /\ Ended(r, d)
    <2>1. media.clean => r = media.rec /\ d = media.data /\ Exact(r, d)
      BY Zenon, <1>2, <1>3, MediumFacts DEF RestartIsExact
    <2> QED BY Zenon, <1>1, <1>4, <2>1, EndedStep
  <1>5. PICK q \in Table : q = media.rec
    BY Zenon, MediumFacts DEF Medium
  <1>6. PICK e \in Contents : e = media.data
    BY Zenon, MediumFacts DEF Medium
  <1>7. CASE Ended(q, e)
    <2>1. media.clean => Exact(q, e)
      BY Zenon, <1>5, <1>6, MediumFacts DEF RestartIsExact
    <2> QED BY Zenon, <1>1, <1>5, <1>6, <1>7, <2>1, EndedStep
  <1> QED BY SMTT(30), <1>2, <1>3, <1>4, <1>5, <1>6, <1>7 DEF Crash

(* The process gives up its start, or ends without the clean mark: the      *)
(* medium is as it was.                                                    *)
LEMMA GivesUp ==
  ASSUME StoreInv, NEW r \in Table, NEW d \in Contents, Ended(r, d), hist' = hist, media' = media,
         media.clean => r = mem.rec /\ d = mem.data
  PROVE  StoreInv'
  <1>1. media \in Medium /\ RestartIsExact
    BY Zenon, MediumFacts
  <1>2. media.clean => r = media.rec /\ d = media.data /\ Exact(r, d)
    BY Zenon, <1>1 DEF RestartIsExact
  <1> QED BY Zenon, <1>1, <1>2, EndedStep

LEMMA EndsAsItIs ==
  ASSUME StoreInv, Ended(mem.rec, mem.data), hist' = hist, media' = media
  PROVE  StoreInv'
  <1>1. PICK r \in Table : r = mem.rec
    BY Zenon, MediumFacts
  <1>2. PICK d \in Contents : d = mem.data
    BY Zenon, MediumFacts
  <1>3. Ended(r, d)
    BY Zenon, <1>1, <1>2
  <1> QED BY Zenon, <1>1, <1>2, <1>3, GivesUp

LEMMA OpenEpochStateStep ==
  ASSUME StoreInv, OpenEpochState
  PROVE  StoreInv'
  <1>1. /\ phase = "down" /\ phase' = IF media.clean THEN "reset" ELSE "opened"
        /\ UNCHANGED <<mem, lock, put, rd, media, hist>>
    BY Zenon DEF OpenEpochState
  <1>2. /\ media \in Medium /\ RestartIsExact /\ QuietUnlessUp
    BY Zenon, MediumFacts
  <1>3. TableIsLive' /\ QuietUnlessUp' /\ phase' \in Phases
    BY Zenon, <1>1, <1>2 DEF TableIsLive, QuietUnlessUp, Phases
  <1>4. RestartIsExact'
    BY <1>1, <1>2 DEF RestartIsExact, Exact
  <1> QED BY Zenon, <1>1, <1>2, <1>3, <1>4, LifeStep

LEMMA ResetUncleanEpochStep ==
  ASSUME StoreInv, ResetUncleanEpoch
  PROVE  StoreInv'
  <1>1. phase = "opened" /\ hist' = hist
    BY Zenon DEF ResetUncleanEpoch
  <1>2. /\ media \in Medium /\ mem.rec \in Table /\ mem.data \in Contents /\ mem.owner \in Table
        /\ RestartIsExact /\ QuietUnlessUp
    BY Zenon, MediumFacts
  <1>3. media.clean = FALSE /\ mem.committed = {}
    BY Zenon, <1>1, <1>2 DEF RestartIsExact, Medium
  <1>4. CASE /\ mem' = [mem EXCEPT !.rec = EmptyTable]
             /\ media' = [media EXCEPT !.rec = EmptyTable]
             /\ phase' = "reset" /\ UNCHANGED <<lock, put, rd>>
    <2>1. EmptyTable \in Table /\ \A s \in Slots : EmptyTable[s] = None
      BY Zenon DEF EmptyTable, Table
    <2>2. /\ mem' \in Mems /\ mem'.owner = mem.owner /\ mem'.doomed = mem.doomed
          /\ mem'.committed = mem.committed /\ mem'.pins = mem.pins
          /\ mem'.inflight = mem.inflight /\ mem'.flights = mem.flights
          /\ mem'.deferred = mem.deferred /\ mem'.data = mem.data /\ mem'.rec = EmptyTable
          /\ mem'.failed = mem.failed
      BY Zenon, <1>4, <2>1 DEF StoreInv, StoreType, Mems
    <2>3. media' \in Medium /\ media'.clean = FALSE
      BY Zenon, <1>2, <1>3, <1>4, <2>1 DEF Medium
    <2>4. StoreType'
      BY SMTT(60), <1>1, <1>4, <2>2, <2>3 DEF StoreInv, StoreType, Medium, Phases
    <2>5. Holders'
      BY SMTT(60), <1>4, <2>2
      DEF StoreInv, Holders, SlotsAreOwned, HoldersAreCounted, ReadsArePinned,
                        ReadersOf, Flying
    <2>6. BatchesOk'
      BY SMTT(30), <1>1, <1>2, <1>4, <2>2 DEF StoreInv, BatchesOk, FlightsAreLed, QuietUnlessUp
    <2>7. \A t \in Threads : LeadsOf(put[t]) = {}
      BY <1>1, <1>2 DEF QuietUnlessUp, LeadsOf, NoBatch
    <2>8. Bytes'
      <3>1. WrittenInOrder'
        BY SMTT(60), <1>1, <1>4, <2>2, <2>7 DEF StoreInv, Bytes, WrittenInOrder
      <3> QED BY Zenon, <1>3, <1>4, <2>2, <3>1 DEF Bytes, CommittedIsWhole, TableIsLive
    <2>9. RestartIsExact'
      BY Zenon, <1>3, <1>4, <2>1, <2>2, <2>3 DEF RestartIsExact, Exact
    <2> QED BY Zenon, <2>4, <2>5, <2>6, <2>8, <2>9 DEF StoreInv
  <1>5. ASSUME NEW left \in SUBSET Slots, UNCHANGED media,
               Ended([s \in Slots |-> IF s \in left THEN mem.rec[s] ELSE None], mem.data)
        PROVE  StoreInv'
    <2>1. PICK r \in Table : r = [s \in Slots |-> IF s \in left THEN mem.rec[s] ELSE None]
      BY Zenon, <1>2 DEF Table
    <2>2. PICK d \in Contents : d = mem.data
      BY Zenon, <1>2
    <2>3. Ended(r, d)
      BY Zenon, <1>5, <2>1, <2>2
    <2> QED BY Zenon, <1>1, <1>3, <1>5, <2>3, GivesUp
  <1> QED BY Zenon, <1>4, <1>5 DEF ResetUncleanEpoch

LEMMA RebuildStep ==
  ASSUME StoreInv, Rebuild
  PROVE  StoreInv'
  <1>1. phase = "reset" /\ media' = media /\ hist' = hist
    BY Zenon DEF Rebuild
  <1>2. CASE Ended(mem.rec, mem.data)
    BY Zenon, <1>1, <1>2, EndsAsItIs
  <1>3. CASE /\ mem' = [mem EXCEPT !.owner = mem.rec,
                                   !.committed = {mem.rec[s] : s \in {u \in Slots : mem.rec[u] # None}}]
             /\ phase' = "restored" /\ UNCHANGED <<lock, put, rd>>
    <2>1. /\ media \in Medium /\ mem.rec \in Table /\ mem.data \in Contents /\ mem.owner \in Table
          /\ RestartIsExact /\ QuietUnlessUp /\ mem.doomed = {}
      BY Zenon, MediumFacts DEF SlotsAreOwned
    <2>2. Exact(mem.rec, mem.data)
      BY Zenon, <1>1, <2>1 DEF RestartIsExact
    <2>3. PICK live : live = {mem.rec[s] : s \in {u \in Slots : mem.rec[u] # None}}
      BY Zenon
    <2>4. live \subseteq Keys /\ \A k \in live : \E s \in Slots : mem.rec[s] = k
      BY Zenon, <2>1, <2>3 DEF Table
    <2>5. \A s \in Slots : mem.rec[s] # None => mem.rec[s] \in live
      BY Zenon, <2>3
    <2>6. /\ mem' \in Mems /\ mem'.owner = mem.rec /\ mem'.doomed = {}
          /\ mem'.committed = live /\ mem'.pins = mem.pins
          /\ mem'.inflight = mem.inflight /\ mem'.flights = mem.flights
          /\ mem'.deferred = mem.deferred /\ mem'.data = mem.data /\ mem'.rec = mem.rec
          /\ mem'.failed = mem.failed
      BY ZenonT(60), <1>3, <2>1, <2>3, <2>4 DEF StoreInv, StoreType, Mems
    <2>7. /\ \A t \in Threads : put[t] = NoBatch
          /\ \A r \in Readers : rd[r] = NoRead
      BY Zenon, <1>1, <2>1 DEF QuietUnlessUp
    <2>8. /\ \A k \in Keys : mem.flights[k] = None /\ mem.inflight[k] = 0 /\ k \notin mem.deferred
          /\ \A s \in Slots : mem.pins[s] = 0
          /\ \A t \in Threads : LeadsOf(put[t]) = {}
      BY Zenon, <2>7, QuietHoldsNothing
    <2>9. StoreType'
      BY Zenon, <1>1, <1>3, <2>6 DEF StoreInv, StoreType, Phases
    <2>10. SlotsAreOwned'
      <3>1. \A s \in Slots : mem.rec[s] \in Keys \cup {None}
        BY Zenon, <2>1 DEF Table
      <3>2. \A s, u \in Slots : mem.rec[s] # None /\ mem.rec[s] = mem.rec[u] => s = u
        BY Zenon, <2>2 DEF Exact
      <3> QED BY SMTT(60), <2>6, <2>8, <3>1, <3>2 DEF SlotsAreOwned
    <2>11. HoldersAreCounted'
      BY SMTT(60), <1>3, <2>6, <2>8 DEF StoreInv, Holders, HoldersAreCounted, ReadersOf, Flying
    <2>12. ReadsArePinned'
      BY Zenon, <1>3, <2>7 DEF ReadsArePinned
    <2>13. BatchesOk'
      BY SMTT(30), <1>1, <1>3, <2>6, <2>7 DEF StoreInv, BatchesOk, FlightsAreLed, QuietUnlessUp
    <2>14. CommittedIsWhole'
      BY SMTT(30), <1>1, <2>2, <2>4, <2>6, StoreAssumption DEF CommittedIsWhole, Exact
    <2>15. WrittenInOrder' /\ TableIsLive'
      BY Zenon, <1>1, <1>3, <2>5, <2>6, <2>8 DEF WrittenInOrder, TableIsLive
    <2>16. RestartIsExact'
      <3>1. Exact(mem.rec, mem.data)' /\ (media.clean => Exact(media.rec, media.data)')
        BY SMTT(60), <1>1, <2>1, <2>2, <2>6 DEF RestartIsExact, Exact
      <3> QED BY Zenon, <1>1, <1>3, <2>1, <2>6, <3>1 DEF RestartIsExact
    <2> QED BY SMTT(30), <2>9, <2>10, <2>11, <2>12, <2>13, <2>14, <2>15, <2>16
            DEF StoreInv, Holders, Bytes
  <1> QED BY Zenon, <1>2, <1>3 DEF Rebuild

LEMMA MarkDirtyEpochStep ==
  ASSUME StoreInv, MarkDirtyEpoch
  PROVE  StoreInv'
  <1>1. phase = "restored" /\ hist' = hist
    BY Zenon DEF MarkDirtyEpoch
  <1>2. CASE Ended(mem.rec, mem.data) /\ UNCHANGED media
    BY Zenon, <1>1, <1>2, EndsAsItIs
  <1>3. CASE /\ media.epoch # MaxEpoch
             /\ media' = [media EXCEPT !.epoch = @ + 1, !.clean = FALSE]
             /\ phase' = "up" /\ UNCHANGED <<mem, lock, put, rd>>
    <2>1. media \in Medium /\ RestartIsExact /\ TableIsLive
      BY Zenon, MediumFacts
    <2>2. media.epoch + 1 \in 0..MaxEpoch
      BY SMTT(60), <1>3, <2>1, StoreAssumption DEF Medium
    <2>3. media' \in Medium /\ media'.clean = FALSE
      BY Zenon, <1>3, <2>1, <2>2 DEF Medium
    <2>4. TableIsLive' /\ QuietUnlessUp' /\ phase' \in Phases
      BY Zenon, <1>1, <1>3, <2>1 DEF TableIsLive, QuietUnlessUp, Phases
    <2>5. RestartIsExact'
      BY Zenon, <1>3, <2>3 DEF RestartIsExact
    <2> QED BY SMTT(30), <1>1, <1>3, <2>3, <2>4, <2>5, LifeStep
  <1> QED BY Zenon, <1>2, <1>3 DEF MarkDirtyEpoch

LEMMA SyncPayloadsStep ==
  ASSUME StoreInv, SyncPayloads
  PROVE  StoreInv'
  <1>1. /\ phase = "up" /\ hist' = hist
        /\ \A t \in Threads : put[t] = NoBatch
        /\ \A r \in Readers : rd[r] = NoRead
    BY Zenon DEF SyncPayloads
  <1>2. CASE Ended(mem.rec, mem.data) /\ UNCHANGED media
    BY Zenon, <1>1, <1>2, EndsAsItIs
  <1>3. CASE /\ ~mem.failed /\ media' = [media EXCEPT !.data = mem.data]
             /\ phase' = "payloads synced" /\ UNCHANGED <<mem, lock, put, rd>>
    <2>1. media \in Medium /\ RestartIsExact /\ TableIsLive /\ mem.data \in Contents
      BY Zenon, MediumFacts
    <2>2. media' \in Medium /\ media'.clean = FALSE /\ media'.data = mem.data
      BY Zenon, <1>1, <1>3, <2>1 DEF Medium, RestartIsExact
    <2>3. TableIsLive' /\ QuietUnlessUp' /\ phase' \in Phases
      BY Zenon, <1>1, <1>3, <2>1 DEF TableIsLive, QuietUnlessUp, Phases
    <2>4. RestartIsExact'
      BY Zenon, <1>3, <2>2 DEF RestartIsExact
    <2> QED BY ZenonT(60), <1>1, <1>3, <2>2, <2>3, <2>4, LifeStep
  <1> QED BY Zenon, <1>2, <1>3 DEF SyncPayloads

LEMMA SyncTableAtExitStep ==
  ASSUME StoreInv, SyncTableAtExit
  PROVE  StoreInv'
  <1>1. phase = "payloads synced" /\ hist' = hist
    BY Zenon DEF SyncTableAtExit
  <1>2. CASE Ended(mem.rec, mem.data) /\ UNCHANGED media
    BY Zenon, <1>1, <1>2, EndsAsItIs
  <1>3. CASE /\ media' = [media EXCEPT !.rec = mem.rec]
             /\ phase' = "table synced" /\ UNCHANGED <<mem, lock, put, rd>>
    <2>1. media \in Medium /\ RestartIsExact /\ TableIsLive /\ QuietUnlessUp /\ mem.rec \in Table
      BY Zenon, MediumFacts
    <2>2. /\ media' \in Medium /\ media'.clean = FALSE /\ media'.rec = mem.rec
          /\ media'.data = mem.data /\ ~mem.failed
      BY Zenon, <1>1, <1>3, <2>1 DEF Medium, RestartIsExact
    <2>3. TableIsLive' /\ QuietUnlessUp' /\ phase' \in Phases
      BY Zenon, <1>1, <1>3, <2>1 DEF TableIsLive, QuietUnlessUp, Phases
    <2>4. RestartIsExact'
      BY Zenon, <1>3, <2>2 DEF RestartIsExact
    <2> QED BY ZenonT(60), <1>1, <1>3, <2>2, <2>3, <2>4, LifeStep
  <1> QED BY Zenon, <1>2, <1>3 DEF SyncTableAtExit

(* The clean mark: with nothing held, a healthy table is exactly the         *)
(* committed keys.                                                         *)
LEMMA MarkCleanEpochStep ==
  ASSUME StoreInv, MarkCleanEpoch
  PROVE  StoreInv'
  <1>1. /\ phase = "table synced" /\ hist' = hist
        /\ media' = [media EXCEPT !.clean = TRUE] /\ Ended(mem.rec, mem.data)
    BY Zenon DEF MarkCleanEpoch
  <1>2. /\ media \in Medium /\ mem.rec \in Table /\ mem.data \in Contents
        /\ RestartIsExact /\ TableIsLive /\ QuietUnlessUp /\ SlotsAreOwned /\ CommittedIsWhole
    BY Zenon, MediumFacts
  <1>3. \A k \in Keys : mem.inflight[k] = 0
    <2>1. /\ \A t \in Threads : put[t] = NoBatch
          /\ \A r \in Readers : rd[r] = NoRead
      BY Zenon, <1>1, <1>2 DEF QuietUnlessUp
    <2> QED BY Zenon, <2>1, QuietHoldsNothing
  <1>4. ~mem.failed /\ media.rec = mem.rec /\ media.data = mem.data
    BY Zenon, <1>1, <1>2 DEF RestartIsExact
  <1>5. Exact(mem.rec, mem.data)
    <2> SUFFICES ASSUME NEW s \in Slots, mem.rec[s] # None
                 PROVE  /\ mem.rec[s] \notin hist.removed /\ hist.last[mem.rec[s]] # None
                        /\ mem.data[s] = <<mem.rec[s], hist.last[mem.rec[s]]>>
                        /\ \A u \in Slots \ {s} : mem.rec[u] # mem.rec[s]
      BY Zenon DEF Exact
    <2>1. PICK k \in Keys : k = mem.rec[s]
      BY Zenon, <1>2 DEF Table
    <2>2. mem.owner[s] = k /\ k \in mem.committed
      <3>1. mem.owner[s] = mem.rec[s] /\ (mem.rec[s] \in mem.committed \/ mem.inflight[mem.rec[s]] > 0)
        BY Zenon, <1>1, <1>2, <1>4 DEF TableIsLive
      <3> QED BY SMTT(60), <1>3, <2>1, <3>1
    <2>3. PICK u \in Slots : /\ mem.owner[u] = k /\ mem.data[u] = <<k, hist.last[k]>>
                             /\ k \notin hist.removed /\ hist.last[k] # None
      BY Zenon, <1>2, <2>2 DEF CommittedIsWhole
    <2>4. u = s
      BY SMTT(60), <1>2, <2>1, <2>2, <2>3 DEF SlotsAreOwned
    <2>5. \A w \in Slots \ {s} : mem.rec[w] # k
      <3>1. \A w \in Slots : mem.rec[w] # None => mem.owner[w] = mem.rec[w]
        BY Zenon, <1>1, <1>2, <1>4 DEF TableIsLive
      <3> QED BY SMTT(60), <1>2, <2>1, <2>2, <3>1 DEF SlotsAreOwned
    <2> QED BY Zenon, <2>1, <2>3, <2>4, <2>5
  <1>6. PICK r \in Table : r = mem.rec
    BY Zenon, <1>2
  <1>7. PICK d \in Contents : d = mem.data
    BY Zenon, <1>2
  <1>8. media' \in Medium /\ r = media'.rec /\ d = media'.data
    BY Zenon, <1>1, <1>2, <1>4, <1>6, <1>7 DEF Medium
  <1>9. Ended(r, d) /\ Exact(r, d)
    BY Zenon, <1>1, <1>5, <1>6, <1>7
  <1> QED BY Zenon, <1>1, <1>8, <1>9, EndedStep

-----------------------------------------------------------------------------
LEMMA InitHolds ==
  ASSUME Init
  PROVE  StoreInv
  <1>1. /\ mem = Fresh(media.rec, media.data) /\ lock = None /\ phase = "down"
        /\ put = [t \in Threads |-> NoBatch] /\ rd = [r \in Readers |-> NoRead]
        /\ media = [rec |-> EmptyTable, data |-> [s \in Slots |-> Torn],
                    epoch |-> 0, clean |-> TRUE]
        /\ hist = [removed |-> {}, last |-> [k \in Keys |-> None]]
    BY Zenon DEF Init
  <1>2. EmptyTable \in Table /\ \A s \in Slots : EmptyTable[s] = None
    BY Zenon DEF EmptyTable, Table
  <1>3. media \in Medium /\ media.rec = EmptyTable /\ media.data \in Contents
    BY SMTT(60), <1>1, <1>2, StoreAssumption DEF Medium, Contents
  <1>4. /\ mem \in Mems /\ mem.owner = EmptyTable /\ mem.doomed = {} /\ mem.committed = {}
        /\ mem.deferred = {} /\ mem.failed = FALSE /\ mem.rec = media.rec /\ mem.data = media.data
        /\ \A s \in Slots : mem.pins[s] = 0
        /\ \A k \in Keys : mem.inflight[k] = 0 /\ mem.flights[k] = None
    BY Zenon, <1>1, <1>2, <1>3 DEF Fresh, Mems
  <1>5. NoBatch \in Batches /\ NoRead \in Reads
    <2>1. <<>> \in Seq(ItemRecs)
      BY SMTT(60)
    <2> QED BY Zenon, <2>1 DEF NoBatch, NoRead, Batches, Reads
  <1>6. StoreType
    BY SMTT(60), <1>1, <1>3, <1>4, <1>5 DEF StoreType, Phases, Medium
  <1>7. SlotsAreOwned
    BY SMTT(60), <1>2, <1>4 DEF SlotsAreOwned
  <1>8. HoldersAreCounted
    <2> SUFFICES ASSUME NEW x \in Keys
                 PROVE  mem.inflight[x] = Cardinality(ReadersOf(x)) + Flying(x)
      BY Zenon, <1>4 DEF HoldersAreCounted
    <2>1. ReadersOf(x) = {}
      BY Zenon, <1>1, StoreAssumption DEF ReadersOf, NoRead
    <2>2. Cardinality(ReadersOf(x)) = 0 /\ Flying(x) = 0
      BY Zenon, <1>4, <2>1, FS_EmptySet DEF Flying
    <2> QED BY SMTT(60), <1>4, <2>2
  <1>9. ReadsArePinned
    BY Zenon, <1>1 DEF ReadsArePinned
  <1>10. \A t \in Threads : put[t] = NoBatch /\ LeadsOf(put[t]) = {} /\ WaitsOf(put[t]) = {}
    BY <1>1 DEF LeadsOf, WaitsOf, NoBatch
  <1>11. BatchesOk
    <2>1. \A t \in Threads : InOrder(put[t])
      BY SMTT(60), <1>10 DEF InOrder, NoBatch
    <2>2. \A t \in Threads : Follows(put[t], mem.flights)
      BY Zenon, <1>10 DEF Follows
    <2>3. FlightsAreLed
      BY Zenon, <1>4, <1>10 DEF FlightsAreLed
    <2>4. QuietUnlessUp
      BY Zenon, <1>1 DEF QuietUnlessUp
    <2> QED BY Zenon, <2>1, <2>2, <2>3, <2>4 DEF BatchesOk
  <1>12. Bytes
    BY Zenon, <1>1, <1>4, <1>10 DEF Bytes, CommittedIsWhole, WrittenInOrder, TableIsLive
  <1>13. RestartIsExact
    BY Zenon, <1>1, <1>2, <1>3, <1>4 DEF RestartIsExact, Exact
  <1> QED BY SMTT(30), <1>6, <1>7, <1>8, <1>9, <1>11, <1>12, <1>13 DEF StoreInv, Holders

LEMMA JudgeStep ==
  ASSUME StoreInv, NEW t \in Threads, Judge(t)
  PROVE  StoreInv'
  BY Zenon, JudgeSettledStep, JudgeFollowStep, JudgeWindowStep, JudgeLeadStep DEF Judge

LEMMA StutterStep ==
  ASSUME StoreInv, UNCHANGED vars
  PROVE  StoreInv'
  <1>1. UNCHANGED <<mem, lock, put, rd, media, phase, hist>>
    BY Zenon DEF vars
  <1>2. media \in Medium /\ phase \in Phases
    BY Zenon DEF StoreInv, StoreType, Medium
  <1>3. TableIsLive' /\ QuietUnlessUp' /\ RestartIsExact'
    BY Zenon, <1>1, MediumFacts DEF TableIsLive, QuietUnlessUp, RestartIsExact, Exact
  <1> QED BY Zenon, <1>1, <1>2, <1>3, LifeStep

LEMMA NextHolds ==
  ASSUME StoreInv, [Next]_vars
  PROVE  StoreInv'
  <1>1. ASSUME NEW t \in Threads, PutBegin(t) PROVE StoreInv'
    BY Zenon, <1>1, PutBeginStep
  <1>2. ASSUME NEW t \in Threads, Judge(t) PROVE StoreInv'
    BY SMTT(60), <1>2, JudgeStep
  <1>3. ASSUME NEW t \in Threads, WindowClosed(t) PROVE StoreInv'
    BY Zenon, <1>3, WindowClosedStep
  <1>4. ASSUME NEW t \in Threads, WindowTimeout(t) PROVE StoreInv'
    BY Zenon, <1>4, WindowTimeoutStep
  <1>5. ASSUME NEW t \in Threads, WritePayload(t) PROVE StoreInv'
    BY Zenon, <1>5, WritePayloadStep
  <1>6. ASSUME NEW t \in Threads, WriteRecord(t) PROVE StoreInv'
    BY Zenon, <1>6, WriteRecordStep
  <1>7. ASSUME NEW t \in Threads, L2Begin(t) PROVE StoreInv'
    BY Zenon, <1>7, L2BeginStep
  <1>8. ASSUME NEW t \in Threads, CommitItem(t) PROVE StoreInv'
    BY Zenon, <1>8, CommitItemStep
  <1>9. ASSUME NEW t \in Threads, PutAnswer(t) PROVE StoreInv'
    BY Zenon, <1>9, PutAnswerStep
  <1>10. ASSUME NEW r \in Readers, ReleaseRead(r) PROVE StoreInv'
    BY Zenon, <1>10, ReleaseReadStep
  <1>11. ASSUME NEW r \in Readers, NEW k \in Keys, AcquireForRead(r, k) PROVE StoreInv'
    BY Zenon, <1>11, AcquireForReadStep
  <1>12. ASSUME NEW k \in Keys, Remove(k) PROVE StoreInv'
    BY Zenon, <1>12, RemoveStep
  <1>13. CASE Reclaim
    BY Zenon, <1>13, ReclaimStep
  <1>14. CASE OpenEpochState
    BY SMTT(60), <1>14, OpenEpochStateStep
  <1>15. CASE ResetUncleanEpoch
    BY Zenon, <1>15, ResetUncleanEpochStep
  <1>16. CASE Rebuild
    BY Zenon, <1>16, RebuildStep
  <1>17. CASE MarkDirtyEpoch
    BY Zenon, <1>17, MarkDirtyEpochStep
  <1>18. CASE SyncPayloads
    BY Zenon, <1>18, SyncPayloadsStep
  <1>19. CASE SyncTableAtExit
    BY Zenon, <1>19, SyncTableAtExitStep
  <1>20. CASE MarkCleanEpoch
    BY Zenon, <1>20, MarkCleanEpochStep
  <1>21. CASE SyncTable
    BY Zenon, <1>21, SyncTableStep
  <1>22. CASE Crash
    BY Zenon, <1>22, CrashStep
  <1>23. ASSUME NEW s \in Slots, Writeback(s) PROVE StoreInv'
    BY Zenon, <1>23, WritebackStep
  <1>24. CASE UNCHANGED vars
    BY Zenon, <1>24, StutterStep
  <1> QED BY SMTT(30), <1>1, <1>2, <1>3, <1>4, <1>5, <1>6, <1>7, <1>8, <1>9, <1>10, <1>11, <1>12, <1>13,
             <1>14, <1>15, <1>16, <1>17, <1>18, <1>19, <1>20, <1>21, <1>22, <1>23, <1>24
          DEF Next, SteadyNext, Steps

(* The invariant is inductive, so it holds in every life of the process.    *)
THEOREM StoreInvHolds == Spec => []StoreInv
  <1>1. Init => StoreInv
    BY Zenon, InitHolds
  <1>2. StoreInv /\ [Next]_vars => StoreInv'
    BY SMTT(60), NextHolds
  <1> QED BY <1>1, <1>2, PTL DEF Spec

(* The same for the store while its process lives.                         *)
THEOREM SteadyStoreInvHolds == SteadySpec => []StoreInv
  <1>1. Init => StoreInv
    BY Zenon, InitHolds
  <1>2. StoreInv /\ [SteadyNext]_vars => StoreInv'
    BY Zenon, NextHolds DEF Next
  <1> QED BY <1>1, <1>2, PTL DEF SteadySpec

(* The batches that lead a key are the one put_flights_ names.             *)
LEMMA LeadersCounted ==
  ASSUME StoreInv, NEW k \in Keys
  PROVE  Cardinality({t \in Threads : \E j \in Leads(t) : put[t].items[j].key = k}) = Flying(k)
  <1> DEFINE L == {t \in Threads : \E j \in Leads(t) : put[t].items[j].key = k}
  <1>1. \A t \in Threads : Leads(t) = LeadsOf(put[t])
    BY Zenon DEF Leads, LeadsOf, Leading
  <1>2. \A t \in L : mem.flights[k] = t
    BY SMTT(60), <1>1 DEF StoreInv, BatchesOk, FlightsAreLed
  <1>3. mem.flights[k] # None => mem.flights[k] \in L
    <2>1. mem.flights[k] # None => mem.flights[k] \in Threads
      BY Zenon DEF StoreInv, StoreType, Mems
    <2> QED BY SMTT(60), <1>1, <2>1 DEF StoreInv, BatchesOk, FlightsAreLed
  <1>4. CASE mem.flights[k] = None
    <2>1. L = {}
      BY Zenon, <1>2, <1>4, StoreAssumption
    <2> QED BY Zenon, <1>4, <2>1, FS_EmptySet DEF Flying
  <1>5. CASE mem.flights[k] # None
    <2>1. L = {mem.flights[k]}
      BY Zenon, <1>2, <1>3, <1>5
    <2> QED BY Zenon, <1>5, <2>1, FS_Singleton DEF Flying
  <1> QED BY Zenon, <1>4, <1>5

LEMMA HoldersFollow ==
  ASSUME StoreInv
  PROVE  HoldersAreExact
  <1>1. TypeOK
    <2>1. \A t \in Threads : put[t] \in Batches
      BY Zenon DEF StoreInv, StoreType
    <2>2. \A t \in Threads : /\ put[t].pc \in {"idle", "L1", "window", "io", "L2", "wait"}
                             /\ \A j \in DOMAIN put[t].items : put[t].items[j].st \in ItemStates
      <3> SUFFICES ASSUME NEW t \in Threads
                   PROVE  /\ put[t].pc \in {"idle", "L1", "window", "io", "L2", "wait"}
                          /\ \A j \in DOMAIN put[t].items : put[t].items[j].st \in ItemStates
        BY Zenon
      <3>1. put[t].pc \in {"idle", "L1", "window", "io", "L2", "wait"} /\ put[t].items \in Seq(ItemRecs)
        BY Zenon, <2>1 DEF Batches
      <3>2. \A j \in DOMAIN put[t].items : put[t].items[j] \in ItemRecs
        BY SMTT(60), <3>1
      <3> QED BY Zenon, <3>1, <3>2 DEF ItemRecs
    <2> QED BY Zenon, <2>2 DEF StoreInv, StoreType, Mems, Table, Contents, TypeOK
  <1>2. PinsMatchHolders
    <2> SUFFICES ASSUME NEW k \in Keys
                 PROVE  LET held == Cardinality({r \in Readers : rd[r].key = k})
                              + Cardinality({t \in Threads : \E j \in Leads(t) : put[t].items[j].key = k})
                        IN  /\ mem.inflight[k] = held
                            /\ Cardinality(Holding(mem, k)) <= 1
                            /\ \A s \in Holding(mem, k) : mem.pins[s] = held
      BY Zenon DEF PinsMatchHolders
    <2>1. PICK held : held = Cardinality({r \in Readers : rd[r].key = k})
                        + Cardinality({t \in Threads : \E j \in Leads(t) : put[t].items[j].key = k})
      BY Zenon
    <2>2. mem.inflight[k] = held
      <3>1. mem.inflight[k] = Cardinality(ReadersOf(k)) + Flying(k)
        BY Zenon DEF StoreInv, Holders, HoldersAreCounted
      <3>2. Flying(k) = Cardinality({t \in Threads : \E j \in Leads(t) : put[t].items[j].key = k})
        BY Zenon, LeadersCounted
      <3> HIDE DEF StoreInv
      <3> QED BY Zenon, <2>1, <3>1, <3>2 DEF ReadersOf
    <2>3. \A s \in Holding(mem, k) : s \in Slots /\ mem.owner[s] = k
      BY Zenon DEF Holding
    <2>4. \A s \in Holding(mem, k) : mem.pins[s] = held
      BY Zenon, <2>2, <2>3, StoreAssumption DEF StoreInv, Holders, SlotsAreOwned
    <2>5. Cardinality(Holding(mem, k)) <= 1
      <3>1. CASE Holding(mem, k) = {}
        BY SMTT(60), <3>1, FS_EmptySet
      <3>2. CASE Holding(mem, k) # {}
        <4>1. PICK s \in Slots : s \in Holding(mem, k)
          BY Zenon, <2>3, <3>2
        <4>2. Holding(mem, k) = {s}
          BY SMTT(60), <2>3, <4>1, StoreAssumption DEF StoreInv, Holders, SlotsAreOwned
        <4> QED BY SMTT(30), <4>2, FS_Singleton
      <3> QED BY Zenon, <3>1, <3>2
    <2> QED BY Zenon, <2>1, <2>2, <2>4, <2>5
  <1>3. ReaderKeepsItsBytes
    BY Zenon, ReadersPin DEF ReaderKeepsItsBytes
  <1>4. DeferredHasHolder
    BY Zenon DEF StoreInv, StoreType, Mems, Holders, HoldersAreCounted, DeferredHasHolder
  <1>5. FollowedLeaderIsBusy
    <2> SUFFICES ASSUME NEW t \in Threads, NEW j \in WaitsOf(put[t])
                 PROVE  /\ mem.flights[put[t].items[j].key] = put[t].items[j].by
                        /\ put[put[t].items[j].by].pc \in {"L1", "window", "io", "L2"}
      BY Zenon DEF FollowedLeaderIsBusy, Waits, WaitsOf
    <2>1. put[t].items[j] \in ItemRecs
      BY SMTT(60), BatchFacts DEF WaitsOf, Batches
    <2>2. PICK k \in Keys : k = put[t].items[j].key
      BY Zenon, <2>1 DEF ItemRecs
    <2>3. PICK u : u = put[t].items[j].by
      BY Zenon
    <2>4. u # None /\ mem.flights[k] = u
      BY Zenon, <2>2, <2>3, BatchFacts DEF Follows
    <2>5. u \in Threads
      BY Zenon, <2>4 DEF StoreInv, StoreType, Mems
    <2>6. PICK l \in LeadsOf(put[u]) : put[u].items[l].key = k
      BY Zenon, <2>4 DEF StoreInv, BatchesOk, FlightsAreLed
    <2>7. put[u].pc \in {"L1", "window", "io", "L2"}
      BY Zenon, <2>5, <2>6, BatchFacts DEF InOrder, Batches
    <2> QED BY Zenon, <2>2, <2>3, <2>4, <2>7
  <1> QED BY Zenon, <1>1, <1>2, <1>3, <1>4, <1>5 DEF HoldersAreExact

(* Whatever batches, readers, REMOVEs, evictions and failures interleave,   *)
(* the pin and in-flight counts of ReleaseInflightLocked are the holders a  *)
(* key has, a reader keeps its bytes, every deferred REMOVE has a holder to *)
(* run it, and no batch of CacheDirectBatch waits for one that waits.       *)
THEOREM HoldersStayExact == Spec => []HoldersAreExact
  <1>1. StoreInv => HoldersAreExact
    BY Zenon, HoldersFollow
  <1> QED BY <1>1, StoreInvHolds, PTL

(* The same while the process lives and the medium keeps up.               *)
THEOREM SteadyHoldersStayExact == SteadySpec => []HoldersAreExact
  <1>1. StoreInv => HoldersAreExact
    BY Zenon, HoldersFollow
  <1> QED BY <1>1, SteadyStoreInvHolds, PTL

(* slab_state says clean only over a medium whose table Rebuild may trust:  *)
(* through every crash, power loss, torn write and failed sync.            *)
THEOREM CleanEpochStaysExact == Spec => []CleanEpochIsExact
  <1>1. StoreInv => CleanEpochIsExact
    BY Zenon DEF StoreInv, RestartIsExact, Exact, CleanEpochIsExact
  <1> QED BY <1>1, StoreInvHolds, PTL

-----------------------------------------------------------------------------
(* The slab engine implements the contract CacheStore, for every number of  *)
(* keys, slots, batches and readers: the initial states map to an initial   *)
(* state of the contract, and every step of DiskSlabStore maps to a step of *)
(* it or leaves its variables alone.  What a GET finds is Shown(k).         *)
Shown(k) ==
  IF phase = "up" /\ ~mem.failed /\ k \in mem.committed THEN <<k, hist.last[k]>> ELSE None

(* The variables of the contract, as the engine defines them.              *)
LEMMA WhatIsFound ==
  ASSUME StoreInv, NEW k \in Keys
  PROVE  (IF Found(k) THEN mem.data[SlotOf(mem, k)] ELSE None) = Shown(k)
  <1>1. CASE phase = "up" /\ ~mem.failed /\ k \in mem.committed
    <2>1. mem \in Mems /\ SlotsAreOwned
      BY Zenon DEF StoreInv, StoreType, Holders
    <2>2. PICK s \in Slots : mem.owner[s] = k /\ mem.data[s] = <<k, hist.last[k]>>
      BY Zenon, <1>1 DEF StoreInv, Bytes, CommittedIsWhole
    <2>3. Holding(mem, k) = {s} /\ SlotOf(mem, k) = s
      BY <2>1, <2>2, SlotOfOwner, StoreAssumption DEF SlotsAreOwned
    <2>4. Found(k)
      BY Zenon, <1>1, <2>1, <2>3 DEF Found, Contains, SlotsAreOwned
    <2> QED BY Zenon, <1>1, <2>2, <2>3, <2>4 DEF Shown
  <1>2. CASE ~(phase = "up" /\ ~mem.failed /\ k \in mem.committed)
    BY Zenon, <1>2 DEF Found, Shown
  <1> QED BY Zenon, <1>1, <1>2

VisibleNow == [k \in Keys |-> IF Found(k) THEN mem.data[SlotOf(mem, k)] ELSE None]
ShownNow == [k \in Keys |-> Shown(k)]

FoundIsShown == VisibleNow = ShownNow

LEMMA FoundIsShownNow == StoreInv => FoundIsShown
  BY Zenon, WhatIsFound DEF FoundIsShown, VisibleNow, ShownNow

LEMMA FoundIsShownNext == StoreInv' => FoundIsShown'
  BY FoundIsShownNow, PTL

-----------------------------------------------------------------------------
(* The steps of the contract, over what is shown and kept.                  *)
Holds == StoreInv /\ StoreInv'

LEMMA ContractVariables ==
  ASSUME Holds
  PROVE  /\ [k \in Keys |-> IF Found(k) THEN mem.data[SlotOf(mem, k)] ELSE None] = ShownNow
         /\ [k \in Keys |-> IF Found(k)' THEN mem'.data[SlotOf(mem', k)] ELSE None] = ShownNow'
  BY Zenon, FoundIsShownNow, FoundIsShownNext DEF Holds, FoundIsShown, VisibleNow

LEMMA MapsToNothing ==
  ASSUME Holds, phase' = "up" <=> phase = "up", hist' = hist,
         \A k \in Keys : Shown(k)' = Shown(k)
  PROVE  UNCHANGED Contract!storeVars
  BY Zenon, ContractVariables DEF ShownNow, Contract!storeVars

LEMMA MapsToDrop ==
  ASSUME Holds, phase = "up", phase' = "up", hist' = hist,
         \A k \in Keys : Shown(k)' \in {Shown(k), None}
  PROVE  Contract!CacheStoreNext
  <1> DEFINE S == {k \in Keys : Shown(k)' = None}
  <1>1. ShownNow' = [k \in Keys |-> IF k \in S THEN None ELSE ShownNow[k]]
    BY Zenon DEF ShownNow
  <1>2. Contract!Drop(S)
    BY Zenon, <1>1, ContractVariables DEF Contract!Drop, Contract!Without
  <1> QED BY Zenon, <1>2 DEF Contract!CacheStoreNext

LEMMA MapsToBeginPut ==
  ASSUME Holds, phase = "up", phase' = "up", NEW k \in Keys,
         hist' = [hist EXCEPT !.removed = @ \ {k}],
         \A x \in Keys : Shown(x)' \in {Shown(x), None}
  PROVE  Contract!CacheStoreNext
  <1> DEFINE S == {x \in Keys : Shown(x)' = None}
  <1>1. ShownNow' = [x \in Keys |-> IF x \in S THEN None ELSE ShownNow[x]]
    BY Zenon DEF ShownNow
  <1>2. hist'.removed = hist.removed \ {k} /\ hist'.last = hist.last
    <2>1. hist \in [removed : SUBSET Keys, last : [Keys -> Vals \cup {None}]]
      BY Zenon DEF Holds, StoreInv, StoreType
    <2> QED BY Zenon, <2>1
  <1>3. S \in SUBSET Keys
    BY Zenon
  <1> HIDE DEF S
  <1>4. Contract!BeginPut(k)
    BY SMTT(60), <1>1, <1>2, <1>3, ContractVariables DEF Contract!BeginPut, Contract!Without
  <1> QED BY Zenon, <1>4 DEF Contract!CacheStoreNext

LEMMA MapsToPublish ==
  ASSUME Holds, phase = "up", phase' = "up", NEW k \in Keys, NEW v \in Vals,
         hist' = [hist EXCEPT !.last[k] = v], k \notin hist.removed,
         Shown(k) = None, Shown(k)' = <<k, v>>,
         \A x \in Keys \ {k} : Shown(x)' = Shown(x)
  PROVE  Contract!CacheStoreNext
  <1>1. ShownNow' = [ShownNow EXCEPT ![k] = <<k, v>>] /\ ShownNow[k] = None
    BY Zenon DEF ShownNow
  <1>2. /\ hist'.removed = hist.removed
        /\ hist'.last[k] = v /\ \A x \in Keys \ {k} : hist'.last[x] = hist.last[x]
    <2>1. hist \in [removed : SUBSET Keys, last : [Keys -> Vals \cup {None}]]
      BY Zenon DEF Holds, StoreInv, StoreType
    <2> QED BY Zenon, <2>1
  <1>3. [x \in Keys |-> IF hist'.last[x] = None THEN None ELSE <<x, hist'.last[x]>>]
          = [[x \in Keys |-> IF hist.last[x] = None THEN None ELSE <<x, hist.last[x]>>]
               EXCEPT ![k] = <<k, v>>]
    <2> DEFINE K(l, x) == IF l[x] = None THEN None ELSE <<x, l[x]>>
    <2>1. v # None
      BY Zenon, StoreAssumption
    <2>2. \A x \in Keys : K(hist'.last, x) = IF x = k THEN <<k, v>> ELSE K(hist.last, x)
      BY <1>2, <2>1
    <2> HIDE DEF K
    <2>3. [x \in Keys |-> K(hist'.last, x)] = [[x \in Keys |-> K(hist.last, x)] EXCEPT ![k] = <<k, v>>]
      BY Zenon, <2>2
    <2> QED BY Zenon, <2>3 DEF K
  <1>4. Contract!Publish(k, <<k, v>>)
    BY Zenon, <1>1, <1>2, <1>3, ContractVariables DEF Contract!Publish
  <1>5. <<k, v>> \in Payloads
    BY Zenon DEF Payloads
  <1> QED BY Zenon, <1>4, <1>5 DEF Contract!CacheStoreNext

LEMMA MapsToRemove ==
  ASSUME Holds, phase = "up", phase' = "up", NEW k \in Keys,
         hist' = [hist EXCEPT !.removed = @ \cup {k}, !.last[k] = None],
         Shown(k)' = None, \A x \in Keys \ {k} : Shown(x)' = Shown(x)
  PROVE  Contract!CacheStoreNext
  <1>1. ShownNow' = [ShownNow EXCEPT ![k] = None]
    BY Zenon DEF ShownNow
  <1>2. /\ hist'.removed = hist.removed \cup {k}
        /\ hist'.last[k] = None /\ \A x \in Keys \ {k} : hist'.last[x] = hist.last[x]
    <2>1. hist \in [removed : SUBSET Keys, last : [Keys -> Vals \cup {None}]]
      BY Zenon DEF Holds, StoreInv, StoreType
    <2> QED BY Zenon, <2>1
  <1>3. [x \in Keys |-> IF hist'.last[x] = None THEN None ELSE <<x, hist'.last[x]>>]
          = [[x \in Keys |-> IF hist.last[x] = None THEN None ELSE <<x, hist.last[x]>>]
               EXCEPT ![k] = None]
    <2> DEFINE K(l, x) == IF l[x] = None THEN None ELSE <<x, l[x]>>
    <2>1. \A x \in Keys : K(hist'.last, x) = IF x = k THEN None ELSE K(hist.last, x)
      BY <1>2
    <2> HIDE DEF K
    <2>2. [x \in Keys |-> K(hist'.last, x)] = [[x \in Keys |-> K(hist.last, x)] EXCEPT ![k] = None]
      BY Zenon, <2>1
    <2> QED BY Zenon, <2>2 DEF K
  <1>4. Contract!Remove(k)
    BY ZenonT(60), <1>1, <1>2, <1>3, ContractVariables DEF Contract!Remove
  <1> QED BY Zenon, <1>4 DEF Contract!CacheStoreNext

LEMMA MapsToClose ==
  ASSUME Holds, phase = "up", phase' # "up", hist' = hist
  PROVE  Contract!CacheStoreNext
  <1>1. ShownNow' = [k \in Keys |-> None]
    BY Zenon DEF ShownNow, Shown
  <1>2. Contract!Close
    BY Zenon, <1>1, ContractVariables DEF Contract!Close, Contract!Empty
  <1> QED BY Zenon, <1>2 DEF Contract!CacheStoreNext

LEMMA MapsToOpen ==
  ASSUME Holds, phase # "up", phase' = "up", hist' = hist
  PROVE  Contract!CacheStoreNext
  <1> DEFINE S == {k \in Keys : Shown(k)' # None}
             kept == [k \in Keys |-> IF hist.last[k] = None THEN None ELSE <<k, hist.last[k]>>]
  <1>1. ASSUME NEW k \in Keys
        PROVE  Shown(k)' = IF k \in S THEN kept[k] ELSE None
    <2>1. k \in mem'.committed => hist'.last[k] # None
      BY Zenon DEF Holds, StoreInv, Bytes, CommittedIsWhole
    <2> QED BY Zenon, <2>1 DEF Shown
  <1>2. S \in SUBSET Keys
    BY Zenon
  <1> HIDE DEF S
  <1>3. ShownNow' = [k \in Keys |-> IF k \in S THEN kept[k] ELSE None]
    BY Zenon, <1>1 DEF ShownNow
  <1>4. Contract!Open
    BY Zenon, <1>2, <1>3, ContractVariables DEF Contract!Open
  <1> QED BY Zenon, <1>4 DEF Contract!CacheStoreNext


-----------------------------------------------------------------------------
(* The steps of the engine.                                                *)

LEMMA Plain ==
  ASSUME Holds, phase' = phase, hist' = hist,
         mem'.committed = mem.committed, mem'.failed = mem.failed
  PROVE  UNCHANGED Contract!storeVars
  BY Zenon, MapsToNothing DEF Shown

LEMMA NotServing ==
  ASSUME Holds, phase # "up", phase' # "up", hist' = hist
  PROVE  UNCHANGED Contract!storeVars
  BY Zenon, MapsToNothing DEF Shown

LEMMA LessShown ==
  ASSUME phase = "up", phase' = "up", hist'.last = hist.last,
         mem'.committed \subseteq mem.committed, mem.failed => mem'.failed
  PROVE  \A k \in Keys : Shown(k)' \in {Shown(k), None}
  BY Zenon DEF Shown

LEMMA Lessens ==
  ASSUME Holds, phase = "up", phase' = "up", hist' = hist,
         mem'.committed \subseteq mem.committed, mem.failed => mem'.failed
  PROVE  Contract!CacheStoreNext
  BY Zenon, LessShown, MapsToDrop

(* PUT: the batches move until L2; a leader's slot is taken with its begun  *)
(* PUT, and only L2 shows a value.                                         *)
LEMMA JudgeLeadMaps ==
  ASSUME Holds, NEW t \in Threads, Judge(t), JudgeLead(t)
  PROVE  Contract!CacheStoreNext
  <1>1. StoreInv
    BY Zenon DEF Holds
  <1>2. /\ phase = "up" /\ phase' = "up" /\ mem \in Mems /\ put[t] \in Batches
        /\ put[t].i \in DOMAIN put[t].items
        /\ hist \in [removed : SUBSET Keys, last : [Keys -> Vals \cup {None}]]
    <2>1. put[t].pc = "L1" /\ phase = "up" /\ phase' = "up"
      BY Zenon DEF Judge, Serving
    <2> QED BY SMTT(60), <1>1, <2>1, BatchFacts DEF InOrder, Batches
  <1>3. PICK k \in Keys : k = put[t].items[put[t].i].key
    BY Zenon, <1>2, ItemType
  <1>4. ~mem.failed /\ hist' = [hist EXCEPT !.removed = @ \ {k}]
    BY Zenon, <1>3 DEF JudgeLead, Item
  <1>5. hist'.last = hist.last
    BY Zenon, <1>2, <1>4
  <1>6. mem'.committed \subseteq mem.committed
    <2>1. CASE Contains(mem, k)
      BY Zenon, <1>3, <2>1 DEF JudgeLead, Item
    <2>2. CASE ~Contains(mem, k)
      <3>1. PICK m \in AllocPut(mem, k) :
              IF Contains(m, k) THEN mem' = Pin([m EXCEPT !.flights[k] = t], k) ELSE mem' = m
        BY ZenonT(60), <1>3, <2>2 DEF JudgeLead, Item
      <3>2. /\ Holding(mem, k) = {} /\ StoreType /\ SlotsAreOwned /\ TableIsLive
        BY Zenon, <1>1, <2>2 DEF Contains, StoreInv, Holders, SlotsAreOwned, Bytes
      <3>3. CASE ~Contains(m, k)
        <4>1. m = mem \/ m = [mem EXCEPT !.failed = TRUE]
          BY Zenon, <3>2, <3>3, NoLeadEffect
        <4>2. m.committed = mem.committed
          <5>1. mem \in Mems
            BY Zenon, <1>2
          <5>2. [mem EXCEPT !.failed = TRUE].committed = mem.committed
            BY ONLY Zenon, <5>1, FailEffect
          <5> QED BY ONLY Zenon, <4>1, <5>2
        <4>3. mem' = m
          BY Zenon, <3>1, <3>3
        <4> QED BY ONLY Zenon, <4>2, <4>3
      <3>4. CASE Contains(m, k)
        <4>1. PICK n : n = Pin([m EXCEPT !.flights[k] = t], k)
          BY Zenon
        <4>2. PICK s \in Slots : TakesSlot(n, k, t, s)
          BY SMTT(30), <1>2, <1>4, <3>2, <3>4, <4>1, LeadEffect
        <4> QED BY Zenon, <3>1, <3>4, <4>1, <4>2 DEF TakesSlot
      <3> QED BY Zenon, <3>3, <3>4
    <2> QED BY Zenon, <2>1, <2>2
  <1>7. \A x \in Keys : Shown(x)' \in {Shown(x), None}
    BY SMTT(30), <1>2, <1>4, <1>5, <1>6, LessShown
  <1> QED BY Zenon, <1>2, <1>4, <1>7, MapsToBeginPut

LEMMA JudgeMaps ==
  ASSUME Holds, NEW t \in Threads, Judge(t)
  PROVE  Contract!CacheStoreNext \/ UNCHANGED Contract!storeVars
  <1>1. CASE JudgeLead(t)
    BY Zenon, <1>1, JudgeLeadMaps
  <1>2. CASE JudgeSettled(t) \/ JudgeFollow(t) \/ JudgeWindow(t)
    BY Zenon, <1>2, Plain DEF Judge, JudgeSettled, JudgeFollow, JudgeWindow
  <1> QED BY Zenon, <1>1, <1>2 DEF Judge

LEMMA WriteMaps ==
  ASSUME Holds, NEW t \in Threads, WritePayload(t) \/ WriteRecord(t)
  PROVE  Contract!CacheStoreNext
  <1>1. mem \in Mems /\ mem.failed \in BOOLEAN
    BY Zenon DEF Holds, StoreInv, StoreType, Mems
  <1>2. phase = "up" /\ phase' = "up" /\ hist' = hist
    BY Zenon DEF WritePayload, WriteRecord, Serving
  <1>3. mem'.committed = mem.committed /\ (mem.failed => mem'.failed)
    <2>1. CASE WritePayload(t)
      <3>1. PICK j \in DOMAIN put[t].items : \E bytes : \E f \in {mem.failed, TRUE} :
              mem' = [mem EXCEPT !.data[SlotOf(mem, put[t].items[j].key)] = bytes, !.failed = f]
        BY Zenon, <2>1 DEF WritePayload
      <3> QED BY Zenon, <1>1, <3>1 DEF Mems
    <2>2. CASE WriteRecord(t)
      <3>1. PICK j \in DOMAIN put[t].items :
              \/ mem' = [mem EXCEPT !.rec[SlotOf(mem, put[t].items[j].key)] = put[t].items[j].key]
              \/ mem' = [mem EXCEPT !.failed = TRUE]
        BY Zenon, <2>2 DEF WriteRecord
      <3> QED BY Zenon, <1>1, <3>1 DEF Mems
    <2> QED BY Zenon, <2>1, <2>2
  <1> QED BY Zenon, <1>2, <1>3, Lessens


LEMMA CommitMaps ==
  ASSUME Holds, NEW t \in Threads, CommitItem(t)
  PROVE  Contract!CacheStoreNext \/ UNCHANGED Contract!storeVars
  <1>1. StoreInv
    BY Zenon DEF Holds
  <1>2. CASE put[t].i \notin Leads(t)
    BY Zenon, <1>2, Plain DEF CommitItem
  <1>3. CASE put[t].i \in Leads(t)
    <2>1. PICK k \in Keys, s \in Slots, v \in Vals, st \in {"ok", "ioerror"},
               publish \in BOOLEAN, frees \in BOOLEAN : EndsLed(t, k, s, v, st, publish, frees)
      BY Zenon, <1>1, <1>3, CommitLedEffect
    <2>2. /\ Leaves(k, s, v, publish, frees) /\ phase = "up" /\ phase' = "up"
          /\ k \notin mem.committed
      BY Zenon, <2>1 DEF EndsLed
    <2>3. CASE publish
      <3>1. /\ hist' = [hist EXCEPT !.last[k] = v] /\ k \notin hist.removed
            /\ mem'.committed = mem.committed \cup {k} /\ ~mem.failed /\ ~mem'.failed
        BY Zenon, <2>2, <2>3 DEF Leaves
      <3>2. /\ hist'.last[k] = v /\ \A x \in Keys \ {k} : hist'.last[x] = hist.last[x]
        <4>1. hist \in [removed : SUBSET Keys, last : [Keys -> Vals \cup {None}]]
          BY Zenon, <1>1 DEF StoreInv, StoreType
        <4> QED BY Zenon, <3>1, <4>1
      <3>3. Shown(k) = None /\ Shown(k)' = <<k, v>>
        BY Zenon, <2>2, <3>1, <3>2 DEF Shown
      <3>4. \A x \in Keys \ {k} : Shown(x)' = Shown(x)
        BY SMTT(60), <2>2, <3>1, <3>2 DEF Shown
      <3> QED BY SMTT(30), <2>2, <3>1, <3>3, <3>4, MapsToPublish
    <2>4. CASE ~publish
      <3>1. hist' = hist /\ mem'.committed = mem.committed /\ (mem.failed => mem'.failed)
        BY Zenon, <2>2, <2>4 DEF Leaves
      <3> QED BY Zenon, <2>2, <3>1, Lessens
    <2> QED BY Zenon, <2>3, <2>4
  <1> QED BY Zenon, <1>2, <1>3

(* GET changes nothing that is shown, unless its release runs a deferred    *)
(* REMOVE that fails.                                                      *)
LEMMA AcquireForReadMaps ==
  ASSUME Holds, NEW r \in Readers, NEW k \in Keys, AcquireForRead(r, k)
  PROVE  UNCHANGED Contract!storeVars
  <1>1. mem \in Mems /\ mem' = Pin(mem, k) /\ phase' = phase /\ hist' = hist
    BY Zenon DEF Holds, StoreInv, StoreType, AcquireForRead
  <1>2. mem'.committed = mem.committed /\ mem'.failed = mem.failed
    BY Zenon, <1>1 DEF Pin, Mems
  <1> QED BY Zenon, <1>1, <1>2, Plain

LEMMA ReleaseReadMaps ==
  ASSUME Holds, NEW r \in Readers, ReleaseRead(r)
  PROVE  Contract!CacheStoreNext
  <1>1. StoreInv
    BY Zenon DEF Holds
  <1>2. PICK k \in Keys, s \in Slots :
          /\ k = rd[r].key /\ mem.owner[s] = k /\ mem.inflight[k] > 0
    BY Zenon, <1>1, ReadersPin DEF ReleaseRead
  <1>3. phase = "up" /\ phase' = "up" /\ hist' = hist
    BY Zenon DEF ReleaseRead, Serving
  <1>4. PICK ok \in BOOLEAN : mem' = ReleaseInflight(mem, k, ok)
    BY Zenon, <1>2 DEF ReleaseRead
  <1>5. /\ mem \in Mems /\ \A u \in Slots : mem.owner[u] = k => u = s
        /\ mem.doomed = {} /\ mem.pins[s] = mem.inflight[k]
    BY SMTT(60), <1>1, <1>2, StoreAssumption DEF StoreInv, StoreType, Holders, SlotsAreOwned
  <1>6. Released(mem, mem', k, s, ok)
    BY Zenon, <1>2, <1>4, <1>5, ReleaseEffect
  <1>7. mem'.committed \subseteq mem.committed /\ (mem.failed => mem'.failed)
    BY Zenon, <1>6 DEF Released
  <1> QED BY Zenon, <1>3, <1>7, Lessens

LEMMA RemoveMaps ==
  ASSUME Holds, NEW k \in Keys, Remove(k)
  PROVE  Contract!CacheStoreNext
  <1>1. StoreInv
    BY Zenon DEF Holds
  <1>2. /\ phase = "up" /\ phase' = "up" /\ ~mem.failed /\ Contains(mem, k) /\ mem \in Mems
        /\ hist \in [removed : SUBSET Keys, last : [Keys -> Vals \cup {None}]]
    BY Zenon, <1>1 DEF Remove, Serving, StoreInv, StoreType
  <1>3. ASSUME mem'.committed = mem.committed \ {k}, mem'.failed = mem.failed,
               hist' = [hist EXCEPT !.removed = @ \cup {k}, !.last[k] = None]
        PROVE  Contract!CacheStoreNext
    <2>1. \A x \in Keys \ {k} : hist'.last[x] = hist.last[x]
      BY Zenon, <1>2, <1>3
    <2>2. Shown(k)' = None
      BY Zenon, <1>3 DEF Shown
    <2>3. \A x \in Keys \ {k} : Shown(x)' = Shown(x)
      BY Zenon, <1>2, <1>3, <2>1 DEF Shown
    <2> QED BY ZenonT(60), <1>2, <1>3, <2>2, <2>3, MapsToRemove
  <1>4. CASE /\ mem' = [mem EXCEPT !.deferred = @ \cup {k}, !.committed = @ \ {k}]
             /\ hist' = [hist EXCEPT !.removed = @ \cup {k}, !.last[k] = None]
    <2>1. mem'.committed = mem.committed \ {k} /\ mem'.failed = mem.failed
      BY Zenon, <1>2, <1>4 DEF Mems
    <2> QED BY Zenon, <1>3, <1>4, <2>1
  <1>5. CASE /\ mem.inflight[k] = 0
             /\ mem' = [AllocRemove([mem EXCEPT !.rec[SlotOf(mem, k)] = None], k)
                          EXCEPT !.committed = @ \ {k}]
             /\ hist' = [hist EXCEPT !.removed = @ \cup {k}, !.last[k] = None]
    <2>1. PICK s \in Slots : mem.owner[s] = k
      BY Zenon, <1>2 DEF Contains, Holding
    <2>2. /\ \A u \in Slots : mem.owner[u] = k => u = s
          /\ mem.pins[s] = 0 /\ mem.doomed = {}
      BY SMTT(30), <1>1, <1>5, <2>1, StoreAssumption DEF StoreInv, Holders, SlotsAreOwned
    <2>3. PICK m : m = [mem EXCEPT !.rec[SlotOf(mem, k)] = None]
      BY Zenon
    <2>4. /\ m \in Mems /\ m.owner = mem.owner /\ m.doomed = {} /\ m.pins = mem.pins
          /\ m.committed = mem.committed /\ m.failed = mem.failed
      <3>1. SlotOf(mem, k) = s
        BY SMTT(30), <1>2, <2>1, <2>2, SlotOfOwner
      <3> QED BY Zenon, <1>2, <2>2, <2>3, <3>1 DEF Mems, Table
    <2>5. Holding(m, k) = {s} /\ SlotOf(m, k) = s /\ m.pins[s] = 0
      BY SMTT(60), <2>1, <2>2, <2>4, SlotOfOwner
    <2>6. PICK n : n = AllocRemove(m, k)
      BY Zenon
    <2>7. n \in Mems /\ n.committed = m.committed /\ n.failed = m.failed
      BY ZenonT(60), <2>4, <2>5, <2>6, AllocRemoveEffect
    <2>8. mem' = [n EXCEPT !.committed = @ \ {k}]
      BY Zenon, <1>5, <2>3, <2>6
    <2>9. mem'.committed = mem.committed \ {k} /\ mem'.failed = mem.failed
      BY Zenon, <2>4, <2>7, <2>8 DEF Mems
    <2> QED BY Zenon, <1>3, <1>5, <2>9
  <1>6. CASE mem' = [mem EXCEPT !.failed = TRUE] /\ UNCHANGED hist
    <2>1. mem'.committed = mem.committed /\ mem'.failed = TRUE
      BY Zenon, <1>2, <1>6, FailEffect
    <2> QED BY Zenon, <1>2, <1>6, <2>1, Lessens
  <1> QED BY SMTT(60), <1>4, <1>5, <1>6 DEF Remove

LEMMA ReclaimMaps ==
  ASSUME Holds, Reclaim
  PROVE  Contract!CacheStoreNext
  <1>1. /\ phase = "up" /\ phase' = "up" /\ hist' = hist /\ mem \in Mems /\ mem.doomed = {}
    BY Zenon DEF Reclaim, Serving, Holds, StoreInv, StoreType, Holders, SlotsAreOwned
  <1>2. PICK s \in Slots : \E ok \in BOOLEAN : mem' = Evict(mem, s, ok)
    BY Zenon DEF Reclaim, Victims
  <1>3. CASE mem' = Evict(mem, s, TRUE)
    <2>1. mem'.committed = mem.committed \ {mem.owner[s]} /\ mem'.failed = mem.failed
      BY Zenon, <1>1, <1>3, EvictEffect
    <2> QED BY Zenon, <1>1, <2>1, Lessens
  <1>4. CASE mem' = Evict(mem, s, FALSE)
    <2>1. mem'.committed = mem.committed /\ mem'.failed = TRUE
      BY Zenon, <1>1, <1>4, FailEffect DEF Evict
    <2> QED BY Zenon, <1>1, <2>1, Lessens
  <1> QED BY ZenonT(60), <1>2, <1>3, <1>4

LEMMA SyncTableMaps ==
  ASSUME Holds, SyncTable
  PROVE  Contract!CacheStoreNext
  <1>1. phase = "up" /\ phase' = "up" /\ hist' = hist /\ mem \in Mems
    BY Zenon DEF SyncTable, Serving, Holds, StoreInv, StoreType
  <1>2. mem'.committed = mem.committed /\ (mem.failed => mem'.failed)
    BY Zenon, <1>1, FailEffect DEF SyncTable
  <1> QED BY Zenon, <1>1, <1>2, Lessens

(* The life of the process: an end closes the store, MarkDirtyEpoch opens   *)
(* it over the table Rebuild restored.                                     *)
LEMMA EndMaps ==
  ASSUME Holds, hist' = hist, phase' # "up"
  PROVE  Contract!CacheStoreNext \/ UNCHANGED Contract!storeVars
  BY Zenon, NotServing, MapsToClose

LEMMA LifeMaps ==
  ASSUME Holds,
         \/ Crash \/ OpenEpochState \/ ResetUncleanEpoch \/ Rebuild \/ MarkDirtyEpoch
         \/ SyncPayloads \/ SyncTableAtExit \/ MarkCleanEpoch
  PROVE  Contract!CacheStoreNext \/ UNCHANGED Contract!storeVars
  <1>1. CASE \/ Crash \/ OpenEpochState \/ ResetUncleanEpoch \/ Rebuild
             \/ SyncPayloads \/ SyncTableAtExit \/ MarkCleanEpoch
    <2>1. hist' = hist /\ phase' # "up"
      BY Zenon, <1>1 DEF Crash, OpenEpochState, ResetUncleanEpoch, Rebuild, SyncPayloads,
                  SyncTableAtExit, MarkCleanEpoch, Ended
    <2> QED BY Zenon, <2>1, EndMaps
  <1>2. CASE MarkDirtyEpoch
    <2>1. hist' = hist /\ phase # "up" /\ (phase' = "up" \/ phase' # "up")
      BY Zenon, <1>2 DEF MarkDirtyEpoch
    <2> QED BY Zenon, <2>1, EndMaps, MapsToOpen
  <1> QED BY Zenon, <1>1, <1>2

LEMMA NextMaps ==
  ASSUME Holds, [Next]_vars
  PROVE  Contract!CacheStoreNext \/ UNCHANGED Contract!storeVars
  <1> DEFINE Maps == Contract!CacheStoreNext \/ UNCHANGED Contract!storeVars
  <1>1. ASSUME NEW t \in Threads, Judge(t) PROVE Maps
    BY Zenon, <1>1, JudgeMaps
  <1>2. ASSUME NEW t \in Threads, WritePayload(t) \/ WriteRecord(t) PROVE Maps
    BY SMTT(60), <1>2, WriteMaps
  <1>3. ASSUME NEW t \in Threads, CommitItem(t) PROVE Maps
    BY Zenon, <1>3, CommitMaps
  <1>4. ASSUME NEW t \in Threads, \/ PutBegin(t) \/ WindowClosed(t) \/ WindowTimeout(t)
                                  \/ L2Begin(t) \/ PutAnswer(t)
        PROVE  Maps
    <2>1. UNCHANGED <<mem, phase, hist>>
      BY Zenon, <1>4 DEF PutBegin, WindowClosed, WindowTimeout, L2Begin, PutAnswer
    <2> QED BY Zenon, <2>1, Plain
  <1>5. ASSUME NEW r \in Readers, ReleaseRead(r) PROVE Maps
    BY Zenon, <1>5, ReleaseReadMaps
  <1>6. ASSUME NEW r \in Readers, NEW k \in Keys, AcquireForRead(r, k) PROVE Maps
    BY SMTT(60), <1>6, AcquireForReadMaps
  <1>7. ASSUME NEW k \in Keys, Remove(k) PROVE Maps
    BY Zenon, <1>7, RemoveMaps
  <1>8. ASSUME Reclaim PROVE Maps
    BY Zenon, <1>8, ReclaimMaps
  <1>9. ASSUME SyncTable PROVE Maps
    BY Zenon, <1>9, SyncTableMaps
  <1>10. ASSUME \/ Crash \/ OpenEpochState \/ ResetUncleanEpoch \/ Rebuild \/ MarkDirtyEpoch
                \/ SyncPayloads \/ SyncTableAtExit \/ MarkCleanEpoch
         PROVE  Maps
    BY SMTT(60), <1>10, LifeMaps
  <1>11. ASSUME NEW s \in Slots, Writeback(s) PROVE Maps
    <2>1. UNCHANGED <<mem, phase, hist>>
      BY Zenon, <1>11 DEF Writeback
    <2> QED BY Zenon, <2>1, Plain
  <1>12. ASSUME UNCHANGED vars PROVE Maps
    <2>1. UNCHANGED <<mem, phase, hist>>
      BY Zenon, <1>12 DEF vars
    <2> QED BY Zenon, <2>1, Plain
  <1> HIDE DEF Maps
  <1>13. Maps
    BY SMTT(30), <1>1, <1>2, <1>3, <1>4, <1>5, <1>6, <1>7, <1>8, <1>9, <1>10, <1>11, <1>12
       DEF Next, SteadyNext, Steps
  <1> QED BY Zenon, <1>13 DEF Maps

LEMMA InitMaps ==
  ASSUME Init
  PROVE  Contract!CacheStoreInit
  <1>1. StoreInv /\ phase = "down" /\ hist = [removed |-> {}, last |-> [k \in Keys |-> None]]
    BY Zenon, InitHolds DEF Init
  <1>2. VisibleNow = [k \in Keys |-> None]
    BY Zenon, <1>1, FoundIsShownNow DEF FoundIsShown, ShownNow, Shown
  <1> QED BY Zenon, <1>1, <1>2 DEF VisibleNow, Contract!CacheStoreInit, Contract!Empty

(* Through PUTs, REMOVEs, evictions, failures, crashes and restarts, what   *)
(* the slab engine's GETs find is what CacheStore allows: a key's last      *)
(* published value, whole, or nothing, and never again one removed.        *)
THEOREM StoreImplementsContract == Spec => ImplementsCacheStore
  <1>1. Init => Contract!CacheStoreInit
    BY Zenon, InitMaps
  <1>2. StoreInv /\ StoreInv' /\ [Next]_vars => [Contract!CacheStoreNext]_(Contract!storeVars)
    BY Zenon, NextMaps DEF Holds
  <1> QED BY <1>1, <1>2, StoreInvHolds, PTL
          DEF Spec, ImplementsCacheStore, Contract!CacheStoreSpec

=============================================================================
