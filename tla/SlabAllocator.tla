---------------------------- MODULE SlabAllocator ----------------------------
(***************************************************************************)
(* The slot allocator of the disk slab store: fixed extents bound to size  *)
(* classes, free slots per extent handed out in rotation, and the ways a   *)
(* class gets room (a free extent, another class's extent, one of its own  *)
(* residents).  Sizes are in units of the alignment; a class is its slot   *)
(* size.  Every operation runs under the allocator's lock and is one step. *)
(*                                                                         *)
(* Recency is abstracted: where the code picks the coldest candidate any   *)
(* candidate may be picked, and a cold extent may or may not exist.  A     *)
(* metadata write that fails stops the store for good and is left out, as  *)
(* are the value counters that only feed statistics.                       *)
(***************************************************************************)
EXTENDS FlatKeyIndex, FiniteSets

CONSTANTS
  NumExtents,   \* num_extents
  ExtentUnits,  \* extent_bytes
  WastePct,     \* max_waste, in percent
  SizeOf,       \* [Objects -> 1..ExtentUnits], the stored length
  StripeWays,   \* kStripeWays
  MaxHolds,     \* bound on the pins of one object
  MaxVictims,   \* victims of one reclaim call
  FreeTarget,   \* free slots ReclaimClass restores
  LowBytes      \* bytes EvictColdToTarget goes down to

ExtentIds == 1..NumExtents
Unbound == 0

\* The lattice of slot sizes: each next one is the largest whose smallest
\* request still stays within the waste limit.
NextSize(size) ==
  LET want == ((size + 1) * 100) \div (100 - WastePct)
      least == IF want < size + 1 THEN size + 1 ELSE want
  IN IF least > ExtentUnits THEN ExtentUnits ELSE least

Lattice[n \in 1..ExtentUnits] == IF n = 1 THEN 1 ELSE NextSize(Lattice[n - 1])
Classes == {Lattice[n] : n \in 1..ExtentUnits}
CanonicalSlotSize(len) == CHOOSE s \in Classes : s >= len /\ \A r \in Classes : r >= len => s <= r
SlotsPer(c) == ExtentUnits \div c

VARIABLE slab   \* the allocator, one record; see AllocatorInit

NoExtent == [cls |-> Unbound, free |-> 0, pinned |-> 0, resident |-> 0, kept |-> 0]
NewClass == [free |-> [e \in ExtentIds |-> <<>>], rr |-> <<>>, next |-> 1,
             count |-> 0, resident |-> 0, bound |-> 0]

AllocatorInit ==
  slab = [ext   |-> [e \in ExtentIds |-> NoExtent],
          cls   |-> [c \in Classes |-> NewClass],
          at    |-> <<>>,           \* residents: object -> [cls, ext, slot, refs, gone, kept]
          pool  |-> NumExtents,     \* unbound_
          used  |-> 0,              \* used_bytes_
          index |-> NewIndex]

(* ------------------------------ free slots ------------------------------ *)

\* Entry i of s gives way to the last one.
SwapOut(s, i) == Front([s EXCEPT ![i] = Last(s)])

PushFree(c, e, s) ==
  [c EXCEPT !.rr = IF c.free[e] = <<>> THEN Append(@, e) ELSE @,
            !.free[e] = Append(@, s), !.count = @ + 1]

\* The class after a slot is taken, and the slot.
PopFree(c) ==
  LET i == IF c.next > Len(c.rr) THEN 1 ELSE c.next
      e == c.rr[i]
      left == Front(c.free[e])
  IN [ext |-> e, slot |-> Last(c.free[e]),
      cls |-> [c EXCEPT !.free[e] = left, !.count = @ - 1,
                        !.rr = IF left = <<>> THEN SwapOut(@, i) ELSE @,
                        !.next = IF left = <<>> THEN i ELSE i + 1]]

DropFromRotation(c, e) ==
  IF \A i \in DOMAIN c.rr : c.rr[i] # e THEN c
  ELSE LET i == CHOOSE i \in DOMAIN c.rr : c.rr[i] = e
           rest == SwapOut(c.rr, i)
           next == IF c.next > i THEN c.next - 1 ELSE c.next
       IN [c EXCEPT !.rr = rest,
                    !.next = IF next > Len(rest) /\ rest # <<>> THEN 1 ELSE next]

TakeFreeSlot(c, e, s) ==
  LET i == CHOOSE i \in DOMAIN c.free[e] : c.free[e][i] = s
      taken == [c EXCEPT !.free[e] = SwapOut(@, i), !.count = @ - 1]
  IN IF taken.free[e] = <<>> THEN DropFromRotation(taken, e) ELSE taken

DropExtentFree(c, e) ==
  DropFromRotation([c EXCEPT !.count = @ - Len(c.free[e]), !.free[e] = <<>>], e)

(* -------------------------- extents and classes ------------------------- *)

BindExtent(a, c, e) ==
  LET slots == [i \in 1..SlotsPer(c) |-> i - 1]
      bound == [a.cls[c] EXCEPT !.bound = @ + 1]
  IN [a EXCEPT !.ext[e] = [NoExtent EXCEPT !.cls = c, !.free = SlotsPer(c)],
               !.cls[c] = FoldLeft(LAMBDA x, s : PushFree(x, e, s), bound, slots),
               !.pool = @ - 1]

\* The extent goes back to the pool.
ReturnExtent(a, e) ==
  [a EXCEPT !.cls[a.ext[e].cls] = [DropExtentFree(@, e) EXCEPT !.bound = @ - 1],
            !.ext[e] = NoExtent,
            !.pool = @ + 1]

\* Free extents are bound, lowest first, until enough have free slots.
FillStripes(a, c) ==
  FoldLeft(LAMBDA b, e : IF Len(b.cls[c].rr) < StripeWays /\ b.ext[e].cls = Unbound
                         THEN BindExtent(b, c, e) ELSE b,
           a, [e \in ExtentIds |-> e])

\* FreeSlotLocked: an extent whose last resident goes returns to the pool when
\* its class keeps enough extents with free slots.
FreeResident(a, o) ==
  LET m == a.at[o]
      x == a.ext[m.ext]
      freed ==
        [a EXCEPT
          !.ext[m.ext] = [x EXCEPT !.free = @ + 1, !.resident = @ - 1,
                                   !.kept = @ - (IF m.kept THEN 1 ELSE 0),
                                   !.pinned = @ - (IF m.refs > 0 THEN 1 ELSE 0)],
          !.cls[m.cls] = [PushFree(@, m.ext, m.slot) EXCEPT !.resident = @ - 1],
          !.at = [p \in DOMAIN @ \ {o} |-> @[p]],
          !.used = @ - m.cls,
          !.index = EraseKey(@, o)]
  IN IF /\ freed.ext[m.ext].free = SlotsPer(m.cls)
        /\ Len(freed.cls[m.cls].rr) > StripeWays
     THEN ReturnExtent(freed, m.ext) ELSE freed

Install(a, o, c, e, s, kept) ==
  [a EXCEPT !.at = (o :> [cls |-> c, ext |-> e, slot |-> s, refs |-> 0,
                          gone |-> FALSE, kept |-> kept]) @@ @,
            !.index = InsertKey(@, o),
            !.ext[e].free = @ - 1, !.ext[e].resident = @ + 1,
            !.ext[e].kept = @ + (IF kept THEN 1 ELSE 0),
            !.cls[c].resident = @ + 1,
            !.used = @ + c]

(* ---------------------------- making room ------------------------------- *)

Held(m) == m.refs > 0 \/ m.kept
Victims(a, C) == {o \in DOMAIN a.at : a.at[o].cls \in C /\ ~Held(a.at[o])}

\* EvictOneFrom: the CLOCK hand passes over pinned and protected residents.
EvictOneFrom(a, c) == {FreeResident(a, o) : o \in Victims(a, {c})}

\* Mutant: extents with retained residents are donors too.
DonorsUnprotected(a, C, floor) ==
  {e \in ExtentIds : /\ a.ext[e].cls \in C
                     /\ a.ext[e].pinned = 0
                     /\ floor > 0 => a.cls[a.ext[e].cls].bound > floor}

\* Extents of the other classes C that may be taken from them.
Donors(a, C, floor) ==
  {e \in ExtentIds : /\ a.ext[e].cls \in C
                     /\ a.ext[e].pinned = 0 /\ a.ext[e].kept = 0
                     /\ floor > 0 => a.cls[a.ext[e].cls].bound > floor}

\* Every resident of the extent is freed, which may return the extent on the
\* way; then it is bound to the class.
StealExtent(a, e, c) ==
  LET gone == {o \in DOMAIN a.at : a.at[o].ext = e}
      emptied == FoldLeft(FreeResident, a, SetToSeq(gone))
  IN BindExtent(IF emptied.ext[e].cls = Unbound THEN emptied ELSE ReturnExtent(emptied, e), c, e)

Steals(a, c, E) == {StealExtent(a, e, c) : e \in E}

\* The allocators a class without a free slot may end up with: it grows to its
\* striping width from classes above theirs, takes a cold extent, evicts one
\* of its own, or takes any extent at all.
MakeRoom(a, c) ==
  LET others == Classes \ {c}
      grow == IF a.cls[c].bound < StripeWays THEN Donors(a, others, StripeWays) ELSE {}
      cold == {e \in Donors(a, others, 0) : a.ext[e].resident > 0}
  IN IF grow # {} THEN Steals(a, c, grow)
     ELSE Steals(a, c, cold) \cup
          (IF EvictOneFrom(a, c) # {} THEN EvictOneFrom(a, c)
           ELSE Steals(a, c, Donors(a, others, 0)))

(* ------------------------------ operations ------------------------------ *)

\* RestoreBulk, once, on the new allocator: the records the scan found, in scan
\* order, with the objects still protected.  A batch in which two records
\* disagree about a slot or an extent's class installs nothing.
RestoreBulk(place, kept) ==
  LET S == DOMAIN place
      ClassOf(o) == CanonicalSlotSize(SizeOf[o])
      Sound == /\ \A o \in S : place[o].slot < SlotsPer(ClassOf(o))
               /\ \A o, p \in S : o # p => /\ place[o] # place[p]
                                           /\ place[o].ext = place[p].ext
                                                => ClassOf(o) = ClassOf(p)
      Enter(a, o) ==
        LET c == ClassOf(o)
            e == place[o].ext
            b == IF a.ext[e].cls = Unbound THEN BindExtent(a, c, e) ELSE a
            taken == [b EXCEPT !.cls[c] = TakeFreeSlot(@, e, place[o].slot)]
        IN Install(taken, o, c, e, place[o].slot, o \in kept)
      Before(o, p) == \/ place[o].ext < place[p].ext
                      \/ place[o].ext = place[p].ext /\ place[o].slot <= place[p].slot
  IN /\ slab.pool = NumExtents /\ slab.index = NewIndex
     /\ S # {} /\ Sound
     /\ slab' = FoldLeft(Enter, slab, SetToSortSeq(S, Before))

\* A new object: free extents are bound, then room is made if none is left.
PutObject(o) ==
  LET c == CanonicalSlotSize(SizeOf[o])
      a == FillStripes(slab, c)
      ready == IF a.cls[c].rr # <<>> THEN {a} ELSE {FillStripes(b, c) : b \in MakeRoom(a, c)}
  IN /\ o \notin DOMAIN slab.at
     /\ \E b \in ready :
          LET p == PopFree(b.cls[c])
          IN slab' = Install([b EXCEPT !.cls[c] = p.cls], o, c, p.ext, p.slot, FALSE)

PinObject(o) ==
  /\ o \in DOMAIN slab.at /\ ~slab.at[o].gone /\ slab.at[o].refs < MaxHolds
  /\ slab' = [slab EXCEPT !.at[o].refs = @ + 1,
                          !.ext[slab.at[o].ext].pinned =
                             @ + (IF slab.at[o].refs = 0 THEN 1 ELSE 0)]

\* The last pin of a removed object frees its slot.
UnpinObject(o) ==
  /\ o \in DOMAIN slab.at /\ slab.at[o].refs > 0
  /\ LET m == slab.at[o]
         a == [slab EXCEPT !.at[o].refs = @ - 1,
                           !.ext[m.ext].pinned = @ - (IF m.refs = 1 THEN 1 ELSE 0)]
     IN slab' = IF m.refs = 1 /\ m.gone THEN FreeResident(a, o) ELSE a

\* A removal; while somebody reads the slot it is left to the last reader.
RemoveObject(o) ==
  /\ o \in DOMAIN slab.at
  /\ slab' = IF slab.at[o].refs > 0 THEN [slab EXCEPT !.at[o].gone = TRUE]
             ELSE FreeResident(slab, o)

\* ProtectLocked and UnprotectLocked, as RETAIN and its expiry call them.
ProtectObject(o) ==
  /\ o \in DOMAIN slab.at /\ ~slab.at[o].gone /\ ~slab.at[o].kept
  /\ slab' = [slab EXCEPT !.at[o].kept = TRUE, !.ext[slab.at[o].ext].kept = @ + 1]
UnprotectObject(o) ==
  /\ o \in DOMAIN slab.at /\ slab.at[o].kept
  /\ slab' = [slab EXCEPT !.at[o].kept = FALSE, !.ext[slab.at[o].ext].kept = @ - 1]

\* Residents of the class go until it has enough free slots; a free extent, or
\* one that comes back to the pool, ends the sweep.
ReclaimClass(c) ==
  LET Swept[n \in 0..MaxVictims] ==
        IF n = 0 THEN {[a |-> slab, on |-> TRUE]}
        ELSE UNION {IF /\ r.on /\ r.a.cls[c].count < FreeTarget
                       /\ r.a.pool = 0 /\ EvictOneFrom(r.a, c) # {}
                    THEN {[a |-> b, on |-> b.cls[c].count > r.a.cls[c].count] :
                            b \in EvictOneFrom(r.a, c)}
                    ELSE {[r EXCEPT !.on = FALSE]} : r \in Swept[n - 1]}
  IN \E r \in Swept[MaxVictims] : r.a # slab /\ slab' = r.a

\* The watermark drain: residents of any class, down to the low mark.
EvictColdToTarget ==
  LET Swept[n \in 0..MaxVictims] ==
        IF n = 0 THEN {slab}
        ELSE UNION {IF a.used > LowBytes /\ Victims(a, Classes) # {}
                    THEN {FreeResident(a, o) : o \in Victims(a, Classes)}
                    ELSE {a} : a \in Swept[n - 1]}
  IN slab.used > LowBytes /\ \E a \in Swept[MaxVictims] : a # slab /\ slab' = a

\* The reclaimer's GROW step.  It picked the donor from counts sampled before
\* it took the lock, so nothing but the donor's extents is known here.
StealFrom(d, c) ==
  /\ d # c
  /\ \E e \in Donors(slab, {d}, 0) : slab' = StealExtent(slab, e, c)

Places == [ext : ExtentIds, slot : 0..(ExtentUnits - 1)]

AllocatorNext ==
  \/ \E S \in SUBSET Objects : \E place \in [S -> Places], kept \in SUBSET S :
       RestoreBulk(place, kept)
  \/ \E o \in Objects : \/ PutObject(o) \/ PinObject(o) \/ UnpinObject(o) \/ RemoveObject(o)
                        \/ ProtectObject(o) \/ UnprotectObject(o)
  \/ \E c \in Classes : ReclaimClass(c) \/ \E d \in Classes : StealFrom(d, c)
  \/ EvictColdToTarget

AllocatorSpec == AllocatorInit /\ [][AllocatorNext]_slab

(* ------------------------------ properties ------------------------------ *)

ResidentSlots(e) == {slab.at[o].slot : o \in {p \in DOMAIN slab.at : slab.at[p].ext = e}}

\* Binding, stealing, returning and restoring extents loses no slot and hands
\* none out twice: each slot of a bound extent is free, once, or holds one
\* resident of the extent's class; a class rotates over exactly its extents
\* with free slots; and every counter the code branches on (free slots, bound
\* extents, the pool, pins, protected slots, used bytes) is what it counts.
ExtentsAreExact ==
  /\ \A e \in ExtentIds, c \in Classes :
       LET x == slab.ext[e]
           free == slab.cls[c].free[e]
           here == {o \in DOMAIN slab.at : slab.at[o].ext = e}
       IN IF x.cls # c THEN free = <<>>
          ELSE /\ IsInjective(free)
               /\ ToSet(free) \cap ResidentSlots(e) = {}
               /\ ToSet(free) \cup ResidentSlots(e) = 0..(SlotsPer(c) - 1)
               /\ Cardinality(here) = Cardinality(ResidentSlots(e))
               /\ \A o \in here : slab.at[o].cls = c
               /\ x.free = Len(free) /\ x.resident = Cardinality(here)
               /\ x.pinned = Cardinality({o \in here : slab.at[o].refs > 0})
               /\ x.kept = Cardinality({o \in here : slab.at[o].kept})
  /\ \A c \in Classes :
       LET k == slab.cls[c]
       IN /\ IsInjective(k.rr)
          /\ ToSet(k.rr) = {e \in ExtentIds : k.free[e] # <<>>}
          /\ k.next \in 1..(Len(k.rr) + 1)
          /\ k.bound = Cardinality({e \in ExtentIds : slab.ext[e].cls = c})
          /\ k.resident = Cardinality({o \in DOMAIN slab.at : slab.at[o].cls = c})
  /\ slab.pool = Cardinality({e \in ExtentIds : slab.ext[e].cls = Unbound})
  /\ slab.used = FoldLeft(LAMBDA n, o : n + slab.at[o].cls, 0, SetToSeq(DOMAIN slab.at))
  /\ IndexIsFaithful(slab.index, DOMAIN slab.at)

\* An object somebody reads keeps its slot, whatever takes room; one protected
\* by RETAIN goes only by an explicit removal.
HeldStays ==
  \A o \in DOMAIN slab.at :
    LET m == slab.at[o]
        stays == o \in DOMAIN slab'.at /\ slab'.at[o].slot = m.slot /\ slab'.at[o].ext = m.ext
    IN /\ (m.refs > 1 \/ (m.refs = 1 /\ ~m.gone)) => stays
       /\ m.kept => (stays \/ RemoveObject(o) \/ UnpinObject(o))

\* The allocator never loses, doubles or moves a slot in use: its accounts stay
\* exact and what is held stays where it is.
AllocatorIsSound == []ExtentsAreExact /\ [][HeldStays]_slab
==============================================================================
