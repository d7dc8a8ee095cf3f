------------------------------ MODULE GpuProofs ------------------------------
(***************************************************************************)
(* Proofs about the rendezvous for GPU memory: a hit is whole, for any      *)
(* number of processes, registry entries, keys and cells and any calls.     *)
(***************************************************************************)
EXTENDS GpuNodeDedup, TLAPS

-----------------------------------------------------------------------------
(* The values of the variables. *)
Detached == {"off", "open", "dead"}
Busy == {"issue", "reserve", "wait", "takeover", "identify", "token", "fetch", "map",
         "copyFirst", "copyLast", "validate", "hit", "publish", "abort", "gatherFirst",
         "gatherLast", "flip"}
Gathering == {"gatherFirst", "gatherLast", "flip"}
Copying == {"copyFirst", "copyLast", "validate"}

SlotRecs == [gen : Nat, state : {"empty", "fetching", "publishing", "ready"}, known : BOOLEAN,
             owner : RegEntries \cup {0}, ogen : Nat, off : Nat, seq : Nat, val : Nat]
RegRecs == [pid : GpuProcs \cup {0}, ready : BOOLEAN, gen : Nat, cursor : Nat,
            arena : GpuProcs \cup {0}]
Halves == [1..2 -> Nat]
CopyRecs == [gen : Nat, own : RegEntries \cup {0}, egen : Nat, off : Nat, seq : Nat,
             arena : GpuProcs \cup {0}, val : Nat, got : Halves]
ProcRecs == [pc : Detached \cup {"idle"} \cup Busy, entry : RegEntries \cup {0}, gen : Nat,
             calls : Seq(GpuKeys), key : GpuKeys \cup {0}, token : Nat, seq : Nat, val : Nat,
             wait : BOOLEAN, copy : CopyRecs]
MapRecs == [gen : Nat, arena : GpuProcs \cup {0}]

GpuType ==
  /\ gslot \in [GpuKeys -> SlotRecs]
  /\ reg \in [RegEntries -> RegRecs]
  /\ arenas \in [GpuProcs -> [0..(ArenaCells - 1) -> Halves]]
  /\ gpu \in [GpuProcs -> ProcRecs]
  /\ maps \in [GpuProcs -> [RegEntries -> MapRecs]]
  /\ cudaFaults \in Nat

(* A registry entry belongs to one process, until it dies or closes it. *)
EntryIsOwn(p) ==
  LET me == gpu[p] IN
  /\ me.pc \notin {"off", "dead"} => me.entry \in RegEntries /\ reg[me.entry].pid = p
  /\ me.pc \notin Detached => reg[me.entry].gen = me.gen /\ reg[me.entry].arena = p
  /\ me.pc \in Busy => me.key \in GpuKeys

(* An arena is shown by one entry; its process has it, or had it and died. *)
ArenaIsOne(e) ==
  LET x == reg[e].arena IN
  x # 0 => gpu[x].pc = "dead" \/ (gpu[x].pc \notin Detached /\ gpu[x].entry = e)

(* The last position of a ring that is not being written. *)
Settled(e) ==
  IF \E x \in GpuProcs : x = reg[e].arena /\ gpu[x].pc \in Gathering
  THEN reg[e].cursor - 1 ELSE reg[e].cursor

(* A descriptor of the payload val at position seq of the ring of entry own in *)
(* its generation gen: as long as the generation stands and the ring has not   *)
(* come round, the arena holds it. *)
Current(own, gen, seq) == reg[own].gen = gen /\ NotLapped(own, seq)
CellOf(seq) == (seq - 1) % ArenaCells
Described(own, gen, off, seq, val) ==
  /\ own \in RegEntries /\ gen \in Nat /\ gen <= reg[own].gen
  /\ off \in 0..(ArenaCells - 1) /\ off = CellOf(seq) /\ seq \in Nat \ {0}
  /\ reg[own].gen = gen => reg[own].arena # 0 /\ seq <= Settled(own)
  /\ Current(own, gen, seq) => arenas[reg[own].arena][off] = <<val, val>>

SlotIsDescribed(k) ==
  LET s == gslot[k] IN s.owner # 0 => Described(s.owner, s.ogen, s.off, s.seq, s.val)

(* A publisher is at the head of its ring. *)
GatherIsSound(p) ==
  LET me == gpu[p] IN
  /\ me.pc \in Gathering => me.seq \in Nat \ {0} /\ me.seq = reg[me.entry].cursor
  /\ me.pc \in {"gatherLast", "flip"} => arenas[p][Cell(p)][1] = me.val
  /\ me.pc = "flip" => arenas[p][Cell(p)][2] = me.val

(* A reader copies from the arena the descriptor means. *)
CopyIsSound(p) ==
  LET me == gpu[p]
      c == me.copy IN
  /\ me.pc \in Copying =>
       /\ Described(c.own, c.egen, c.off, c.seq, c.val) /\ c.arena # 0
       /\ reg[c.own].gen = c.egen => c.arena = reg[c.own].arena
  /\ me.pc \in {"copyLast", "validate"} /\ Current(c.own, c.egen, c.seq) => c.got[1] = c.val
  /\ me.pc = "validate" /\ Current(c.own, c.egen, c.seq) => c.got[2] = c.val
  /\ me.pc = "hit" => c.got = <<c.val, c.val>>

(* A mapping that is kept for the present generation is of the present arena. *)
MapIsSound(p, e) ==
  /\ maps[p][e].gen <= reg[e].gen
  /\ maps[p][e].arena # 0 /\ maps[p][e].gen = reg[e].gen => maps[p][e].arena = reg[e].arena

GpuInv ==
  /\ GpuType
  /\ \A p \in GpuProcs : EntryIsOwn(p) /\ GatherIsSound(p) /\ CopyIsSound(p)
  /\ \A e \in RegEntries : ArenaIsOne(e) /\ \A p \in GpuProcs : MapIsSound(p, e)
  /\ \A k \in GpuKeys : SlotIsDescribed(k)

-----------------------------------------------------------------------------
LEMMA CellsDiffer ==
  ASSUME NEW n \in Nat \ {0}, NEW a \in Nat, NEW b \in Nat, a < b, b - a < n
  PROVE  a % n # b % n
  <1>1. \A x \in Nat : x \div n \in Int /\ x % n \in Int /\ x = (n * (x \div n)) + (x % n)
    OBVIOUS
  <1>2. PICK r \in Int, q \in Int, p \in Int : r = a % n /\ q = a \div n /\ p = b \div n
    BY Zenon, <1>1
  <1> SUFFICES ASSUME b % n = r PROVE FALSE
    BY Zenon, <1>2
  <1>3. a = (n * q) + r /\ b = (n * p) + r
    BY Zenon, <1>1, <1>2
  <1>4. b - a = n * (p - q)
    BY <1>3
  <1>5. CASE p - q >= 1
    <2>1. n * (p - q) >= n
      BY <1>5
    <2> QED BY <1>4, <2>1
  <1>6. CASE p - q <= 0
    <2>1. n * (p - q) <= 0
      BY <1>6
    <2> QED BY <1>4, <2>1
  <1> QED BY <1>5, <1>6

(* A step leaves every descriptor good, and makes none current again. *)
Keeps ==
  \A own, gen, off, seq, val : Described(own, gen, off, seq, val) =>
    /\ Described(own, gen, off, seq, val)'
    /\ Current(own, gen, seq)' => Current(own, gen, seq)
    /\ reg'[own].gen = gen => reg[own].gen = gen /\ reg'[own].arena = reg[own].arena

Advances(e) ==
  /\ reg[e].gen <= reg'[e].gen
  /\ reg'[e].gen = reg[e].gen =>
       /\ reg'[e].arena = reg[e].arena /\ reg[e].cursor <= reg'[e].cursor
       /\ Settled(e) <= Settled(e)'

LEMMA SettledType ==
  ASSUME GpuType, NEW e \in RegEntries
  PROVE  Settled(e) \in Int /\ Settled(e) <= reg[e].cursor
  BY DEF GpuType, RegRecs, Settled

LEMMA RegAdvances ==
  ASSUME GpuType, GpuType', UNCHANGED arenas, \A e \in RegEntries : Advances(e)
  PROVE  Keeps
  <1> SUFFICES ASSUME NEW own, NEW gen, NEW off, NEW seq, NEW val,
                      Described(own, gen, off, seq, val)
               PROVE  /\ Described(own, gen, off, seq, val)'
                      /\ Current(own, gen, seq)' => Current(own, gen, seq)
                      /\ reg'[own].gen = gen =>
                           reg[own].gen = gen /\ reg'[own].arena = reg[own].arena
    BY Zenon DEF Keeps
  <1>1. /\ own \in RegEntries /\ gen \in Nat /\ gen <= reg[own].gen /\ seq \in Nat \ {0}
        /\ reg[own].gen = gen => reg[own].arena # 0 /\ seq <= Settled(own)
        /\ Current(own, gen, seq) => arenas[reg[own].arena][off] = <<val, val>>
    BY Zenon DEF Described
  <1>2. reg[own].gen \in Nat /\ reg'[own].gen \in Nat
    BY Zenon, <1>1 DEF GpuType, RegRecs
  <1>3. Settled(own)' \in Int
    BY <1>1 DEF GpuType, RegRecs, Settled
  <1>4. Advances(own)
    BY Zenon, <1>1
  <1>5. reg'[own].gen = gen => reg[own].gen = gen
    BY <1>1, <1>2, <1>4 DEF Advances
  <1>6. reg'[own].gen = gen => /\ reg'[own].arena = reg[own].arena
                               /\ Settled(own) <= Settled(own)'
                               /\ reg[own].cursor <= reg'[own].cursor
    BY Zenon, <1>4, <1>5 DEF Advances
  <1>7. Current(own, gen, seq)' => Current(own, gen, seq)
    <2> SUFFICES ASSUME Current(own, gen, seq)' PROVE NotLapped(own, seq)
      BY Zenon, <1>5 DEF Current
    <2>1. PICK c \in Nat, d \in Nat, b \in Int :
            c = reg[own].cursor /\ d = reg'[own].cursor /\ b = Settled(own)
      BY Zenon, <1>1, SettledType DEF GpuType, RegRecs
    <2>2. d - seq \in 0..(ArenaCells - 1) /\ reg'[own].gen = gen
      BY Zenon, <2>1 DEF Current, NotLapped
    <2>3. c <= d /\ seq <= b /\ b <= c
      BY Zenon, <1>1, <1>5, <1>6, <2>1, <2>2, SettledType
    <2>4. c - seq \in 0..(ArenaCells - 1)
      BY SMTT(30), <1>1, <2>1, <2>2, <2>3, GpuAssumption
    <2> QED BY Zenon, <2>1, <2>4 DEF NotLapped
  <1>8. gen <= reg'[own].gen
    <2>1. reg[own].gen <= reg'[own].gen
      BY Zenon, <1>4 DEF Advances
    <2> QED BY <1>1, <1>2, <2>1
  <1>9. reg'[own].gen = gen => reg'[own].arena # 0 /\ seq <= Settled(own)'
    BY <1>1, <1>3, <1>5, <1>6, SettledType
  <1>10. Current(own, gen, seq)' => arenas'[reg'[own].arena][off] = <<val, val>>
    BY Zenon, <1>1, <1>6, <1>7 DEF Current
  <1> QED BY Zenon, <1>1, <1>5, <1>6, <1>7, <1>8, <1>9, <1>10 DEF Described


(* A descriptor in a slot is left alone or taken out. *)
SlotsStay ==
  \A k \in GpuKeys : gslot'[k].owner # 0 =>
    /\ gslot'[k].owner = gslot[k].owner /\ gslot'[k].ogen = gslot[k].ogen
    /\ gslot'[k].off = gslot[k].off /\ gslot'[k].seq = gslot[k].seq
    /\ gslot'[k].val = gslot[k].val

(* The other processes do not move, and keep their entries and arenas. *)
OthersStay(p) ==
  \A q \in GpuProcs \ {p} :
    /\ gpu'[q] = gpu[q] /\ arenas'[q] = arenas[q]
    /\ gpu[q].pc \notin {"off", "dead"} => reg'[gpu[q].entry] = reg[gpu[q].entry]

LEMMA SlotsStayDescribed ==
  ASSUME GpuInv, Keeps, SlotsStay
  PROVE  \A k \in GpuKeys : SlotIsDescribed(k)'
  <1> SUFFICES ASSUME NEW k \in GpuKeys, gslot'[k].owner # 0
               PROVE  SlotIsDescribed(k)'
    BY Zenon DEF SlotIsDescribed
  <1>1. PICK s : s = gslot[k]
    BY Zenon
  <1>2. /\ gslot'[k].owner = s.owner /\ gslot'[k].ogen = s.ogen /\ gslot'[k].off = s.off
        /\ gslot'[k].seq = s.seq /\ gslot'[k].val = s.val
    BY Zenon, <1>1 DEF SlotsStay
  <1>3. Described(s.owner, s.ogen, s.off, s.seq, s.val)
    BY Zenon, <1>1, <1>2 DEF GpuInv, SlotIsDescribed
  <1>4. Described(s.owner, s.ogen, s.off, s.seq, s.val)'
    BY Zenon, <1>3 DEF Keeps
  <1> QED BY Zenon, <1>2, <1>4 DEF SlotIsDescribed, Described, Current, NotLapped, Settled

LEMMA MapsStay ==
  ASSUME GpuInv, GpuType', UNCHANGED maps, \A e \in RegEntries : Advances(e)
  PROVE  \A e \in RegEntries, q \in GpuProcs : MapIsSound(q, e)'
  <1> SUFFICES ASSUME NEW e \in RegEntries, NEW q \in GpuProcs
               PROVE  MapIsSound(q, e)'
    BY Zenon
  <1>1. MapIsSound(q, e) /\ Advances(e)
    BY Zenon DEF GpuInv
  <1>2. reg[e].gen \in Nat /\ reg'[e].gen \in Nat /\ maps[q][e].gen \in Nat
    BY Zenon DEF GpuInv, GpuType, RegRecs, MapRecs
  <1> QED BY <1>1, <1>2 DEF MapIsSound, Advances

LEMMA ActorStep ==
  ASSUME GpuInv, NEW p \in GpuProcs, GpuType', Keeps, OthersStay(p),
         \A k \in GpuKeys : SlotIsDescribed(k)',
         \A e \in RegEntries : ArenaIsOne(e)',
         \A e \in RegEntries, q \in GpuProcs : MapIsSound(q, e)',
         EntryIsOwn(p)', GatherIsSound(p)', CopyIsSound(p)'
  PROVE  GpuInv'
  <1>1. ASSUME NEW q \in GpuProcs \ {p}
        PROVE  EntryIsOwn(q)' /\ GatherIsSound(q)' /\ CopyIsSound(q)'
    <2>1. EntryIsOwn(q) /\ GatherIsSound(q) /\ CopyIsSound(q)
      BY Zenon DEF GpuInv
    <2>2. PICK me : me = gpu[q]
      BY Zenon
    <2>3. /\ gpu'[q] = me /\ arenas'[q] = arenas[q]
          /\ me.pc \notin {"off", "dead"} => reg'[me.entry] = reg[me.entry]
      BY Zenon, <2>2 DEF OthersStay
    <2>4. EntryIsOwn(q)'
      BY Zenon, <2>1, <2>2, <2>3 DEF EntryIsOwn, Detached, Busy
    <2>5. GatherIsSound(q)'
      <3>1. Cell(q)' = Cell(q)
        BY Zenon, <2>2, <2>3 DEF Cell
      <3> QED BY Zenon, <2>1, <2>2, <2>3, <3>1 DEF GatherIsSound, Gathering
    <2>6. CopyIsSound(q)'
      <3>1. PICK c : c = me.copy
        BY Zenon
      <3>2. me.pc \in Copying => /\ Described(c.own, c.egen, c.off, c.seq, c.val) /\ c.arena # 0
                                 /\ reg[c.own].gen = c.egen => c.arena = reg[c.own].arena
        BY Zenon, <2>1, <2>2, <3>1 DEF CopyIsSound
      <3>3. me.pc \in Copying =>
              /\ Described(c.own, c.egen, c.off, c.seq, c.val)'
              /\ Current(c.own, c.egen, c.seq)' => Current(c.own, c.egen, c.seq)
              /\ reg'[c.own].gen = c.egen => c.arena = reg'[c.own].arena
        BY Zenon, <3>2 DEF Keeps
      <3> QED BY Zenon, <2>1, <2>2, <2>3, <3>1, <3>2, <3>3 DEF CopyIsSound, Copying
    <2> QED BY Zenon, <2>4, <2>5, <2>6
  <1> QED BY Zenon, <1>1 DEF GpuInv

(* p, attached, goes on to record r, and the registry and the arenas stay. *)
Moves(p, r) == gpu' = [gpu EXCEPT ![p] = r]
StaysAttached(p, r) ==
  /\ gpu[p].pc \notin Detached /\ r.pc \notin Detached
  /\ r.entry = gpu[p].entry /\ r.gen = gpu[p].gen
  /\ r.pc \in Busy => r.key \in GpuKeys
  /\ r.pc \in Gathering => gpu[p].pc \in Gathering

LEMMA Attached ==
  ASSUME GpuInv, NEW p \in GpuProcs, NEW r \in ProcRecs, Moves(p, r), StaysAttached(p, r),
         UNCHANGED reg
  PROVE  /\ gpu' \in [GpuProcs -> ProcRecs] /\ gpu'[p] = r
         /\ \A q \in GpuProcs \ {p} : gpu'[q] = gpu[q]
         /\ EntryIsOwn(p)' /\ \A e \in RegEntries : ArenaIsOne(e)' /\ Advances(e)
  <1>1. GpuType
    BY Zenon DEF GpuInv
  <1>2. /\ gpu' \in [GpuProcs -> ProcRecs] /\ gpu'[p] = r
        /\ \A q \in GpuProcs \ {p} : gpu'[q] = gpu[q]
    BY Zenon, <1>1 DEF GpuType, Moves
  <1>3. EntryIsOwn(p)'
    <2>1. EntryIsOwn(p)
      BY Zenon DEF GpuInv
    <2> QED BY Zenon, <1>2, <2>1 DEF EntryIsOwn, StaysAttached, Detached
  <1>4. ASSUME NEW e \in RegEntries PROVE ArenaIsOne(e)' /\ Advances(e)
    <2>1. ArenaIsOne(e) /\ EntryIsOwn(p)
      BY Zenon DEF GpuInv
    <2>2. PICK x \in GpuProcs \cup {0} : x = reg[e].arena
      BY Zenon, <1>1 DEF GpuType, RegRecs
    <2>3. ArenaIsOne(e)'
      BY Zenon, <1>2, <2>1, <2>2 DEF ArenaIsOne, StaysAttached, Detached
    <2>4. PICK c \in Nat : c = reg[e].cursor
      BY Zenon, <1>1 DEF GpuType, RegRecs
    <2>5. Settled(e) <= Settled(e)'
      <3>1. CASE x = p
        BY <1>2, <2>2, <2>4, <3>1 DEF Settled, StaysAttached
      <3>2. CASE x \in GpuProcs \ {p}
        BY <1>2, <2>2, <2>4, <3>2 DEF Settled
      <3>3. CASE x = 0
        <4>1. x \notin GpuProcs
          BY Zenon, <3>3, GpuAssumption
        <4> QED BY <2>2, <2>4, <4>1 DEF Settled
      <3> QED BY Zenon, <3>1, <3>2, <3>3
    <2> QED BY <1>1, <2>3, <2>5 DEF Advances, GpuType, RegRecs
  <1> QED BY Zenon, <1>2, <1>3, <1>4

LEMMA MapsSame ==
  ASSUME GpuInv, UNCHANGED <<reg, maps>>
  PROVE  /\ maps' \in [GpuProcs -> [RegEntries -> MapRecs]]
         /\ \A e \in RegEntries, q \in GpuProcs : MapIsSound(q, e)'
  BY Zenon DEF GpuInv, GpuType, MapIsSound

LEMMA QuietGpuStep ==
  ASSUME GpuInv, NEW p \in GpuProcs, NEW r \in ProcRecs, Moves(p, r),
         StaysAttached(p, r), UNCHANGED <<reg, arenas>>, cudaFaults' \in Nat,
         maps' \in [GpuProcs -> [RegEntries -> MapRecs]],
         \A e \in RegEntries, q \in GpuProcs : MapIsSound(q, e)',
         gslot' \in [GpuKeys -> SlotRecs], SlotsStay, GatherIsSound(p)', CopyIsSound(p)'
  PROVE  GpuInv'
  <1>1. /\ gpu' \in [GpuProcs -> ProcRecs] /\ \A q \in GpuProcs \ {p} : gpu'[q] = gpu[q]
        /\ EntryIsOwn(p)' /\ \A e \in RegEntries : ArenaIsOne(e)' /\ Advances(e)
    BY Zenon, Attached
  <1>2. GpuType /\ GpuType'
    BY Zenon, <1>1 DEF GpuInv, GpuType
  <1>3. Keeps
    BY Zenon, <1>1, <1>2, RegAdvances
  <1>4. OthersStay(p)
    BY Zenon, <1>1 DEF OthersStay
  <1>5. \A k \in GpuKeys : SlotIsDescribed(k)'
    BY Zenon, <1>3, SlotsStayDescribed
  <1> QED BY Zenon, <1>1, <1>2, <1>3, <1>4, <1>5, ActorStep


-----------------------------------------------------------------------------
(* The steps that leave the ring alone: where they lead to. *)
GpuCalm == Busy \ (Gathering \cup Copying \cup {"hit"})
GpuPlaces == Detached \cup {"idle"} \cup Busy

LEMMA GpuCalmStep ==
  ASSUME GpuInv, NEW p \in GpuProcs, NEW r \in ProcRecs, Moves(p, r),
         gpu[p].pc \notin Detached, r.pc \in GpuCalm \cup {"idle"},
         r.entry = gpu[p].entry, r.gen = gpu[p].gen, r.pc # "idle" => r.key \in GpuKeys,
         UNCHANGED <<reg, arenas, maps>>, cudaFaults' \in Nat,
         gslot' \in [GpuKeys -> SlotRecs], SlotsStay
  PROVE  GpuInv'
  <1>1. StaysAttached(p, r)
    BY Zenon DEF StaysAttached, GpuCalm, Busy, Detached, Gathering
  <1>2. gpu'[p] = r
    BY Zenon DEF Moves, GpuInv, GpuType
  <1>3. GatherIsSound(p)' /\ CopyIsSound(p)'
    BY Zenon, <1>2 DEF GatherIsSound, CopyIsSound, GpuCalm, Busy, Gathering, Copying
  <1> QED BY Zenon, <1>1, <1>3, MapsSame, QuietGpuStep

LEMMA NoCopyType == NoCopy \in CopyRecs
  <1>1. <<0, 0>> \in Halves
    BY DEF Halves
  <1> QED BY Zenon, <1>1 DEF NoCopy, CopyRecs

LEMMA AtRestType ==
  ASSUME NEW pc \in GpuPlaces, NEW entry \in RegEntries \cup {0}, NEW gen \in Nat,
         NEW calls \in Seq(GpuKeys), NEW r, r = AtRest(pc, entry, gen, calls)
  PROVE  r \in ProcRecs /\ r.pc = pc /\ r.entry = entry /\ r.gen = gen
  BY Zenon, NoCopyType DEF AtRest, ProcRecs, GpuPlaces

LEMMA GpuFacts ==
  ASSUME GpuInv, NEW p \in GpuProcs
  PROVE  /\ GpuType /\ gpu[p] \in ProcRecs /\ EntryIsOwn(p) /\ GatherIsSound(p) /\ CopyIsSound(p)
         /\ gpu[p].pc \in Busy => gpu[p].key \in GpuKeys /\ gslot[gpu[p].key] \in SlotRecs
         /\ gpu[p].pc \notin {"off", "dead"} => gpu[p].entry \in RegEntries
         /\ gpu[p].pc \notin Detached =>
              reg[gpu[p].entry].gen = gpu[p].gen /\ reg[gpu[p].entry].arena = p
  BY Zenon DEF GpuInv, GpuType, EntryIsOwn

LEMMA ToStep ==
  ASSUME GpuInv, NEW p \in GpuProcs, NEW pc \in GpuCalm \cup {"idle"}, To(p, pc),
         gpu[p].pc \notin Detached, pc # "idle" => gpu[p].pc \in Busy,
         UNCHANGED <<reg, arenas, maps>>, cudaFaults' \in Nat,
         gslot' \in [GpuKeys -> SlotRecs], SlotsStay
  PROVE  GpuInv'
  <1>1. PICK me \in ProcRecs : me = gpu[p]
    BY Zenon, GpuFacts
  <1>2. PICK r : r = IF pc = "idle" THEN AtRest("idle", me.entry, me.gen, me.calls)
                     ELSE [me EXCEPT !.pc = pc]
    BY Zenon
  <1>3. Moves(p, r)
    BY Zenon, <1>1, <1>2 DEF To, Moves
  <1>4. /\ r \in ProcRecs /\ r.pc = pc /\ r.entry = me.entry /\ r.gen = me.gen
        /\ pc # "idle" => r.key = me.key
    <2>1. CASE pc = "idle"
      <3>1. "idle" \in GpuPlaces
        BY Zenon DEF GpuPlaces
      <3>2. r = AtRest("idle", me.entry, me.gen, me.calls)
        BY Zenon, <1>2, <2>1
      <3>3. me.entry \in RegEntries \cup {0} /\ me.gen \in Nat /\ me.calls \in Seq(GpuKeys)
        BY Zenon DEF ProcRecs
      <3>4. r \in ProcRecs /\ r.pc = "idle" /\ r.entry = me.entry /\ r.gen = me.gen
        BY ONLY Zenon, <3>1, <3>2, <3>3, NoCopyType DEF AtRest, ProcRecs, GpuPlaces
      <3> QED BY ONLY Zenon, <2>1, <3>4
    <2>2. CASE pc # "idle"
      <3>1. pc \in Busy
        BY Zenon, <2>2 DEF GpuCalm
      <3> QED BY Zenon, <1>2, <2>2, <3>1 DEF ProcRecs
    <2> QED BY Zenon, <2>1, <2>2
  <1>5. pc # "idle" => me.key \in GpuKeys
    BY Zenon, <1>1, GpuFacts
  <1> QED BY Zenon, <1>1, <1>3, <1>4, <1>5, GpuCalmStep

LEMMA GpuSlotsSame ==
  ASSUME GpuInv, UNCHANGED gslot
  PROVE  gslot' \in [GpuKeys -> SlotRecs] /\ SlotsStay
  BY Zenon DEF GpuInv, GpuType, SlotsStay

LEMMA SlotTurns ==
  ASSUME GpuInv, NEW k \in GpuKeys, NEW s \in SlotRecs, gslot' = [gslot EXCEPT ![k] = s],
         s.owner # 0 => /\ s.owner = gslot[k].owner /\ s.ogen = gslot[k].ogen
                        /\ s.off = gslot[k].off /\ s.seq = gslot[k].seq /\ s.val = gslot[k].val
  PROVE  gslot' \in [GpuKeys -> SlotRecs] /\ SlotsStay
  <1>1. gslot \in [GpuKeys -> SlotRecs]
    BY Zenon DEF GpuInv, GpuType
  <1>2. gslot'[k] = s /\ \A x \in GpuKeys \ {k} : gslot'[x] = gslot[x]
    BY Zenon, <1>1
  <1> QED BY Zenon, <1>1, <1>2 DEF SlotsStay

LEMMA StateTurns ==
  ASSUME GpuInv, NEW k \in GpuKeys, NEW st \in {"empty", "fetching", "publishing", "ready"},
         gslot' = [gslot EXCEPT ![k].state = st]
  PROVE  gslot' \in [GpuKeys -> SlotRecs] /\ SlotsStay
  <1>1. PICK s : s = [gslot[k] EXCEPT !.state = st]
    BY Zenon
  <1>2. gslot[k] \in SlotRecs
    BY Zenon DEF GpuInv, GpuType
  <1>3. /\ s \in SlotRecs /\ s.owner = gslot[k].owner /\ s.ogen = gslot[k].ogen
        /\ s.off = gslot[k].off /\ s.seq = gslot[k].seq /\ s.val = gslot[k].val
    BY Zenon, <1>1, <1>2 DEF SlotRecs
  <1>4. gslot' = [gslot EXCEPT ![k] = s]
    BY Zenon, <1>1
  <1> QED BY Zenon, <1>3, <1>4, SlotTurns


LEMMA ClaimSgStep ==
  ASSUME GpuInv, NEW p \in GpuProcs, ClaimSg(p)
  PROVE  GpuInv'
  <1>1. PICK me \in ProcRecs : me = gpu[p]
    BY Zenon, GpuFacts
  <1>2. me.pc = "idle" /\ me.calls # <<>> /\ me.calls \in Seq(GpuKeys)
    BY Zenon, <1>1 DEF ClaimSg, At, ProcRecs
  <1>3. PICK k \in GpuKeys : k = Head(me.calls)
    BY <1>2
  <1>4. PICK rest \in Seq(GpuKeys) : rest = Tail(me.calls)
    <2>1. Len(me.calls) > 0
      BY <1>2
    <2>2. Tail(me.calls) \in Seq(GpuKeys)
      BY <1>2, <2>1
    <2> QED BY Zenon, <2>2
  <1>5. PICK pc \in {"issue", "reserve", "wait", "takeover"} :
          gpu' = [gpu EXCEPT ![p].pc = pc, ![p].key = k, ![p].calls = rest]
    BY Zenon, <1>1, <1>3, <1>4 DEF ClaimSg
  <1>6. PICK r : r = [me EXCEPT !.pc = pc, !.key = k, !.calls = rest]
    BY Zenon
  <1>7. Moves(p, r)
    BY Zenon, <1>1, <1>5, <1>6 DEF Moves
  <1>8. pc \in GpuCalm /\ pc \in GpuPlaces
    BY Zenon DEF GpuCalm, GpuPlaces, Busy, Gathering, Copying
  <1>9. r \in ProcRecs /\ r.pc = pc /\ r.key = k /\ r.entry = me.entry /\ r.gen = me.gen
    BY Zenon, <1>6, <1>8 DEF ProcRecs, GpuPlaces
  <1>10. UNCHANGED <<gslot, reg, arenas, maps>> /\ cudaFaults' \in Nat
    BY Zenon DEF ClaimSg, Shared, SharedSame, GpuInv, GpuType
  <1>11. gslot' \in [GpuKeys -> SlotRecs] /\ SlotsStay
    BY Zenon, <1>10, GpuSlotsSame
  <1>12. gpu[p].pc \notin Detached
    BY Zenon, <1>1, <1>2 DEF Detached
  <1> QED BY Zenon, <1>1, <1>7, <1>8, <1>9, <1>10, <1>11, <1>12, GpuCalmStep

(* p goes from one place of a call to another, with a new token. *)
LEMMA TokenStep ==
  ASSUME GpuInv, NEW p \in GpuProcs, NEW n \in Nat, gpu[p].pc \in Busy,
         gpu' = [gpu EXCEPT ![p].pc = "fetch", ![p].token = n],
         UNCHANGED <<reg, arenas, maps>>, cudaFaults' \in Nat,
         gslot' \in [GpuKeys -> SlotRecs], SlotsStay
  PROVE  GpuInv'
  <1>1. PICK me \in ProcRecs : me = gpu[p]
    BY Zenon, GpuFacts
  <1>2. PICK r : r = [me EXCEPT !.pc = "fetch", !.token = n]
    BY Zenon
  <1>3. Moves(p, r)
    BY Zenon, <1>1, <1>2 DEF Moves
  <1>4. "fetch" \in GpuCalm /\ "fetch" \in GpuPlaces
    BY Zenon DEF GpuCalm, GpuPlaces, Busy, Gathering, Copying
  <1>5. r \in ProcRecs /\ r.pc = "fetch" /\ r.key = me.key /\ r.entry = me.entry /\ r.gen = me.gen
    BY Zenon, <1>2, <1>4 DEF ProcRecs, GpuPlaces
  <1>6. gpu[p].pc \notin Detached /\ me.key \in GpuKeys
    BY Zenon, <1>1, GpuFacts DEF Detached, Busy
  <1> QED BY Zenon, <1>1, <1>3, <1>4, <1>5, <1>6, GpuCalmStep

LEMMA TakeOverClaimStep ==
  ASSUME GpuInv, NEW p \in GpuProcs, TakeOverClaim(p)
  PROVE  GpuInv'
  <1>1. gpu[p].pc = "takeover" /\ gpu[p].pc \in Busy /\ gpu[p].pc \notin Detached
    BY Zenon DEF TakeOverClaim, At, Busy, Detached
  <1>2. PICK k \in GpuKeys : k = gpu[p].key
    BY Zenon, <1>1, GpuFacts
  <1>3. PICK s \in SlotRecs : s = gslot[k]
    BY Zenon, <1>1, <1>2, GpuFacts
  <1>4. UNCHANGED <<reg, arenas, maps>> /\ cudaFaults' \in Nat
    BY Zenon DEF TakeOverClaim, OnlySlots, GpuInv, GpuType
  <1>5. CASE s.state = "fetching"
    <2>1. PICK n \in Nat : n = s.gen + 2
      BY DEF SlotRecs
    <2>2. PICK t : t = [s EXCEPT !.gen = n]
      BY Zenon
    <2>3. /\ t \in SlotRecs /\ t.owner = s.owner /\ t.ogen = s.ogen /\ t.off = s.off
          /\ t.seq = s.seq /\ t.val = s.val
      BY Zenon, <2>2 DEF SlotRecs
    <2>4. gslot' = [gslot EXCEPT ![k] = t]
      BY Zenon, <1>2, <1>3, <1>5, <2>1, <2>2 DEF TakeOverClaim
    <2>5. gslot' \in [GpuKeys -> SlotRecs] /\ SlotsStay
      BY Zenon, <1>3, <2>3, <2>4, SlotTurns
    <2>6. gpu' = [gpu EXCEPT ![p].pc = "fetch", ![p].token = n]
      BY Zenon, <1>2, <1>3, <1>5, <2>1 DEF TakeOverClaim
    <2> QED BY Zenon, <1>1, <1>4, <2>5, <2>6, TokenStep
  <1>6. CASE s.state # "fetching"
    <2>1. UNCHANGED gslot /\ To(p, "wait")
      BY Zenon, <1>2, <1>3, <1>6 DEF TakeOverClaim
    <2>2. "wait" \in GpuCalm
      BY Zenon DEF GpuCalm, Busy, Gathering, Copying
    <2>3. gslot' \in [GpuKeys -> SlotRecs] /\ SlotsStay
      BY Zenon, <2>1, GpuSlotsSame
    <2> QED BY Zenon, <1>1, <1>4, <2>1, <2>2, <2>3, ToStep
  <1> QED BY Zenon, <1>5, <1>6

LEMMA ReserveSlotStep ==
  ASSUME GpuInv, NEW p \in GpuProcs, ReserveSlot(p)
  PROVE  GpuInv'
  <1>1. gpu[p].pc \in Busy /\ gpu[p].pc \notin Detached
    BY Zenon DEF ReserveSlot, At, Busy, Detached
  <1>2. PICK k \in GpuKeys : k = gpu[p].key
    BY Zenon, <1>1, GpuFacts
  <1>3. UNCHANGED <<reg, arenas, maps>> /\ cudaFaults' \in Nat
    BY Zenon DEF ReserveSlot, OnlySlots, GpuInv, GpuType
  <1>4. CASE gslot' = [gslot EXCEPT ![k].state = "fetching"] /\ To(p, "identify")
    <2>1. gslot' \in [GpuKeys -> SlotRecs] /\ SlotsStay
      BY Zenon, <1>4, StateTurns
    <2>2. "identify" \in GpuCalm
      BY Zenon DEF GpuCalm, Busy, Gathering, Copying
    <2> QED BY Zenon, <1>1, <1>3, <1>4, <2>1, <2>2, ToStep
  <1>5. CASE UNCHANGED gslot /\ To(p, "idle")
    <2>1. gslot' \in [GpuKeys -> SlotRecs] /\ SlotsStay
      BY Zenon, <1>5, GpuSlotsSame
    <2> QED BY Zenon, <1>1, <1>3, <1>5, <2>1, ToStep
  <1> QED BY Zenon, <1>2, <1>4, <1>5 DEF ReserveSlot

LEMMA IdentifySlotStep ==
  ASSUME GpuInv, NEW p \in GpuProcs, IdentifySlot(p)
  PROVE  GpuInv'
  <1>1. gpu[p].pc \in Busy /\ gpu[p].pc \notin Detached /\ To(p, "token")
    BY Zenon DEF IdentifySlot, At, Busy, Detached
  <1>2. PICK k \in GpuKeys : k = gpu[p].key
    BY Zenon, <1>1, GpuFacts
  <1>3. PICK s \in SlotRecs : s = gslot[k]
    BY Zenon, <1>1, <1>2, GpuFacts
  <1>4. UNCHANGED <<reg, arenas, maps>> /\ cudaFaults' \in Nat
    BY Zenon DEF IdentifySlot, OnlySlots, GpuInv, GpuType
  <1>5. PICK t : t = [gen |-> s.gen + 2, state |-> s.state, known |-> TRUE, owner |-> 0,
                      ogen |-> 0, off |-> 0, seq |-> 0, val |-> 0]
    BY Zenon
  <1>6. s.gen + 2 \in Nat
    BY DEF SlotRecs
  <1>7. t \in SlotRecs /\ t.owner = 0
    BY Zenon, <1>5, <1>6 DEF SlotRecs
  <1>8. gslot' = [gslot EXCEPT ![k] = t]
    BY Zenon, <1>2, <1>3, <1>5 DEF IdentifySlot
  <1>9. gslot' \in [GpuKeys -> SlotRecs] /\ SlotsStay
    BY Zenon, <1>7, <1>8, SlotTurns
  <1>10. "token" \in GpuCalm
    BY Zenon DEF GpuCalm, Busy, Gathering, Copying
  <1> QED BY Zenon, <1>1, <1>4, <1>9, <1>10, ToStep

LEMMA TakeTokenStep ==
  ASSUME GpuInv, NEW p \in GpuProcs, TakeToken(p)
  PROVE  GpuInv'
  <1>1. gpu[p].pc \in Busy
    BY Zenon DEF TakeToken, At, Busy
  <1>2. PICK n \in Nat : n = gslot[gpu[p].key].gen
    BY Zenon, <1>1, GpuFacts DEF SlotRecs
  <1>3. UNCHANGED <<gslot, reg, arenas, maps>> /\ cudaFaults' \in Nat
    BY Zenon DEF TakeToken, Shared, SharedSame, GpuInv, GpuType
  <1>4. gslot' \in [GpuKeys -> SlotRecs] /\ SlotsStay
    BY Zenon, <1>3, GpuSlotsSame
  <1>5. gpu' = [gpu EXCEPT ![p].pc = "fetch", ![p].token = n]
    BY Zenon, <1>2 DEF TakeToken
  <1> QED BY Zenon, <1>1, <1>3, <1>4, <1>5, TokenStep


LEMMA GiveUpCopyStep ==
  ASSUME GpuInv, NEW p \in GpuProcs, gpu[p].pc \in Busy, GiveUpCopy(p),
         UNCHANGED <<gslot, reg, arenas, maps>>, cudaFaults' \in Nat
  PROVE  GpuInv'
  <1>1. PICK me \in ProcRecs : me = gpu[p]
    BY Zenon, GpuFacts
  <1>2. PICK pc \in {"wait", "idle", "reserve"} :
          gpu' = [gpu EXCEPT ![p] = [me EXCEPT !.pc = pc, !.copy = NoCopy]]
    BY Zenon, <1>1 DEF GiveUpCopy
  <1>3. PICK r : r = [me EXCEPT !.pc = pc, !.copy = NoCopy]
    BY Zenon
  <1>4. Moves(p, r)
    BY Zenon, <1>2, <1>3 DEF Moves
  <1>5. pc \in GpuCalm \cup {"idle"} /\ pc \in GpuPlaces
    BY Zenon DEF GpuCalm, GpuPlaces, Busy, Gathering, Copying
  <1>6. r \in ProcRecs /\ r.pc = pc /\ r.key = me.key /\ r.entry = me.entry /\ r.gen = me.gen
    BY Zenon, <1>3, <1>5, NoCopyType DEF ProcRecs, GpuPlaces
  <1>7. gpu[p].pc \notin Detached /\ me.key \in GpuKeys
    BY Zenon, <1>1, GpuFacts DEF Detached, Busy
  <1>8. gslot' \in [GpuKeys -> SlotRecs] /\ SlotsStay
    BY Zenon, GpuSlotsSame
  <1> QED BY Zenon, <1>1, <1>4, <1>5, <1>6, <1>7, <1>8, GpuCalmStep

LEMMA WaitSgStep ==
  ASSUME GpuInv, NEW p \in GpuProcs, WaitSg(p)
  PROVE  GpuInv'
  <1>1. gpu[p].pc \in Busy /\ gpu[p].pc \notin Detached
    BY Zenon DEF WaitSg, At, Busy, Detached
  <1>2. UNCHANGED <<gslot, reg, arenas, maps>> /\ cudaFaults' \in Nat
    BY Zenon DEF WaitSg, Shared, SharedSame, GpuInv, GpuType
  <1>3. gslot' \in [GpuKeys -> SlotRecs] /\ SlotsStay
    BY Zenon, <1>2, GpuSlotsSame
  <1>4. PICK me \in ProcRecs : me = gpu[p]
    BY Zenon, GpuFacts
  <1>5. CASE gpu' = [gpu EXCEPT ![p] = [me EXCEPT !.pc = "issue", !.wait = TRUE]]
    <2>1. PICK r : r = [me EXCEPT !.pc = "issue", !.wait = TRUE]
      BY Zenon
    <2>2. Moves(p, r)
      BY Zenon, <1>5, <2>1 DEF Moves
    <2>3. "issue" \in GpuCalm /\ "issue" \in GpuPlaces
      BY Zenon DEF GpuCalm, GpuPlaces, Busy, Gathering, Copying
    <2>4. r \in ProcRecs /\ r.pc = "issue" /\ r.key = me.key /\ r.entry = me.entry /\ r.gen = me.gen
      BY Zenon, <2>1, <2>3 DEF ProcRecs, GpuPlaces
    <2>5. me.key \in GpuKeys
      BY Zenon, <1>1, <1>4, GpuFacts
    <2> QED BY Zenon, <1>1, <1>2, <1>3, <1>4, <2>2, <2>3, <2>4, <2>5, GpuCalmStep
  <1>6. CASE To(p, "idle")
    BY Zenon, <1>1, <1>2, <1>3, <1>6, ToStep
  <1> QED BY Zenon, <1>4, <1>5, <1>6 DEF WaitSg

LEMMA IssueCopySgStep ==
  ASSUME GpuInv, NEW p \in GpuProcs, IssueCopySg(p)
  PROVE  GpuInv'
  <1>1. gpu[p].pc \in Busy /\ gpu[p].pc \notin Detached
    BY Zenon DEF IssueCopySg, At, Busy, Detached
  <1>2. PICK s \in SlotRecs : s = gslot[gpu[p].key]
    BY Zenon, <1>1, GpuFacts
  <1>3. CASE s.state = "ready"
    <2>1. gpu' = [gpu EXCEPT ![p].pc = "map", ![p].copy.gen = s.gen] /\ Shared
      BY Zenon, <1>2, <1>3 DEF IssueCopySg
    <2>2. UNCHANGED <<gslot, reg, arenas, maps>> /\ cudaFaults' \in Nat
      BY Zenon, <2>1 DEF Shared, SharedSame, GpuInv, GpuType
    <2>3. gslot' \in [GpuKeys -> SlotRecs] /\ SlotsStay
      BY Zenon, <2>2, GpuSlotsSame
    <2>4. PICK me \in ProcRecs : me = gpu[p]
      BY Zenon, GpuFacts
    <2>5. PICK c : c = [me.copy EXCEPT !.gen = s.gen]
      BY Zenon
    <2>6. c \in CopyRecs
      BY Zenon, <2>5 DEF ProcRecs, CopyRecs, SlotRecs
    <2>7. PICK r : r = [me EXCEPT !.pc = "map", !.copy = c]
      BY Zenon
    <2>8. Moves(p, r)
      BY Zenon, <2>1, <2>4, <2>5, <2>7 DEF Moves, ProcRecs
    <2>9. "map" \in GpuCalm /\ "map" \in GpuPlaces
      BY Zenon DEF GpuCalm, GpuPlaces, Busy, Gathering, Copying
    <2>10. r \in ProcRecs /\ r.pc = "map" /\ r.key = me.key /\ r.entry = me.entry /\ r.gen = me.gen
      BY Zenon, <2>6, <2>7, <2>9 DEF ProcRecs, GpuPlaces
    <2>11. me.key \in GpuKeys
      BY Zenon, <1>1, <2>4, GpuFacts
    <2> QED BY Zenon, <1>1, <2>2, <2>3, <2>4, <2>8, <2>9, <2>10, <2>11, GpuCalmStep
  <1>4. CASE s.state # "ready"
    <2>1. GiveUpCopy(p) /\ UNCHANGED <<gslot, reg, arenas, maps>> /\ cudaFaults' \in Nat
      BY Zenon, <1>2, <1>4 DEF IssueCopySg, NoHit, Shared, SharedSame, GpuInv, GpuType
    <2> QED BY Zenon, <1>1, <2>1, GiveUpCopyStep
  <1> QED BY Zenon, <1>3, <1>4

(* A copy: p goes on from one place to the next, and the rest stays. *)
LEMMA CopyStep ==
  ASSUME GpuInv, NEW p \in GpuProcs, NEW c \in CopyRecs, NEW pc \in Copying \cup {"hit"},
         gpu[p].pc \in Busy,
         UNCHANGED <<gslot, reg, arenas, cudaFaults>>,
         maps' \in [GpuProcs -> [RegEntries -> MapRecs]],
         \A e \in RegEntries, q \in GpuProcs : MapIsSound(q, e)',
         gpu' = [gpu EXCEPT ![p] = [gpu[p] EXCEPT !.pc = pc, !.copy = c]],
         pc \in Copying =>
           /\ Described(c.own, c.egen, c.off, c.seq, c.val) /\ c.arena # 0
           /\ reg[c.own].gen = c.egen => c.arena = reg[c.own].arena,
         pc \in {"copyLast", "validate"} /\ Current(c.own, c.egen, c.seq) => c.got[1] = c.val,
         pc = "validate" /\ Current(c.own, c.egen, c.seq) => c.got[2] = c.val,
         pc = "hit" => c.got = <<c.val, c.val>>
  PROVE  GpuInv'
  <1>1. PICK me \in ProcRecs : me = gpu[p]
    BY Zenon, GpuFacts
  <1>2. PICK r : r = [me EXCEPT !.pc = pc, !.copy = c]
    BY Zenon
  <1>3. Moves(p, r)
    BY Zenon, <1>1, <1>2 DEF Moves
  <1>4. pc \in GpuPlaces /\ pc \in Busy /\ pc \notin Detached /\ pc \notin Gathering
    BY Zenon DEF GpuPlaces, Busy, Gathering, Copying, Detached
  <1>5. /\ r \in ProcRecs /\ r.pc = pc /\ r.key = me.key /\ r.entry = me.entry /\ r.gen = me.gen
        /\ r.copy = c
    BY Zenon, <1>2, <1>4 DEF ProcRecs, GpuPlaces
  <1>6. gpu[p].pc \notin Detached /\ me.key \in GpuKeys
    BY Zenon, <1>1, GpuFacts DEF Detached, Busy
  <1>7. StaysAttached(p, r)
    BY Zenon, <1>1, <1>4, <1>5, <1>6 DEF StaysAttached
  <1>8. cudaFaults' \in Nat
    BY Zenon DEF GpuInv, GpuType
  <1>9. gslot' \in [GpuKeys -> SlotRecs] /\ SlotsStay
    BY Zenon, <1>8, GpuSlotsSame
  <1>10. /\ gpu' \in [GpuProcs -> ProcRecs] /\ gpu'[p] = r
         /\ \A q \in GpuProcs \ {p} : gpu'[q] = gpu[q]
         /\ \A e \in RegEntries : Advances(e)
    BY Zenon, <1>3, <1>5, <1>7, <1>8, Attached
  <1>11. GatherIsSound(p)'
    BY Zenon, <1>4, <1>5, <1>10 DEF GatherIsSound, Gathering
  <1>12. CopyIsSound(p)'
    <2>1. GpuType /\ GpuType'
      BY Zenon, <1>8, <1>9, <1>10 DEF GpuInv, GpuType
    <2>2. Keeps
      BY Zenon, <1>8, <1>10, <2>1, RegAdvances
    <2>3. pc \in Copying =>
            /\ Described(c.own, c.egen, c.off, c.seq, c.val)'
            /\ Current(c.own, c.egen, c.seq)' => Current(c.own, c.egen, c.seq)
      BY Zenon, <2>2 DEF Keeps
    <2>4. pc \in {"copyLast", "validate"} => pc \in Copying
      BY Zenon DEF Copying
    <2> QED BY Zenon, <1>5, <1>8, <1>10, <2>3, <2>4 DEF CopyIsSound
  <1> QED BY Zenon, <1>3, <1>5, <1>7, <1>8, <1>9, <1>11, <1>12, QuietGpuStep


LEMMA CopyHalfGpuStep ==
  ASSUME GpuInv, NEW p \in GpuProcs, NEW h \in 1..2, NEW from, NEW to,
         h = 1 => from = "copyFirst" /\ to = "copyLast",
         h = 2 => from = "copyLast" /\ to = "validate", CopyHalf(p, h, from, to)
  PROVE  GpuInv'
  <1>1. PICK me \in ProcRecs : me = gpu[p]
    BY Zenon, GpuFacts
  <1>2. PICK c \in CopyRecs : c = me.copy
    BY Zenon DEF ProcRecs
  <1>3. me.pc = from /\ me.pc \in Copying /\ me.pc \in Busy
    BY <1>1 DEF CopyHalf, At, Copying, Busy
  <1>4. /\ Described(c.own, c.egen, c.off, c.seq, c.val) /\ c.arena # 0
        /\ reg[c.own].gen = c.egen => c.arena = reg[c.own].arena
        /\ h = 2 /\ Current(c.own, c.egen, c.seq) => c.got[1] = c.val
    BY Zenon, <1>1, <1>2, <1>3, GpuFacts DEF CopyIsSound
  <1>5. PICK v \in Halves : v = arenas[c.arena][c.off]
    <2>1. c.arena \in GpuProcs
      BY Zenon, <1>4 DEF CopyRecs
    <2>2. c.off \in 0..(ArenaCells - 1)
      BY Zenon, <1>4 DEF Described
    <2> QED BY Zenon, <2>1, <2>2 DEF GpuInv, GpuType
  <1>6. v[h] \in Nat
    BY Zenon DEF Halves
  <1>7. Current(c.own, c.egen, c.seq) => v[h] = c.val
    BY <1>4, <1>5 DEF Described, Current
  <1>8. PICK g : g = [c.got EXCEPT ![h] = v[h]]
    BY Zenon
  <1>9. c.got \in Halves
    BY Zenon DEF CopyRecs
  <1>10. g \in Halves /\ g[h] = v[h] /\ (h = 2 => g[1] = c.got[1])
    BY <1>6, <1>8, <1>9 DEF Halves
  <1>11. PICK d : d = [c EXCEPT !.got = g]
    BY Zenon
  <1>12. /\ d \in CopyRecs /\ d.own = c.own /\ d.egen = c.egen /\ d.off = c.off /\ d.seq = c.seq
         /\ d.val = c.val /\ d.arena = c.arena /\ d.got = g
    BY Zenon, <1>10, <1>11 DEF CopyRecs
  <1>13. gpu' = [gpu EXCEPT ![p] = [gpu[p] EXCEPT !.pc = to, !.copy = d]]
    BY Zenon, <1>1, <1>2, <1>5, <1>8, <1>11 DEF CopyHalf, ProcRecs, CopyRecs
  <1>14. UNCHANGED <<gslot, reg, arenas, maps, cudaFaults>>
    BY Zenon DEF CopyHalf, Shared, SharedSame
  <1>15. to \in Copying /\ (to = "validate" => h = 2) /\ to # "hit"
    BY DEF Copying
  <1>16. Described(d.own, d.egen, d.off, d.seq, d.val)
    BY Zenon, <1>4, <1>12
  <1>17. Current(d.own, d.egen, d.seq) => Current(c.own, c.egen, c.seq)
    BY Zenon, <1>12
  <1>18. to \in {"copyLast", "validate"} /\ Current(d.own, d.egen, d.seq) => d.got[1] = d.val
    BY <1>4, <1>7, <1>10, <1>12, <1>17
  <1>19. to = "validate" /\ Current(d.own, d.egen, d.seq) => d.got[2] = d.val
    BY Zenon, <1>7, <1>10, <1>12, <1>15, <1>17
  <1>20. d.arena # 0 /\ (reg[d.own].gen = d.egen => d.arena = reg[d.own].arena)
    BY Zenon, <1>4, <1>12
  <1> QED BY Zenon, <1>1, <1>3, <1>12, <1>13, <1>14, <1>15, <1>16, <1>18, <1>19, <1>20, MapsSame, CopyStep

LEMMA CopyOutSgStep ==
  ASSUME GpuInv, NEW p \in GpuProcs, CopyOutSg(p)
  PROVE  GpuInv'
  <1>1. CASE CopyHalf(p, 1, "copyFirst", "copyLast")
    BY <1>1, CopyHalfGpuStep
  <1>2. CASE CopyHalf(p, 2, "copyLast", "validate")
    BY <1>2, CopyHalfGpuStep
  <1>3. CASE /\ gpu[p].pc \in {"map", "copyFirst", "copyLast"}
             /\ CudaFails /\ GiveUpCopy(p) /\ SharedSame
    <2>1. gpu[p].pc \in Busy
      BY Zenon, <1>3 DEF Busy
    <2>2. UNCHANGED <<gslot, reg, arenas, maps>> /\ cudaFaults' \in Nat
      BY <1>3 DEF CudaFails, SharedSame, GpuInv, GpuType
    <2> QED BY Zenon, <1>3, <2>1, <2>2, GiveUpCopyStep
  <1> QED BY Zenon, <1>1, <1>2, <1>3 DEF CopyOutSg

LEMMA EndCopyStep ==
  ASSUME GpuInv, NEW p \in GpuProcs, EndCopy(p)
  PROVE  GpuInv'
  <1>1. PICK me \in ProcRecs : me = gpu[p]
    BY Zenon, GpuFacts
  <1>2. PICK c \in CopyRecs : c = me.copy
    BY Zenon DEF ProcRecs
  <1>3. me.pc = "validate" /\ me.pc \in Busy
    BY Zenon, <1>1 DEF EndCopy, At, Busy
  <1>4. CASE ValidateCopy(me.key, c)
    <2>1. Current(c.own, c.egen, c.seq)
      BY Zenon, <1>4 DEF ValidateCopy, Current
    <2>2. c.got[1] = c.val /\ c.got[2] = c.val
      BY Zenon, <1>1, <1>2, <1>3, <2>1, GpuFacts DEF CopyIsSound
    <2>3. c.got \in [1..2 -> Nat]
      BY Zenon DEF CopyRecs, Halves
    <2>4. c.got = <<c.val, c.val>>
      BY <2>2, <2>3
    <2>5. To(p, "hit") /\ UNCHANGED <<gslot, reg, arenas, maps, cudaFaults>>
      BY Zenon, <1>1, <1>2, <1>4 DEF EndCopy, Shared, SharedSame
    <2>6. gpu' = [gpu EXCEPT ![p] = [me EXCEPT !.pc = "hit"]]
      BY Zenon, <1>1, <2>5 DEF To
    <2>7. [me EXCEPT !.pc = "hit"] = [me EXCEPT !.pc = "hit", !.copy = c]
      BY Zenon, <1>2 DEF ProcRecs
    <2>8. gpu' = [gpu EXCEPT ![p] = [gpu[p] EXCEPT !.pc = "hit", !.copy = c]]
      BY Zenon, <1>1, <2>6, <2>7
    <2>9. "hit" \notin Copying
      BY Zenon DEF Copying
    <2> QED BY Zenon, <1>1, <1>3, <2>4, <2>5, <2>8, <2>9, MapsSame, CopyStep
  <1>5. CASE ~ValidateCopy(me.key, c)
    <2>1. GiveUpCopy(p) /\ UNCHANGED <<gslot, reg, arenas, maps>> /\ cudaFaults' \in Nat
      BY Zenon, <1>1, <1>2, <1>5 DEF EndCopy, NoHit, Shared, SharedSame, GpuInv, GpuType
    <2> QED BY Zenon, <1>1, <1>3, <2>1, GiveUpCopyStep
  <1> QED BY Zenon, <1>4, <1>5

LEMMA UseHitGpuStep ==
  ASSUME GpuInv, NEW p \in GpuProcs, UseHit(p)
  PROVE  GpuInv'
  <1>1. gpu[p].pc \notin Detached /\ To(p, "idle")
    BY Zenon DEF UseHit, At, Detached
  <1>2. UNCHANGED <<gslot, reg, arenas, maps>> /\ cudaFaults' \in Nat
    BY Zenon DEF UseHit, Shared, SharedSame, GpuInv, GpuType
  <1> QED BY Zenon, <1>1, <1>2, GpuSlotsSame, ToStep

LEMMA FetchedStep ==
  ASSUME GpuInv, NEW p \in GpuProcs, Fetched(p)
  PROVE  GpuInv'
  <1>1. gpu[p].pc \notin Detached /\ gpu[p].pc \in Busy
    BY Zenon DEF Fetched, At, Detached, Busy
  <1>2. UNCHANGED <<gslot, reg, arenas, maps>> /\ cudaFaults' \in Nat
    BY Zenon DEF Fetched, Shared, SharedSame, GpuInv, GpuType
  <1>3. PICK pc \in {"publish", "abort", "idle"} : To(p, pc)
    BY Zenon DEF Fetched
  <1>4. pc \in GpuCalm \cup {"idle"}
    BY Zenon DEF GpuCalm, Busy, Gathering, Copying
  <1> QED BY Zenon, <1>1, <1>2, <1>3, <1>4, GpuSlotsSame, ToStep

LEMMA AbortClaimStep ==
  ASSUME GpuInv, NEW p \in GpuProcs, AbortClaim(p)
  PROVE  GpuInv'
  <1>1. gpu[p].pc \notin Detached /\ gpu[p].pc \in Busy /\ To(p, "idle")
    BY Zenon DEF AbortClaim, At, Detached, Busy
  <1>2. UNCHANGED <<reg, arenas, maps>> /\ cudaFaults' \in Nat
    BY Zenon DEF AbortClaim, OnlySlots, GpuInv, GpuType
  <1>3. PICK k \in GpuKeys : k = gpu[p].key
    BY Zenon, <1>1, GpuFacts
  <1>4. gslot' = gslot \/ gslot' = [gslot EXCEPT ![k].state = "empty"]
    BY Zenon, <1>3 DEF AbortClaim, Cas
  <1>5. gslot' \in [GpuKeys -> SlotRecs] /\ SlotsStay
    BY Zenon, <1>4, GpuSlotsSame, StateTurns
  <1> QED BY Zenon, <1>1, <1>2, <1>5, ToStep

LEMMA AbandonStep ==
  ASSUME GpuInv, NEW p \in GpuProcs, Abandon(p)
  PROVE  GpuInv'
  <1>1. gpu[p].pc \notin Detached /\ gpu[p].pc \in Busy /\ To(p, "idle")
    BY Zenon DEF Abandon, Detached, Busy
  <1>2. UNCHANGED <<reg, arenas, maps>> /\ cudaFaults' \in Nat
    BY DEF Abandon, CudaFails, GpuInv, GpuType
  <1>3. PICK k \in GpuKeys : k = gpu[p].key
    BY Zenon, <1>1, GpuFacts
  <1>4. gslot' = [gslot EXCEPT ![k].state = "empty"]
    BY Zenon, <1>3 DEF Abandon
  <1>5. gslot' \in [GpuKeys -> SlotRecs] /\ SlotsStay
    BY Zenon, <1>4, StateTurns
  <1> QED BY Zenon, <1>1, <1>2, <1>5, ToStep


LEMMA InvalidateStep ==
  ASSUME GpuInv, NEW p \in GpuProcs, Invalidate(p)
  PROVE  GpuInv'
  <1>1. PICK me \in ProcRecs : me = gpu[p]
    BY Zenon, GpuFacts
  <1>2. me.pc = "idle" /\ me.calls # <<>> /\ me.calls \in Seq(GpuKeys)
    BY Zenon, <1>1 DEF Invalidate, At, ProcRecs
  <1>3. PICK k \in GpuKeys : k = Head(me.calls)
    BY <1>2
  <1>4. PICK rest \in Seq(GpuKeys) : rest = Tail(me.calls)
    <2>1. Len(me.calls) > 0
      BY <1>2
    <2>2. Tail(me.calls) \in Seq(GpuKeys)
      BY <1>2, <2>1
    <2> QED BY Zenon, <2>2
  <1>5. PICK r : r = [me EXCEPT !.calls = rest]
    BY Zenon
  <1>6. Moves(p, r)
    BY Zenon, <1>1, <1>4, <1>5 DEF Moves, Invalidate
  <1>7. r \in ProcRecs /\ r.pc = "idle" /\ r.entry = me.entry /\ r.gen = me.gen
    BY Zenon, <1>2, <1>5 DEF ProcRecs
  <1>8. UNCHANGED <<reg, arenas, maps>> /\ cudaFaults' \in Nat
    BY Zenon DEF Invalidate, OnlySlots, GpuInv, GpuType
  <1>9. gslot' \in [GpuKeys -> SlotRecs] /\ SlotsStay
    <2>1. CASE gslot' = gslot
      BY Zenon, <2>1, GpuSlotsSame
    <2>2. CASE gslot' = [gslot EXCEPT ![k].gen = @ + 2, ![k].state = "empty"]
      <3>1. PICK s \in SlotRecs : s = gslot[k]
        BY Zenon DEF GpuInv, GpuType
      <3>2. PICK n \in Nat : n = s.gen + 2
        BY DEF SlotRecs
      <3>3. PICK t : t = [s EXCEPT !.gen = n, !.state = "empty"]
        BY Zenon
      <3>4. /\ t \in SlotRecs /\ t.owner = s.owner /\ t.ogen = s.ogen /\ t.off = s.off
            /\ t.seq = s.seq /\ t.val = s.val
        BY Zenon, <3>3 DEF SlotRecs
      <3>5. gslot' = [gslot EXCEPT ![k] = t]
        BY Zenon, <2>2, <3>1, <3>2, <3>3
      <3> QED BY Zenon, <3>1, <3>4, <3>5, SlotTurns
    <2> QED BY Zenon, <1>1, <1>3, <2>1, <2>2 DEF Invalidate
  <1>10. gpu[p].pc \notin Detached
    BY Zenon, <1>1, <1>2 DEF Detached
  <1> QED BY Zenon, <1>1, <1>6, <1>7, <1>8, <1>9, <1>10, GpuCalmStep

LEMMA MapPeerStep ==
  ASSUME GpuInv, NEW p \in GpuProcs, MapPeer(p)
  PROVE  GpuInv'
  <1>1. PICK me \in ProcRecs : me = gpu[p]
    BY Zenon, GpuFacts
  <1>2. me.pc = "map" /\ me.pc \in Busy /\ me.pc \notin Detached
    BY Zenon, <1>1 DEF MapPeer, At, Busy, Detached
  <1>3. PICK s \in SlotRecs : s = gslot[me.key]
    BY Zenon, <1>1, <1>2, GpuFacts
  <1>4. PICK base : base = PeerBase(p, s.owner, s.ogen)
    BY Zenon
  <1>5. CASE /\ s.owner # 0 /\ reg[s.owner].gen = s.ogen /\ base # 0
             /\ gpu' = [gpu EXCEPT ![p].pc = "copyFirst", ![p].copy =
                          [me.copy EXCEPT !.own = s.owner, !.egen = s.ogen, !.off = s.off,
                                          !.seq = s.seq, !.arena = base, !.val = s.val]]
             /\ maps' = IF s.owner = me.entry THEN maps
                        ELSE [maps EXCEPT ![p][s.owner] = [gen |-> s.ogen, arena |-> base]]
             /\ UNCHANGED <<gslot, reg, arenas, cudaFaults>>
    <2>1. Described(s.owner, s.ogen, s.off, s.seq, s.val) /\ s.owner \in RegEntries
      <3>1. me.key \in GpuKeys
        BY Zenon, <1>1, <1>2, GpuFacts
      <3>2. SlotIsDescribed(me.key)
        BY Zenon, <3>1 DEF GpuInv
      <3> QED BY Zenon, <1>3, <1>5, <3>2 DEF SlotIsDescribed, Described
    <2>2. MapIsSound(p, s.owner)
      BY Zenon, <2>1 DEF GpuInv
    <2>3. reg[s.owner].arena \in GpuProcs \cup {0} /\ maps[p][s.owner].arena \in GpuProcs \cup {0}
      BY <2>1 DEF GpuInv, GpuType, RegRecs, MapRecs
    <2>4. base = reg[s.owner].arena
      <3>1. CASE s.owner = me.entry
        BY Zenon, <1>1, <1>2, <1>4, <1>5, <3>1, GpuFacts DEF PeerBase
      <3>2. CASE s.owner # me.entry
        BY Zenon, <1>1, <1>4, <1>5, <2>2, <3>2 DEF PeerBase, MapIsSound
      <3> QED BY Zenon, <3>1, <3>2
    <2>5. base \in GpuProcs
      BY Zenon, <1>5, <2>3, <2>4
    <2>6. PICK c : c = [me.copy EXCEPT !.own = s.owner, !.egen = s.ogen, !.off = s.off,
                                       !.seq = s.seq, !.arena = base, !.val = s.val]
      BY Zenon
    <2>7. /\ c \in CopyRecs /\ c.own = s.owner /\ c.egen = s.ogen /\ c.off = s.off /\ c.seq = s.seq
          /\ c.arena = base /\ c.val = s.val
      BY Zenon, <2>5, <2>6 DEF CopyRecs, SlotRecs, ProcRecs
    <2>8. gpu' = [gpu EXCEPT ![p] = [gpu[p] EXCEPT !.pc = "copyFirst", !.copy = c]]
      BY Zenon, <1>1, <1>5, <2>6
    <2>9. "copyFirst" \in Copying
      BY Zenon DEF Copying
    <2>10. PICK m : m = [gen |-> s.ogen, arena |-> base]
      BY Zenon
    <2>11. m \in MapRecs /\ m.gen = s.ogen /\ m.arena = base
      BY Zenon, <2>5, <2>10 DEF MapRecs, SlotRecs
    <2>12. maps' = maps \/ maps' = [maps EXCEPT ![p][s.owner] = m]
      BY Zenon, <1>5, <2>10
    <2>13. /\ maps' \in [GpuProcs -> [RegEntries -> MapRecs]]
           /\ \A e \in RegEntries, q \in GpuProcs : MapIsSound(q, e)'
      <3>1. CASE maps' = maps
        BY Zenon, <1>5, <3>1, MapsSame
      <3>2. CASE maps' = [maps EXCEPT ![p][s.owner] = m]
        <4>1. maps \in [GpuProcs -> [RegEntries -> MapRecs]]
          BY Zenon DEF GpuInv, GpuType
        <4>2. maps' \in [GpuProcs -> [RegEntries -> MapRecs]]
          BY Zenon, <2>1, <2>11, <3>2, <4>1
        <4>3. ASSUME NEW e \in RegEntries, NEW q \in GpuProcs PROVE MapIsSound(q, e)'
          <5>1. CASE q = p /\ e = s.owner
            <6>1. maps'[q][e] = m
              BY Zenon, <2>1, <3>2, <4>1, <5>1
            <6>2. reg[s.owner].gen \in Nat
              BY Zenon, <2>1 DEF GpuInv, GpuType, RegRecs
            <6> QED BY <1>5, <2>4, <2>11, <5>1, <6>1, <6>2 DEF MapIsSound
          <5>2. CASE ~(q = p /\ e = s.owner)
            <6>1. maps'[q][e] = maps[q][e]
              BY Zenon, <2>1, <3>2, <4>1, <5>2
            <6>2. MapIsSound(q, e)
              BY Zenon DEF GpuInv
            <6> QED BY Zenon, <1>5, <6>1, <6>2 DEF MapIsSound
          <5> QED BY Zenon, <5>1, <5>2
        <4> QED BY Zenon, <4>2, <4>3
      <3> QED BY Zenon, <2>12, <3>1, <3>2
    <2>14. /\ Described(c.own, c.egen, c.off, c.seq, c.val) /\ c.arena # 0
           /\ reg[c.own].gen = c.egen => c.arena = reg[c.own].arena
      BY Zenon, <1>5, <2>1, <2>4, <2>7
    <2> QED BY Zenon, <1>1, <1>2, <1>5, <2>7, <2>8, <2>9, <2>13, <2>14, CopyStep
  <1>6. CASE NoHit(p)
    <2>1. GiveUpCopy(p) /\ UNCHANGED <<gslot, reg, arenas, maps>> /\ cudaFaults' \in Nat
      BY Zenon, <1>6 DEF NoHit, Shared, SharedSame, GpuInv, GpuType
    <2> QED BY Zenon, <1>1, <1>2, <2>1, GiveUpCopyStep
  <1> QED BY Zenon, <1>1, <1>3, <1>4, <1>5, <1>6 DEF MapPeer


-----------------------------------------------------------------------------
(* The steps that change the registry, the arenas or a descriptor. *)
LEMMA SettledStays ==
  ASSUME NEW p \in GpuProcs, NEW e \in RegEntries, \A q \in GpuProcs \ {p} : gpu'[q] = gpu[q],
         reg'[e].arena = reg[e].arena, reg'[e].cursor = reg[e].cursor, reg[e].arena # p
  PROVE  Settled(e)' = Settled(e)
  BY Zenon DEF Settled

LEMMA RegStep ==
  ASSUME GpuInv, NEW p \in GpuProcs, NEW r \in ProcRecs, Moves(p, r),
         reg' \in [RegEntries -> RegRecs], UNCHANGED <<arenas, cudaFaults>>,
         maps' \in [GpuProcs -> [RegEntries -> MapRecs]],
         \A e \in RegEntries, q \in GpuProcs :
           maps'[q][e] = maps[q][e] \/ maps'[q][e] = NoMapping,
         gslot' \in [GpuKeys -> SlotRecs], SlotsStay,
         \A e \in RegEntries : Advances(e) /\ ArenaIsOne(e)',
         \A q \in GpuProcs \ {p} :
           gpu[q].pc \notin {"off", "dead"} => reg'[gpu[q].entry] = reg[gpu[q].entry],
         EntryIsOwn(p)', GatherIsSound(p)', CopyIsSound(p)'
  PROVE  GpuInv'
  <1>1. gpu' \in [GpuProcs -> ProcRecs] /\ \A q \in GpuProcs \ {p} : gpu'[q] = gpu[q]
    BY Zenon DEF GpuInv, GpuType, Moves
  <1>2. GpuType /\ GpuType'
    BY Zenon, <1>1 DEF GpuInv, GpuType
  <1>3. Keeps
    BY Zenon, <1>2, RegAdvances
  <1>4. OthersStay(p)
    BY Zenon, <1>1 DEF OthersStay
  <1>5. \A k \in GpuKeys : SlotIsDescribed(k)'
    BY Zenon, <1>3, SlotsStayDescribed
  <1>6. ASSUME NEW e \in RegEntries, NEW q \in GpuProcs PROVE MapIsSound(q, e)'
    <2>1. MapIsSound(q, e) /\ Advances(e)
      BY Zenon DEF GpuInv
    <2>2. reg[e].gen \in Nat /\ reg'[e].gen \in Nat /\ maps[q][e].gen \in Nat
      BY Zenon, <1>2 DEF GpuType, RegRecs, MapRecs
    <2>3. CASE maps'[q][e] = maps[q][e]
      <3>1. PICK m : m = maps[q][e]
        BY Zenon
      <3>2. m.gen <= reg[e].gen /\ (m.arena # 0 /\ m.gen = reg[e].gen => m.arena = reg[e].arena)
        BY Zenon, <2>1, <3>1 DEF MapIsSound
      <3>3. reg[e].gen <= reg'[e].gen /\ (reg'[e].gen = reg[e].gen => reg'[e].arena = reg[e].arena)
        BY Zenon, <2>1 DEF Advances
      <3>4. m.gen <= reg'[e].gen /\ (m.arena # 0 /\ m.gen = reg'[e].gen => m.arena = reg'[e].arena)
        <4>1. PICK a \in Nat, b \in Nat, c \in Nat :
                a = reg[e].gen /\ b = reg'[e].gen /\ c = m.gen
          BY Zenon, <2>2, <3>1
        <4>2. c <= b
          BY <3>2, <3>3, <4>1
        <4>3. c = b => c = a /\ b = a
          BY SMTT(30), <3>2, <3>3, <4>1
        <4> QED BY Zenon, <3>2, <3>3, <4>1, <4>2, <4>3
      <3> QED BY Zenon, <2>3, <3>1, <3>4 DEF MapIsSound
    <2>4. CASE maps'[q][e] = NoMapping
      BY <2>2, <2>4 DEF MapIsSound, NoMapping
    <2> QED BY Zenon, <2>3, <2>4
  <1> QED BY Zenon, <1>2, <1>3, <1>4, <1>5, <1>6, ActorStep

LEMMA ArenaFacts ==
  ASSUME GpuInv, NEW p \in GpuProcs, NEW e \in RegEntries, reg[e].arena = p, gpu[p].pc # "dead"
  PROVE  gpu[p].pc \notin Detached /\ gpu[p].entry = e
  <1>1. ArenaIsOne(e) /\ p # 0
    BY Zenon, GpuAssumption DEF GpuInv
  <1> QED BY Zenon, <1>1 DEF ArenaIsOne

LEMMA OwnersDiffer ==
  ASSUME GpuInv, NEW p \in GpuProcs, NEW q \in GpuProcs \ {p}, NEW e \in RegEntries,
         reg[e].pid = p, gpu[q].pc \notin {"off", "dead"}
  PROVE  gpu[q].entry # e
  BY Zenon, GpuFacts DEF EntryIsOwn

LEMMA PublishSgStep ==
  ASSUME GpuInv, NEW p \in GpuProcs, PublishSg(p)
  PROVE  GpuInv'
  <1>1. PICK me \in ProcRecs : me = gpu[p]
    BY Zenon, GpuFacts
  <1>2. /\ me.pc = "publish" /\ me.pc \in Busy /\ me.pc \notin Detached /\ me.pc \notin Gathering
        /\ me.pc \notin {"off", "dead"}
    BY Zenon, <1>1 DEF PublishSg, At, Busy, Detached, Gathering
  <1>3. PICK k \in GpuKeys : k = me.key
    BY Zenon, <1>1, <1>2, GpuFacts
  <1>4. PICK e \in RegEntries : e = me.entry
    BY Zenon, <1>1, <1>2, GpuFacts
  <1>5. UNCHANGED <<arenas, maps, cudaFaults>> /\ cudaFaults' \in Nat
    BY Zenon DEF PublishSg, GpuInv, GpuType
  <1>6. gslot' = gslot \/ gslot' = [gslot EXCEPT ![k].state = "publishing"]
    BY Zenon, <1>1, <1>3 DEF PublishSg, Cas
  <1>7. gslot' \in [GpuKeys -> SlotRecs] /\ SlotsStay
    BY Zenon, <1>6, GpuSlotsSame, StateTurns
  <1>8. CASE UNCHANGED reg /\ To(p, "idle")
    BY Zenon, <1>1, <1>2, <1>5, <1>7, <1>8, ToStep
  <1>9. CASE /\ reg' = [reg EXCEPT ![e].cursor = @ + 1]
             /\ gpu' = [gpu EXCEPT ![p] = [me EXCEPT !.pc = "gatherFirst", !.seq = reg[e].cursor + 1,
                                                     !.val = 10 * p + Len(me.calls) + 1]]
    <2>1. PICK w \in RegRecs : w = reg[e]
      BY Zenon DEF GpuInv, GpuType
    <2>2. PICK n \in Nat : n = w.cursor + 1
      BY DEF RegRecs
    <2>3. PICK v \in Nat : v = 10 * p + Len(me.calls) + 1
      <3>1. Len(me.calls) \in Nat /\ p \in Nat
        BY GpuAssumption DEF ProcRecs
      <3>2. PICK l \in Nat : l = Len(me.calls)
        BY Zenon, <3>1
      <3>3. 10 * p \in Nat
        BY <3>1
      <3>4. 10 * p + l + 1 \in Nat
        BY <3>3
      <3> QED BY Zenon, <3>2, <3>4
    <2>4. PICK r : r = [me EXCEPT !.pc = "gatherFirst", !.seq = n, !.val = v]
      BY Zenon
    <2>5. "gatherFirst" \in GpuPlaces /\ "gatherFirst" \in Gathering /\ "gatherFirst" \notin Copying
      BY Zenon DEF GpuPlaces, Busy, Gathering, Copying
    <2>6. /\ r \in ProcRecs /\ r.pc = "gatherFirst" /\ r.key = k /\ r.entry = e /\ r.gen = me.gen
          /\ r.seq = n
      BY Zenon, <1>3, <1>4, <2>4, <2>5 DEF ProcRecs, GpuPlaces
    <2>7. Moves(p, r)
      BY Zenon, <1>9, <2>1, <2>2, <2>3, <2>4 DEF Moves
    <2>8. PICK x : x = [w EXCEPT !.cursor = n]
      BY Zenon
    <2>9. x \in RegRecs /\ x.gen = w.gen /\ x.arena = w.arena /\ x.pid = w.pid /\ x.cursor = n
      BY Zenon, <2>8 DEF RegRecs
    <2>10. reg' = [reg EXCEPT ![e] = x]
      BY Zenon, <1>9, <2>1, <2>2, <2>8
    <2>11. reg' \in [RegEntries -> RegRecs] /\ reg'[e] = x /\ \A f \in RegEntries \ {e} : reg'[f] = reg[f]
      BY Zenon, <2>9, <2>10 DEF GpuInv, GpuType
    <2>12. gpu'[p] = r /\ \A q \in GpuProcs \ {p} : gpu'[q] = gpu[q]
      BY Zenon, <2>7 DEF Moves, GpuInv, GpuType
    <2>13. w.pid = p /\ w.gen = me.gen /\ w.arena = p
      BY Zenon, <1>1, <1>2, <1>4, <2>1, GpuFacts DEF EntryIsOwn
    <2>14. ASSUME NEW f \in RegEntries PROVE Advances(f) /\ ArenaIsOne(f)'
      <3>1. ArenaIsOne(f)
        BY Zenon DEF GpuInv
      <3>2. CASE f = e
        <4>1. Settled(e) = w.cursor
          BY Zenon, <1>1, <1>2, <2>1, <2>13 DEF Settled
        <4>2. Settled(e)' = n - 1
          BY Zenon, <2>5, <2>6, <2>9, <2>11, <2>12, <2>13 DEF Settled
        <4>3. Settled(e) <= Settled(e)' /\ w.cursor <= n
          BY <2>2, <4>1, <4>2 DEF RegRecs
        <4>4. Advances(e)
          BY <2>1, <2>9, <2>11, <4>3 DEF Advances, RegRecs
        <4>5. ArenaIsOne(e)'
          BY Zenon, <2>5, <2>6, <2>9, <2>11, <2>12, <2>13 DEF ArenaIsOne, Detached
        <4> QED BY Zenon, <3>2, <4>4, <4>5
      <3>3. CASE f # e
        <4>1. reg'[f] = reg[f] /\ reg[f] \in RegRecs
          BY Zenon, <2>11, <3>3 DEF GpuInv, GpuType
        <4>2. reg[f].arena # p
          BY Zenon, <1>1, <1>2, <1>4, <3>3, ArenaFacts
        <4>3. Settled(f)' = Settled(f) /\ Settled(f) \in Int
          BY Zenon, <2>12, <4>1, <4>2, SettledStays, SettledType DEF GpuInv
        <4>4. Advances(f)
          BY <4>1, <4>3 DEF Advances, RegRecs
        <4>5. ArenaIsOne(f)'
          BY Zenon, <2>12, <3>1, <4>1, <4>2 DEF ArenaIsOne, RegRecs
        <4> QED BY Zenon, <4>4, <4>5
      <3> QED BY Zenon, <3>2, <3>3
    <2>15. ASSUME NEW q \in GpuProcs \ {p}, gpu[q].pc \notin {"off", "dead"}
           PROVE  reg'[gpu[q].entry] = reg[gpu[q].entry]
      BY <2>1, <2>11, <2>13, <2>15, OwnersDiffer, GpuFacts
    <2>16. EntryIsOwn(p)'
      BY Zenon, <2>5, <2>6, <2>9, <2>11, <2>12, <2>13 DEF EntryIsOwn
    <2>17. GatherIsSound(p)'
      BY <2>2, <2>6, <2>9, <2>11, <2>12 DEF GatherIsSound, RegRecs
    <2>18. CopyIsSound(p)'
      BY Zenon, <2>5, <2>6, <2>12 DEF CopyIsSound
    <2>19. maps' \in [GpuProcs -> [RegEntries -> MapRecs]]
      BY Zenon, <1>5 DEF GpuInv, GpuType
    <2> QED BY Zenon, <1>5, <1>7, <2>6, <2>7, <2>11, <2>14, <2>15, <2>16, <2>17, <2>18, <2>19, RegStep
  <1> QED BY Zenon, <1>1, <1>3, <1>4, <1>8, <1>9 DEF PublishSg


LEMMA GpuOpenStep ==
  ASSUME GpuInv, NEW p \in GpuProcs, GpuOpen(p)
  PROVE  GpuInv'
  <1>1. PICK me \in ProcRecs : me = gpu[p]
    BY Zenon, GpuFacts
  <1>2. PICK e \in RegEntries : /\ reg[e].pid = 0 \/ PidDead(reg[e].pid)
                                /\ reg' = [reg EXCEPT ![e].pid = p]
                                /\ gpu' = [gpu EXCEPT ![p].pc = "open", ![p].entry = e]
    BY Zenon DEF GpuOpen
  <1>3. UNCHANGED <<gslot, arenas, maps, cudaFaults>> /\ me.pc = "off"
    BY Zenon, <1>1 DEF GpuOpen, At
  <1>4. PICK r : r = [me EXCEPT !.pc = "open", !.entry = e]
    BY Zenon
  <1>5. Moves(p, r)
    BY Zenon, <1>1, <1>2, <1>4 DEF Moves
  <1>6. /\ "open" \in GpuPlaces /\ "open" \in Detached /\ "open" \notin Busy /\ "open" \notin Gathering
        /\ "open" \notin Copying
    BY Zenon DEF GpuPlaces, Detached, Busy, Gathering, Copying
  <1>7. r \in ProcRecs /\ r.pc = "open" /\ r.entry = e
    BY Zenon, <1>4, <1>6 DEF ProcRecs, GpuPlaces
  <1>8. PICK w \in RegRecs : w = reg[e]
    BY Zenon DEF GpuInv, GpuType
  <1>9. PICK x : x = [w EXCEPT !.pid = p]
    BY Zenon
  <1>10. x \in RegRecs /\ x.gen = w.gen /\ x.arena = w.arena /\ x.pid = p /\ x.cursor = w.cursor
    BY Zenon, <1>9 DEF RegRecs
  <1>11. reg' = [reg EXCEPT ![e] = x]
    BY Zenon, <1>2, <1>8, <1>9
  <1>12. reg' \in [RegEntries -> RegRecs] /\ reg'[e] = x /\ \A f \in RegEntries \ {e} : reg'[f] = reg[f]
    BY Zenon, <1>10, <1>11 DEF GpuInv, GpuType
  <1>13. gpu'[p] = r /\ \A q \in GpuProcs \ {p} : gpu'[q] = gpu[q]
    BY Zenon, <1>5 DEF Moves, GpuInv, GpuType
  <1>14. ASSUME NEW f \in RegEntries PROVE Advances(f) /\ ArenaIsOne(f)'
    <2>1. ArenaIsOne(f) /\ reg[f] \in RegRecs
      BY Zenon DEF GpuInv, GpuType
    <2>2. /\ reg'[f].arena = reg[f].arena /\ reg'[f].gen = reg[f].gen
          /\ reg'[f].cursor = reg[f].cursor
      BY Zenon, <1>8, <1>10, <1>12
    <2>3. reg[f].arena # p
      BY Zenon, <1>1, <1>3, ArenaFacts DEF Detached
    <2>4. Settled(f)' = Settled(f) /\ Settled(f) \in Int
      BY Zenon, <1>13, <2>2, <2>3, SettledStays, SettledType DEF GpuInv
    <2>5. Advances(f)
      BY <2>1, <2>2, <2>4 DEF Advances, RegRecs
    <2>6. ArenaIsOne(f)'
      BY Zenon, <1>13, <2>1, <2>2, <2>3 DEF ArenaIsOne, RegRecs
    <2> QED BY Zenon, <2>5, <2>6
  <1>15. ASSUME NEW q \in GpuProcs \ {p}, gpu[q].pc \notin {"off", "dead"}
         PROVE  reg'[gpu[q].entry] = reg[gpu[q].entry]
    <2>1. gpu[q].entry \in RegEntries /\ reg[gpu[q].entry].pid = q
      BY Zenon, <1>15, GpuFacts DEF EntryIsOwn
    <2>2. q # 0
      BY Zenon, GpuAssumption
    <2>3. gpu[q].entry # e
      BY Zenon, <1>2, <1>15, <2>1, <2>2 DEF PidDead
    <2> QED BY Zenon, <1>12, <2>1, <2>3
  <1>16. EntryIsOwn(p)'
    BY Zenon, <1>6, <1>7, <1>10, <1>12, <1>13 DEF EntryIsOwn
  <1>17. GatherIsSound(p)' /\ CopyIsSound(p)'
    BY Zenon, <1>6, <1>7, <1>13 DEF GatherIsSound, CopyIsSound
  <1>18. maps' \in [GpuProcs -> [RegEntries -> MapRecs]] /\ gslot' \in [GpuKeys -> SlotRecs] /\ SlotsStay
    BY Zenon, <1>3, GpuSlotsSame DEF GpuInv, GpuType
  <1> QED BY Zenon, <1>3, <1>5, <1>7, <1>12, <1>14, <1>15, <1>16, <1>17, <1>18, RegStep

LEMMA AttachStep ==
  ASSUME GpuInv, NEW p \in GpuProcs, Attach(p)
  PROVE  GpuInv'
  <1>1. PICK me \in ProcRecs : me = gpu[p]
    BY Zenon, GpuFacts
  <1>2. UNCHANGED <<gslot, arenas, maps, cudaFaults>> /\ me.pc = "open"
    BY Zenon, <1>1 DEF Attach, At
  <1>3. PICK e \in RegEntries : e = me.entry
    BY Zenon, <1>1, <1>2, GpuFacts
  <1>4. PICK w \in RegRecs : w = reg[e]
    BY Zenon DEF GpuInv, GpuType
  <1>5. PICK n \in Nat : n = w.gen + 1
    BY DEF RegRecs
  <1>6. PICK r : r = AtRest("idle", e, n, me.calls)
    BY Zenon
  <1>7. Moves(p, r)
    BY Zenon, <1>1, <1>3, <1>4, <1>5, <1>6 DEF Attach, Moves
  <1>8. /\ "idle" \in GpuPlaces /\ "idle" \notin Detached /\ "idle" \notin Busy
        /\ "idle" \notin Gathering /\ "idle" \notin Copying
    BY Zenon DEF GpuPlaces, Detached, Busy, Gathering, Copying
  <1>9. r \in ProcRecs /\ r.pc = "idle" /\ r.entry = e /\ r.gen = n
    BY Zenon, <1>6, <1>8, NoCopyType DEF AtRest, ProcRecs, GpuPlaces
  <1>10. PICK x : x = [pid |-> p, ready |-> TRUE, gen |-> n, cursor |-> 0, arena |-> p]
    BY Zenon
  <1>11. x \in RegRecs /\ x.gen = n /\ x.arena = p /\ x.pid = p
    BY Zenon, <1>10 DEF RegRecs
  <1>12. reg' = [reg EXCEPT ![e] = x]
    BY Zenon, <1>1, <1>3, <1>4, <1>5, <1>10 DEF Attach
  <1>13. reg' \in [RegEntries -> RegRecs] /\ reg'[e] = x /\ \A f \in RegEntries \ {e} : reg'[f] = reg[f]
    BY Zenon, <1>11, <1>12 DEF GpuInv, GpuType
  <1>14. gpu'[p] = r /\ \A q \in GpuProcs \ {p} : gpu'[q] = gpu[q]
    BY Zenon, <1>7 DEF Moves, GpuInv, GpuType
  <1>15. w.pid = p
    BY Zenon, <1>1, <1>2, <1>3, <1>4, GpuFacts DEF EntryIsOwn
  <1>16. ASSUME NEW f \in RegEntries PROVE Advances(f) /\ ArenaIsOne(f)'
    <2>1. CASE f = e
      <3>1. Advances(e)
        <4>1. reg[e].gen = w.gen /\ reg'[e].gen = n /\ w.gen \in Nat
          BY Zenon, <1>4, <1>11, <1>13 DEF RegRecs
        <4>2. w.gen <= n /\ n # w.gen
          BY <1>5, <4>1
        <4> QED BY Zenon, <4>1, <4>2 DEF Advances
      <3>2. ArenaIsOne(e)'
        BY Zenon, <1>8, <1>9, <1>11, <1>13, <1>14 DEF ArenaIsOne
      <3> QED BY Zenon, <2>1, <3>1, <3>2
    <2>2. CASE f # e
      <3>1. ArenaIsOne(f) /\ reg[f] \in RegRecs /\ reg'[f] = reg[f]
        BY Zenon, <1>13, <2>2 DEF GpuInv, GpuType
      <3>2. reg[f].arena # p
        BY Zenon, <1>1, <1>2, ArenaFacts DEF Detached
      <3>3. Settled(f)' = Settled(f) /\ Settled(f) \in Int
        BY Zenon, <1>14, <3>1, <3>2, SettledStays, SettledType DEF GpuInv
      <3>4. Advances(f)
        BY <3>1, <3>3 DEF Advances, RegRecs
      <3>5. ArenaIsOne(f)'
        BY Zenon, <1>14, <3>1, <3>2 DEF ArenaIsOne, RegRecs
      <3> QED BY Zenon, <3>4, <3>5
    <2> QED BY Zenon, <2>1, <2>2
  <1>17. ASSUME NEW q \in GpuProcs \ {p}, gpu[q].pc \notin {"off", "dead"}
         PROVE  reg'[gpu[q].entry] = reg[gpu[q].entry]
    BY Zenon, <1>4, <1>13, <1>15, <1>17, OwnersDiffer, GpuFacts
  <1>18. EntryIsOwn(p)'
    BY Zenon, <1>8, <1>9, <1>11, <1>13, <1>14 DEF EntryIsOwn
  <1>19. GatherIsSound(p)' /\ CopyIsSound(p)'
    BY Zenon, <1>8, <1>9, <1>14 DEF GatherIsSound, CopyIsSound
  <1>20. maps' \in [GpuProcs -> [RegEntries -> MapRecs]] /\ gslot' \in [GpuKeys -> SlotRecs] /\ SlotsStay
    BY Zenon, <1>2, GpuSlotsSame DEF GpuInv, GpuType
  <1> QED BY Zenon, <1>2, <1>7, <1>9, <1>13, <1>16, <1>17, <1>18, <1>19, <1>20, RegStep


(* A process that is gone: its mappings go with it, its entry may stay. *)
LEMMA DeadStep ==
  ASSUME GpuInv, NEW p \in GpuProcs, Dead(p), UNCHANGED <<gslot, arenas, cudaFaults>>,
         reg' \in [RegEntries -> RegRecs], \A e \in RegEntries : Advances(e),
         \A e \in RegEntries : reg'[e].arena = reg[e].arena,
         \A q \in GpuProcs \ {p} :
           gpu[q].pc \notin {"off", "dead"} => reg'[gpu[q].entry] = reg[gpu[q].entry]
  PROVE  GpuInv'
  <1>1. PICK r : r = AtRest("dead", 0, 0, <<>>)
    BY Zenon
  <1>2. Moves(p, r)
    BY Zenon, <1>1 DEF Dead, Moves
  <1>3. /\ "dead" \in GpuPlaces /\ "dead" \in Detached /\ "dead" \notin Busy /\ "dead" \notin Gathering
        /\ "dead" \notin Copying
    BY Zenon DEF GpuPlaces, Detached, Busy, Gathering, Copying
  <1>4. r \in ProcRecs /\ r.pc = "dead"
    <2>1. <<>> \in Seq(GpuKeys)
      OBVIOUS
    <2> QED BY Zenon, <1>1, <1>3, <2>1, NoCopyType DEF AtRest, ProcRecs, GpuPlaces
  <1>5. gpu'[p] = r /\ \A q \in GpuProcs \ {p} : gpu'[q] = gpu[q]
    BY Zenon, <1>2 DEF Moves, GpuInv, GpuType
  <1>6. EntryIsOwn(p)' /\ GatherIsSound(p)' /\ CopyIsSound(p)'
    BY Zenon, <1>3, <1>4, <1>5 DEF EntryIsOwn, GatherIsSound, CopyIsSound
  <1>7. ASSUME NEW e \in RegEntries PROVE ArenaIsOne(e)'
    <2>1. ArenaIsOne(e) /\ reg[e] \in RegRecs
      BY Zenon DEF GpuInv, GpuType
    <2>2. reg'[e].arena = reg[e].arena
      BY Zenon
    <2> QED BY Zenon, <1>4, <1>5, <2>1, <2>2 DEF ArenaIsOne, RegRecs
  <1>8. gslot' \in [GpuKeys -> SlotRecs] /\ SlotsStay
    BY Zenon, GpuSlotsSame
  <1>9. /\ maps' \in [GpuProcs -> [RegEntries -> MapRecs]]
        /\ \A e \in RegEntries, q \in GpuProcs :
             maps'[q][e] = maps[q][e] \/ maps'[q][e] = NoMapping
    <2>1. maps \in [GpuProcs -> [RegEntries -> MapRecs]]
      BY Zenon DEF GpuInv, GpuType
    <2>2. PICK none : none = [e \in RegEntries |-> NoMapping]
      BY Zenon
    <2>3. NoMapping \in MapRecs
      BY Zenon DEF NoMapping, MapRecs
    <2>4. none \in [RegEntries -> MapRecs] /\ \A e \in RegEntries : none[e] = NoMapping
      BY Zenon, <2>2, <2>3
    <2>5. maps' = [maps EXCEPT ![p] = none]
      BY Zenon, <2>2 DEF Dead
    <2> QED BY Zenon, <2>1, <2>4, <2>5
  <1> QED BY Zenon, <1>2, <1>4, <1>6, <1>7, <1>8, <1>9, RegStep

LEMMA KilledStep ==
  ASSUME GpuInv, NEW p \in GpuProcs, Killed(p)
  PROVE  GpuInv'
  <1>1. Dead(p) /\ UNCHANGED <<gslot, reg, arenas, cudaFaults>>
    BY Zenon DEF Killed
  <1>2. gpu'[p].pc = "dead" /\ \A q \in GpuProcs \ {p} : gpu'[q] = gpu[q]
    BY Zenon, <1>1 DEF Dead, AtRest, GpuInv, GpuType
  <1>3. reg' \in [RegEntries -> RegRecs]
    BY Zenon, <1>1 DEF GpuInv, GpuType
  <1>4. ASSUME NEW e \in RegEntries PROVE Advances(e)
    <2>1. reg[e] \in RegRecs /\ reg'[e] = reg[e]
      BY Zenon, <1>1 DEF GpuInv, GpuType
    <2>2. Settled(e) <= Settled(e)'
      <3>1. CASE reg[e].arena = p
        <4>1. Settled(e)' = reg[e].cursor
          BY Zenon, <1>2, <2>1, <3>1 DEF Settled, Gathering
        <4> QED BY Zenon, <4>1, SettledType DEF GpuInv
      <3>2. CASE reg[e].arena # p
        <4>1. Settled(e)' = Settled(e) /\ Settled(e) \in Int
          BY Zenon, <1>2, <2>1, <3>2, SettledStays, SettledType DEF GpuInv
        <4> QED BY <4>1
      <3> QED BY Zenon, <3>1, <3>2
    <2> QED BY <2>1, <2>2 DEF Advances, RegRecs
  <1> QED BY Zenon, <1>1, <1>3, <1>4, DeadStep

LEMMA GpuCloseStep ==
  ASSUME GpuInv, NEW p \in GpuProcs, GpuClose(p)
  PROVE  GpuInv'
  <1>1. PICK me \in ProcRecs : me = gpu[p]
    BY Zenon, GpuFacts
  <1>2. Dead(p) /\ UNCHANGED <<gslot, arenas, cudaFaults>> /\ me.pc = "idle"
    BY Zenon, <1>1 DEF GpuClose, At
  <1>3. PICK e \in RegEntries : e = me.entry
    BY Zenon, <1>1, <1>2, GpuFacts
  <1>4. gpu'[p].pc = "dead" /\ \A q \in GpuProcs \ {p} : gpu'[q] = gpu[q]
    BY Zenon, <1>2 DEF Dead, AtRest, GpuInv, GpuType
  <1>5. PICK w \in RegRecs : w = reg[e]
    BY Zenon DEF GpuInv, GpuType
  <1>6. PICK n \in Nat : n = w.gen + 1
    BY DEF RegRecs
  <1>7. PICK x : x = [w EXCEPT !.ready = FALSE, !.gen = n, !.pid = 0]
    BY Zenon
  <1>8. x \in RegRecs /\ x.gen = n /\ x.arena = w.arena
    BY Zenon, <1>7 DEF RegRecs
  <1>9. reg' = [reg EXCEPT ![e] = x]
    BY Zenon, <1>1, <1>3, <1>5, <1>6, <1>7 DEF GpuClose
  <1>10. reg' \in [RegEntries -> RegRecs] /\ reg'[e] = x /\ \A f \in RegEntries \ {e} : reg'[f] = reg[f]
    BY Zenon, <1>8, <1>9 DEF GpuInv, GpuType
  <1>11. w.pid = p
    BY Zenon, <1>1, <1>2, <1>3, <1>5, GpuFacts DEF EntryIsOwn
  <1>12. ASSUME NEW f \in RegEntries PROVE Advances(f) /\ reg'[f].arena = reg[f].arena
    <2>1. CASE f = e
      <3>1. reg[e].gen = w.gen /\ reg'[e].gen = n /\ w.gen \in Nat
        BY Zenon, <1>5, <1>8, <1>10 DEF RegRecs
      <3>2. w.gen <= n /\ n # w.gen
        BY <1>6, <3>1
      <3> QED BY Zenon, <1>5, <1>8, <1>10, <2>1, <3>1, <3>2 DEF Advances
    <2>2. CASE f # e
      <3>1. reg[f] \in RegRecs /\ reg'[f] = reg[f]
        BY Zenon, <1>10, <2>2 DEF GpuInv, GpuType
      <3>2. reg[f].arena # p
        BY Zenon, <1>1, <1>2, <1>3, <2>2, ArenaFacts
      <3>3. Settled(f)' = Settled(f) /\ Settled(f) \in Int
        BY Zenon, <1>4, <3>1, <3>2, SettledStays, SettledType DEF GpuInv
      <3> QED BY <3>1, <3>3 DEF Advances, RegRecs
    <2> QED BY Zenon, <2>1, <2>2
  <1>13. ASSUME NEW q \in GpuProcs \ {p}, gpu[q].pc \notin {"off", "dead"}
         PROVE  reg'[gpu[q].entry] = reg[gpu[q].entry]
    BY Zenon, <1>5, <1>10, <1>11, <1>13, OwnersDiffer, GpuFacts
  <1> QED BY Zenon, <1>2, <1>10, <1>12, <1>13, DeadStep

LEMMA FlipReadyStep ==
  ASSUME GpuInv, NEW p \in GpuProcs, FlipReady(p)
  PROVE  GpuInv'
  <1>1. PICK me \in ProcRecs : me = gpu[p]
    BY Zenon, GpuFacts
  <1>2. /\ UNCHANGED <<reg, arenas, maps, cudaFaults>> /\ me.pc = "flip" /\ me.pc \in Busy
        /\ me.pc \in Gathering /\ me.pc \notin Detached /\ me.pc # "dead" /\ To(p, "idle")
    BY Zenon, <1>1 DEF FlipReady, At, OnlySlots, Busy, Gathering, Detached
  <1>3. PICK k \in GpuKeys : k = me.key
    BY Zenon, <1>1, <1>2, GpuFacts
  <1>4. PICK e \in RegEntries : e = me.entry
    BY Zenon, <1>1, <1>2, GpuFacts DEF Detached
  <1>5. PICK w \in RegRecs : w = reg[e]
    BY Zenon DEF GpuInv, GpuType
  <1>6. w.gen = me.gen /\ w.arena = p /\ me.seq \in Nat \ {0} /\ me.seq = w.cursor
    BY Zenon, <1>1, <1>2, <1>4, <1>5, GpuFacts DEF GatherIsSound
  <1>7. PICK off \in 0..(ArenaCells - 1) : off = Cell(p) /\ off = CellOf(me.seq)
    <2>1. (me.seq - 1) % ArenaCells \in 0..(ArenaCells - 1)
      BY <1>6, GpuAssumption
    <2> QED BY Zenon, <1>1, <2>1 DEF Cell, CellOf
  <1>8. arenas[p][off] = <<me.val, me.val>>
    <2>1. arenas[p][off][1] = me.val /\ arenas[p][off][2] = me.val
      BY Zenon, <1>1, <1>2, <1>7, GpuFacts DEF GatherIsSound
    <2>2. arenas[p][off] \in [1..2 -> Nat]
      BY Zenon DEF GpuInv, GpuType, Halves
    <2> QED BY <2>1, <2>2
  <1>9. PICK r : r = AtRest("idle", me.entry, me.gen, me.calls)
    BY Zenon
  <1>10. Moves(p, r)
    BY Zenon, <1>1, <1>2, <1>9 DEF To, Moves
  <1>11. /\ "idle" \in GpuPlaces /\ "idle" \notin Detached /\ "idle" \notin Busy
         /\ "idle" \notin Gathering /\ "idle" \notin Copying
    BY Zenon DEF GpuPlaces, Detached, Busy, Gathering, Copying
  <1>12. r \in ProcRecs /\ r.pc = "idle" /\ r.entry = me.entry /\ r.gen = me.gen
    BY Zenon, <1>9, <1>11, NoCopyType DEF AtRest, ProcRecs, GpuPlaces
  <1>13. StaysAttached(p, r)
    BY Zenon, <1>1, <1>2, <1>11, <1>12 DEF StaysAttached
  <1>14. /\ gpu' \in [GpuProcs -> ProcRecs] /\ gpu'[p] = r
         /\ \A q \in GpuProcs \ {p} : gpu'[q] = gpu[q]
         /\ EntryIsOwn(p)' /\ \A f \in RegEntries : ArenaIsOne(f)' /\ Advances(f)
    BY Zenon, <1>2, <1>10, <1>12, <1>13, Attached
  <1>15. PICK s \in SlotRecs : s = gslot[k]
    BY Zenon DEF GpuInv, GpuType
  <1>16. PICK n \in Nat : n = s.gen + 2
    BY DEF SlotRecs
  <1>17. PICK t : t = [gen |-> n, state |-> "ready", known |-> s.known, owner |-> e,
                       ogen |-> me.gen, off |-> off, seq |-> me.seq, val |-> me.val]
    BY Zenon
  <1>18. /\ t \in SlotRecs /\ t.owner = e /\ t.ogen = me.gen /\ t.off = off /\ t.seq = me.seq
         /\ t.val = me.val
    <2>1. off \in Nat
      BY GpuAssumption
    <2> QED BY Zenon, <1>17, <2>1 DEF SlotRecs, ProcRecs
  <1>19. gslot' = [gslot EXCEPT ![k] = t]
    BY Zenon, <1>1, <1>3, <1>4, <1>7, <1>15, <1>16, <1>17 DEF FlipReady
  <1>20. /\ gslot' \in [GpuKeys -> SlotRecs] /\ gslot'[k] = t
         /\ \A x \in GpuKeys \ {k} : gslot'[x] = gslot[x]
    BY Zenon, <1>18, <1>19 DEF GpuInv, GpuType
  <1>21. GpuType /\ GpuType'
    BY Zenon, <1>2, <1>14, <1>20 DEF GpuInv, GpuType
  <1>22. Keeps
    BY Zenon, <1>2, <1>14, <1>21, RegAdvances
  <1>23. Described(e, me.gen, off, me.seq, me.val)'
    <2>1. Settled(e)' = w.cursor
      BY Zenon, <1>2, <1>5, <1>6, <1>11, <1>12, <1>14 DEF Settled
    <2>2. reg'[e] = w /\ w.arena # 0 /\ w.gen \in Nat /\ w.cursor \in Nat
      BY Zenon, <1>2, <1>5, <1>6, GpuAssumption DEF RegRecs
    <2>3. me.gen \in Nat /\ me.gen <= reg'[e].gen /\ reg'[e].arena # 0
      BY <1>6, <2>2
    <2>4. arenas'[reg'[e].arena][off] = <<me.val, me.val>>
      BY Zenon, <1>2, <1>6, <1>8, <2>2
    <2>5. me.seq <= Settled(e)' /\ me.seq \in Nat \ {0}
      BY <1>6, <2>1, <2>2
    <2> QED BY Zenon, <1>7, <2>3, <2>4, <2>5 DEF Described
  <1>24. ASSUME NEW x \in GpuKeys PROVE SlotIsDescribed(x)'
    <2>1. CASE x = k
      BY Zenon, <1>18, <1>20, <1>23, <2>1
      DEF SlotIsDescribed, Described, Current, NotLapped, Settled
    <2>2. CASE x # k
      <3>1. PICK y : y = gslot[x]
        BY Zenon
      <3>2. y.owner # 0 => Described(y.owner, y.ogen, y.off, y.seq, y.val)
        BY Zenon, <3>1 DEF GpuInv, SlotIsDescribed
      <3>3. y.owner # 0 => Described(y.owner, y.ogen, y.off, y.seq, y.val)'
        BY Zenon, <1>22, <3>2 DEF Keeps
      <3>4. gslot'[x] = y
        BY Zenon, <1>20, <2>2, <3>1
      <3> QED BY Zenon, <3>3, <3>4 DEF SlotIsDescribed, Described, Current, NotLapped, Settled
    <2> QED BY Zenon, <2>1, <2>2
  <1>25. GatherIsSound(p)' /\ CopyIsSound(p)'
    BY Zenon, <1>11, <1>12, <1>14 DEF GatherIsSound, CopyIsSound
  <1>26. OthersStay(p)
    BY Zenon, <1>2, <1>14 DEF OthersStay
  <1>27. \A f \in RegEntries, q \in GpuProcs : MapIsSound(q, f)'
    BY Zenon, <1>2, MapsSame
  <1> QED BY Zenon, <1>14, <1>21, <1>22, <1>24, <1>25, <1>26, <1>27, ActorStep


(* What a publisher writes is not described yet: nothing of a ring that is not *)
(* lapped is in the cell at its head. *)
LEMMA GatherHalfStep ==
  ASSUME GpuInv, NEW p \in GpuProcs, NEW h \in 1..2, NEW from, NEW to,
         h = 1 => from = "gatherFirst" /\ to = "gatherLast",
         h = 2 => from = "gatherLast" /\ to = "flip", GatherHalf(p, h, from, to)
  PROVE  GpuInv'
  <1>1. PICK me \in ProcRecs : me = gpu[p]
    BY Zenon, GpuFacts
  <1>2. /\ UNCHANGED <<gslot, reg, maps, cudaFaults>> /\ To(p, to) /\ me.pc = from
        /\ arenas' = [arenas EXCEPT ![p][Cell(p)][h] = me.val]
    BY Zenon, <1>1 DEF GatherHalf, At
  <1>3. /\ from \in Busy /\ from \in Gathering /\ from \notin Detached /\ from # "dead"
        /\ to \in Busy /\ to \in Gathering /\ to \notin Detached /\ to # "idle" /\ to \notin Copying
        /\ to # "hit" /\ to \in GpuPlaces /\ to # "gatherFirst" /\ (to = "flip" => h = 2)
    BY DEF Busy, Gathering, Detached, Copying, GpuPlaces
  <1>4. PICK e \in RegEntries : e = me.entry
    BY Zenon, <1>1, <1>2, <1>3, GpuFacts DEF Detached
  <1>5. PICK w \in RegRecs : w = reg[e]
    BY Zenon DEF GpuInv, GpuType
  <1>6. w.gen = me.gen /\ w.arena = p /\ me.seq \in Nat \ {0} /\ me.seq = w.cursor
    BY Zenon, <1>1, <1>2, <1>3, <1>4, <1>5, GpuFacts DEF GatherIsSound
  <1>7. PICK cell \in 0..(ArenaCells - 1) : cell = Cell(p) /\ cell = CellOf(me.seq)
    <2>1. (me.seq - 1) % ArenaCells \in 0..(ArenaCells - 1)
      BY <1>6, GpuAssumption
    <2> QED BY Zenon, <1>1, <2>1 DEF Cell, CellOf
  <1>8. PICK r : r = [me EXCEPT !.pc = to]
    BY Zenon
  <1>9. Moves(p, r)
    BY Zenon, <1>1, <1>2, <1>3, <1>8 DEF To, Moves
  <1>10. /\ r \in ProcRecs /\ r.pc = to /\ r.entry = me.entry /\ r.gen = me.gen /\ r.key = me.key
         /\ r.seq = me.seq /\ r.val = me.val
    BY Zenon, <1>3, <1>8 DEF ProcRecs, GpuPlaces
  <1>11. StaysAttached(p, r)
    <2>1. me.key \in GpuKeys
      BY Zenon, <1>1, <1>2, <1>3, GpuFacts
    <2> QED BY Zenon, <1>1, <1>2, <1>3, <1>10, <2>1 DEF StaysAttached
  <1>12. /\ gpu' \in [GpuProcs -> ProcRecs] /\ gpu'[p] = r
         /\ \A q \in GpuProcs \ {p} : gpu'[q] = gpu[q]
         /\ EntryIsOwn(p)' /\ \A f \in RegEntries : ArenaIsOne(f)' /\ Advances(f)
    BY Zenon, <1>2, <1>9, <1>10, <1>11, Attached
  <1>13. PICK old \in [0..(ArenaCells - 1) -> Halves] : old = arenas[p]
    BY Zenon DEF GpuInv, GpuType
  <1>14. PICK v : v = [old[cell] EXCEPT ![h] = me.val]
    BY Zenon
  <1>15. v \in Halves /\ v[h] = me.val /\ (h = 2 => v[1] = old[cell][1])
    <2>1. old[cell] \in Halves /\ me.val \in Nat
      BY Zenon DEF ProcRecs
    <2> QED BY <1>14, <2>1 DEF Halves
  <1>16. PICK new : new = [old EXCEPT ![cell] = v]
    BY Zenon
  <1>17. /\ new \in [0..(ArenaCells - 1) -> Halves] /\ new[cell] = v
         /\ \A c \in 0..(ArenaCells - 1) : c # cell => new[c] = old[c]
    BY Zenon, <1>15, <1>16
  <1>18. arenas' = [arenas EXCEPT ![p] = new]
    BY Zenon, <1>2, <1>7, <1>13, <1>14, <1>16
  <1>19. /\ arenas' \in [GpuProcs -> [0..(ArenaCells - 1) -> Halves]] /\ arenas'[p] = new
         /\ \A q \in GpuProcs \ {p} : arenas'[q] = arenas[q]
    BY Zenon, <1>17, <1>18 DEF GpuInv, GpuType
  <1>20. GpuType /\ GpuType'
    BY Zenon, <1>2, <1>12, <1>19 DEF GpuInv, GpuType
  <1>21. \A f \in RegEntries : Settled(f)' = Settled(f)
    BY Zenon, <1>1, <1>2, <1>3, <1>10, <1>12 DEF Settled
  <1>22. Keeps
    <2> SUFFICES ASSUME NEW own, NEW gen, NEW off, NEW seq, NEW val,
                        Described(own, gen, off, seq, val)
                 PROVE  /\ Described(own, gen, off, seq, val)'
                        /\ Current(own, gen, seq)' => Current(own, gen, seq)
                        /\ reg'[own].gen = gen =>
                             reg[own].gen = gen /\ reg'[own].arena = reg[own].arena
      BY Zenon DEF Keeps
    <2>1. /\ own \in RegEntries /\ off \in 0..(ArenaCells - 1) /\ off = CellOf(seq)
          /\ seq \in Nat \ {0}
          /\ reg[own].gen = gen => reg[own].arena # 0 /\ seq <= Settled(own)
          /\ Current(own, gen, seq) => arenas[reg[own].arena][off] = <<val, val>>
      BY Zenon DEF Described
    <2>2. Current(own, gen, seq)' <=> Current(own, gen, seq)
      BY Zenon, <1>2 DEF Current, NotLapped
    <2>3. ASSUME Current(own, gen, seq) PROVE arenas'[reg[own].arena][off] = <<val, val>>
      <3>1. CASE reg[own].arena = p
        <4>1. own = e
          BY Zenon, <1>1, <1>2, <1>3, <1>4, <2>1, <3>1, ArenaFacts
        <4>2. Settled(own) = w.cursor - 1
          BY Zenon, <1>1, <1>2, <1>3, <1>5, <1>6, <4>1 DEF Settled
        <4>3. PICK a \in Nat, b \in Nat : a = seq - 1 /\ b = me.seq - 1
          <5>1. seq - 1 \in Nat
            BY ONLY <2>1
          <5>2. me.seq - 1 \in Nat
            BY ONLY <1>6
          <5> QED BY ONLY Zenon, <5>1, <5>2
        <4>4. a < b /\ b - a < ArenaCells
          <5>1. seq <= w.cursor - 1
            BY Zenon, <2>1, <2>3, <4>2 DEF Current
          <5>2. w.cursor - seq \in 0..(ArenaCells - 1)
            BY Zenon, <1>5, <2>3, <4>1 DEF Current, NotLapped
          <5>3. PICK c \in Nat, s \in Nat : c = w.cursor /\ s = seq
            BY Zenon, <1>6, <2>1
          <5>4. s <= c - 1 /\ c - s <= ArenaCells - 1 /\ a = s - 1 /\ b = c - 1
            BY ONLY <1>6, <4>3, <5>1, <5>2, <5>3, GpuAssumption
          <5> QED BY ONLY SMTT(30), <5>4, GpuAssumption, a \in Nat, b \in Nat, s \in Nat, c \in Nat
        <4>5. off # cell
          BY Zenon, <1>7, <2>1, <4>3, <4>4, GpuAssumption, CellsDiffer DEF CellOf
        <4>6. arenas'[p][off] = arenas[p][off]
          BY Zenon, <1>13, <1>17, <1>19, <2>1, <4>5
        <4> QED BY Zenon, <2>1, <2>3, <3>1, <4>6
      <3>2. CASE reg[own].arena # p
        <4>1. reg[own].arena \in GpuProcs \ {p}
          BY Zenon, <1>20, <2>1, <2>3, <3>2 DEF GpuType, RegRecs, Current
        <4> QED BY Zenon, <1>19, <2>1, <2>3, <4>1
      <3> QED BY Zenon, <3>1, <3>2
    <2>4. Described(own, gen, off, seq, val)'
      <3>1. Settled(own)' = Settled(own)
        BY Zenon, <1>21, <2>1
      <3> QED BY Zenon, <1>2, <2>2, <2>3, <3>1 DEF Described
    <2> QED BY Zenon, <1>2, <2>2, <2>4
  <1>23. SlotsStay
    BY Zenon, <1>2, GpuSlotsSame
  <1>24. \A k \in GpuKeys : SlotIsDescribed(k)'
    BY Zenon, <1>22, <1>23, SlotsStayDescribed
  <1>25. OthersStay(p)
    BY Zenon, <1>2, <1>12, <1>19 DEF OthersStay
  <1>26. \A f \in RegEntries, q \in GpuProcs : MapIsSound(q, f)'
    BY Zenon, <1>2, MapsSame
  <1>27. CopyIsSound(p)'
    BY Zenon, <1>3, <1>10, <1>12 DEF CopyIsSound, Copying
  <1>28. GatherIsSound(p)'
    <2>1. Cell(p)' = cell
      <3>1. gpu'[p].seq = gpu[p].seq
        BY Zenon, <1>1, <1>10, <1>12
      <3>2. Cell(p)' = Cell(p)
        BY Zenon, <3>1 DEF Cell
      <3> QED BY Zenon, <1>7, <3>2
    <2>2. reg'[r.entry].cursor = r.seq /\ r.seq \in Nat \ {0}
      BY Zenon, <1>2, <1>4, <1>5, <1>6, <1>10
    <2>3. h = 2 => old[cell][1] = me.val
      BY Zenon, <1>1, <1>2, <1>7, <1>13, GpuFacts DEF GatherIsSound
    <2>4. arenas'[p][cell][1] = r.val /\ (to = "flip" => arenas'[p][cell][2] = r.val)
      BY <1>3, <1>10, <1>15, <1>17, <1>19, <2>3
    <2> QED BY Zenon, <1>10, <1>12, <2>1, <2>2, <2>4 DEF GatherIsSound
  <1> QED BY Zenon, <1>12, <1>20, <1>22, <1>24, <1>25, <1>26, <1>27, <1>28, ActorStep

LEMMA GatherStep ==
  ASSUME GpuInv, NEW p \in GpuProcs, Gather(p)
  PROVE  GpuInv'
  <1>1. CASE GatherHalf(p, 1, "gatherFirst", "gatherLast")
    BY <1>1, GatherHalfStep
  <1>2. CASE GatherHalf(p, 2, "gatherLast", "flip")
    BY <1>2, GatherHalfStep
  <1> QED BY Zenon, <1>1, <1>2 DEF Gather

LEMMA GpuInitHolds == GpuInit => GpuInv
  <1> SUFFICES ASSUME GpuInit PROVE GpuInv
    BY Zenon
  <1>1. PICK plan \in CallPlans :
          /\ gpu = [p \in GpuProcs |-> AtRest("off", 0, 0, plan.calls[p])]
          /\ cudaFaults = plan.faults
    BY Zenon DEF GpuInit
  <1>2. plan.faults \in Nat /\ \A p \in GpuProcs : plan.calls[p] \in Seq(GpuKeys)
    BY Zenon, GpuAssumption
  <1>3. ASSUME NEW p \in GpuProcs PROVE gpu[p] \in ProcRecs /\ gpu[p].pc = "off"
    <2>1. gpu[p] = AtRest("off", 0, 0, plan.calls[p])
      BY Zenon, <1>1
    <2>2. "off" \in GpuPlaces
      BY Zenon DEF GpuPlaces, Detached
    <2> QED BY <1>2, <2>1, <2>2, NoCopyType DEF AtRest, ProcRecs, GpuPlaces
  <1>4. gpu \in [GpuProcs -> ProcRecs]
    BY Zenon, <1>1, <1>3
  <1>5. gslot \in [GpuKeys -> SlotRecs] /\ \A k \in GpuKeys : gslot[k].owner = 0
    BY Zenon DEF GpuInit, SlotRecs
  <1>6. reg \in [RegEntries -> RegRecs] /\ \A e \in RegEntries : reg[e].arena = 0 /\ reg[e].gen = 0
    BY Zenon DEF GpuInit, RegRecs
  <1>7. arenas \in [GpuProcs -> [0..(ArenaCells - 1) -> Halves]]
    <2>1. <<0, 0>> \in Halves
      BY DEF Halves
    <2> QED BY Zenon, <2>1 DEF GpuInit
  <1>8. /\ maps \in [GpuProcs -> [RegEntries -> MapRecs]]
        /\ \A p \in GpuProcs, e \in RegEntries : maps[p][e].gen = 0 /\ maps[p][e].arena = 0
    BY Zenon DEF GpuInit, NoMapping, MapRecs
  <1>9. GpuType
    BY Zenon, <1>1, <1>2, <1>4, <1>5, <1>6, <1>7, <1>8 DEF GpuType
  <1>10. \A p \in GpuProcs : EntryIsOwn(p) /\ GatherIsSound(p) /\ CopyIsSound(p)
    BY Zenon, <1>3
    DEF EntryIsOwn, GatherIsSound, CopyIsSound, Detached, Busy, Gathering, Copying
  <1>11. \A e \in RegEntries : ArenaIsOne(e) /\ \A p \in GpuProcs : MapIsSound(p, e)
    BY <1>6, <1>8 DEF ArenaIsOne, MapIsSound
  <1>12. \A k \in GpuKeys : SlotIsDescribed(k)
    BY Zenon, <1>5 DEF SlotIsDescribed
  <1> QED BY Zenon, <1>9, <1>10, <1>11, <1>12 DEF GpuInv

LEMMA GpuStutter ==
  ASSUME GpuInv, UNCHANGED gpuVars
  PROVE  GpuInv'
  <1>1. UNCHANGED <<gslot, reg, arenas, gpu, maps, cudaFaults>>
    BY Zenon DEF gpuVars
  <1>2. GpuType' /\ \A e \in RegEntries : ArenaIsOne(e)' /\ \A p \in GpuProcs : MapIsSound(p, e)'
    BY Zenon, <1>1 DEF GpuInv, GpuType, ArenaIsOne, MapIsSound
  <1>3. \A e : Settled(e)' = Settled(e)
    BY Zenon, <1>1 DEF Settled
  <1>4. \A own, gen, seq : Current(own, gen, seq)' <=> Current(own, gen, seq)
    BY Zenon, <1>1 DEF Current, NotLapped
  <1>5. \A own, gen, off, seq, val :
          Described(own, gen, off, seq, val) => Described(own, gen, off, seq, val)'
    BY <1>1, <1>3, <1>4 DEF Described
  <1>6. ASSUME NEW k \in GpuKeys PROVE SlotIsDescribed(k)'
    <2>1. PICK s : s = gslot[k]
      BY Zenon
    <2>2. s.owner # 0 => Described(s.owner, s.ogen, s.off, s.seq, s.val)'
      BY Zenon, <1>5, <2>1 DEF GpuInv, SlotIsDescribed
    <2> QED BY Zenon, <1>1, <2>1, <2>2
            DEF SlotIsDescribed, Described, Current, NotLapped, Settled
  <1>7. ASSUME NEW p \in GpuProcs PROVE EntryIsOwn(p)' /\ GatherIsSound(p)'
    BY Zenon, <1>1 DEF GpuInv, EntryIsOwn, GatherIsSound, Cell
  <1>8. ASSUME NEW p \in GpuProcs PROVE CopyIsSound(p)'
    <2>1. PICK me, c : me = gpu[p] /\ c = me.copy
      BY Zenon
    <2>2. CopyIsSound(p)
      BY Zenon DEF GpuInv
    <2>3. me.pc \in Copying => Described(c.own, c.egen, c.off, c.seq, c.val)'
      BY Zenon, <1>5, <2>1, <2>2 DEF CopyIsSound
    <2>4. Current(c.own, c.egen, c.seq)' <=> Current(c.own, c.egen, c.seq)
      BY Zenon, <1>4
    <2> QED BY Zenon, <1>1, <2>1, <2>2, <2>3, <2>4 DEF CopyIsSound
  <1> QED BY Zenon, <1>2, <1>6, <1>7, <1>8 DEF GpuInv

LEMMA GpuNextHolds ==
  ASSUME GpuInv, [GpuNext]_gpuVars
  PROVE  GpuInv'
  <1>1. ASSUME NEW p \in GpuProcs, GpuStep(p) PROVE GpuInv'
    <2>1. CASE GpuOpen(p)
      BY Zenon, <2>1, GpuOpenStep
    <2>2. CASE Attach(p)
      BY Zenon, <2>2, AttachStep
    <2>3. CASE GpuClose(p)
      BY Zenon, <2>3, GpuCloseStep
    <2>4. CASE Killed(p)
      BY Zenon, <2>4, KilledStep
    <2>5. CASE ClaimSg(p)
      BY Zenon, <2>5, ClaimSgStep
    <2>6. CASE Invalidate(p)
      BY Zenon, <2>6, InvalidateStep
    <2>7. CASE TakeOverClaim(p)
      BY Zenon, <2>7, TakeOverClaimStep
    <2>8. CASE ReserveSlot(p)
      BY Zenon, <2>8, ReserveSlotStep
    <2>9. CASE IdentifySlot(p)
      BY Zenon, <2>9, IdentifySlotStep
    <2>10. CASE TakeToken(p)
      BY Zenon, <2>10, TakeTokenStep
    <2>11. CASE WaitSg(p)
      BY Zenon, <2>11, WaitSgStep
    <2>12. CASE IssueCopySg(p)
      BY Zenon, <2>12, IssueCopySgStep
    <2>13. CASE MapPeer(p)
      BY Zenon, <2>13, MapPeerStep
    <2>14. CASE CopyOutSg(p)
      BY Zenon, <2>14, CopyOutSgStep
    <2>15. CASE EndCopy(p)
      BY Zenon, <2>15, EndCopyStep
    <2>16. CASE UseHit(p)
      BY Zenon, <2>16, UseHitGpuStep
    <2>17. CASE Fetched(p)
      BY Zenon, <2>17, FetchedStep
    <2>18. CASE AbortClaim(p)
      BY Zenon, <2>18, AbortClaimStep
    <2>19. CASE PublishSg(p)
      BY Zenon, <2>19, PublishSgStep
    <2>20. CASE Gather(p)
      BY Zenon, <2>20, GatherStep
    <2>21. CASE Abandon(p)
      BY Zenon, <2>21, AbandonStep
    <2>22. CASE FlipReady(p)
      BY Zenon, <2>22, FlipReadyStep
    <2> QED BY Zenon, <1>1, <2>1, <2>2, <2>3, <2>4, <2>5, <2>6, <2>7, <2>8, <2>9, <2>10, <2>11, <2>12,
               <2>13, <2>14, <2>15, <2>16, <2>17, <2>18, <2>19, <2>20, <2>21, <2>22 DEF GpuStep
  <1>2. CASE UNCHANGED gpuVars
    BY Zenon, <1>2, GpuStutter
  <1> QED BY Zenon, <1>1, <1>2 DEF GpuNext

(* For any processes, registry entries, keys, arena size and calls: a GET that a  *)
(* process answers from another's GPU arena has the payload its slot described,   *)
(* whole, although the ring comes round, publishers exit or are killed and their  *)
(* registry entries are taken over while it copies. *)
THEOREM GpuHitIsAlwaysWhole == GpuSpec => []GpuHitIsWhole
  <1>1. GpuInit => GpuInv
    BY Zenon, GpuInitHolds
  <1>2. GpuInv /\ [GpuNext]_gpuVars => GpuInv'
    BY Zenon, GpuNextHolds
  <1>3. GpuInv => GpuHitIsWhole
    BY Zenon DEF GpuInv, CopyIsSound, GpuHitIsWhole
  <1> QED BY <1>1, <1>2, <1>3, PTL DEF GpuSpec

=============================================================================
