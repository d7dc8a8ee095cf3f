--------------------------- MODULE DiskSlabStore ---------------------------
(***************************************************************************)
(* The slab engine of one disk (src/src/cache/disk_slab_store.cc): PUT      *)
(* batches with one leader per key, reads that pin their slot, REMOVE       *)
(* deferred to the last holder, eviction, and what survives a restart.      *)
(*                                                                         *)
(* A step is one hold of mu_, or one piece of the I/O made without it.  A   *)
(* batch keeps mu_ over all its items: `lock` names it while it does.       *)
(* `mem` is what the process sees (its maps, and slots.tbl and the payloads *)
(* through the page cache); `media` is what a power loss leaves.            *)
(***************************************************************************)
EXTENDS Integers, Sequences, FiniteSets, TLC

CONSTANTS
  Keys, Slots, Threads, Readers,
  Vals,      \* payloads a key may be given
  BatchMax,  \* bound: items of one batch
  MaxEpoch,  \* the last run epoch slab_state can hold
  None, Torn

ASSUME StoreAssumption ==
  /\ BatchMax \in Nat \ {0} /\ MaxEpoch \in Nat \ {0}
  /\ IsFiniteSet(Readers)
  /\ None \notin Keys \cup Threads \cup Vals /\ Torn \notin Keys \X Vals

VARIABLES
  mem,     \* the maps under mu_, metadata_failed_, slots.tbl and the payloads
  lock,    \* the batch that holds mu_ between two of its items, or None
  put,     \* each thread's batch
  rd,      \* each reader's pinned slot
  media,   \* slots.tbl, the payloads and slab_state on the medium
  phase,   \* the life of the process
  hist     \* history: keys removed since their last PUT, and the value last
           \* committed since the last REMOVE

vars == <<mem, lock, put, rd, media, phase, hist>>

Payloads == Keys \X Vals
EmptyTable == [s \in Slots |-> None]
NoBatch == [pc |-> "idle", items |-> <<>>, i |-> 0]
NoRead == [key |-> None, slot |-> None, want |-> None]
Phases == {"down", "opened", "reset", "restored", "up", "payloads synced", "table synced"}

(* The maps of a process that has just been constructed over a table.      *)
Fresh(rec, data) ==
  [owner |-> EmptyTable,             \* the allocator's index
   pins |-> [s \in Slots |-> 0],
   doomed |-> {},                    \* remove_pending slots
   committed |-> {},                 \* payload_len_
   flights |-> [k \in Keys |-> None],\* put_flights_: the leader
   deferred |-> {},                  \* deferred_remove_
   inflight |-> [k \in Keys |-> 0],
   failed |-> FALSE,                 \* metadata_failed_
   rec |-> rec, data |-> data]

Init ==
  /\ media = [rec |-> EmptyTable, data |-> [s \in Slots |-> Torn],
              epoch |-> 0, clean |-> TRUE]
  /\ mem = Fresh(media.rec, media.data)
  /\ lock = None /\ phase = "down"
  /\ put = [t \in Threads |-> NoBatch]
  /\ rd = [r \in Readers |-> NoRead]
  /\ hist = [removed |-> {}, last |-> [k \in Keys |-> None]]

-----------------------------------------------------------------------------
(* The allocator, over slots of one class.                                 *)

Holding(m, k) == {s \in Slots : m.owner[s] = k}
SlotOf(m, k) == CHOOSE s \in Holding(m, k) : TRUE
Contains(m, k) == Holding(m, k) \ m.doomed # {}

FreeSlot(m, s) == [m EXCEPT !.owner[s] = None, !.doomed = @ \ {s}]

Pin(m, k) == [m EXCEPT !.pins[SlotOf(m, k)] = @ + 1, !.inflight[k] = @ + 1]

Unpin(m, k) ==
  LET s == SlotOf(m, k)
      n == [m EXCEPT !.pins[s] = @ - 1]
  IN  IF Holding(m, k) = {} THEN m
      ELSE IF n.pins[s] = 0 /\ s \in m.doomed THEN FreeSlot(n, s) ELSE n

AllocRemove(m, k) ==
  LET s == SlotOf(m, k)
  IN  IF Holding(m, k) = {} THEN m
      ELSE IF m.pins[s] > 0 THEN [m EXCEPT !.doomed = @ \cup {s}]
      ELSE FreeSlot(m, s)

(* on_slot_evict, then the slot and the committed payload are forgotten.   *)
(* ok: the record could be cleared; if not, the store has failed.          *)
Evict(m, s, ok) ==
  IF ok THEN [FreeSlot(m, s) EXCEPT !.rec[s] = None, !.committed = @ \ {m.owner[s]}]
        ELSE [m EXCEPT !.failed = TRUE]

(* Mutant: pins do not protect a published slot from eviction.             *)
VictimsAny(m) == {s \in Slots : m.owner[s] # None /\ (m.pins[s] = 0 \/ m.owner[s] \in m.committed)}

Victims(m) == {s \in Slots : m.owner[s] # None /\ m.pins[s] = 0}
Unused(m) == {s \in Slots : m.owner[s] = None}

(* The states Put(k) may leave: a free slot, or an idle one evicted for it; *)
(* no room, a failed clear and a slot still doomed leave k without a slot. *)
AllocPut(m, k) ==
  LET Give(n, s) == [n EXCEPT !.owner[s] = k]
  IN  IF Holding(m, k) # {} THEN {m}
      ELSE IF Unused(m) # {} THEN {Give(m, s) : s \in Unused(m)}
      ELSE IF Victims(m) # {}
           THEN {Give(Evict(m, s, TRUE), s) : s \in Victims(m)} \cup {Evict(m, s, FALSE) : s \in Victims(m)}
           ELSE {m}

-----------------------------------------------------------------------------
(* ReleaseInflightLocked: the last holder runs the deferred REMOVE.        *)
(* ok: the record could be cleared.                                        *)

RunsRemove(m, k) == m.inflight[k] = 1 /\ k \in m.deferred

ReleaseInflight(m, k, ok) ==
  LET u == [Unpin(m, k) EXCEPT !.inflight[k] = @ - 1]
      r == [u EXCEPT !.deferred = @ \ {k}, !.committed = @ \ {k}]
  IN  IF ~RunsRemove(m, k) THEN u
      ELSE IF ~Contains(r, k) THEN r
      ELSE IF m.failed \/ ~ok THEN [r EXCEPT !.failed = TRUE]
      ELSE AllocRemove([r EXCEPT !.rec[SlotOf(r, k)] = None], k)

ReleaseOk(m, k, ok) == RunsRemove(m, k) => ok /\ ~m.failed

-----------------------------------------------------------------------------
(* PUT: CacheImpl is a batch of one, CacheDirectBatch of several.          *)

Item(t) == put[t].items[put[t].i]
Serving == phase = "up"
Locked(t) == lock \in {None, t}
Leads(t) == {j \in DOMAIN put[t].items : put[t].items[j].st \in {"lead", "written", "recorded", "bad"}}
Waits(t) == {j \in DOMAIN put[t].items : put[t].items[j].st = "follow"}

(* The outcome of the item under the cursor; the batch moves to the next,  *)
(* or gives mu_ back and turns to pc.                                      *)
Settle(b, st, pc) ==
  LET c == [b EXCEPT !.items[b.i].st = st, !.i = @ + 1]
  IN  IF b.i = Len(b.items) THEN [c EXCEPT !.pc = pc, !.i = 0] ELSE c

Advance(t, st, pc) ==
  /\ put' = [put EXCEPT ![t] = Settle(@, st, pc)]
  /\ lock' = IF put[t].i = Len(put[t].items) THEN None ELSE t

(* `seen` is history: since the PUT began, its key was committed or a      *)
(* REMOVE of it overlapped the PUT.                                        *)
PutBegin(t) ==
  /\ Serving /\ lock = None /\ put[t].pc = "idle" /\ ~mem.failed
  /\ \E n \in 1..BatchMax : \E ks \in [1..n -> Keys], v \in Vals :
       put' = [put EXCEPT ![t] =
         [pc |-> "L1", i |-> 1,
          items |-> [j \in 1..n |-> [key |-> ks[j], val |-> v, st |-> "todo",
                                     by |-> None, seen |-> ks[j] \in mem.committed]]]]
  /\ lock' = t
  /\ UNCHANGED <<mem, rd, media, phase, hist>>

(* One item's judgment under mu_.                                          *)
JudgeSettled(t) ==
  LET k == Item(t).key
  IN  /\ \/ mem.failed /\ Advance(t, "ioerror", "io")
         \/ ~mem.failed /\ k \in mem.committed /\ Advance(t, "ok", "io")   \* keep-first
      /\ UNCHANGED <<mem, hist>>

JudgeFollow(t) ==
  LET k == Item(t).key
  IN  /\ ~mem.failed /\ k \notin mem.committed /\ mem.flights[k] # None
      /\ put' = [put EXCEPT ![t] = Settle([@ EXCEPT !.items[@.i].by = mem.flights[k]], "follow", "io")]
      /\ lock' = IF put[t].i = Len(put[t].items) THEN None ELSE t
      /\ UNCHANGED <<mem, hist>>

JudgeWindow(t) ==
  LET k == Item(t).key
  IN  /\ ~mem.failed /\ k \notin mem.committed /\ mem.flights[k] = None /\ k \in mem.deferred
      /\ put' = [put EXCEPT ![t].pc = "window"] /\ lock' = None
      /\ UNCHANGED <<mem, hist>>

JudgeLead(t) ==
  LET k == Item(t).key
  IN  /\ ~mem.failed /\ k \notin mem.committed /\ mem.flights[k] = None /\ k \notin mem.deferred
      /\ hist' = [hist EXCEPT !.removed = @ \ {k}]
      /\ IF Contains(mem, k)
         THEN Advance(t, "ioerror", "io") /\ UNCHANGED mem
         ELSE \E m \in AllocPut(mem, k) :
                IF Contains(m, k)
                THEN mem' = Pin([m EXCEPT !.flights[k] = t], k) /\ Advance(t, "lead", "io")
                ELSE mem' = m /\ Advance(t, "ioerror", "io")

Judge(t) ==
  /\ Serving /\ put[t].pc = "L1" /\ lock = t
  /\ JudgeSettled(t) \/ JudgeFollow(t) \/ JudgeWindow(t) \/ JudgeLead(t)
  /\ UNCHANGED <<rd, media, phase>>

(* remove_cv_: the window closed and the item is judged again, or the wait *)
(* reached kDeferredRemoveWaitMax.                                         *)
WindowClosed(t) ==
  /\ Serving /\ put[t].pc = "window" /\ lock = None
  /\ Item(t).key \notin mem.deferred \/ mem.failed
  /\ put' = [put EXCEPT ![t].pc = "L1"] /\ lock' = t
  /\ UNCHANGED <<mem, rd, media, phase, hist>>

WindowTimeout(t) ==
  /\ Serving /\ put[t].pc = "window" /\ lock = None
  /\ Item(t).key \in mem.deferred /\ ~mem.failed
  /\ put' = [put EXCEPT ![t] = Settle([@ EXCEPT !.pc = "L1"], "ioerror", "io")]
  /\ lock' = IF put[t].i = Len(put[t].items) THEN None ELSE t
  /\ UNCHANGED <<mem, rd, media, phase, hist>>

(* Payloads land in any order (one io_uring submission); a write whose      *)
(* completion is lost for good fails the store.                            *)
WritePayload(t) ==
  /\ Serving /\ put[t].pc = "io"
  /\ \E j \in DOMAIN put[t].items :
       LET it == put[t].items[j]
           s == SlotOf(mem, it.key)
           To(st, bytes, f) ==
             /\ put' = [put EXCEPT ![t].items[j].st = st]
             /\ mem' = [mem EXCEPT !.data[s] = bytes, !.failed = f]
       IN  /\ it.st = "lead"
           /\ \/ To("written", <<it.key, it.val>>, mem.failed)
              \/ To("bad", Torn, mem.failed)
              \/ To("bad", Torn, TRUE)
  /\ UNCHANGED <<lock, rd, media, phase, hist>>

(* Records follow in the order of the items, each after its payload.       *)
WriteRecord(t) ==
  /\ Serving /\ put[t].pc = "io"
  /\ \E j \in DOMAIN put[t].items :
       LET it == put[t].items[j]
           s == SlotOf(mem, it.key)
       IN  /\ it.st = "written"
           /\ \A i \in 1..(j - 1) : put[t].items[i].st \notin {"lead", "written"}
           /\ \/ /\ ~mem.failed
                 /\ mem' = [mem EXCEPT !.rec[s] = it.key]
                 /\ put' = [put EXCEPT ![t].items[j].st = "recorded"]
              \/ /\ mem' = [mem EXCEPT !.failed = TRUE]
                 /\ put' = [put EXCEPT ![t].items[j].st = "bad"]
  /\ UNCHANGED <<lock, rd, media, phase, hist>>

(* L2: commit or roll back the items this batch leads, in one hold of mu_. *)
L2Begin(t) ==
  /\ Serving /\ put[t].pc = "io" /\ lock = None
  /\ \A j \in DOMAIN put[t].items : put[t].items[j].st \notin {"lead", "written"}
  /\ IF Leads(t) = {}
     THEN put' = [put EXCEPT ![t].pc = "wait"] /\ UNCHANGED lock
     ELSE put' = [put EXCEPT ![t].pc = "L2", ![t].i = 1] /\ lock' = t
  /\ UNCHANGED <<mem, rd, media, phase, hist>>

(* Mutant: followers are not told.                                         *)
CompletedLost(b, t, k, st) == b

(* CompletePut: every item that follows this flight takes its result.      *)
Completed(b, t, k, st) ==
  [b EXCEPT !.items = [j \in DOMAIN b.items |->
     IF b.items[j].st = "follow" /\ b.items[j].by = t /\ b.items[j].key = k
     THEN [b.items[j] EXCEPT !.st = st] ELSE b.items[j]]]

Saw(b, k) ==
  [b EXCEPT !.items = [j \in DOMAIN b.items |->
     IF b.items[j].key = k THEN [b.items[j] EXCEPT !.seen = TRUE] ELSE b.items[j]]]

(* Mutant: a REMOVE that arrived during the write is not looked for.       *)
NeverRemoved(k) == FALSE

RemovedWhileWriting(k) == k \in mem.deferred

CommitItem(t) ==
  /\ Serving /\ put[t].pc = "L2" /\ lock = t
  /\ LET it == Item(t)
         k == it.key
         removed == RemovedWhileWriting(k)
     IN  IF put[t].i \notin Leads(t) THEN Advance(t, it.st, "wait") /\ UNCHANGED <<mem, hist>>
         ELSE \E ok \in BOOLEAN :
           LET m == ReleaseInflight(mem, k, ok)
               good == it.st = "recorded" /\ ReleaseOk(mem, k, ok) /\ ~m.failed
               publish == good /\ ~removed
               n == IF publish THEN [m EXCEPT !.committed = @ \cup {k}]
                    ELSE IF ~good /\ ~removed THEN AllocRemove(m, k) ELSE m
               st == IF good THEN "ok" ELSE "ioerror"
               Told(b) == Completed(IF publish THEN Saw(b, k) ELSE b, t, k, st)
           IN  /\ ok \/ RunsRemove(mem, k)
               /\ mem' = [n EXCEPT !.flights[k] = None]
               /\ put' = [u \in Threads |->
                            IF u = t THEN Settle(Told(put[t]), st, "wait") ELSE Told(put[u])]
               /\ lock' = IF put[t].i = Len(put[t].items) THEN None ELSE t
               /\ hist' = IF publish THEN [hist EXCEPT !.last[k] = it.val] ELSE hist
  /\ UNCHANGED <<rd, media, phase>>

(* WaitPut of the items that followed another batch, then the answer.      *)
PutAnswer(t) ==
  /\ Serving /\ put[t].pc = "wait" /\ Waits(t) = {}
  /\ put' = [put EXCEPT ![t] = NoBatch]
  /\ UNCHANGED <<mem, lock, rd, media, phase, hist>>

-----------------------------------------------------------------------------
(* GET: Range, RangeInto, RangeDirect and the lease of RangeDirectPrep pin *)
(* the slot for as long as its bytes are read.                             *)

AcquireForRead(r, k) ==
  /\ Serving /\ lock = None /\ rd[r] = NoRead
  /\ ~mem.failed /\ k \in mem.committed /\ Contains(mem, k)
  /\ LET s == SlotOf(mem, k)
     IN  rd' = [rd EXCEPT ![r] = [key |-> k, slot |-> s, want |-> mem.data[s]]]
  /\ mem' = Pin(mem, k)
  /\ UNCHANGED <<lock, put, media, phase, hist>>

ReleaseRead(r) ==
  /\ Serving /\ lock = None /\ rd[r] # NoRead
  /\ \E ok \in BOOLEAN :
       /\ ok \/ RunsRemove(mem, rd[r].key)
       /\ mem' = ReleaseInflight(mem, rd[r].key, ok)
  /\ rd' = [rd EXCEPT ![r] = NoRead]
  /\ UNCHANGED <<lock, put, media, phase, hist>>

-----------------------------------------------------------------------------
(* REMOVE, in one hold of mu_; a key in flight is hidden and its removal    *)
(* left to the last holder.                                                *)

Remove(k) ==
  /\ Serving /\ lock = None /\ ~mem.failed /\ Contains(mem, k)
  /\ \/ /\ mem.inflight[k] > 0
        /\ mem' = [mem EXCEPT !.deferred = @ \cup {k}, !.committed = @ \ {k}]
        /\ hist' = [hist EXCEPT !.removed = @ \cup {k}, !.last[k] = None]
     \/ /\ mem.inflight[k] = 0
        /\ mem' = [AllocRemove([mem EXCEPT !.rec[SlotOf(mem, k)] = None], k)
                     EXCEPT !.committed = @ \ {k}]
        /\ hist' = [hist EXCEPT !.removed = @ \cup {k}, !.last[k] = None]
     \/ /\ mem.inflight[k] = 0
        /\ mem' = [mem EXCEPT !.failed = TRUE]
        /\ UNCHANGED hist
  /\ put' = [t \in Threads |-> Saw(put[t], k)]
  /\ UNCHANGED <<lock, rd, media, phase>>

(* The reclaimer gives back idle slots (the pressure that asks for it is   *)
(* NewPutDemandLatch's).                                                   *)
Reclaim ==
  /\ Serving /\ lock = None /\ ~mem.failed
  /\ \E s \in Victims(mem), ok \in BOOLEAN : mem' = Evict(mem, s, ok)
  /\ UNCHANGED <<lock, put, rd, media, phase, hist>>

-----------------------------------------------------------------------------
(* The page cache and the medium.                                          *)

(* The kernel writes one record, or one payload perhaps torn, back.        *)
Writeback(s) ==
  /\ \/ media.rec[s] # mem.rec[s] /\ media' = [media EXCEPT !.rec[s] = mem.rec[s]]
     \/ \E d \in {mem.data[s], Torn} :
          media.data[s] # mem.data[s] /\ media' = [media EXCEPT !.data[s] = d]
  /\ UNCHANGED <<mem, lock, put, rd, phase, hist>>

(* The periodic fdatasync of slots.tbl.                                    *)
SyncTable ==
  /\ Serving /\ ~mem.failed
  /\ \/ media' = [media EXCEPT !.rec = mem.rec] /\ UNCHANGED mem
     \/ mem' = [mem EXCEPT !.failed = TRUE] /\ UNCHANGED media
  /\ UNCHANGED <<lock, put, rd, phase, hist>>

(* The process ends: its maps are gone, what it wrote is in the page cache. *)
Ended(rec, data) ==
  /\ mem' = Fresh(rec, data)
  /\ lock' = None /\ phase' = "down"
  /\ put' = [t \in Threads |-> NoBatch]
  /\ rd' = [r \in Readers |-> NoRead]

Crash ==
  /\ \/ phase # "down" /\ Ended(mem.rec, mem.data)
     \/ Ended(media.rec, media.data)              \* a power loss
  /\ UNCHANGED <<media, hist>>

-----------------------------------------------------------------------------
(* The constructor: OpenOrInit, ResetUncleanEpoch, Rebuild, MarkDirtyEpoch. *)

OpenEpochState ==
  /\ phase = "down" /\ phase' = IF media.clean THEN "reset" ELSE "opened"
  /\ UNCHANGED <<mem, lock, put, rd, media, hist>>

(* Every record is cleared, then synced; a failure may leave some of them. *)
ResetUncleanEpoch ==
  /\ phase = "opened"
  /\ \/ /\ mem' = [mem EXCEPT !.rec = EmptyTable]
        /\ media' = [media EXCEPT !.rec = EmptyTable]
        /\ phase' = "reset" /\ UNCHANGED <<lock, put, rd>>
     \/ /\ \E left \in SUBSET Slots :
             Ended([s \in Slots |-> IF s \in left THEN mem.rec[s] ELSE None], mem.data)
        /\ UNCHANGED media
  /\ UNCHANGED hist

(* A key recorded twice makes RestoreBulk, and the start, fail.            *)
Rebuild ==
  /\ phase = "reset"
  /\ LET live == {s \in Slots : mem.rec[s] # None}
     IN  IF \E s, u \in live : s # u /\ mem.rec[s] = mem.rec[u]
         THEN Ended(mem.rec, mem.data)
         ELSE /\ mem' = [mem EXCEPT !.owner = mem.rec, !.committed = {mem.rec[s] : s \in live}]
              /\ phase' = "restored" /\ UNCHANGED <<lock, put, rd>>
  /\ UNCHANGED <<media, hist>>

(* The dirty state is on the medium before the store serves.               *)
MarkDirtyEpoch ==
  /\ phase = "restored"
  /\ IF media.epoch = MaxEpoch
     THEN Ended(mem.rec, mem.data) /\ UNCHANGED media
     ELSE /\ media' = [media EXCEPT !.epoch = @ + 1, !.clean = FALSE]
          /\ phase' = "up" /\ UNCHANGED <<mem, lock, put, rd>>
  /\ UNCHANGED hist

(* Mutant: the payloads are not synced before the clean mark.              *)
SyncPayloadsSkipped ==
  /\ phase = "up" /\ \A t \in Threads : put[t] = NoBatch
  /\ \A r \in Readers : rd[r] = NoRead
  /\ ~mem.failed /\ phase' = "payloads synced"
  /\ UNCHANGED <<mem, lock, put, rd, media, hist>>

(* The destructor, once no call is under way: payloads, table, clean mark.  *)
SyncPayloads ==
  /\ phase = "up" /\ \A t \in Threads : put[t] = NoBatch
  /\ \A r \in Readers : rd[r] = NoRead
  /\ \/ /\ ~mem.failed /\ media' = [media EXCEPT !.data = mem.data]
        /\ phase' = "payloads synced" /\ UNCHANGED <<mem, lock, put, rd>>
     \/ Ended(mem.rec, mem.data) /\ UNCHANGED media     \* unhealthy, or the sync failed
  /\ UNCHANGED hist

SyncTableAtExit ==
  /\ phase = "payloads synced"
  /\ \/ /\ media' = [media EXCEPT !.rec = mem.rec]
        /\ phase' = "table synced" /\ UNCHANGED <<mem, lock, put, rd>>
     \/ Ended(mem.rec, mem.data) /\ UNCHANGED media
  /\ UNCHANGED hist

MarkCleanEpoch ==
  /\ phase = "table synced"
  /\ media' = [media EXCEPT !.clean = TRUE] /\ Ended(mem.rec, mem.data)
  /\ UNCHANGED hist

-----------------------------------------------------------------------------
Steps(t) ==
  \/ Judge(t) \/ WindowClosed(t) \/ WindowTimeout(t) \/ WritePayload(t)
  \/ WriteRecord(t) \/ L2Begin(t) \/ CommitItem(t) \/ PutAnswer(t)

(* The store while its process lives, the medium as the destructor leaves  *)
(* it: where only the interleavings of batches, reads and removes matter.  *)
SteadyNext ==
  \/ \E t \in Threads : PutBegin(t) \/ Steps(t)
  \/ \E r \in Readers : ReleaseRead(r) \/ \E k \in Keys : AcquireForRead(r, k)
  \/ \E k \in Keys : Remove(k)
  \/ Reclaim
  \/ OpenEpochState \/ ResetUncleanEpoch \/ Rebuild \/ MarkDirtyEpoch
  \/ SyncPayloads \/ SyncTableAtExit \/ MarkCleanEpoch

(* All of it: the process may also die at any step, and the medium runs    *)
(* behind the page cache.                                                  *)
Next ==
  \/ SteadyNext \/ SyncTable \/ Crash
  \/ \E s \in Slots : Writeback(s)

(* A batch that can go on does, mu_ does not starve a waiter, and a read    *)
(* ends: its I/O completes or fails.                                       *)
Fairness ==
  /\ \A t \in Threads : SF_vars(Steps(t))
  /\ \A r \in Readers : SF_vars(ReleaseRead(r))

SteadySpec == Init /\ [][SteadyNext]_vars /\ Fairness

Spec == Init /\ [][Next]_vars /\ Fairness

-----------------------------------------------------------------------------
ItemStates == {"todo", "lead", "written", "recorded", "bad", "follow", "ok", "ioerror"}

(* Every variable stays within the values the code's types allow.          *)
TypeOK ==
  /\ mem.owner \in [Slots -> Keys \cup {None}] /\ mem.rec \in [Slots -> Keys \cup {None}]
  /\ mem.pins \in [Slots -> Nat] /\ mem.inflight \in [Keys -> Nat]
  /\ mem.committed \subseteq Keys /\ mem.deferred \subseteq Keys /\ mem.doomed \subseteq Slots
  /\ mem.flights \in [Keys -> Threads \cup {None}] /\ mem.failed \in BOOLEAN
  /\ mem.data \in [Slots -> Payloads \cup {Torn}]
  /\ lock \in Threads \cup {None} /\ phase \in Phases
  /\ \A t \in Threads :
       /\ put[t].pc \in {"idle", "L1", "window", "io", "L2", "wait"}
       /\ \A j \in DOMAIN put[t].items : put[t].items[j].st \in ItemStates
  /\ media.rec \in [Slots -> Keys \cup {None}] /\ media.epoch \in 0..MaxEpoch

(* The pin and in-flight counts of a key are the writers and readers that   *)
(* hold it: no count is leaked or given back twice, on any error path.     *)
PinsMatchHolders ==
  \A k \in Keys :
    LET held == Cardinality({r \in Readers : rd[r].key = k})
                + Cardinality({t \in Threads : \E j \in Leads(t) : put[t].items[j].key = k})
    IN  /\ mem.inflight[k] = held
        /\ Cardinality(Holding(mem, k)) <= 1
        /\ \A s \in Holding(mem, k) : mem.pins[s] = held

(* A REMOVE left to the last holder always has a holder to run it: the key *)
(* is never hidden with its slot kept and nobody to free it.               *)
DeferredHasHolder == \A k \in mem.deferred : mem.inflight[k] > 0

(* Between acquiring a slot and releasing it a reader, or the holder of a   *)
(* prepared lease, reads the bytes that were committed when it started,    *)
(* whatever is removed, evicted or written meanwhile.                      *)
ReaderKeepsItsBytes == \A r \in Readers : rd[r] # NoRead => mem.data[rd[r].slot] = rd[r].want

(* The engine implements the contract CacheStore: in this life of the       *)
(* process and the next ones, through failed writes, crashes and restarts,  *)
(* GETs find a key's last published value, whole, or nothing, and never     *)
(* again one that was removed.                                              *)
Found(k) == phase = "up" /\ ~mem.failed /\ k \in mem.committed /\ Contains(mem, k)

Contract == INSTANCE CacheStore WITH
  Values <- Payloads,
  Nothing <- None,
  open <- phase = "up",
  visible <- [k \in Keys |-> IF Found(k) THEN mem.data[SlotOf(mem, k)] ELSE None],
  kept <- [k \in Keys |-> IF hist.last[k] = None THEN None ELSE <<k, hist.last[k]>>],
  gone <- hist.removed

(* The store behaves as the contract says: what its GETs find (committed    *)
(* keys of mem), through PUTs, REMOVEs, evictions, crashes and Rebuild, is  *)
(* what CacheStore allows.                                                 *)
ImplementsCacheStore == Contract!CacheStoreSpec

(* slab_state says clean only over a table that is exactly right on the     *)
(* medium: no removed key, no key twice, every payload whole and current.  *)
CleanEpochIsExact ==
  media.clean =>
    \A s \in Slots : media.rec[s] # None =>
      /\ media.rec[s] \notin hist.removed
      /\ media.data[s] = <<media.rec[s], hist.last[media.rec[s]]>>
      /\ \A u \in Slots \ {s} : media.rec[u] # media.rec[s]

(* A PUT answered kOk committed its key, or found it committed, while it    *)
(* ran, unless a REMOVE overlapped it.                                     *)
OkMeansCommitted ==
  \A t \in Threads : \A j \in DOMAIN put[t].items :
    put[t].items[j].st = "ok" => put[t].items[j].seen

(* Batches never wait for each other in a circle: an item that follows       *)
(* another batch names one that still leads the key and has not itself      *)
(* turned to waiting (CacheDirectBatch waits only after its own L2).       *)
FollowedLeaderIsBusy ==
  \A t \in Threads : \A j \in Waits(t) :
    LET u == put[t].items[j].by
        k == put[t].items[j].key
    IN  mem.flights[k] = u /\ put[u].pc \in {"L1", "window", "io", "L2"}

(* The holders of a key: counted exactly, sure of their bytes, one of them  *)
(* there to run every deferred REMOVE, and none of them waiting for a batch *)
(* that waits.                                                              *)
HoldersAreExact ==
  TypeOK /\ PinsMatchHolders /\ ReaderKeepsItsBytes /\ DeferredHasHolder /\ FollowedLeaderIsBusy

(* A batch is always answered, whatever its items wait for: other batches'  *)
(* flights, or the holders that keep a removal window open (CacheDirectBatch *)
(* commits what it leads before it waits for what it follows).             *)
PutsAnswered == \A t \in Threads : (put[t].pc # "idle") ~> (put[t].pc = "idle")
=============================================================================
