------------------------------ MODULE RamTier ------------------------------
(***************************************************************************)
(* The RAM hot tier of a cache node (src/src/cache/ram_tier.cc): one shard, *)
(* its byte budgets, its flush workers and the threads that call it.       *)
(*                                                                         *)
(* Every action is one critical section of the shard mutex s.mu.  A thread *)
(* inside an operation is between two of them: its payload copy, its wait  *)
(* on a PutCompletion, its disk read or its network send is in progress.   *)
(* The arena allocator (slab_allocator.cc) is seen through its contract:   *)
(* a slot per key, a pin count, and eviction of unpinned slots only.       *)
(* A value is identified by the generation that created it.                *)
(***************************************************************************)
EXTENDS Integers, Sequences, FiniteSets, TLC, FiniteSetsExt, SequencesExt

CONSTANTS
  Keys, Threads, Workers,
  Cap,            \* [Keys -> Nat]: aligned capacity of each key's value
  Bytes,          \* opt_.bytes, the hard byte budget
  LargeBudget,    \* large_budget_bytes_, the dedicated-value reserve
  ExtentCap,      \* a value above it never lives in the arena
  ArenaSlots,     \* slots of the arena
  AckHigh,        \* dirty-byte watermark; 0: acknowledge after the flush
  FlushRetries,   \* opt_.flush_retries
  FlushBatchMax,  \* kFlushBatchMax
  MaxGen          \* bound: generations (completions) a behaviour may create

ASSUME SizesAssumption ==
  /\ Cap \in [Keys -> Nat \ {0}]
  /\ {Bytes, LargeBudget, ExtentCap, ArenaSlots, AckHigh} \subseteq Nat
  /\ {FlushRetries, FlushBatchMax, MaxGen} \subseteq Nat \ {0}
  /\ ArenaSlots + LargeBudget <= Bytes

VARIABLES
  ram,    \* the shard and the tier's counters
  thr,    \* the calling threads
  work,   \* the flush workers
  disk,   \* the backing store: the generation stored for a key, 0 if none
  stop,   \* s.stop, set by the destructor
  hist    \* history: generations a Remove has fenced, generations on disk

vars == <<ram, thr, work, disk, stop, hist>>

Gens == 1 .. MaxGen
None == 0

Idle == [pc |-> "idle", op |-> "none", key |-> None, gen |-> None, val |-> None,
         res |-> "none"]
Parked == [pc |-> "idle", batch |-> <<>>, ok |-> <<>>]

Init ==
  /\ ram = [index |-> <<>>, writing |-> <<>>, flushq |-> <<>>, slot |-> <<>>,
            comp |-> <<>>, budget |-> 0, large |-> 0, dirtyBytes |-> 0,
            dirtyObjects |-> 0, healthy |-> TRUE]
  /\ thr = [t \in Threads |-> Idle]
  /\ work = [w \in Workers |-> Parked]
  /\ disk = [k \in Keys |-> None]
  /\ stop = FALSE
  /\ hist = [fenced |-> {}, sunk |-> {}]

-----------------------------------------------------------------------------
(* The shard's maps are functions on the keys they hold.                   *)

Without(f, S) == [x \in DOMAIN f \ S |-> f[x]]
SumCap(S) == FoldSet(LAMBDA k, n : Cap[k] + n, 0, S)

IsLarge(k) == Cap[k] > ExtentCap
Visible(m, k) == k \in DOMAIN m.index /\ ~m.index[k].removePending
Owned(m, k) == k \in DOMAIN m.index \cup DOMAIN m.writing
OwnerGen(m, k) == IF k \in DOMAIN m.index THEN m.index[k].gen ELSE m.writing[k]

(* Contract of the arena allocator as the shard uses it.                   *)
Pin(m, k) == [m EXCEPT !.slot[k].refs = @ + 1]
Unpin(m, k) ==
  IF m.slot[k].refs = 1 /\ m.slot[k].removePending
  THEN [m EXCEPT !.slot = Without(@, {k})]
  ELSE [m EXCEPT !.slot[k].refs = @ - 1]
AllocRemove(m, k) ==
  IF m.slot[k].refs > 0 THEN [m EXCEPT !.slot[k].removePending = TRUE]
                        ELSE [m EXCEPT !.slot = Without(@, {k})]
Evictable(m) == {k \in DOMAIN m.slot : m.slot[k].refs = 0}

ReleaseBudget(m, c) == [m EXCEPT !.budget = @ - c]
(* Mutant: only the reserve is given back, not the byte budget.            *)
ReleaseLargeOnly(m, c) == [m EXCEPT !.large = @ - c]

ReleaseLargeBudget(m, c) == [m EXCEPT !.large = @ - c, !.budget = @ - c]
TryReserve(m, c) == m.budget + c <= Bytes
TryReserveLarge(m, c) == m.large + c <= LargeBudget /\ TryReserve(m, c)
Release(m, k) == IF IsLarge(k) THEN ReleaseLargeBudget(m, Cap[k])
                               ELSE ReleaseBudget(m, Cap[k])

EraseEvicted(m, victims) ==
  [m EXCEPT !.slot = Without(@, victims), !.index = Without(@, victims),
            !.budget = @ - SumCap(victims \cap DOMAIN m.index)]

CompletePut(m, g, success) ==
  IF m.comp[g].done THEN m
  ELSE [m EXCEPT !.comp[g].done = TRUE, !.comp[g].success = success]

NewCompletion(m) ==
  [m EXCEPT !.comp = Append(@, [done |-> FALSE, success |-> FALSE, canceled |-> FALSE])]

(* What alloc->Put can do for a new key: use a free slot, or evict.        *)
AllocPut(m, k) ==
  IF k \in DOMAIN m.slot
  THEN IF m.slot[k].removePending THEN {} ELSE {m}
  ELSE LET full == Cardinality(DOMAIN m.slot) >= ArenaSlots
           victims == IF full THEN SUBSET Evictable(m) \ {{}} ELSE {{}}
       IN  {[EraseEvicted(m, v) EXCEPT
               !.slot = (k :> [refs |-> 0, removePending |-> FALSE]) @@ @] : v \in victims}

(* One attempt to place a small value: its slot, pinned and charged.       *)
Attempt(m, k) ==
  IF AllocPut(m, k) = {} THEN {[st |-> "nofit", m |-> m]}
  ELSE {IF TryReserve(a, Cap[k])
        THEN [st |-> "placed", m |-> [Pin(a, k) EXCEPT !.budget = @ + Cap[k]]]
        ELSE [st |-> "nobudget", m |-> AllocRemove(a, k)] : a \in AllocPut(m, k)}

DropLocked(m, k) ==
  LET e == m.index[k]
      clean == IF e.durable THEN m
               ELSE [m EXCEPT !.dirtyBytes = @ - Cap[k], !.dirtyObjects = @ - 1]
      freed == IF IsLarge(k) THEN clean ELSE AllocRemove(clean, k)
  IN  IF e.send > 0 \/ e.flushing
      THEN [m EXCEPT !.index[k].removePending = TRUE]
      ELSE Release([freed EXCEPT !.index = Without(@, {k})], k)

ReleaseFlushPin(m, k) ==
  IF ~m.index[k].flushPin THEN m
  ELSE LET u == [m EXCEPT !.index[k].flushPin = FALSE]
       IN  IF IsLarge(k) THEN u ELSE Unpin(u, k)

EraseWriting(m, k, g) ==
  IF k \in DOMAIN m.writing /\ m.writing[k] = g
  THEN [m EXCEPT !.writing = Without(@, {k})] ELSE m

Install(m, k, e) == [m EXCEPT !.index = (k :> e) @@ @]
NewEntry(g, v, durable, send) ==
  [gen |-> g, val |-> v, send |-> send, durable |-> durable, flushing |-> FALSE,
   flushPin |-> ~durable, removePending |-> FALSE]
-----------------------------------------------------------------------------
(* Threads.  At "ret" an operation has answered its caller with res.       *)

Step(t, fields) == thr' = [thr EXCEPT ![t] = fields @@ @]
Goto(t, pc) == Step(t, [pc |-> pc])
Return(t, r) == Step(t, [pc |-> "ret", res |-> r])
At(t, pc) == thr[t].pc = pc
Canceled(t) == ram.comp[thr[t].gen].canceled

(* Bound: room for a new generation beside those under way.                *)
GenRoom ==
  Len(ram.comp) + Cardinality({t \in Threads : thr[t].pc \in {"reclaim", "retry"}
                                               /\ thr[t].gen = None}) < MaxGen

Reserve(m, k) ==
  [NewCompletion(m) EXCEPT !.writing = (k :> Len(m.comp) + 1) @@ @]

(* A placement attempt for operation op: admission owns a completion from   *)
(* its first attempt on, a promotion only once it has its slot.            *)
Place(t, k, op, held, retry) ==
  \E r \in Attempt(ram, k) :
    LET owns == ~held /\ (op \in {"commit", "ack"} \/ r.st = "placed")
    IN  /\ ram' = IF owns THEN Reserve(r.m, k) ELSE r.m
        /\ Step(t, [pc |-> CASE r.st = "placed" -> IF op = "reserve" THEN "reserved" ELSE "copy"
                             [] r.st = "nofit" -> "nofit"
                             [] r.st = "nobudget" -> IF retry THEN "reclaim" ELSE "reclaimLast",
                    op |-> op, key |-> k,
                    gen |-> IF owns THEN Len(ram.comp) + 1 ELSE thr[t].gen])

(* PutCommitted (op "commit") and PutWriteBack (op "ack"; with a zero      *)
(* watermark it is PutCommitted) up to the first placement attempt.        *)
Admit(t, k, op) ==
  /\ UNCHANGED <<work, disk, stop, hist>>
  /\ \/ /\ k \in DOMAIN ram.index /\ ram.index[k].removePending
        /\ Return(t, "ioerror") /\ UNCHANGED ram
     \/ /\ Owned(ram, k) /\ (k \in DOMAIN ram.index => Visible(ram, k))
        /\ Step(t, [pc |-> "wait", op |-> op, key |-> k, gen |-> OwnerGen(ram, k)])
        /\ UNCHANGED ram
     \/ /\ ~Owned(ram, k) /\ disk[k] # None
        /\ Return(t, "ok") /\ UNCHANGED ram
     \/ /\ ~Owned(ram, k) /\ disk[k] = None
        /\ \/ /\ op = "ack" /\ AckHigh > 0 /\ ram.dirtyBytes >= AckHigh
              /\ Return(t, "backpressure") /\ UNCHANGED ram
           \/ /\ op = "ack" /\ AckHigh > 0 => ram.dirtyBytes < AckHigh
              /\ \/ /\ Cap[k] > Bytes
                    /\ Return(t, "bypass") /\ UNCHANGED ram
                 \/ /\ Cap[k] <= Bytes /\ IsLarge(k) /\ GenRoom
                    /\ ram' = Reserve(ram, k)
                    /\ Step(t, [pc |-> "large", op |-> op, key |-> k,
                                gen |-> Len(ram.comp) + 1])
                 \/ /\ Cap[k] <= Bytes /\ ~IsLarge(k) /\ GenRoom
                    /\ Place(t, k, op, FALSE, TRUE)

(* PutDurable: promote the bytes thr[t].val a read has taken from disk.     *)
PutDurable(t, k) ==
  /\ UNCHANGED <<work, disk, stop, hist>>
  /\ \/ /\ Owned(ram, k) \/ Cap[k] > Bytes
        /\ Return(t, IF Visible(ram, k) THEN "ok" ELSE "declined") /\ UNCHANGED ram
     \/ /\ ~Owned(ram, k) /\ Cap[k] <= Bytes /\ IsLarge(k) /\ GenRoom
        /\ ram' = Reserve(ram, k)
        /\ Step(t, [pc |-> "large", op |-> "promote", key |-> k, gen |-> Len(ram.comp) + 1])
     \/ /\ ~Owned(ram, k) /\ Cap[k] <= Bytes /\ ~IsLarge(k) /\ GenRoom
        /\ Place(t, k, "promote", FALSE, TRUE)

(* ReserveDurable: take the final slot before the disk read starts.        *)
ReserveDurable(t, k) ==
  /\ UNCHANGED <<work, disk, stop, hist>>
  /\ \/ /\ IsLarge(k) \/ Owned(ram, k) \/ Cap[k] > Bytes
        /\ Return(t, "declined") /\ UNCHANGED ram
     \/ /\ ~IsLarge(k) /\ ~Owned(ram, k) /\ Cap[k] <= Bytes /\ GenRoom
        /\ Place(t, k, "reserve", FALSE, TRUE)

(* The steps of a placement that follow its first attempt.                 *)
LargeReserve(t) ==
  /\ thr[t].pc \in {"large", "largeLast"}
  /\ LET k == thr[t].key
     IN  IF TryReserveLarge(ram, Cap[k])
         THEN \/ /\ ram' = [ram EXCEPT !.large = @ + Cap[k], !.budget = @ + Cap[k]]
                 /\ Goto(t, "copy")
              \/ Goto(t, "nofit") /\ UNCHANGED ram          \* posix_memalign failed
         ELSE /\ Goto(t, IF At(t, "large") THEN "reclaim" ELSE "nofit")
              /\ UNCHANGED ram
  /\ UNCHANGED <<work, disk, stop, hist>>

(* Mutant: dirty values are reclaimed too.                                 *)
ReclaimDirty(m, c) ==
  LET idle == {k \in DOMAIN m.index : IsLarge(k) /\ m.index[k].send = 0 /\ ~m.index[k].removePending}
  IN  {[m EXCEPT !.index = Without(@, idle), !.large = @ - SumCap(idle), !.budget = @ - SumCap(idle)]}

(* ReclaimLargeFor: evict durable idle dedicated values until c fits.      *)
ReclaimLargeFor(m, c) ==
  LET idle == {k \in DOMAIN m.index : /\ IsLarge(k) /\ m.index[k].durable
                                      /\ m.index[k].send = 0 /\ ~m.index[k].removePending}
      hasRoom(S) == m.large - SumCap(S) <= LargeBudget - c
      evict(S) == [m EXCEPT !.index = Without(@, S), !.large = @ - SumCap(S),
                            !.budget = @ - SumCap(S)]
  IN  IF c > LargeBudget THEN {m}
      ELSE {evict(S) : S \in {S \in SUBSET idle :
              /\ hasRoom(S) \/ S = idle
              /\ S = {} \/ \E k \in S : ~hasRoom(S \ {k})}}

Reclaim(t) ==
  /\ thr[t].pc \in {"reclaim", "reclaimLast"}
  /\ ram' \in ReclaimLargeFor(ram, Cap[thr[t].key])
  /\ Goto(t, CASE At(t, "reclaimLast") -> "nofit"
               [] IsLarge(thr[t].key) -> "largeLast"
               [] OTHER -> "retry")
  /\ UNCHANGED <<work, disk, stop, hist>>

Retry(t) ==
  /\ At(t, "retry")
  /\ LET k == thr[t].key
         op == thr[t].op
         held == op \in {"commit", "ack"}
     IN  IF ~held /\ Owned(ram, k)
         THEN /\ Return(t, IF op = "promote" /\ Visible(ram, k) THEN "ok" ELSE "declined")
              /\ UNCHANGED ram
         ELSE Place(t, k, op, held, FALSE)
  /\ UNCHANGED <<work, disk, stop, hist>>

(* The value could not be placed: withdraw the completion, if there is one. *)
NotAdmitted(t) ==
  /\ At(t, "nofit")
  /\ LET k == thr[t].key
         g == thr[t].gen
     IN  IF g = None
         THEN Return(t, "declined") /\ UNCHANGED ram
         ELSE /\ ram' = CompletePut(EraseWriting(ram, k, g), g, FALSE)
              /\ Return(t, CASE thr[t].op = "promote" -> "declined"
                             [] Canceled(t) -> "ioerror"
                             [] OTHER -> "bypass")
  /\ UNCHANGED <<work, disk, stop, hist>>

(* The payload copy is done: cancel check, writing-set erase and index      *)
(* install in one critical section (Admit and PutDurable).                 *)
Copy(t) ==
  /\ At(t, "copy")
  /\ LET k == thr[t].key
         g == thr[t].gen
         promote == thr[t].op = "promote"
         m == EraseWriting(ram, k, g)
         dirty == [Install(m, k, NewEntry(g, g, FALSE, 0)) EXCEPT
                     !.flushq = Append(@, [key |-> k, tries |-> 0]),
                     !.dirtyBytes = @ + Cap[k], !.dirtyObjects = @ + 1]
         clean == CompletePut(Install(m, k, NewEntry(g, thr[t].val, TRUE, 0)), g, TRUE)
         undone == IF IsLarge(k) THEN m ELSE AllocRemove(Unpin(m, k), k)
     IN  CASE Canceled(t) ->
                /\ ram' = undone /\ Goto(t, "release") /\ UNCHANGED hist
           [] ~Canceled(t) /\ promote ->
                /\ ram' = IF IsLarge(k) THEN clean ELSE Unpin(clean, k)
                /\ Return(t, "ok")
                /\ hist' = [hist EXCEPT !.sunk = @ \cup {g}]
           [] ~Canceled(t) /\ ~promote ->
                /\ ram' = dirty
                /\ IF thr[t].op = "ack" /\ AckHigh > 0 THEN Return(t, "ok") ELSE Goto(t, "wait")
                /\ UNCHANGED hist
  /\ UNCHANGED <<work, disk, stop>>

WaitPut(t) ==
  /\ At(t, "wait") /\ ram.comp[thr[t].gen].done
  /\ Return(t, IF ram.comp[thr[t].gen].success THEN "ok" ELSE "ioerror")
  /\ UNCHANGED <<ram, work, disk, stop, hist>>

(* CommitReservation, then the reservation's pin is the first send pin.    *)
CommitReservation(t) ==
  /\ At(t, "reserved")
  /\ LET k == thr[t].key
         g == thr[t].gen
         m == EraseWriting(ram, k, g)
     IN  IF Canceled(t)
         THEN /\ ram' = CompletePut(AllocRemove(m, k), g, FALSE)
              /\ Goto(t, "hidden") /\ UNCHANGED hist
         ELSE /\ ram' = CompletePut(Install(m, k, NewEntry(g, thr[t].val, TRUE, 1)), g, TRUE)
              /\ Goto(t, "reading")
              /\ hist' = [hist EXCEPT !.sunk = @ \cup {g}]
  /\ UNCHANGED <<work, disk, stop>>

(* AbortReservation of a reservation that never committed (the read failed) *)
(* and of one whose commit was canceled (its send has ended).              *)
AbortReservation(t) ==
  /\ LET k == thr[t].key
         g == thr[t].gen
         open == AllocRemove(Unpin(EraseWriting(ram, k, g), k), k)
     IN  \/ /\ At(t, "reserved")
            /\ ram' = open
         \/ /\ At(t, "hidden")
            /\ ram' = Unpin(ram, k)
  /\ Goto(t, "release")
  /\ UNCHANGED <<work, disk, stop, hist>>

(* Outside the shard mutex: give the bytes of a withdrawn value back, then  *)
(* complete its generation.                                                *)
ReleaseCharge(t) ==
  /\ At(t, "release")
  /\ ram' = CompletePut(Release(ram, thr[t].key), thr[t].gen, FALSE)
  /\ Return(t, IF thr[t].op \in {"commit", "ack"} THEN "ioerror" ELSE "declined")
  /\ UNCHANGED <<work, disk, stop, hist>>

GetPrep(t, k) ==
  /\ IF Visible(ram, k)
     THEN /\ ram' = LET m == [ram EXCEPT !.index[k].send = @ + 1]
                    IN  IF IsLarge(k) THEN m ELSE Pin(m, k)
          /\ Step(t, [pc |-> "reading", op |-> "get", key |-> k, gen |-> ram.index[k].gen,
                      val |-> ram.index[k].val])
     ELSE /\ Step(t, [pc |-> "ret", key |-> k, res |-> "miss"])
          /\ UNCHANGED ram
  /\ UNCHANGED <<work, disk, stop, hist>>

(* ReleaseToken, and AbortReservation of an installed reservation.         *)
ReleaseToken(t) ==
  /\ At(t, "reading")
  /\ LET k == thr[t].key
         m == [ram EXCEPT !.index[k].send = @ - 1]
         u == IF IsLarge(k) THEN m ELSE Unpin(m, k)
         e == u.index[k]
     IN  ram' = IF e.removePending /\ e.send = 0 /\ ~e.flushing THEN DropLocked(u, k) ELSE u
  /\ Return(t, "hit")
  /\ UNCHANGED <<work, disk, stop, hist>>

PurgeQueue(m, k) == [m EXCEPT !.flushq = SelectSeq(@, LAMBDA q : q.key # k)]

(* Remove hides an entry: no reader and no flush worker may take it again. *)
Hide(m, k) ==
  LET h == PurgeQueue([m EXCEPT !.index[k].removePending = TRUE], k)
      r == ReleaseFlushPin(h, k)
  IN  IF h.index[k].flushing THEN h
      ELSE IF h.index[k].durable THEN r ELSE CompletePut(r, h.index[k].gen, FALSE)

(* Mutant: an entry with readers is dropped as an idle one.                *)
DropUnderReaders(m, k) ==
  IF m.index[k].flushing THEN m
  ELSE DropLocked([m EXCEPT !.index[k].send = 0], k)

DropIdle(m, k) ==
  IF m.index[k].flushing \/ m.index[k].send > 0 THEN m ELSE DropLocked(m, k)

RemoveBegin(t, k) ==
  /\ \/ /\ k \in DOMAIN ram.writing
        /\ ram' = [ram EXCEPT !.comp[ram.writing[k]].canceled = TRUE]
        /\ Step(t, [pc |-> "fence", op |-> "remove", key |-> k, gen |-> ram.writing[k]])
     \/ /\ k \notin DOMAIN ram.writing /\ Visible(ram, k)
        /\ ram' = DropIdle(Hide(ram, k), k)
        /\ Step(t, [pc |-> "fence", op |-> "remove", key |-> k, gen |-> ram.index[k].gen])
     \/ /\ k \notin DOMAIN ram.writing /\ ~Visible(ram, k)
        /\ Step(t, [pc |-> "ret", op |-> "remove", key |-> k, res |-> "absent"])
        /\ UNCHANGED ram
  /\ UNCHANGED <<work, disk, stop, hist>>

(* Mutant: Remove does not wait for the generation's completion.           *)
RemoveUnfenced(t) ==
  /\ At(t, "fence")
  /\ LET k == thr[t].key
         mine == k \in DOMAIN ram.index /\ ram.index[k].gen = thr[t].gen
     IN  ram' = IF ~mine THEN ram
                ELSE DropIdle(IF ram.index[k].removePending THEN ram ELSE Hide(ram, k), k)
  /\ Return(t, "had")
  /\ hist' = [hist EXCEPT !.fenced = @ \cup {thr[t].gen}]
  /\ UNCHANGED <<work, disk, stop>>

(* The removed generation's completion is done: clean up what is left of it. *)
RemoveEnd(t) ==
  /\ At(t, "fence") /\ ram.comp[thr[t].gen].done
  /\ LET k == thr[t].key
         mine == k \in DOMAIN ram.index /\ ram.index[k].gen = thr[t].gen
     IN  ram' = IF ~mine THEN ram
                ELSE DropIdle(IF ram.index[k].removePending THEN ram ELSE Hide(ram, k), k)
  /\ Return(t, "had")
  /\ hist' = [hist EXCEPT !.fenced = @ \cup {thr[t].gen}]
  /\ UNCHANGED <<work, disk, stop>>

-----------------------------------------------------------------------------
(* Flush workers.                                                          *)

Flushable(m, k) ==
  k \in DOMAIN m.index /\ ~m.index[k].durable /\ ~m.index[k].removePending

(* The queue prefix a worker pops: up to FlushBatchMax flushable items.     *)
Popped(m) ==
  LET q == m.flushq
      taken(n) == Cardinality({i \in 1 .. n : Flushable(m, q[i].key)})
      full == {n \in 1 .. Len(q) : taken(n) = FlushBatchMax}
  IN  SubSeq(q, 1, IF full = {} THEN Len(q) ELSE Min(full))

Dequeue(w) ==
  /\ work[w].pc = "idle" /\ ram.flushq # <<>>
  /\ LET popped == Popped(ram)
         batch == SelectSeq(popped, LAMBDA q : Flushable(ram, q.key))
         own(m, q) == [m EXCEPT !.index[q.key].flushing = TRUE]
         rest == SubSeq(ram.flushq, Len(popped) + 1, Len(ram.flushq))
     IN  /\ ram' = [FoldLeft(own, ram, batch) EXCEPT !.flushq = rest]
         /\ work' = [work EXCEPT ![w] = [pc |-> "flush", batch |-> batch, ok |-> <<>>]]
  /\ UNCHANGED <<thr, disk, stop, hist>>

(* The flush sink stores one item, or fails.  The store keeps the first     *)
(* value of a key, and answers kOk for a key it already holds.             *)
Sink(w) ==
  /\ work[w].pc = "flush" /\ Len(work[w].ok) < Len(work[w].batch)
  /\ LET k == work[w].batch[Len(work[w].ok) + 1].key
         e == ram.index[k]
     IN  \/ /\ disk' = [disk EXCEPT ![k] = IF @ = None THEN e.val ELSE @]
            /\ work' = [work EXCEPT ![w].ok = Append(@, TRUE)]
            /\ hist' = [hist EXCEPT !.sunk = IF disk'[k] = e.val THEN @ \cup {e.gen} ELSE @]
         \/ /\ work' = [work EXCEPT ![w].ok = Append(@, FALSE)]
            /\ UNCHANGED <<disk, hist>>
  /\ UNCHANGED <<ram, thr, stop>>

(* Mutant: the store's answer is not looked at.                            *)
FlushAssumesOk(m, q, ok) ==
  LET k == q.key
      u == ReleaseFlushPin([m EXCEPT !.index[k].flushing = FALSE], k)
  IN  IF m.index[k].removePending THEN DropIdle(CompletePut(u, m.index[k].gen, FALSE), k)
      ELSE CompletePut([u EXCEPT !.index[k].durable = TRUE, !.dirtyBytes = @ - Cap[k],
                                 !.dirtyObjects = @ - 1], m.index[k].gen, TRUE)

(* Mutant: a failed flush is queued again as if it were new.               *)
SameTry(q) == q

NextTry(q) == [q EXCEPT !.tries = @ + 1]

FlushOne(m, q, ok) ==
  LET k == q.key
      e == m.index[k]
      u == ReleaseFlushPin([m EXCEPT !.index[k].flushing = FALSE], k)
      durable == [u EXCEPT !.index[k].durable = TRUE, !.dirtyBytes = @ - Cap[k],
                           !.dirtyObjects = @ - 1]
      retry == [m EXCEPT !.index[k].flushing = FALSE,
                         !.flushq = Append(@, NextTry(q))]
  IN  CASE e.removePending -> DropIdle(CompletePut(u, e.gen, FALSE), k)
        [] ~e.removePending /\ ok -> CompletePut(durable, e.gen, TRUE)
        [] ~e.removePending /\ ~ok /\ NextTry(q).tries < FlushRetries -> retry
        [] OTHER -> CompletePut([DropLocked(u, k) EXCEPT !.healthy = FALSE], e.gen, FALSE)

FlushDone(w) ==
  /\ work[w].pc = "flush" /\ Len(work[w].ok) = Len(work[w].batch)
  /\ LET apply(m, i) == FlushOne(m, work[w].batch[i], work[w].ok[i])
     IN  ram' = FoldLeftDomain(apply, ram, work[w].batch)
  /\ work' = [work EXCEPT ![w] = Parked]
  /\ UNCHANGED <<thr, disk, stop, hist>>

WorkerExit(w) ==
  /\ work[w].pc = "idle" /\ stop /\ ram.flushq = <<>>
  /\ work' = [work EXCEPT ![w].pc = "exited"]
  /\ UNCHANGED <<ram, thr, disk, stop, hist>>

(* The reclaimer (GROW steals and RECLAIM passes) evicts unpinned slots.   *)
ReclaimTick ==
  /\ ~stop
  /\ \E victims \in SUBSET Evictable(ram) \ {{}} : ram' = EraseEvicted(ram, victims)
  /\ UNCHANGED <<thr, work, disk, stop, hist>>

Destroy ==
  /\ ~stop /\ \A t \in Threads : At(t, "idle")
  /\ stop' = TRUE
  /\ UNCHANGED <<ram, thr, work, disk, hist>>

-----------------------------------------------------------------------------
(* The tier under direct callers.  A cold read takes its bytes from disk    *)
(* before it offers them to the tier.                                      *)

ColdRead(t, k) ==
  /\ disk[k] # None
  /\ Step(t, [pc |-> "cold", key |-> k, val |-> disk[k]])
  /\ UNCHANGED <<ram, work, disk, stop, hist>>

Call(t) ==
  \/ /\ At(t, "idle") /\ ~stop
     /\ \E k \in Keys : \/ Admit(t, k, "commit") \/ Admit(t, k, "ack")
                        \/ GetPrep(t, k) \/ RemoveBegin(t, k) \/ ColdRead(t, k)
  \/ /\ At(t, "cold")
     /\ \/ PutDurable(t, thr[t].key) \/ ReserveDurable(t, thr[t].key)
        \/ Return(t, "partial") /\ UNCHANGED <<ram, work, disk, stop, hist>>

Proceed(t) ==
  \/ LargeReserve(t) \/ Reclaim(t) \/ Retry(t) \/ NotAdmitted(t) \/ Copy(t)
  \/ WaitPut(t) \/ CommitReservation(t) \/ AbortReservation(t)
  \/ ReleaseCharge(t) \/ ReleaseToken(t) \/ RemoveEnd(t)

Answer(t) ==
  /\ At(t, "ret")
  /\ thr' = [thr EXCEPT ![t] = Idle]
  /\ UNCHANGED <<ram, work, disk, stop, hist>>

Flush(w) == Dequeue(w) \/ Sink(w) \/ FlushDone(w) \/ WorkerExit(w)

(* The store evicts or removes a key on its own.                           *)
DiskForget ==
  /\ \E k \in Keys : disk[k] # None /\ disk' = [disk EXCEPT ![k] = None]
  /\ UNCHANGED <<ram, thr, work, stop, hist>>

Terminated ==
  /\ \A w \in Workers : work[w].pc = "exited"
  /\ UNCHANGED vars

Next ==
  \/ \E t \in Threads : Call(t) \/ Proceed(t) \/ Answer(t)
  \/ \E w \in Workers : Flush(w)
  \/ ReclaimTick \/ Destroy \/ DiskForget \/ Terminated

Spec == Init /\ [][Next]_vars

-----------------------------------------------------------------------------
(* Properties.                                                             *)

EntryType ==
  [gen : Gens, val : Gens, send : Nat, durable : BOOLEAN, flushing : BOOLEAN,
   flushPin : BOOLEAN, removePending : BOOLEAN]

(* Every map of the shard holds keys, and every counter stays a natural     *)
(* number: no fetch_sub of the code wraps below zero.                      *)
TypeOK ==
  /\ DOMAIN ram.index \subseteq Keys /\ DOMAIN ram.writing \subseteq Keys
  /\ \A k \in DOMAIN ram.index : ram.index[k] \in EntryType
  /\ \A k \in DOMAIN ram.slot :
       k \in Keys /\ ram.slot[k] \in [refs : Nat, removePending : BOOLEAN]
  /\ \A k \in DOMAIN ram.writing : ram.writing[k] \in DOMAIN ram.comp
  /\ {ram.budget, ram.large, ram.dirtyBytes, ram.dirtyObjects} \subseteq Nat
  /\ disk \in [Keys -> Gens \cup {None}] /\ stop \in BOOLEAN

(* Threads that hold a pinned slot, or charged bytes, outside the index.   *)
Placing(k) == {t \in Threads : thr[t].key = k /\ thr[t].pc \in {"copy", "reserved", "hidden"}}
Charging(k) ==
  Placing(k) \cup {t \in Threads : thr[t].key = k /\ At(t, "release")}
One(b) == IF b THEN 1 ELSE 0

(* The allocator pin count of an arena slot is exactly its flush pin, its   *)
(* send pins and the reservations being filled: the slot of a value that    *)
(* is being copied, flushed or sent is never evictable, and an idle durable *)
(* one always is (Admit, PutDurable, FlushLoop, GetPrep, Remove).          *)
PinsMatchHolders ==
  \A k \in Keys : ~IsLarge(k) =>
    LET holders == Cardinality(Placing(k))
        entry == IF k \in DOMAIN ram.index
                 THEN One(ram.index[k].flushPin) + ram.index[k].send ELSE 0
    IN  IF k \in DOMAIN ram.slot
        THEN ram.slot[k].refs = holders + entry
        ELSE holders = 0 /\ k \notin DOMAIN ram.index

(* The tier's byte budget is charged exactly for what is resident or being  *)
(* placed, so the resident sum never exceeds opt_.bytes, and dedicated      *)
(* values never exceed their reserve (TryReserve, ReleaseBudget).          *)
BudgetIsExact ==
  LET charged(S) == SumCap(DOMAIN ram.index \cap S)
                    + FoldSet(LAMBDA k, n : Cap[k] * Cardinality(Charging(k)) + n, 0, S)
      large == {k \in Keys : IsLarge(k)}
  IN  /\ ram.budget = charged(Keys) /\ ram.budget <= Bytes
      /\ ram.large = charged(large) /\ ram.large <= LargeBudget

(* The dirty gauges that WaitForDrain and the acknowledgement watermark     *)
(* read are exactly the entries not yet durable.                           *)
DirtyIsExact ==
  LET dirty == {k \in DOMAIN ram.index : ~ram.index[k].durable}
  IN  ram.dirtyBytes = SumCap(dirty) /\ ram.dirtyObjects = Cardinality(dirty)

(* A completion reports success only when its own bytes reached the store   *)
(* (PutCommitted answers kOk after the flush commits; a duplicate joins     *)
(* that result).                                                           *)
SuccessIsOnDisk ==
  \A g \in DOMAIN ram.comp : ram.comp[g].success => g \in hist.sunk

(* Once Remove has waited out a generation, that generation is never        *)
(* visible again and no worker still has to write it (Remove, FlushLoop).   *)
FencedStaysGone ==
  /\ \A k \in DOMAIN ram.index : ram.index[k].gen \in hist.fenced => ~Visible(ram, k)
  /\ \A w \in Workers : \A i \in DOMAIN work[w].batch :
       i > Len(work[w].ok) => ram.index[work[w].batch[i].key].gen \notin hist.fenced

(* The entry behind a send token stays in the index with the bytes the      *)
(* reader was given until the token is released (GetPrep, ReleaseToken).   *)
ReaderKeepsItsBytes ==
  \A t \in Threads : At(t, "reading") =>
    /\ thr[t].key \in DOMAIN ram.index
    /\ ram.index[thr[t].key].gen = thr[t].gen /\ ram.index[thr[t].key].val = thr[t].val
    /\ ram.index[thr[t].key].send > 0

(* The tier's counters, which admission, eviction and shutdown go by, are    *)
(* right together: budgets, dirty objects, pins.                            *)
CountersAreExact == TypeOK /\ BudgetIsExact /\ DirtyIsExact /\ PinsMatchHolders

(* After the destructor's workers have exited nothing dirty is left behind  *)
(* in memory: each admitted value was flushed, removed or given up as a     *)
(* terminal failure.                                                       *)
DrainedAtExit ==
  (\A w \in Workers : work[w].pc = "exited") => ram.dirtyObjects = 0 /\ ram.flushq = <<>>

(* What was acknowledged is kept: a success answer is on disk, and the      *)
(* destructor leaves nothing unflushed (PutCommitted, WriterLoop).          *)
DurabilityIsKept == SuccessIsOnDisk /\ DrainedAtExit

(* A value that is visible and not yet durable leaves the index only by a   *)
(* Remove of its key or by exhausting its flush retries; capacity eviction  *)
(* and the reclaimer never take it.                                        *)
DirtyNeverEvicted ==
  [][\A k \in DOMAIN ram.index :
       Visible(ram, k) /\ ~ram.index[k].durable /\ k \notin DOMAIN ram'.index =>
         \/ ~ram'.healthy
         \/ \E t \in Threads : thr'[t] # thr[t] /\ thr'[t].op = "remove" /\ thr'[t].key = k]_vars

=============================================================================
