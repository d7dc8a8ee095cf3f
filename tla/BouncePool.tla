----------------------------- MODULE BouncePool -----------------------------
(***************************************************************************)
(* Publishing a fetched value into GPU memory (cuda_ipc.cc): threads copy  *)
(* their staging bytes chunk by chunk through pinned slots of one pool     *)
(* that the whole process shares, each on a stream of its own, and the     *)
(* pool's destructor tears it down at exit while they may still run.       *)
(*                                                                         *)
(* CUDA is external: any driver call may fail, MaxFaults times in all.  A  *)
(* copy whose enqueue failed may have reached the device, and a failed     *)
(* cuCtxSetCurrent may or may not have switched.  What the device may      *)
(* still be reading is kept in dma.  Bytes, devices other than the         *)
(* destination's and fork are left out.                                    *)
(***************************************************************************)
EXTENDS Integers, FiniteSets

CONSTANTS
  Publishers,    \* threads, one publication each
  PoolSlots,     \* max_slots_: slots are 1..PoolSlots
  MaxCopies,     \* Copy calls of a publication
  ChunksPerCopy, \* slots one Copy goes through
  MaxFaults      \* driver calls that fail

ASSUME BounceAssumption ==
  IsFiniteSet(Publishers) /\ PoolSlots \in Nat /\ ChunksPerCopy \in Nat

SlotIds == 1..PoolSlots
NoSlot == 0

VARIABLES
  bounce,   \* the pool: see BouncePoolInit
  pub,      \* each thread's DestinationPublisher and where it is
  dma,      \* slots the device may still be reading
  freed,    \* slots whose memory teardown gave back
  driverFaults   \* driver failures so far

bounceVars == <<bounce, pub, dma, freed, driverFaults>>

\* A driver call that fails, and one that does not.
DriverFails == driverFaults < MaxFaults /\ driverFaults' = driverFaults + 1
DriverWorks == driverFaults' = driverFaults

BouncePoolInit ==
  /\ bounce = [slot |-> [i \in SlotIds |-> [data |-> FALSE, allocating |-> FALSE,
                                            inUse |-> FALSE, poisoned |-> FALSE]],
               allocated |-> 0, allocs |-> 0, active |-> 0,
               disabled |-> FALSE, down |-> FALSE]
  /\ \E home \in [Publishers -> {"app", "device"}] :
       pub = [t \in Publishers |->
                [pc |-> "idle", home |-> home[t], cur |-> home[t], stream |-> FALSE,
                 retained |-> FALSE, refs |-> 0, restore |-> FALSE, failed |-> FALSE,
                 finished |-> FALSE, copies |-> 0, left |-> 0,
                 slot |-> NoSlot]]
  /\ dma = {} /\ freed = {} /\ driverFaults = 0

(* -------------------------------- the pool ------------------------------ *)

\* notify_all: every waiting thread looks again.
NotifiedAll(p) ==
  [t \in Publishers |-> [p[t] EXCEPT !.pc = IF @ = "wait" THEN "acquire" ELSE @]]

UsableSlot ==
  {i \in SlotIds : bounce.slot[i].data /\ ~bounce.slot[i].inUse /\ ~bounce.slot[i].poisoned}
Vacant == {i \in SlotIds : ~bounce.slot[i].data /\ ~bounce.slot[i].allocating}
First(S) == {i \in S : \A j \in S : i <= j}
MayAllocate == ~bounce.disabled /\ bounce.allocated + bounce.allocs < PoolSlots

\* Whether waiting can end: a slot is being allocated, or one in use comes back.
CanEventuallyAcquire(b) ==
  b.allocs # 0 \/ \E i \in SlotIds : b.slot[i].data /\ b.slot[i].inUse /\ ~b.slot[i].poisoned

\* One pass of Acquire's loop, under the lock.
AcquireStep(t) ==
  /\ pub[t].pc = "acquire"
  /\ IF bounce.down
     THEN pub' = [pub EXCEPT ![t].pc = "refused"] /\ bounce' = bounce
     ELSE IF First(UsableSlot) # {}
     THEN \E i \in First(UsableSlot) :
            /\ bounce' = [bounce EXCEPT !.slot[i].inUse = TRUE, !.active = @ + 1]
            /\ pub' = [pub EXCEPT ![t].pc = "copy", ![t].slot = i]
     ELSE IF MayAllocate /\ First(Vacant) # {}
     THEN \E i \in First(Vacant) :
            /\ bounce' = [bounce EXCEPT !.slot[i].allocating = TRUE, !.allocs = @ + 1]
            /\ pub' = [pub EXCEPT ![t].pc = "alloc", ![t].slot = i]
     ELSE /\ pub' = [pub EXCEPT ![t].pc = IF CanEventuallyAcquire(bounce) THEN "wait"
                                          ELSE "refused"]
          /\ bounce' = bounce
  /\ UNCHANGED <<dma, freed, driverFaults>>

\* The pinned memory was allocated outside the lock; the slot becomes this
\* thread's lease.
AllocateDone(t) ==
  /\ pub[t].pc = "alloc" /\ ~bounce.down
  /\ LET i == pub[t].slot
         s == [bounce.slot[i] EXCEPT !.allocating = FALSE, !.data = TRUE, !.inUse = TRUE]
     IN bounce' = [bounce EXCEPT !.slot[i] = s, !.allocs = @ - 1, !.allocated = @ + 1,
                                 !.active = @ + 1]
  /\ pub' = NotifiedAll([pub EXCEPT ![t].pc = "copy"])
  /\ UNCHANGED <<dma, freed, driverFaults>>

\* A failed allocation ends all allocating; the thread then waits for others'
\* slots without looking at the free ones again.
AllocateFails(t) ==
  /\ pub[t].pc = "alloc" /\ ~bounce.down /\ DriverFails
  /\ LET b == [bounce EXCEPT !.slot[pub[t].slot].allocating = FALSE,
                             !.allocs = @ - 1, !.disabled = TRUE]
     IN /\ bounce' = b
        /\ pub' = [NotifiedAll(pub) EXCEPT ![t].slot = NoSlot,
                                     ![t].pc = IF CanEventuallyAcquire(b) THEN "wait"
                                               ELSE "refused"]
  /\ UNCHANGED <<dma, freed>>

\* The pool went down meanwhile: the new memory is given back outside the
\* lock, and only then does the allocation stop counting.
AllocateAborts(t) ==
  /\ pub[t].pc = "alloc" /\ bounce.down
  /\ bounce' = [bounce EXCEPT !.slot[pub[t].slot].allocating = FALSE]
  /\ pub' = [pub EXCEPT ![t].pc = "aborting"]
  /\ UNCHANGED <<dma, freed, driverFaults>>
AllocateAborted(t) ==
  /\ pub[t].pc = "aborting"
  /\ bounce' = [bounce EXCEPT !.allocs = @ - 1]
  /\ pub' = NotifiedAll([pub EXCEPT ![t].pc = "refused", ![t].slot = NoSlot])
  /\ UNCHANGED <<dma, freed, driverFaults>>

\* Mutant: a slot whose copy may still run is given back as clean.
ReleaseSlotReusable(i, reusable, p) ==
  /\ bounce' = [bounce EXCEPT !.slot[i].inUse = FALSE, !.active = @ - 1]
  /\ pub' = NotifiedAll(p)

\* The pool and the threads after thread t, now p, gave its slot back.
ReleaseSlot(i, reusable, p) ==
  /\ LET s == [bounce.slot[i] EXCEPT !.inUse = FALSE, !.poisoned = @ \/ ~reusable]
     IN bounce' = [bounce EXCEPT !.slot[i] = s, !.active = @ - 1]
  /\ pub' = NotifiedAll(p)

\* ~PinnedBouncePool: no new leases; wait for those out and for allocations;
\* free what is not poisoned.
TeardownBegin ==
  /\ ~bounce.down
  /\ bounce' = [bounce EXCEPT !.down = TRUE]
  /\ pub' = NotifiedAll(pub)
  /\ UNCHANGED <<dma, freed, driverFaults>>
TeardownFree ==
  /\ bounce.down /\ bounce.active = 0 /\ bounce.allocs = 0 /\ freed = {}
  /\ freed' = {i \in SlotIds : bounce.slot[i].data /\ ~bounce.slot[i].poisoned}
  /\ freed' # {}
  /\ UNCHANGED <<bounce, pub, dma, driverFaults>>

(* ------------------------- one chunk of one copy ------------------------ *)

EnqueueCopy(t) ==
  /\ pub[t].pc = "copy" /\ DriverWorks
  /\ dma' = dma \cup {pub[t].slot}
  /\ pub' = [pub EXCEPT ![t].pc = "sync"]
  /\ UNCHANGED <<bounce, freed>>
EnqueueFails(t) ==
  /\ pub[t].pc = "copy" /\ DriverFails
  /\ dma' \in {dma, dma \cup {pub[t].slot}}
  /\ pub' = [pub EXCEPT ![t].pc = "recover"]
  /\ UNCHANGED <<bounce, freed>>

\* The stream is fenced and the slot goes back, reusable only if the fence held.
Fenced(t) ==
  /\ pub[t].pc \in {"sync", "recover"} /\ DriverWorks
  /\ dma' = dma \ {pub[t].slot}
  /\ LET done == pub[t].pc = "sync"
         left == pub[t].left - 1
     IN ReleaseSlot(pub[t].slot, TRUE,
                [pub EXCEPT ![t].slot = NoSlot,
                            ![t].left = IF done THEN left ELSE @,
                            ![t].pc = IF ~done THEN "refused"
                                      ELSE IF left = 0 THEN "copied" ELSE "acquire"])
  /\ UNCHANGED freed
FenceFails(t) ==
  /\ pub[t].pc \in {"sync", "recover"} /\ DriverFails
  /\ ReleaseSlot(pub[t].slot, FALSE, [pub EXCEPT ![t].slot = NoSlot, ![t].pc = "refused"])
  /\ UNCHANGED <<dma, freed>>

(* ---------------------------- a publication ----------------------------- *)

\* cuCtxSetCurrent: what it returns, the context after it, failures it costs.
SetCurrent(cur, target) ==
  {[ok |-> TRUE, cur |-> target, f |-> 0]} \cup
  {[ok |-> FALSE, cur |-> c, f |-> 1] : c \in {cur, target}}

\* Going back to context c after a step that may have left it.
GoBack(c) == UNION {SetCurrent(d, c) : d \in {c, "device"}}

\* The publisher takes a step that leads to one of the results R.
PublisherStep(t, R) ==
  \E r \in R : /\ driverFaults + r.f <= MaxFaults
               /\ driverFaults' = driverFaults + r.f
               /\ pub' = [pub EXCEPT ![t] = r.p]
               /\ UNCHANGED <<bounce, dma, freed>>

\* The first Copy binds a context of the destination's device and makes the
\* stream, or undoes what it did and fails.
Opened(p) ==
  LET ready == [p EXCEPT !.stream = TRUE, !.pc = "acquire", !.copies = @ + 1,
                         !.left = ChunksPerCopy]
      lost == [p EXCEPT !.failed = TRUE]
  IN {[p |-> lost, f |-> 1]} \cup
     IF p.cur = "device" THEN {[p |-> ready, f |-> 0]}
     ELSE {[p |-> [ready EXCEPT !.retained = TRUE, !.refs = @ + 1, !.cur = "device"],
            f |-> 0]} \cup
          {[p |-> [lost EXCEPT !.cur = b.cur], f |-> 1 + b.f] : b \in GoBack(p.cur)}

\* A later Copy switches to the stream's context.
Reentered(p) ==
  LET ready == [p EXCEPT !.cur = "device", !.pc = "acquire", !.copies = @ + 1,
                         !.left = ChunksPerCopy]
  IN {[p |-> ready, f |-> 0], [p |-> [p EXCEPT !.failed = TRUE], f |-> 1]} \cup
     IF p.cur = "device" THEN {}
     ELSE {[p |-> [p EXCEPT !.failed = TRUE, !.cur = b.cur, !.restore = ~b.ok],
            f |-> 1 + b.f] : b \in GoBack(p.cur)}

CopyBegin(t) ==
  /\ pub[t].pc = "idle" /\ ~pub[t].finished /\ ~pub[t].failed
  /\ pub[t].copies < MaxCopies
  /\ PublisherStep(t, IF pub[t].stream THEN Reentered(pub[t]) ELSE Opened(pub[t]))

\* Copy gives the caller its context back; if it cannot, Finish will try.
Returned(p) ==
  LET back == IF p.home = "device" THEN {[ok |-> TRUE, cur |-> p.cur, f |-> 0]}
              ELSE SetCurrent(p.cur, p.home)
  IN {[p |-> [p EXCEPT !.pc = "idle", !.cur = b.cur, !.restore = ~b.ok,
                       !.failed = @ \/ p.pc = "refused" \/ ~b.ok], f |-> b.f] : b \in back}

CopyReturn(t) == pub[t].pc \in {"copied", "refused"} /\ PublisherStep(t, Returned(pub[t]))

\* Finish enters the stream's context, and later leaves it again if it must.
EnterContext(p) ==
  {[cur |-> p.cur, switched |-> FALSE, f |-> 1]} \cup
  IF p.cur = "device" THEN {[cur |-> p.cur, switched |-> FALSE, f |-> 0]}
  ELSE {[cur |-> s.cur, switched |-> s.ok, f |-> s.f] : s \in SetCurrent(p.cur, "device")}
LeaveContext(p, e) ==
  IF p.restore \/ e.switched THEN SetCurrent(e.cur, p.home)
  ELSE {[ok |-> TRUE, cur |-> e.cur, f |-> 0]}

\* Finish fences the stream, destroys it, restores the context and drops the
\* retained one.
FinishedAs(p, e, sync, b) ==
  LET n == e.f + sync + b.f
  IN [p |-> [p EXCEPT !.finished = TRUE, !.stream = FALSE, !.cur = b.cur,
                      !.refs = @ - (IF p.retained THEN 1 ELSE 0), !.failed = @ \/ n > 0],
      f |-> n]
Finished(p) ==
  UNION {{FinishedAs(p, e, sync, b) : b \in LeaveContext(p, e), sync \in 0..1} :
         e \in EnterContext(p)}

PublisherFinish(t) ==
  /\ pub[t].pc = "idle" /\ ~pub[t].finished
  /\ PublisherStep(t, IF pub[t].stream THEN Finished(pub[t])
                      ELSE {[p |-> [pub[t] EXCEPT !.finished = TRUE], f |-> 0]})

PublisherRuns(t) ==
  \/ AcquireStep(t) \/ AllocateDone(t) \/ AllocateFails(t)
  \/ AllocateAborts(t) \/ AllocateAborted(t)
  \/ EnqueueCopy(t) \/ EnqueueFails(t) \/ Fenced(t) \/ FenceFails(t)
  \/ CopyReturn(t)

BouncePoolNext ==
  \/ \E t \in Publishers : PublisherRuns(t) \/ CopyBegin(t) \/ PublisherFinish(t)
  \/ TeardownBegin \/ TeardownFree

BouncePoolSpec == BouncePoolInit /\ [][BouncePoolNext]_bounceVars

(* ------------------------------ properties ------------------------------ *)

Leasing == {t \in Publishers : pub[t].pc \in {"copy", "sync", "recover"}}
SlotHolders(i) == {t \in Leasing : pub[t].slot = i}

\* A slot the device may still be reading is neither handed to another thread
\* nor freed: it is its one holder's, or poisoned for good.
SlotsAreFenced ==
  \A i \in SlotIds :
    /\ bounce.slot[i].inUse <=> Cardinality(SlotHolders(i)) = 1
    /\ Cardinality(SlotHolders(i)) <= 1
    /\ i \in dma => (bounce.slot[i].inUse \/ bounce.slot[i].poisoned)
    /\ i \in freed => (i \notin dma /\ ~bounce.slot[i].inUse)

\* Whoever waits for a slot, the destructor included, waits for a thread that
\* will give one up and wake it; no order of poisoned slots, failed allocations
\* and teardown leaves everyone waiting.
WaitersAreWoken ==
  /\ bounce.active = Cardinality(Leasing)
  /\ bounce.allocs = Cardinality({t \in Publishers : pub[t].pc \in {"alloc", "aborting"}})
  /\ (\E t \in Publishers : pub[t].pc = "wait") => bounce.active + bounce.allocs > 0

\* A publisher never lends its context to the caller and never reports bytes it
\* did not deliver: back with the caller the context is the caller's, or the
\* publication has failed; a finished one holds no retained context.
PublicationIsClean ==
  \A t \in Publishers :
    LET p == pub[t]
    IN /\ p.pc = "idle" => (p.failed \/ (p.cur = p.home /\ p.left = 0))
       /\ p.finished => p.refs = 0
       /\ ~p.finished => p.refs = (IF p.retained THEN 1 ELSE 0)

\* Publishing through the shared pool is safe for the device, for the threads
\* that wait and for the caller's CUDA context.
PublishIsSafe == SlotsAreFenced /\ WaitersAreWoken /\ PublicationIsClean
=============================================================================
