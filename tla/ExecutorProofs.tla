--------------------------- MODULE ExecutorProofs ---------------------------
(***************************************************************************)
(* Proofs about work that is handed to others to carry out.  The records   *)
(* that go to the writer of the client's per-node log (PernodeSink) are    *)
(* written or counted as dropped.  The items of a parallel loop of the     *)
(* client (ParallelExecutor), for any number of callers, items and         *)
(* threads, are each carried out exactly once, before the call returns.    *)
(* The server's ring (UringReader), for every depth and size of a read:    *)
(* what the kernel has is counted and in a slot of its own, and a read is  *)
(* answered at most once, through every failure up to the destructor.      *)
(***************************************************************************)
EXTENDS PernodeSink, ParallelExecutor, UringReader, FiniteSetTheorems, TLAPS

-----------------------------------------------------------------------------
(* The log writer.                                                         *)

SinkType ==
  /\ sinkQueue \in Seq(BatchBytes)
  /\ droppedPending \in Nat /\ droppedTotal \in Nat /\ reported \in Nat
  /\ fileBytes \in Nat /\ enqueues \in Nat
  /\ writing \in [what : {"nothing", "batch", "written", "flush"}, bytes : Nat, before : Nat]

\* The drops a batch reports are still pending until Account takes them off:
\* the counter, unsigned in the code, never goes below zero.
PendingCoversBatch ==
  writing.what \in {"batch", "written"} => writing.before <= droppedPending

SinkInv == SinkType /\ PendingCoversBatch /\ DropsAreAccounted

\* A line, cut or in a new file if need be, leaves the file within its limit.
LEMMA AfterFits ==
  ASSUME NEW len \in Nat, len <= RotateBytes, NEW b \in Nat
  PROVE  After(len, b) \in Nat /\ After(len, b) <= RotateBytes
  BY PernodeSinkAssumption DEF After, Shortened

LEMMA SinkInit == PernodeSinkInit => SinkInv
  BY PernodeSinkAssumption
  DEF PernodeSinkInit, NotWriting, SinkInv, SinkType, PendingCoversBatch, DropsAreAccounted

LEMMA SinkStep == SinkInv /\ [PernodeSinkNext]_sinkVars => SinkInv'
  <1> SUFFICES ASSUME SinkInv, [PernodeSinkNext]_sinkVars PROVE SinkInv'
    BY Zenon
  <1> USE PernodeSinkAssumption
      DEF SinkInv, SinkType, PendingCoversBatch, DropsAreAccounted, NotWriting
  <1>1. ASSUME NEW b \in BatchBytes, Enqueue(b) PROVE SinkInv'
    <2>1. sinkQueue' \in Seq(BatchBytes)
      BY SMTT(30), <1>1 DEF Enqueue
    <2>2. CASE Len(sinkQueue) >= Capacity
      BY SMTT(30), <1>1, <2>1, <2>2 DEF Enqueue
    <2>3. CASE ~(Len(sinkQueue) >= Capacity)
      BY <1>1, <2>1, <2>3 DEF Enqueue
    <2> QED BY Zenon, <2>2, <2>3
  <1>2. CASE Drain \/ Drained \/ StopSink \/ EndSink \/ Flush
    BY SMTT(30), <1>2 DEF Drain, Drained, StopSink, EndSink, Flush
  <1>3. CASE TakeBatch
    <2>1. Head(sinkQueue) \in Nat /\ Tail(sinkQueue) \in Seq(BatchBytes)
      <3>1. sinkQueue \in Seq(BatchBytes) /\ Len(sinkQueue) > 0
        BY <1>3 DEF TakeBatch
      <3>2. Head(sinkQueue) \in BatchBytes /\ Tail(sinkQueue) \in Seq(BatchBytes)
        BY <3>1
      <3> QED BY Zenon, <3>2, PernodeSinkAssumption
    <2> QED BY <1>3, <2>1 DEF TakeBatch
  <1>4. CASE TakeFlush
    BY Zenon, <1>4 DEF TakeFlush
  <1>5. CASE WriteBatch
    <2>1. fileBytes' \in Nat /\ fileBytes' <= RotateBytes
      BY Zenon, <1>5, AfterFits DEF WriteBatch
    <2>2. writing' = [what |-> "written", bytes |-> writing.bytes, before |-> writing.before]
      BY Zenon, <1>5 DEF WriteBatch
    <2>3. reported' = reported + writing.before /\ UNCHANGED <<droppedPending, droppedTotal>>
      BY Zenon, <1>5 DEF WriteBatch
    <2>4. UNCHANGED <<sinkQueue, enqueues>>
      BY Zenon, <1>5 DEF WriteBatch
    <2>5. writing.what = "batch"
      BY Zenon, <1>5 DEF WriteBatch
    <2> QED BY SMTT(30), <2>1, <2>2, <2>3, <2>4, <2>5
  <1>6. CASE Account
    BY SMTT(30), <1>6 DEF Account
  <1>7. CASE UNCHANGED sinkVars
    BY Zenon, <1>7 DEF sinkVars
  <1> QED
    BY Zenon, <1>1, <1>2, <1>3, <1>4, <1>5, <1>6, <1>7 DEF PernodeSinkNext

(* For every capacity, limit and set of batch sizes: the drops the file was *)
(* told of and those still pending add up to all drops, and the file never  *)
(* outgrows its limit (Enqueue, Run and write_line of PernodeSink).         *)
THEOREM DropsStayAccounted == PernodeSinkSpec => []DropsAreAccounted
  <1>1. SinkInv => DropsAreAccounted
    BY Zenon DEF SinkInv
  <1> QED BY <1>1, SinkInit, SinkStep, PTL DEF PernodeSinkSpec

-----------------------------------------------------------------------------
(* Parallel loops.                                                         *)

LoopStates == [pc : {"start", "ensure", "serial", "next", "item", "wait", "returned"},
               next : Nat, done : Nat, i : Nat]
HelperStates == [pc : {"absent", "idle", "next", "item", "count"},
                 job : Loops \cup {NoLoop}, i : Nat]

ExecType ==
  /\ helpQueue \in Seq(Loops)
  /\ loop \in [Loops -> LoopStates] /\ helper \in [Helpers -> HelperStates]
  /\ \A h \in Helpers : helper[h].pc \in {"next", "item", "count"} => helper[h].job \in Loops
  /\ DOMAIN itemRuns = Loops
  /\ \A l \in Loops : itemRuns[l] \in [0..(Items[l] - 1) -> Nat]

CallerHolds(l, i) == loop[l].pc = "item" /\ loop[l].i = i
HelperHolds(h, l, i) ==
  helper[h].pc \in {"item", "count"} /\ helper[h].job = l /\ helper[h].i = i
HelperRuns(h, l, i) == helper[h].pc = "item" /\ helper[h].job = l /\ helper[h].i = i

\* A drawn index is an item, below the next one to be drawn, and belongs to
\* one thread.
DrawnOnce ==
  /\ \A l \in Loops : loop[l].pc = "item" => loop[l].i < Items[l] /\ loop[l].i < loop[l].next
  /\ \A h \in Helpers : \A l \in Loops, i \in Nat :
       HelperHolds(h, l, i) =>
         /\ i < Items[l] /\ i < loop[l].next
         /\ ~CallerHolds(l, i)
         /\ \A g \in Helpers : HelperHolds(g, l, i) => g = h

\* The items that were executed and counted.
Counted(l) ==
  {i \in 0..(Items[l] - 1) : /\ i < loop[l].next /\ ~CallerHolds(l, i)
                             /\ \A h \in Helpers : ~HelperHolds(h, l, i)}

\* No helper knows the job.
Unshared(l) ==
  /\ \A n \in 1..Len(helpQueue) : helpQueue[n] # l
  /\ \A h \in Helpers : helper[h].pc \in {"next", "item", "count"} => helper[h].job # l

Unstarted(l) ==
  loop[l].pc \in {"start", "serial"} =>
    /\ Unshared(l) /\ loop[l].next = 0 /\ loop[l].done = 0
    /\ \A i \in 0..(Items[l] - 1) : itemRuns[l][i] = 0

Shared(l) ==
  loop[l].pc \in {"ensure", "next", "item", "wait"} =>
    /\ loop[l].done = Cardinality(Counted(l))
    /\ \A i \in 0..(Items[l] - 1) :
         itemRuns[l][i] =
           IF i < loop[l].next /\ ~CallerHolds(l, i) /\ \A h \in Helpers : ~HelperRuns(h, l, i)
           THEN 1 ELSE 0
    /\ loop[l].pc = "wait" => Items[l] <= loop[l].next

Returned(l) ==
  loop[l].pc = "returned" =>
    /\ \A i \in 0..(Items[l] - 1) : itemRuns[l][i] = 1
    /\ \A h \in Helpers, i \in Nat : ~HelperHolds(h, l, i)
    /\ Unshared(l) \/ Items[l] <= loop[l].next

(* What appending one queue to another gives. *)
LEMMA AppendedQueues ==
  ASSUME NEW S, NEW q \in Seq(S), NEW c \in Seq(S)
  PROVE  /\ q \o c \in Seq(S) /\ Len(q \o c) = Len(q) + Len(c)
         /\ \A i \in 1..(Len(q) + Len(c)) :
              (q \o c)[i] = IF i <= Len(q) THEN q[i] ELSE c[i - Len(q)]
  OBVIOUS

ExecInv ==
  /\ ExecType /\ DrawnOnce
  /\ \A l \in Loops : Unstarted(l) /\ Shared(l) /\ Returned(l)

LEMMA ExecInit == ParallelExecutorInit => ExecInv
  <1> SUFFICES ASSUME ParallelExecutorInit PROVE ExecInv
    BY Zenon
  <1> USE ParallelExecutorAssumption DEF ParallelExecutorInit, Worker0
  <1>1. ExecType
    BY DEF ExecType, LoopStates, HelperStates
  <1>2. DrawnOnce
    BY Zenon DEF DrawnOnce, HelperHolds, CallerHolds
  <1>3. ASSUME NEW l \in Loops PROVE Unstarted(l) /\ Shared(l) /\ Returned(l)
    BY DEF Unstarted, Shared, Returned, Unshared
  <1> QED BY Zenon, <1>1, <1>2, <1>3 DEF ExecInv

LEMMA CountedType ==
  ASSUME NEW l \in Loops, Items[l] \in Nat
  PROVE  /\ IsFiniteSet(Counted(l)) /\ Cardinality(Counted(l)) \in Nat
         /\ Cardinality(Counted(l)) = Items[l] => Counted(l) = 0..(Items[l] - 1)
  <1>1. IsFiniteSet(0..(Items[l] - 1)) /\ Cardinality(0..(Items[l] - 1)) = Items[l]
    BY SMTT(30), FS_Interval
  <1>2. Counted(l) \in SUBSET (0..(Items[l] - 1))
    BY Zenon DEF Counted
  <1> QED BY Zenon, <1>1, <1>2, FS_Subset, FS_CardinalityType

\* A step that does not concern a loop preserves what the invariant says of it.
LEMMA LoopFrame ==
  ASSUME NEW m \in Loops, Items[m] \in Nat,
         Unstarted(m), Shared(m), Returned(m),
         loop'[m] = loop[m], itemRuns'[m] = itemRuns[m],
         \A h \in Helpers, i \in Nat : /\ HelperHolds(h, m, i)' <=> HelperHolds(h, m, i)
                                       /\ HelperRuns(h, m, i)' <=> HelperRuns(h, m, i),
         Unshared(m) => Unshared(m)'
  PROVE  Unstarted(m)' /\ Shared(m)' /\ Returned(m)'
  <1>1. \A i \in Nat : CallerHolds(m, i)' <=> CallerHolds(m, i)
    BY Zenon DEF CallerHolds
  <1>2. Counted(m)' = Counted(m)
    BY <1>1 DEF Counted
  <1>3. Unstarted(m)'
    BY Zenon DEF Unstarted
  <1>4. Shared(m)'
    BY <1>1, <1>2 DEF Shared
  <1>5. Returned(m)'
    BY Zenon DEF Returned
  <1> QED BY Zenon, <1>3, <1>4, <1>5

\* A step after which no thread holds an index it did not hold before.
LEMMA DrawnFrame ==
  ASSUME ExecType, DrawnOnce, ExecType',
         \A m \in Loops : loop'[m].next >= loop[m].next,
         \A m \in Loops : loop'[m].pc = "item" => loop[m].pc = "item" /\ loop'[m].i = loop[m].i,
         \A h \in Helpers, m \in Loops, i \in Nat : HelperHolds(h, m, i)' => HelperHolds(h, m, i)
  PROVE  DrawnOnce'
  <1> USE ParallelExecutorAssumption
  <1>1. \A m \in Loops, i \in Nat : CallerHolds(m, i)' => CallerHolds(m, i)
    BY Zenon DEF CallerHolds
  <1>2. \A m \in Loops : loop[m].next \in Nat /\ loop'[m].next \in Nat /\ loop[m].i \in Nat
    BY Zenon DEF ExecType, LoopStates
  <1>3. ASSUME NEW m \in Loops, loop'[m].pc = "item"
        PROVE  loop'[m].i < Items[m] /\ loop'[m].i < loop'[m].next
    BY <1>2, <1>3 DEF DrawnOnce
  <1>4. ASSUME NEW h \in Helpers, NEW m \in Loops, NEW i \in Nat, HelperHolds(h, m, i)'
        PROVE  /\ i < Items[m] /\ i < loop'[m].next /\ ~CallerHolds(m, i)'
               /\ \A g \in Helpers : HelperHolds(g, m, i)' => g = h
    BY <1>1, <1>2, <1>4 DEF DrawnOnce
  <1> QED BY Zenon, <1>3, <1>4 DEF DrawnOnce

LEMMA RunLoopStep ==
  ASSUME ExecInv, NEW l \in Loops, RunLoop(l)
  PROVE  ExecInv'
  <1> USE ParallelExecutorAssumption DEF ExecInv
  <1>1. UNCHANGED <<helper, itemRuns>> /\ loop[l].pc = "start"
    BY Zenon DEF RunLoop
  <1>2. /\ DOMAIN loop' = Loops /\ \A m \in Loops \ {l} : loop'[m] = loop[m]
        /\ loop'[l].next = loop[l].next /\ loop'[l].done = loop[l].done
        /\ loop'[l].pc \in {"returned", "serial", "ensure"}
    BY DEF RunLoop, ExecType, LoopStates
  <1>3. Width(l) \in Nat
    BY Zenon, FS_CardinalityType DEF Width
  <1>4. helpQueue' \in Seq(Loops) /\ \A m \in Loops \ {l} : Unshared(m) => Unshared(m)'
    <2>1. CASE helpQueue' = helpQueue
      BY Zenon, <1>1, <2>1 DEF ExecType, Unshared
    <2>2. CASE Width(l) > 1 /\ helpQueue' = helpQueue \o [n \in 1..(Width(l) - 1) |-> l]
      <3> DEFINE copies == [n \in 1..(Width(l) - 1) |-> l]
      <3>1. copies \in Seq(Loops) /\ Len(copies) = Width(l) - 1
        <4>1. Width(l) - 1 \in Nat
          BY <1>3, <2>2
        <4>2. copies \in [1..(Width(l) - 1) -> Loops]
          BY Zenon
        <4> QED BY <4>1, <4>2
      <3>2. \A n \in 1..Len(copies) : copies[n] = l
        BY Zenon, <3>1
      <3> HIDE DEF copies
      <3>3. helpQueue \in Seq(Loops) /\ Len(helpQueue) \in Nat /\ Len(copies) \in Nat
        BY <3>1 DEF ExecType
      <3>4. helpQueue' = helpQueue \o copies
        BY Zenon, <2>2 DEF copies
      <3>5. /\ helpQueue' \in Seq(Loops) /\ Len(helpQueue') = Len(helpQueue) + Len(copies)
            /\ \A i \in 1..(Len(helpQueue) + Len(copies)) :
                 helpQueue'[i] = IF i <= Len(helpQueue) THEN helpQueue[i]
                                 ELSE copies[i - Len(helpQueue)]
        BY Zenon, <3>1, <3>3, <3>4, AppendedQueues
      <3>6. ASSUME NEW i \in 1..Len(helpQueue')
            PROVE  \/ i \in 1..Len(helpQueue) /\ helpQueue'[i] = helpQueue[i]
                   \/ helpQueue'[i] = l
        <4>1. CASE i <= Len(helpQueue)
          BY <3>3, <3>5, <4>1
        <4>2. CASE ~(i <= Len(helpQueue))
          <5>1. i - Len(helpQueue) \in 1..Len(copies)
            BY <3>3, <3>5, <4>2
          <5> QED BY Zenon, <3>2, <3>5, <4>2, <5>1
        <4> QED BY Zenon, <4>1, <4>2
      <3>7. ASSUME NEW m \in Loops \ {l}, Unshared(m) PROVE Unshared(m)'
        BY <1>1, <3>6, <3>7 DEF Unshared
      <3> QED BY Zenon, <3>5, <3>7
    <2> QED BY SMTT(30), <1>3, <2>1, <2>2 DEF RunLoop
  <1>5. ExecType'
    <2>1. Len(helpQueue') \in Nat
      BY <1>4
    <2>2. loop'[l] \in LoopStates
      <3>1. CASE Width(l) <= 1
        <4>1. PICK pc \in {"returned", "serial"} : loop' = [loop EXCEPT ![l].pc = pc]
          BY Zenon, <3>1 DEF RunLoop
        <4> QED BY Zenon, <4>1 DEF ExecType, LoopStates
      <3>2. CASE ~(Width(l) <= 1)
        <4>1. loop' = [loop EXCEPT ![l].pc = "ensure", ![l].i = Len(helpQueue')]
          BY Zenon, <3>2 DEF RunLoop
        <4> QED BY Zenon, <2>1, <4>1 DEF ExecType, LoopStates
      <3> QED BY Zenon, <3>1, <3>2
    <2>3. loop' = [m \in Loops |-> loop'[m]]
      BY Zenon DEF RunLoop, ExecType
    <2> QED BY Zenon, <1>1, <1>2, <1>4, <2>2, <2>3 DEF ExecType
  <1>6. DrawnOnce'
    <2>1. \A m \in Loops : loop'[m].next >= loop[m].next
      <3>1. \A m \in Loops : loop[m].next \in Nat
        BY Zenon DEF ExecType, LoopStates
      <3>2. \A m \in Loops : loop'[m].next = loop[m].next
        BY Zenon, <1>2 DEF ExecType
      <3> QED BY <3>1, <3>2
    <2>2. \A m \in Loops : loop'[m].pc = "item" => loop[m].pc = "item" /\ loop'[m].i = loop[m].i
      BY Zenon, <1>2
    <2>3. \A h \in Helpers, m \in Loops, i \in Nat : HelperHolds(h, m, i)' => HelperHolds(h, m, i)
      BY Zenon, <1>1 DEF HelperHolds
    <2> QED BY Zenon, <1>5, <2>1, <2>2, <2>3, DrawnFrame
  <1>7. ASSUME NEW m \in Loops \ {l} PROVE Unstarted(m)' /\ Shared(m)' /\ Returned(m)'
    <2>1. \A h \in Helpers, i \in Nat : /\ HelperHolds(h, m, i)' <=> HelperHolds(h, m, i)
                                        /\ HelperRuns(h, m, i)' <=> HelperRuns(h, m, i)
      BY Zenon, <1>1 DEF HelperHolds, HelperRuns
    <2> QED BY Zenon, <1>1, <1>2, <1>4, <2>1, LoopFrame
  <1>8. Unstarted(l)' /\ Shared(l)' /\ Returned(l)'
    <2>1. /\ Unshared(l) /\ loop[l].next = 0 /\ loop[l].done = 0
          /\ \A i \in 0..(Items[l] - 1) : itemRuns[l][i] = 0
      BY Zenon, <1>1 DEF Unstarted
    <2>2. \A h \in Helpers, i \in Nat : ~HelperHolds(h, l, i)'
      BY Zenon, <1>1, <2>1 DEF Unshared, HelperHolds
    <2>3. loop'[l].pc \in {"returned", "serial"} => UNCHANGED helpQueue
      BY DEF RunLoop, ExecType, LoopStates
    <2>4. loop'[l].pc \in {"returned", "serial"} => Unshared(l)'
      BY Zenon, <1>1, <2>1, <2>3 DEF Unshared
    <2>5. loop'[l].pc = "returned" => 0..(Items[l] - 1) = {}
      BY DEF RunLoop, ExecType, LoopStates
    <2>6. Counted(l)' = {}
      BY <1>2, <2>1 DEF Counted
    <2>7. Unstarted(l)'
      BY Zenon, <1>1, <1>2, <2>1, <2>4 DEF Unstarted
    <2>8. Shared(l)'
      BY SMTT(60), <1>1, <1>2, <2>1, <2>6, FS_EmptySet DEF Shared
    <2>9. Returned(l)'
      BY Zenon, <1>1, <1>2, <2>1, <2>2, <2>4, <2>5 DEF Returned
    <2> QED BY Zenon, <2>7, <2>8, <2>9
  <1> QED BY Zenon, <1>5, <1>6, <1>7, <1>8

LEMMA EnsureThreadsStep ==
  ASSUME ExecInv, NEW l \in Loops, EnsureThreads(l)
  PROVE  ExecInv'
  <1> USE ParallelExecutorAssumption DEF ExecInv
  <1>1. UNCHANGED <<helpQueue, itemRuns>> /\ loop[l].pc = "ensure"
    BY Zenon DEF EnsureThreads
  <1>2. loop' = [loop EXCEPT ![l].pc = "next", ![l].i = 0]
    BY Zenon DEF EnsureThreads
  <1>3. PICK new \in SUBSET {h \in Helpers : helper[h].pc = "absent"} :
          helper' = [h \in Helpers |-> IF h \in new THEN [pc |-> "idle", job |-> NoLoop, i |-> 0]
                                       ELSE helper[h]]
    BY SMTT(30) DEF EnsureThreads, Worker0
  <1>4. ExecType'
    <2>1. loop' \in [Loops -> LoopStates]
      BY ZenonT(60), <1>2 DEF ExecType, LoopStates
    <2>2. helper' \in [Helpers -> HelperStates]
      BY Zenon, <1>3 DEF ExecType, HelperStates
    <2>3. \A h \in Helpers : helper'[h].pc \in {"next", "item", "count"} => helper'[h].job \in Loops
      BY Zenon, <1>3 DEF ExecType
    <2> QED BY Zenon, <1>1, <2>1, <2>2, <2>3 DEF ExecType
  <1>5. \A h \in Helpers, m \in Loops, i \in Nat :
          /\ HelperHolds(h, m, i)' <=> HelperHolds(h, m, i)
          /\ HelperRuns(h, m, i)' <=> HelperRuns(h, m, i)
    BY Zenon, <1>3 DEF HelperHolds, HelperRuns
  <1>6. \A m \in Loops : Unshared(m) => Unshared(m)'
    BY Zenon, <1>1, <1>3 DEF Unshared
  <1>7. DrawnOnce'
    <2>1. \A m \in Loops : loop'[m].next >= loop[m].next
      <3>1. \A m \in Loops : loop[m].next \in Nat
        BY Zenon DEF ExecType, LoopStates
      <3>2. \A m \in Loops : loop'[m].next = loop[m].next
        BY <1>2 DEF ExecType
      <3> QED BY <3>1, <3>2
    <2>2. \A m \in Loops : loop'[m].pc = "item" => loop[m].pc = "item" /\ loop'[m].i = loop[m].i
      BY <1>2 DEF ExecType
    <2> QED BY Zenon, <1>4, <1>5, <2>1, <2>2, DrawnFrame
  <1>8. ASSUME NEW m \in Loops \ {l} PROVE Unstarted(m)' /\ Shared(m)' /\ Returned(m)'
    <2>1. loop'[m] = loop[m] /\ itemRuns'[m] = itemRuns[m]
      BY Zenon, <1>1, <1>2 DEF ExecType
    <2> QED BY Zenon, <1>5, <1>6, <2>1, LoopFrame
  <1>9. Unstarted(l)' /\ Shared(l)' /\ Returned(l)'
    <2>1. loop'[l].pc = "next" /\ loop'[l].next = loop[l].next /\ loop'[l].done = loop[l].done
      BY <1>2 DEF ExecType, LoopStates
    <2>2. \A i \in Nat : ~CallerHolds(l, i) /\ ~CallerHolds(l, i)'
      BY Zenon, <1>1, <2>1 DEF CallerHolds
    <2>3. Counted(l)' = Counted(l)
      BY <1>5, <2>1, <2>2 DEF Counted
    <2>4. Shared(l)'
      BY <1>1, <1>5, <2>1, <2>2, <2>3 DEF Shared
    <2> QED BY Zenon, <2>1, <2>4 DEF Unstarted, Returned
  <1> QED BY Zenon, <1>4, <1>7, <1>8, <1>9

LEMMA RunSeriallyStep ==
  ASSUME ExecInv, NEW l \in Loops, RunSerially(l)
  PROVE  ExecInv'
  <1> USE ParallelExecutorAssumption DEF ExecInv
  <1>1. /\ loop[l].pc = "serial" /\ UNCHANGED <<helpQueue, helper>>
        /\ itemRuns' = [itemRuns EXCEPT ![l] = [i \in DOMAIN @ |-> @[i] + 1]]
    BY Zenon DEF RunSerially
  <1>2. loop' = [loop EXCEPT ![l].pc = "returned"]
    BY Zenon DEF RunSerially
  <1>3. /\ \A m \in Loops \ {l} : loop'[m] = loop[m] /\ itemRuns'[m] = itemRuns[m]
        /\ DOMAIN itemRuns' = Loops
        /\ itemRuns'[l] = [i \in 0..(Items[l] - 1) |-> itemRuns[l][i] + 1]
    BY Zenon, <1>1, <1>2 DEF ExecType
  <1>4. ExecType'
    <2>1. loop' \in [Loops -> LoopStates]
      BY Zenon, <1>2 DEF ExecType, LoopStates
    <2>2. itemRuns'[l] \in [0..(Items[l] - 1) -> Nat]
      <3>1. itemRuns[l] \in [0..(Items[l] - 1) -> Nat]
        BY Zenon DEF ExecType
      <3> QED BY <1>3, <3>1
    <2>3. \A m \in Loops : itemRuns'[m] \in [0..(Items[m] - 1) -> Nat]
      BY Zenon, <1>3, <2>2 DEF ExecType
    <2> QED BY Zenon, <1>1, <1>3, <2>1, <2>3 DEF ExecType
  <1>5. \A h \in Helpers, m \in Loops, i \in Nat :
          /\ HelperHolds(h, m, i)' <=> HelperHolds(h, m, i)
          /\ HelperRuns(h, m, i)' <=> HelperRuns(h, m, i)
    BY Zenon, <1>1 DEF HelperHolds, HelperRuns
  <1>6. \A m \in Loops : Unshared(m) => Unshared(m)'
    BY Zenon, <1>1 DEF Unshared
  <1>7. DrawnOnce'
    <2>1. \A m \in Loops : loop'[m].next >= loop[m].next
      <3>1. \A m \in Loops : loop[m].next \in Nat
        BY Zenon DEF ExecType, LoopStates
      <3>2. \A m \in Loops : loop'[m].next = loop[m].next
        BY <1>2 DEF ExecType
      <3> QED BY <3>1, <3>2
    <2>2. \A m \in Loops : loop'[m].pc = "item" => loop[m].pc = "item" /\ loop'[m].i = loop[m].i
      BY SMTT(60), <1>2 DEF ExecType
    <2> QED BY Zenon, <1>4, <1>5, <2>1, <2>2, DrawnFrame
  <1>8. ASSUME NEW m \in Loops \ {l} PROVE Unstarted(m)' /\ Shared(m)' /\ Returned(m)'
    BY Zenon, <1>3, <1>5, <1>6, LoopFrame
  <1>9. Unstarted(l)' /\ Shared(l)' /\ Returned(l)'
    <2>1. loop'[l].pc = "returned"
      BY Zenon, <1>2 DEF ExecType, LoopStates
    <2>2. Unshared(l) /\ \A i \in 0..(Items[l] - 1) : itemRuns[l][i] = 0
      BY Zenon, <1>1 DEF Unstarted
    <2>3. \A i \in 0..(Items[l] - 1) : itemRuns'[l][i] = 1
      BY <1>3, <2>2
    <2>4. \A h \in Helpers, i \in Nat : ~HelperHolds(h, l, i)'
      BY <1>5, <2>2 DEF Unshared, HelperHolds
    <2> QED BY Zenon, <1>6, <2>1, <2>2, <2>3, <2>4 DEF Unstarted, Shared, Returned
  <1> QED BY Zenon, <1>4, <1>7, <1>8, <1>9

LEMMA TakeJobStep ==
  ASSUME ExecInv, NEW g \in Helpers, TakeJob(g)
  PROVE  ExecInv'
  <1> USE ParallelExecutorAssumption DEF ExecInv
  <1>1. helper[g].pc = "idle" /\ helpQueue # <<>> /\ UNCHANGED itemRuns
    BY Zenon DEF TakeJob
  <1>2. UNCHANGED loop
    BY Zenon DEF TakeJob
  <1>3. /\ helper' = [helper EXCEPT ![g] = [pc |-> "next", job |-> Head(helpQueue), i |-> 0]]
        /\ helpQueue' = Tail(helpQueue)
    BY Zenon DEF TakeJob
  <1>4. /\ Head(helpQueue) \in Loops /\ helpQueue' \in Seq(Loops)
        /\ Len(helpQueue) \in Nat /\ Len(helpQueue') = Len(helpQueue) - 1
        /\ \A n \in 1..Len(helpQueue') : helpQueue'[n] = helpQueue[n + 1]
    BY <1>1, <1>3 DEF ExecType
  <1>5. Head(helpQueue) = helpQueue[1] /\ 1 \in 1..Len(helpQueue)
    BY <1>1, <1>4 DEF ExecType
  <1>6. ExecType'
    <2>1. helper' \in [Helpers -> HelperStates]
      BY Zenon, <1>3, <1>4 DEF ExecType, HelperStates
    <2>2. \A h \in Helpers : helper'[h].pc \in {"next", "item", "count"} => helper'[h].job \in Loops
      BY Zenon, <1>3, <1>4 DEF ExecType
    <2> QED BY Zenon, <1>1, <1>2, <1>4, <2>1, <2>2 DEF ExecType
  <1>7. \A h \in Helpers, m \in Loops, i \in Nat :
          /\ HelperHolds(h, m, i)' <=> HelperHolds(h, m, i)
          /\ HelperRuns(h, m, i)' <=> HelperRuns(h, m, i)
    BY <1>1, <1>3 DEF HelperHolds, HelperRuns, ExecType
  <1>8. ASSUME NEW m \in Loops, Unshared(m) PROVE Unshared(m)'
    <2>1. \A n \in 1..Len(helpQueue') : n + 1 \in 1..Len(helpQueue)
      BY <1>4
    <2>2. \A n \in 1..Len(helpQueue') : helpQueue'[n] # m
      <3>1. \A n \in 1..Len(helpQueue) : helpQueue[n] # m
        BY Zenon, <1>8 DEF Unshared
      <3> TAKE n \in 1..Len(helpQueue')
      <3>2. helpQueue'[n] = helpQueue[n + 1] /\ n + 1 \in 1..Len(helpQueue)
        BY Zenon, <1>4, <2>1
      <3> QED BY ONLY Zenon, <3>1, <3>2
    <2>3. Head(helpQueue) # m
      BY Zenon, <1>5, <1>8 DEF Unshared
    <2> QED BY Zenon, <1>3, <1>8, <2>2, <2>3 DEF Unshared, ExecType
  <1>9. DrawnOnce'
    <2>1. \A m \in Loops : loop'[m].next >= loop[m].next
      <3>1. \A m \in Loops : loop[m].next \in Nat
        BY Zenon DEF ExecType, LoopStates
      <3>2. \A m \in Loops : loop'[m].next = loop[m].next
        BY Zenon, <1>2
      <3> QED BY <3>1, <3>2
    <2>2. \A m \in Loops : loop'[m].pc = "item" => loop[m].pc = "item" /\ loop'[m].i = loop[m].i
      BY Zenon, <1>2
    <2> QED BY Zenon, <1>6, <1>7, <2>1, <2>2, DrawnFrame
  <1>10. ASSUME NEW m \in Loops PROVE Unstarted(m)' /\ Shared(m)' /\ Returned(m)'
    BY Zenon, <1>1, <1>2, <1>7, <1>8, LoopFrame
  <1> QED BY Zenon, <1>6, <1>9, <1>10

LEMMA WaitDoneStep ==
  ASSUME ExecInv, NEW l \in Loops, WaitDone(l)
  PROVE  ExecInv'
  <1> USE ParallelExecutorAssumption DEF ExecInv
  <1>1. /\ loop[l].pc = "wait" /\ loop[l].done = Items[l]
        /\ UNCHANGED <<helpQueue, helper, itemRuns>>
    BY Zenon DEF WaitDone
  <1>2. loop' = [loop EXCEPT ![l].pc = "returned"]
    BY Zenon DEF WaitDone
  <1>3. ExecType'
    <2>1. loop' \in [Loops -> LoopStates]
      BY Zenon, <1>2 DEF ExecType, LoopStates
    <2> QED BY Zenon, <1>1, <2>1 DEF ExecType
  <1>4. \A h \in Helpers, m \in Loops, i \in Nat :
          /\ HelperHolds(h, m, i)' <=> HelperHolds(h, m, i)
          /\ HelperRuns(h, m, i)' <=> HelperRuns(h, m, i)
    BY Zenon, <1>1 DEF HelperHolds, HelperRuns
  <1>5. \A m \in Loops : Unshared(m) => Unshared(m)'
    BY Zenon, <1>1 DEF Unshared
  <1>6. DrawnOnce'
    <2>1. \A m \in Loops : loop'[m].next >= loop[m].next
      <3>1. \A m \in Loops : loop[m].next \in Nat
        BY Zenon DEF ExecType, LoopStates
      <3>2. \A m \in Loops : loop'[m].next = loop[m].next
        BY <1>2 DEF ExecType
      <3> QED BY <3>1, <3>2
    <2>2. \A m \in Loops : loop'[m].pc = "item" => loop[m].pc = "item" /\ loop'[m].i = loop[m].i
      BY <1>2 DEF ExecType
    <2> QED BY Zenon, <1>3, <1>4, <2>1, <2>2, DrawnFrame
  <1>7. ASSUME NEW m \in Loops \ {l} PROVE Unstarted(m)' /\ Shared(m)' /\ Returned(m)'
    <2>1. loop'[m] = loop[m] /\ itemRuns'[m] = itemRuns[m]
      BY Zenon, <1>1, <1>2 DEF ExecType
    <2> QED BY Zenon, <1>4, <1>5, <2>1, LoopFrame
  <1>8. Unstarted(l)' /\ Shared(l)' /\ Returned(l)'
    <2>1. loop'[l].pc = "returned" /\ loop'[l].next = loop[l].next
      BY Zenon, <1>2 DEF ExecType, LoopStates
    <2>2. Counted(l) = 0..(Items[l] - 1) /\ Items[l] <= loop[l].next
      BY Zenon, <1>1, CountedType DEF Shared
    <2>3. ASSUME NEW i \in 0..(Items[l] - 1), NEW h \in Helpers PROVE ~HelperHolds(h, l, i)
      BY Zenon, <2>2 DEF Counted
    <2>4. \A h \in Helpers, i \in Nat : ~HelperHolds(h, l, i)
      BY <2>3 DEF DrawnOnce
    <2>5. \A i \in 0..(Items[l] - 1) : itemRuns[l][i] = 1
      <3> SUFFICES ASSUME NEW i \in 0..(Items[l] - 1) PROVE itemRuns[l][i] = 1
        BY Zenon
      <3>1. \A h \in Helpers : ~HelperRuns(h, l, i)
        BY Zenon, <2>3 DEF HelperRuns, HelperHolds
      <3>2. i < loop[l].next /\ ~CallerHolds(l, i)
        BY Zenon, <2>2 DEF Counted
      <3> QED BY Zenon, <1>1, <3>1, <3>2 DEF Shared
    <2> QED BY Zenon, <1>1, <1>4, <2>1, <2>2, <2>4, <2>5 DEF Unstarted, Shared, Returned
  <1> QED BY Zenon, <1>3, <1>6, <1>7, <1>8

LEMMA DrawByCallerStep ==
  ASSUME ExecInv, NEW l \in Loops, DrawByCaller(l)
  PROVE  ExecInv'
  <1> USE ParallelExecutorAssumption DEF ExecInv
  <1> DEFINE n == loop[l].next
  <1>1. loop[l].pc = "next" /\ UNCHANGED <<helpQueue, helper, itemRuns>>
    BY Zenon DEF DrawByCaller
  <1>2. loop' = [loop EXCEPT ![l].next = @ + 1, ![l].i = n,
                             ![l].pc = IF n < Items[l] THEN "item" ELSE "wait"]
    BY Zenon DEF DrawByCaller, Drawn
  <1>3. /\ n \in Nat /\ loop'[l].next = n + 1 /\ loop'[l].i = n /\ loop'[l].done = loop[l].done
        /\ loop'[l].pc = IF n < Items[l] THEN "item" ELSE "wait"
    BY <1>2 DEF ExecType, LoopStates
  <1>4. \A m \in Loops \ {l} : loop'[m] = loop[m]
    BY Zenon, <1>2 DEF ExecType
  <1> HIDE DEF n
  <1>5. ExecType'
    <2>1. loop' \in [Loops -> LoopStates]
      <3>1. PICK pc \in {"item", "wait"} :
              loop' = [loop EXCEPT ![l].next = n + 1, ![l].i = n, ![l].pc = pc]
        BY Zenon, <1>2 DEF n
      <3>2. n + 1 \in Nat
        BY <1>3
      <3>3. loop'[l] \in LoopStates
        <4>1. loop'[l] = [pc |-> pc, next |-> n + 1, done |-> loop[l].done, i |-> n]
          BY Zenon, <3>1 DEF ExecType, LoopStates
        <4>2. loop[l].done \in Nat
          BY Zenon DEF ExecType, LoopStates
        <4> QED BY Zenon, <1>3, <3>2, <4>1, <4>2 DEF LoopStates
      <3>4. loop' = [m \in Loops |-> loop'[m]]
        BY Zenon, <3>1 DEF ExecType
      <3> QED BY Zenon, <1>4, <3>3, <3>4 DEF ExecType
    <2> QED BY Zenon, <1>1, <2>1 DEF ExecType
  <1>6. \A h \in Helpers, m \in Loops, i \in Nat :
          /\ HelperHolds(h, m, i)' <=> HelperHolds(h, m, i)
          /\ HelperRuns(h, m, i)' <=> HelperRuns(h, m, i)
    BY Zenon, <1>1 DEF HelperHolds, HelperRuns
  <1>7. \A i \in Nat : ~CallerHolds(l, i) /\ (CallerHolds(l, i)' <=> i = n /\ n < Items[l])
    BY Zenon, <1>1, <1>3 DEF CallerHolds
  <1>8. \A h \in Helpers, i \in Nat : HelperHolds(h, l, i) => i < n
    BY Zenon DEF DrawnOnce, n
  <1>9. DrawnOnce'
    <2>1. \A m \in Loops : loop'[m].pc = "item" => loop'[m].i < Items[m] /\ loop'[m].i < loop'[m].next
      BY SMTT(60), <1>3, <1>4 DEF DrawnOnce
    <2>2. ASSUME NEW h \in Helpers, NEW m \in Loops, NEW i \in Nat, HelperHolds(h, m, i)'
          PROVE  /\ i < Items[m] /\ i < loop'[m].next /\ ~CallerHolds(m, i)'
                 /\ \A g \in Helpers : HelperHolds(g, m, i)' => g = h
      <3>1. HelperHolds(h, m, i)
        BY Zenon, <1>6, <2>2
      <3>2. i < Items[m] /\ \A g \in Helpers : HelperHolds(g, m, i)' => g = h
        BY Zenon, <1>6, <3>1 DEF DrawnOnce
      <3>3. CASE m = l
        BY SMTT(60), <1>3, <1>7, <1>8, <3>1, <3>2, <3>3
      <3>4. CASE m # l
        BY Zenon, <1>4, <3>1, <3>2, <3>4 DEF DrawnOnce, CallerHolds
      <3> QED BY Zenon, <3>3, <3>4
    <2> QED BY Zenon, <2>1, <2>2 DEF DrawnOnce
  <1>10. ASSUME NEW m \in Loops \ {l} PROVE Unstarted(m)' /\ Shared(m)' /\ Returned(m)'
    <2>1. Unshared(m) => Unshared(m)'
      BY Zenon, <1>1 DEF Unshared
    <2> QED BY Zenon, <1>1, <1>4, <1>6, <2>1, LoopFrame
  <1>11. Unstarted(l)' /\ Shared(l)' /\ Returned(l)'
    <2>1. Counted(l)' = Counted(l)
      BY SMTT(60), <1>3, <1>6, <1>7 DEF Counted, n
    <2>2. loop'[l].done = Cardinality(Counted(l)')
      BY Zenon, <1>1, <1>3, <2>1 DEF Shared
    <2>3. ASSUME NEW i \in 0..(Items[l] - 1)
          PROVE  itemRuns'[l][i] =
                   IF i < loop'[l].next /\ ~CallerHolds(l, i)' /\ \A h \in Helpers : ~HelperRuns(h, l, i)'
                   THEN 1 ELSE 0
      <3>1. itemRuns[l][i] =
              IF i < n /\ ~CallerHolds(l, i) /\ \A h \in Helpers : ~HelperRuns(h, l, i) THEN 1 ELSE 0
        BY Zenon, <1>1 DEF Shared, n
      <3>2. i < n <=> i < loop'[l].next /\ ~CallerHolds(l, i)'
        BY <1>3, <1>7
      <3> QED BY SMTT(60), <1>1, <1>6, <1>7, <3>1, <3>2
    <2>4. loop'[l].pc = "wait" => Items[l] <= loop'[l].next
      BY SMTT(60), <1>3
    <2>5. Shared(l)'
      BY Zenon, <2>2, <2>3, <2>4 DEF Shared
    <2> QED BY Zenon, <1>3, <2>5 DEF Unstarted, Returned
  <1> QED BY Zenon, <1>5, <1>9, <1>10, <1>11

LEMMA ItemByCallerStep ==
  ASSUME ExecInv, NEW l \in Loops, ItemByCaller(l)
  PROVE  ExecInv'
  <1> USE ParallelExecutorAssumption DEF ExecInv
  <1> DEFINE n == loop[l].i
  <1>1. loop[l].pc = "item" /\ UNCHANGED <<helpQueue, helper>>
    BY Zenon DEF ItemByCaller
  <1>2. loop' = [loop EXCEPT ![l].pc = "next", ![l].done = @ + 1]
    BY Zenon DEF ItemByCaller
  <1>3. n \in Nat /\ n \in 0..(Items[l] - 1) /\ n < loop[l].next
    BY <1>1 DEF ExecType, LoopStates, DrawnOnce
  <1>4. /\ loop'[l].next = loop[l].next /\ loop'[l].pc = "next"
        /\ loop[l].done \in Nat /\ loop'[l].done = loop[l].done + 1
    BY <1>2 DEF ExecType, LoopStates
  <1>5. /\ DOMAIN itemRuns' = Loops
        /\ \A m \in Loops \ {l} : loop'[m] = loop[m] /\ itemRuns'[m] = itemRuns[m]
        /\ itemRuns'[l] = [itemRuns[l] EXCEPT ![n] = @ + 1]
    BY Zenon, <1>2 DEF ItemByCaller, ExecType
  <1> HIDE DEF n
  <1>6. ExecType'
    <2>1. loop' \in [Loops -> LoopStates]
      <3>1. loop[l].done + 1 \in Nat
        BY <1>4
      <3> QED BY ZenonT(60), <1>2, <3>1 DEF ExecType, LoopStates
    <2>2. itemRuns'[l] \in [0..(Items[l] - 1) -> Nat]
      <3>1. itemRuns[l] \in [0..(Items[l] - 1) -> Nat]
        BY Zenon DEF ExecType
      <3>2. itemRuns[l][n] + 1 \in Nat
        BY SMTT(30), <1>3, <3>1
      <3> QED BY Zenon, <1>3, <1>5, <3>1, <3>2
    <2>3. \A m \in Loops : itemRuns'[m] \in [0..(Items[m] - 1) -> Nat]
      BY Zenon, <1>5, <2>2 DEF ExecType
    <2> QED BY Zenon, <1>1, <1>5, <2>1, <2>3 DEF ExecType
  <1>7. \A h \in Helpers, m \in Loops, i \in Nat :
          /\ HelperHolds(h, m, i)' <=> HelperHolds(h, m, i)
          /\ HelperRuns(h, m, i)' <=> HelperRuns(h, m, i)
    BY Zenon, <1>1 DEF HelperHolds, HelperRuns
  <1>8. \A i \in Nat : ~CallerHolds(l, i)' /\ (CallerHolds(l, i) <=> i = n)
    BY Zenon, <1>1, <1>4 DEF CallerHolds, n
  <1>9. \A h \in Helpers : ~HelperHolds(h, l, n) /\ ~HelperRuns(h, l, n)
    BY Zenon, <1>3, <1>8 DEF DrawnOnce, HelperRuns, HelperHolds
  <1>10. DrawnOnce'
    <2>1. \A m \in Loops : loop'[m].next >= loop[m].next
      <3>1. \A m \in Loops : loop[m].next \in Nat
        BY Zenon DEF ExecType, LoopStates
      <3>2. \A m \in Loops : loop'[m].next = loop[m].next
        BY Zenon, <1>4, <1>5
      <3> QED BY <3>1, <3>2
    <2>2. \A m \in Loops : loop'[m].pc = "item" => loop[m].pc = "item" /\ loop'[m].i = loop[m].i
      BY Zenon, <1>4, <1>5
    <2> QED BY Zenon, <1>6, <1>7, <2>1, <2>2, DrawnFrame
  <1>11. ASSUME NEW m \in Loops \ {l} PROVE Unstarted(m)' /\ Shared(m)' /\ Returned(m)'
    <2>1. Unshared(m) => Unshared(m)'
      BY Zenon, <1>1 DEF Unshared
    <2> QED BY Zenon, <1>5, <1>7, <2>1, LoopFrame
  <1>12. Unstarted(l)' /\ Shared(l)' /\ Returned(l)'
    <2>1. Counted(l)' = Counted(l) \cup {n} /\ n \notin Counted(l)
      BY SMTT(60), <1>3, <1>4, <1>7, <1>8, <1>9 DEF Counted
    <2>2. loop'[l].done = Cardinality(Counted(l)')
      <3>1. loop[l].done = Cardinality(Counted(l))
        BY Zenon, <1>1 DEF Shared
      <3>2. IsFiniteSet(Counted(l))
        BY Zenon, CountedType DEF ParallelExecutorAssumption
      <3>3. Cardinality(Counted(l) \cup {n}) = Cardinality(Counted(l)) + 1
        BY Zenon, <2>1, <3>2, FS_AddElement
      <3> QED BY Zenon, <1>4, <2>1, <3>1, <3>3
    <2>3. ASSUME NEW i \in 0..(Items[l] - 1)
          PROVE  itemRuns'[l][i] =
                   IF i < loop'[l].next /\ ~CallerHolds(l, i)' /\ \A h \in Helpers : ~HelperRuns(h, l, i)'
                   THEN 1 ELSE 0
      <3>1. itemRuns[l][i] =
              IF i < loop[l].next /\ ~CallerHolds(l, i) /\ \A h \in Helpers : ~HelperRuns(h, l, i)
              THEN 1 ELSE 0
        BY Zenon, <1>1 DEF Shared
      <3>2. itemRuns'[l][i] = IF i = n THEN itemRuns[l][i] + 1 ELSE itemRuns[l][i]
        BY Zenon, <1>5 DEF ExecType
      <3>3. CASE i = n
        BY SMTT(60), <1>3, <1>4, <1>7, <1>8, <1>9, <3>1, <3>2, <3>3
      <3>4. CASE i # n
        BY SMTT(60), <1>4, <1>7, <1>8, <3>1, <3>2, <3>4
      <3> QED BY Zenon, <3>3, <3>4
    <2>4. Shared(l)'
      BY Zenon, <1>4, <2>2, <2>3 DEF Shared
    <2> QED BY Zenon, <1>4, <2>4 DEF Unstarted, Returned
  <1> QED BY Zenon, <1>6, <1>10, <1>11, <1>12

LEMMA DrawByHelperStep ==
  ASSUME ExecInv, NEW g \in Helpers, DrawByHelper(g)
  PROVE  ExecInv'
  <1> USE ParallelExecutorAssumption DEF ExecInv
  <1>1. helper[g].pc = "next" /\ UNCHANGED <<helpQueue, itemRuns>>
    BY Zenon DEF DrawByHelper, ExecType
  <1>0. PICK l \in Loops, n \in Nat : helper[g].job = l /\ loop[l].next = n
    BY Zenon, <1>1 DEF ExecType, LoopStates
  <1>2. loop' = [loop EXCEPT ![l].next = n + 1]
    BY Zenon, <1>0 DEF DrawByHelper, Drawn
  <1>3. /\ loop'[l].next = n + 1 /\ loop'[l].pc = loop[l].pc
        /\ loop'[l].i = loop[l].i /\ loop'[l].done = loop[l].done
    BY Zenon, <1>2 DEF ExecType, LoopStates
  <1>4. \A m \in Loops \ {l} : loop'[m] = loop[m]
    BY Zenon, <1>2 DEF ExecType
  <1>5. helper' = [helper EXCEPT ![g] = IF n < Items[l] THEN [pc |-> "item", job |-> l, i |-> n]
                                        ELSE [pc |-> "idle", job |-> NoLoop, i |-> 0]]
    BY Zenon, <1>0 DEF DrawByHelper, Drawn, Worker0
  <1>6. /\ helper'[g] = IF n < Items[l] THEN [pc |-> "item", job |-> l, i |-> n]
                        ELSE [pc |-> "idle", job |-> NoLoop, i |-> 0]
        /\ \A h \in Helpers \ {g} : helper'[h] = helper[h]
    BY Zenon, <1>5 DEF ExecType
  <1>7. ExecType'
    <2>1. loop' \in [Loops -> LoopStates]
      <3>1. n + 1 \in Nat
        OBVIOUS
      <3> QED BY Zenon, <1>2, <3>1 DEF ExecType, LoopStates
    <2>2. helper' \in [Helpers -> HelperStates]
      BY Zenon, <1>1, <1>3, <1>5 DEF ExecType, HelperStates
    <2>3. \A h \in Helpers : helper'[h].pc \in {"next", "item", "count"} => helper'[h].job \in Loops
      <3>1. helper'[g].pc \in {"next", "item", "count"} => helper'[g].job \in Loops
        BY SMTT(60), <1>6
      <3> QED BY Zenon, <1>6, <3>1 DEF ExecType
    <2> QED BY Zenon, <1>1, <2>1, <2>2, <2>3 DEF ExecType
  <1>8. \A m \in Loops, i \in Nat : CallerHolds(m, i)' <=> CallerHolds(m, i)
    BY Zenon, <1>3, <1>4 DEF CallerHolds
  <1>9. \A h \in Helpers \ {g}, m \in Loops, i \in Nat :
          /\ HelperHolds(h, m, i)' <=> HelperHolds(h, m, i)
          /\ HelperRuns(h, m, i)' <=> HelperRuns(h, m, i)
    BY Zenon, <1>6 DEF HelperHolds, HelperRuns
  <1>10. \A m \in Loops, i \in Nat :
          /\ HelperHolds(g, m, i)' <=> m = l /\ i = n /\ n < Items[l]
          /\ HelperRuns(g, m, i)' <=> m = l /\ i = n /\ n < Items[l]
          /\ ~HelperHolds(g, m, i) /\ ~HelperRuns(g, m, i)
    <2>1. CASE n < Items[l]
      BY SMTT(60), <1>1, <1>6, <2>1 DEF HelperHolds, HelperRuns
    <2>2. CASE ~(n < Items[l])
      BY SMTT(60), <1>1, <1>6, <2>2 DEF HelperHolds, HelperRuns
    <2> QED BY Zenon, <2>1, <2>2
  <1>11. /\ \A h \in Helpers, i \in Nat : HelperHolds(h, l, i) => i < n
         /\ \A i \in Nat : CallerHolds(l, i) => i < n
    BY SMTT(60), <1>0 DEF DrawnOnce, CallerHolds
  <1>12. DrawnOnce'
    <2>1. ASSUME NEW m \in Loops, loop'[m].pc = "item"
          PROVE  loop'[m].i < Items[m] /\ loop'[m].i < loop'[m].next
      <3>1. \A k \in Loops : loop[k].i \in Nat /\ loop[k].next \in Nat
        BY Zenon DEF ExecType, LoopStates
      <3> QED BY SMTT(60), <1>0, <1>3, <1>4, <2>1, <3>1 DEF DrawnOnce
    <2>2. ASSUME NEW h \in Helpers, NEW m \in Loops, NEW i \in Nat, HelperHolds(h, m, i)'
          PROVE  /\ i < Items[m] /\ i < loop'[m].next /\ ~CallerHolds(m, i)'
                 /\ \A f \in Helpers : HelperHolds(f, m, i)' => f = h
      <3>1. CASE h = g
        <4>1. m = l /\ i = n /\ n < Items[l]
          BY Zenon, <1>10, <2>2, <3>1
        <4>2. \A f \in Helpers \ {g} : ~HelperHolds(f, l, n)'
          BY SMTT(60), <1>1, <1>3, <1>9, <1>11
        <4> QED BY <1>1, <1>3, <1>8, <1>11, <3>1, <4>1, <4>2
      <3>2. CASE h # g
        <4>1. HelperHolds(h, m, i)
          BY Zenon, <1>9, <2>2, <3>2
        <4>2. i < Items[m] /\ i < loop[m].next /\ ~CallerHolds(m, i)'
              /\ \A f \in Helpers : HelperHolds(f, m, i) => f = h
          BY Zenon, <1>8, <4>1 DEF DrawnOnce
        <4>3. i < loop'[m].next
          BY SMTT(60), <1>0, <1>3, <1>4, <4>2
        <4>4. ~HelperHolds(g, m, i)'
          BY SMTT(60), <1>3, <1>10, <1>11, <4>1
        <4> QED BY Zenon, <1>9, <4>2, <4>3, <4>4
      <3> QED BY Zenon, <3>1, <3>2
    <2> QED BY Zenon, <2>1, <2>2 DEF DrawnOnce
  <1>13. ASSUME NEW m \in Loops \ {l} PROVE Unstarted(m)' /\ Shared(m)' /\ Returned(m)'
    <2>1. Unshared(m) => Unshared(m)'
      BY <1>1, <1>6 DEF Unshared
    <2>2. \A h \in Helpers, i \in Nat : /\ HelperHolds(h, m, i)' <=> HelperHolds(h, m, i)
                                        /\ HelperRuns(h, m, i)' <=> HelperRuns(h, m, i)
      BY Zenon, <1>9, <1>10
    <2> QED BY Zenon, <1>1, <1>4, <2>1, <2>2, LoopFrame
  <1>14. Unstarted(l)' /\ Shared(l)' /\ Returned(l)'
    <2>1. ~Unshared(l)
      BY Zenon, <1>0, <1>1 DEF Unshared
    <2>2. loop[l].pc = "returned" => Items[l] <= n
      BY Zenon, <1>0, <2>1 DEF Returned
    <2>3. Unstarted(l)'
      BY Zenon, <1>3, <2>1 DEF Unstarted
    <2>4. Returned(l)'
      <3> SUFFICES ASSUME loop'[l].pc = "returned"
                   PROVE  /\ \A i \in 0..(Items[l] - 1) : itemRuns'[l][i] = 1
                          /\ \A h \in Helpers, i \in Nat : ~HelperHolds(h, l, i)'
                          /\ Items[l] <= loop'[l].next
        BY Zenon DEF Returned
      <3>1. loop[l].pc = "returned" /\ Items[l] <= n
        BY Zenon, <1>3, <2>2
      <3>2. \A h \in Helpers, i \in Nat : ~HelperHolds(h, l, i)'
        BY SMTT(60), <1>9, <1>10, <3>1 DEF Returned
      <3> QED BY SMTT(60), <1>1, <1>3, <3>1, <3>2 DEF Returned
    <2>5. Counted(l)' = Counted(l)
      <3>1. ASSUME NEW i \in 0..(Items[l] - 1)
            PROVE  (/\ i < loop'[l].next /\ ~CallerHolds(l, i)'
                    /\ \A h \in Helpers : ~HelperHolds(h, l, i)')
                   <=> (/\ i < loop[l].next /\ ~CallerHolds(l, i)
                        /\ \A h \in Helpers : ~HelperHolds(h, l, i))
        BY SMTT(60), <1>0, <1>3, <1>8, <1>9, <1>10
      <3> QED BY Zenon, <3>1 DEF Counted
    <2>6. ASSUME loop[l].pc \in {"ensure", "next", "item", "wait"}, NEW i \in 0..(Items[l] - 1)
          PROVE  itemRuns'[l][i] =
                   IF i < loop'[l].next /\ ~CallerHolds(l, i)' /\ \A h \in Helpers : ~HelperRuns(h, l, i)'
                   THEN 1 ELSE 0
      <3>1. itemRuns[l][i] =
              IF i < n /\ ~CallerHolds(l, i) /\ \A h \in Helpers : ~HelperRuns(h, l, i)
              THEN 1 ELSE 0
        BY Zenon, <1>0, <2>6 DEF Shared
      <3>2. (i < loop'[l].next /\ \A h \in Helpers : ~HelperRuns(h, l, i)')
            <=> (i < n /\ \A h \in Helpers : ~HelperRuns(h, l, i))
        BY SMTT(60), <1>3, <1>9, <1>10
      <3> QED BY SMTT(60), <1>1, <1>8, <3>1, <3>2
    <2>7. Shared(l)'
      BY SMTT(60), <1>0, <1>3, <2>5, <2>6 DEF Shared
    <2> QED BY Zenon, <2>3, <2>4, <2>7
  <1> QED BY Zenon, <1>7, <1>12, <1>13, <1>14

LEMMA ItemByHelperStep ==
  ASSUME ExecInv, NEW g \in Helpers, ItemByHelper(g)
  PROVE  ExecInv'
  <1> USE ParallelExecutorAssumption DEF ExecInv
  <1>1. helper[g].pc = "item" /\ UNCHANGED <<helpQueue, loop>>
    BY Zenon DEF ItemByHelper
  <1>2. PICK l \in Loops, n \in Nat : helper[g].job = l /\ helper[g].i = n
    BY Zenon, <1>1 DEF ExecType, HelperStates
  <1>3. HelperHolds(g, l, n) /\ n \in 0..(Items[l] - 1) /\ n < loop[l].next
    BY <1>1, <1>2 DEF HelperHolds, DrawnOnce
  <1>4. helper' = [helper EXCEPT ![g].pc = "count"]
    BY Zenon DEF ItemByHelper
  <1>5. /\ DOMAIN itemRuns' = Loops
        /\ \A m \in Loops \ {l} : itemRuns'[m] = itemRuns[m]
        /\ itemRuns'[l] = [itemRuns[l] EXCEPT ![n] = @ + 1]
    BY Zenon, <1>2 DEF ItemByHelper, ExecType
  <1>6. /\ helper'[g].pc = "count" /\ helper'[g].job = l /\ helper'[g].i = n
        /\ \A h \in Helpers \ {g} : helper'[h] = helper[h]
    BY Zenon, <1>2, <1>4 DEF ExecType, HelperStates
  <1>7. ExecType'
    <2>1. helper' \in [Helpers -> HelperStates]
      BY ZenonT(60), <1>4 DEF ExecType, HelperStates
    <2>2. \A h \in Helpers : helper'[h].pc \in {"next", "item", "count"} => helper'[h].job \in Loops
      BY Zenon, <1>6 DEF ExecType
    <2>3. itemRuns'[l] \in [0..(Items[l] - 1) -> Nat]
      <3>1. itemRuns[l] \in [0..(Items[l] - 1) -> Nat]
        BY Zenon DEF ExecType
      <3>2. itemRuns[l][n] + 1 \in Nat
        BY SMTT(30), <1>3, <3>1
      <3> QED BY Zenon, <1>3, <1>5, <3>1, <3>2
    <2>4. \A m \in Loops : itemRuns'[m] \in [0..(Items[m] - 1) -> Nat]
      BY Zenon, <1>5, <2>3 DEF ExecType
    <2> QED BY Zenon, <1>1, <1>5, <2>1, <2>2, <2>4 DEF ExecType
  <1>8. \A h \in Helpers, m \in Loops, i \in Nat :
          /\ HelperHolds(h, m, i)' <=> HelperHolds(h, m, i)
          /\ HelperRuns(h, m, i)' <=> HelperRuns(h, m, i) /\ h # g
    BY Zenon, <1>1, <1>2, <1>6 DEF HelperHolds, HelperRuns
  <1>9. \A m \in Loops, i \in Nat : HelperRuns(g, m, i) <=> m = l /\ i = n
    BY Zenon, <1>1, <1>2 DEF HelperRuns
  <1>10. \A i \in Nat : /\ CallerHolds(l, i)' <=> CallerHolds(l, i)
                        /\ CallerHolds(l, i) => i # n
    BY Zenon, <1>1, <1>3 DEF CallerHolds, DrawnOnce
  <1>11. DrawnOnce'
    <2>1. \A m \in Loops : loop'[m].next >= loop[m].next
      <3>1. \A m \in Loops : loop[m].next \in Nat
        BY Zenon DEF ExecType, LoopStates
      <3> QED BY <1>1, <3>1
    <2> QED BY Zenon, <1>1, <1>7, <1>8, <2>1, DrawnFrame
  <1>12. \A m \in Loops : Unshared(m) => Unshared(m)'
    BY Zenon, <1>1, <1>2, <1>6 DEF Unshared
  <1>13. ASSUME NEW m \in Loops \ {l} PROVE Unstarted(m)' /\ Shared(m)' /\ Returned(m)'
    <2>1. \A h \in Helpers, i \in Nat : HelperRuns(h, m, i)' <=> HelperRuns(h, m, i)
      BY Zenon, <1>8, <1>9
    <2> QED BY Zenon, <1>1, <1>5, <1>8, <1>12, <2>1, LoopFrame
  <1>14. loop[l].pc \in {"ensure", "next", "item", "wait"}
    <2>1. ~Unshared(l)
      BY Zenon, <1>1, <1>2 DEF Unshared
    <2>2. loop[l].pc # "returned"
      BY Zenon, <1>3 DEF Returned
    <2>3. loop[l].pc \in {"start", "ensure", "serial", "next", "item", "wait", "returned"}
      BY Zenon DEF ExecType, LoopStates
    <2> QED BY Zenon, <2>1, <2>2, <2>3 DEF Unstarted
  <1>15. Unstarted(l)' /\ Shared(l)' /\ Returned(l)'
    <2>1. Counted(l)' = Counted(l)
      BY SMTT(60), <1>1, <1>8, <1>10 DEF Counted
    <2>2. ASSUME NEW i \in 0..(Items[l] - 1)
          PROVE  itemRuns'[l][i] =
                   IF i < loop'[l].next /\ ~CallerHolds(l, i)' /\ \A h \in Helpers : ~HelperRuns(h, l, i)'
                   THEN 1 ELSE 0
      <3>1. itemRuns[l][i] =
              IF i < loop[l].next /\ ~CallerHolds(l, i) /\ \A h \in Helpers : ~HelperRuns(h, l, i)
              THEN 1 ELSE 0
        BY Zenon, <1>14 DEF Shared
      <3>2. itemRuns'[l][i] = IF i = n THEN itemRuns[l][i] + 1 ELSE itemRuns[l][i]
        BY Zenon, <1>5 DEF ExecType
      <3>3. CASE i = n
        <4>1. itemRuns[l][i] = 0
          BY Zenon, <1>9, <3>1, <3>3
        <4>2. \A h \in Helpers : ~HelperRuns(h, l, i)'
          BY SMTT(60), <1>3, <1>8, <3>3 DEF DrawnOnce, HelperRuns, HelperHolds
        <4> QED BY SMTT(60), <1>1, <1>3, <1>10, <3>2, <3>3, <4>1, <4>2
      <3>4. CASE i # n
        <4>1. \A h \in Helpers : HelperRuns(h, l, i)' <=> HelperRuns(h, l, i)
          BY SMTT(60), <1>8, <1>9, <3>4
        <4> QED BY <1>1, <1>10, <3>1, <3>2, <3>4, <4>1
      <3> QED BY Zenon, <3>3, <3>4
    <2>3. Shared(l)'
      BY Zenon, <1>1, <1>14, <2>1, <2>2 DEF Shared
    <2> QED BY Zenon, <1>1, <1>14, <2>3 DEF Unstarted, Returned
  <1> QED BY Zenon, <1>7, <1>11, <1>13, <1>15

LEMMA CountByHelperStep ==
  ASSUME ExecInv, NEW g \in Helpers, CountByHelper(g)
  PROVE  ExecInv'
  <1> USE ParallelExecutorAssumption DEF ExecInv
  <1>1. helper[g].pc = "count" /\ UNCHANGED <<helpQueue, itemRuns>>
    BY Zenon DEF CountByHelper
  <1>2. PICK l \in Loops, n \in Nat : helper[g].job = l /\ helper[g].i = n
    BY Zenon, <1>1 DEF ExecType, HelperStates
  <1>3. HelperHolds(g, l, n) /\ n \in 0..(Items[l] - 1) /\ n < loop[l].next
    BY <1>1, <1>2 DEF HelperHolds, DrawnOnce
  <1>4. helper' = [helper EXCEPT ![g].pc = "next"] /\ loop' = [loop EXCEPT ![l].done = @ + 1]
    BY Zenon, <1>2 DEF CountByHelper
  <1>5. /\ \A m \in Loops \ {l} : loop'[m] = loop[m]
        /\ loop'[l].pc = loop[l].pc /\ loop'[l].next = loop[l].next /\ loop'[l].i = loop[l].i
        /\ loop[l].done \in Nat /\ loop'[l].done = loop[l].done + 1
    BY Zenon, <1>4 DEF ExecType, LoopStates
  <1>6. /\ helper'[g].pc = "next" /\ helper'[g].job = l
        /\ \A h \in Helpers \ {g} : helper'[h] = helper[h]
    BY Zenon, <1>2, <1>4 DEF ExecType, HelperStates
  <1>7. ExecType'
    <2>1. helper' \in [Helpers -> HelperStates]
      BY ZenonT(60), <1>4 DEF ExecType, HelperStates
    <2>2. \A h \in Helpers : helper'[h].pc \in {"next", "item", "count"} => helper'[h].job \in Loops
      BY Zenon, <1>6 DEF ExecType
    <2>3. loop' \in [Loops -> LoopStates]
      <3>1. loop[l].done + 1 \in Nat
        BY SMTT(60), <1>5
      <3> QED BY Zenon, <1>4, <3>1 DEF ExecType, LoopStates
    <2> QED BY Zenon, <1>1, <2>1, <2>2, <2>3 DEF ExecType
  <1>8. \A h \in Helpers, m \in Loops, i \in Nat :
          /\ HelperHolds(h, m, i)' <=> HelperHolds(h, m, i) /\ h # g
          /\ HelperRuns(h, m, i)' <=> HelperRuns(h, m, i)
    BY Zenon, <1>1, <1>2, <1>6 DEF HelperHolds, HelperRuns
  <1>9. \A m \in Loops, i \in Nat : HelperHolds(g, m, i) <=> m = l /\ i = n
    BY Zenon, <1>1, <1>2 DEF HelperHolds
  <1>10. \A i \in Nat : /\ CallerHolds(l, i)' <=> CallerHolds(l, i)
                        /\ CallerHolds(l, i) => i # n
    BY SMTT(60), <1>3, <1>5 DEF CallerHolds, DrawnOnce
  <1>11. DrawnOnce'
    <2>1. \A m \in Loops : loop'[m].next >= loop[m].next
      <3>1. \A m \in Loops : loop[m].next \in Nat
        BY Zenon DEF ExecType, LoopStates
      <3>2. \A m \in Loops : loop'[m].next = loop[m].next
        BY Zenon, <1>5
      <3> QED BY <3>1, <3>2
    <2>2. \A m \in Loops : loop'[m].pc = "item" => loop[m].pc = "item" /\ loop'[m].i = loop[m].i
      BY Zenon, <1>5
    <2> QED BY Zenon, <1>7, <1>8, <2>1, <2>2, DrawnFrame
  <1>12. \A m \in Loops : Unshared(m) => Unshared(m)'
    BY Zenon, <1>1, <1>2, <1>6 DEF Unshared
  <1>13. ASSUME NEW m \in Loops \ {l} PROVE Unstarted(m)' /\ Shared(m)' /\ Returned(m)'
    <2>1. \A h \in Helpers, i \in Nat : HelperHolds(h, m, i)' <=> HelperHolds(h, m, i)
      BY Zenon, <1>8, <1>9
    <2> QED BY Zenon, <1>1, <1>5, <1>8, <1>12, <2>1, LoopFrame
  <1>14. loop[l].pc \in {"ensure", "next", "item", "wait"}
    <2>1. ~Unshared(l)
      BY Zenon, <1>1, <1>2 DEF Unshared
    <2>2. loop[l].pc # "returned"
      BY Zenon, <1>3 DEF Returned
    <2>3. loop[l].pc \in {"start", "ensure", "serial", "next", "item", "wait", "returned"}
      BY Zenon DEF ExecType, LoopStates
    <2> QED BY Zenon, <2>1, <2>2, <2>3 DEF Unstarted
  <1>15. Unstarted(l)' /\ Shared(l)' /\ Returned(l)'
    <2>1. Counted(l)' = Counted(l) \cup {n} /\ n \notin Counted(l)
      <3>1. \A h \in Helpers : ~HelperHolds(h, l, n)'
        BY Zenon, <1>3, <1>8 DEF DrawnOnce
      <3>2. \A i \in Nat : i # n => ((\A h \in Helpers : ~HelperHolds(h, l, i)')
                                     <=> \A h \in Helpers : ~HelperHolds(h, l, i))
        BY Zenon, <1>8, <1>9
      <3> QED BY SMTT(60), <1>3, <1>5, <1>10, <3>1, <3>2 DEF Counted
    <2>2. loop'[l].done = Cardinality(Counted(l)')
      <3>1. loop[l].done = Cardinality(Counted(l))
        BY Zenon, <1>14 DEF Shared
      <3>2. IsFiniteSet(Counted(l))
        BY Zenon, CountedType
      <3>3. Cardinality(Counted(l) \cup {n}) = Cardinality(Counted(l)) + 1
        BY ZenonT(60), <2>1, <3>2, FS_AddElement
      <3> QED BY Zenon, <1>5, <2>1, <3>1, <3>3
    <2>3. ASSUME NEW i \in 0..(Items[l] - 1)
          PROVE  itemRuns'[l][i] =
                   IF i < loop'[l].next /\ ~CallerHolds(l, i)' /\ \A h \in Helpers : ~HelperRuns(h, l, i)'
                   THEN 1 ELSE 0
      BY SMTT(60), <1>1, <1>5, <1>8, <1>10, <1>14 DEF Shared
    <2>4. Shared(l)'
      BY Zenon, <1>5, <1>14, <2>2, <2>3 DEF Shared
    <2> QED BY Zenon, <1>5, <1>14, <2>4 DEF Unstarted, Returned
  <1> QED BY Zenon, <1>7, <1>11, <1>13, <1>15

LEMMA ExecStep == ExecInv /\ [ParallelExecutorNext]_execVars => ExecInv'
  <1> SUFFICES ASSUME ExecInv, [ParallelExecutorNext]_execVars PROVE ExecInv'
    BY Zenon
  <1>1. CASE UNCHANGED execVars
    <2> USE <1>1 DEF execVars, ExecInv
    <2>1. ExecType'
      BY Zenon DEF ExecType
    <2>2. DrawnOnce'
      BY SMTT(60) DEF DrawnOnce, CallerHolds, HelperHolds
    <2>3. ASSUME NEW m \in Loops PROVE Unstarted(m)' /\ Shared(m)' /\ Returned(m)'
      <3>1. \A h \in Helpers, i \in Nat : /\ HelperHolds(h, m, i)' <=> HelperHolds(h, m, i)
                                          /\ HelperRuns(h, m, i)' <=> HelperRuns(h, m, i)
        BY Zenon DEF HelperHolds, HelperRuns
      <3>2. Unshared(m) => Unshared(m)'
        BY Zenon DEF Unshared
      <3> QED BY Zenon, <3>1, <3>2, LoopFrame, ParallelExecutorAssumption
    <2> QED BY Zenon, <2>1, <2>2, <2>3
  <1> QED
    BY Zenon, <1>1, RunLoopStep, EnsureThreadsStep, RunSeriallyStep, TakeJobStep, WaitDoneStep,
       DrawByCallerStep, ItemByCallerStep, DrawByHelperStep, ItemByHelperStep, CountByHelperStep
    DEF ParallelExecutorNext

(* For any loops, counts of items and helpers: once ParallelExecutor::Run   *)
(* has returned every item was executed exactly once, and no helper is in   *)
(* the item function, whose captures are gone with the caller's frame.      *)
THEOREM ItemsStayInsideTheCall == ParallelExecutorSpec => []ItemsRunInsideTheCall
  <1>1. ExecInv => ItemsRunInsideTheCall
    <2> SUFFICES ASSUME ExecInv, NEW l \in Loops, loop[l].pc = "returned"
                 PROVE  /\ \A i \in DOMAIN itemRuns[l] : itemRuns[l][i] = 1
                        /\ \A h \in Helpers : helper[h].job = l => helper[h].pc # "item"
      BY Zenon DEF ItemsRunInsideTheCall
    <2>1. DOMAIN itemRuns[l] = 0..(Items[l] - 1)
      BY Zenon DEF ExecInv, ExecType
    <2>2. \A h \in Helpers : helper[h].i \in Nat
      BY Zenon DEF ExecInv, ExecType, HelperStates
    <2> QED BY Zenon, <2>1, <2>2 DEF ExecInv, Returned, HelperHolds
  <1> QED BY <1>1, ExecInit, ExecStep, PTL DEF ParallelExecutorSpec

-----------------------------------------------------------------------------
(* io_uring: the values of the variables. *)
PendingRecs == [used : BOOLEAN, token : Nat, done : Nat, reaps : Nat]
UringRecs == [pending : [RingSlots -> PendingRecs], next : Nat, logical : Int,
              kernel : Int, poisoned : BOOLEAN]

UringType ==
  /\ uring \in UringRecs
  /\ kernel \subseteq [token : Nat, left : Int] /\ IsFiniteSet(kernel)
  /\ cqes \subseteq [token : Nat, res : Int] /\ IsFiniteSet(cqes)
  /\ sqes \subseteq Nat
  /\ owner \in {"serve", "failed", "drained", "gone"} /\ ringFaults \in Nat

(* A token is with the kernel once: as a read or as its completion. *)
TokensAreOne ==
  /\ \A r, q \in kernel : r.token = q.token => r = q
  /\ \A c, d \in cqes : c.token = d.token => c = d
  /\ \A r \in kernel, c \in cqes : r.token # c.token

(* next_token_ is above every token given out. *)
TokensAreFresh ==
  /\ \A r \in kernel : r.token < uring.next
  /\ \A c \in cqes : c.token < uring.next
  /\ \A s \in RingSlots : uring.pending[s].used => uring.pending[s].token < uring.next
  /\ \A t \in DOMAIN answers : t \in Nat /\ t < uring.next

(* While the loop serves, what the kernel has is what the slots are used for. *)
SlotsAreExact ==
  owner = "serve" =>
    /\ sqes = {}
    /\ \A r \in kernel : \E s \in RingSlots :
         uring.pending[s].used /\ uring.pending[s].token = r.token
    /\ \A c \in cqes : \E s \in RingSlots :
         uring.pending[s].used /\ uring.pending[s].token = c.token
    /\ \A s, z \in RingSlots :
         uring.pending[s].used /\ uring.pending[z].used
         /\ uring.pending[s].token = uring.pending[z].token => s = z
    /\ uring.logical = UringDepth - Cardinality(FreePending)
    /\ uring.logical = uring.kernel
    /\ \A r \in kernel, s \in RingSlots :
         uring.pending[s].used /\ uring.pending[s].token = r.token =>
           r.left + uring.pending[s].done = ReadUnits

AnswersAreLast ==
  /\ \A t \in DOMAIN answers :
       /\ t \notin sqes
       /\ \A r \in kernel : r.token # t
       /\ \A c \in cqes : c.token # t
       /\ \A s \in RingSlots : uring.pending[s].used => uring.pending[s].token # t

UringInv ==
  /\ UringType /\ TokensAreOne /\ TokensAreFresh
  /\ uring.kernel = Cardinality(kernel) + Cardinality(cqes)
  /\ SlotsAreExact /\ AnswersAreLast
  /\ owner = "gone" => uring.kernel = 0

(* Ranks in a finite set of numbers: they are 0, 1, ... without gaps, and     *)
(* n of its elements have a rank below n. *)
RankIn(F, s) == Cardinality({r \in F : r < s})

LEMMA RankType ==
  ASSUME NEW F \in SUBSET Int, IsFiniteSet(F), NEW s \in F
  PROVE  RankIn(F, s) \in 0..(Cardinality(F) - 1)
  <1>1. PICK G \in SUBSET F : G = {r \in F : r < s}
    BY Zenon
  <1>2. IsFiniteSet(G) /\ Cardinality(G) <= Cardinality(F) /\ G # F
    <2>1. s \notin G
      BY <1>1
    <2> QED BY Zenon, <2>1, FS_Subset
  <1>3. Cardinality(G) # Cardinality(F)
    BY Zenon, <1>2, FS_Subset
  <1>4. Cardinality(G) \in Nat /\ Cardinality(F) \in Nat
    BY Zenon, <1>2, FS_CardinalityType
  <1>5. RankIn(F, s) = Cardinality(G)
    BY Zenon, <1>1 DEF RankIn
  <1> QED BY <1>2, <1>3, <1>4, <1>5

LEMMA RankGrows ==
  ASSUME NEW F \in SUBSET Int, IsFiniteSet(F), NEW s \in F, NEW z \in F, s < z
  PROVE  RankIn(F, s) < RankIn(F, z)
  <1>1. PICK G \in SUBSET F : G = {r \in F : r < s}
    BY Zenon
  <1>2. PICK H \in SUBSET F : H = {r \in F : r < z}
    BY Zenon
  <1>3. G \in SUBSET H /\ s \in H /\ s \notin G
    <2>1. s \in Int /\ z \in Int /\ \A r \in F : r \in Int
      BY Zenon
    <2>2. s \in H /\ s \notin G
      BY <1>1, <1>2, <2>1
    <2>3. \A r \in F : r < s => r < z
      BY <2>1
    <2> QED BY Zenon, <1>1, <1>2, <2>2, <2>3
  <1>4. IsFiniteSet(H)
    BY Zenon, FS_Subset
  <1>5. IsFiniteSet(G) /\ Cardinality(G) <= Cardinality(H) /\ Cardinality(G) # Cardinality(H)
    BY Zenon, <1>3, <1>4, FS_Subset
  <1>6. Cardinality(G) \in Nat /\ Cardinality(H) \in Nat
    BY Zenon, <1>4, <1>5, FS_CardinalityType
  <1>7. RankIn(F, s) = Cardinality(G) /\ RankIn(F, z) = Cardinality(H)
    BY Zenon, <1>1, <1>2 DEF RankIn
  <1> QED BY <1>5, <1>6, <1>7

LEMMA RankIsOne ==
  ASSUME NEW F \in SUBSET Int, IsFiniteSet(F), NEW s \in F, NEW z \in F,
         RankIn(F, s) = RankIn(F, z)
  PROVE  s = z
  <1>1. RankIn(F, s) \in Int /\ RankIn(F, z) \in Int /\ s \in Int /\ z \in Int
    BY RankType, FS_CardinalityType
  <1>2. ~(s < z) /\ ~(z < s)
    BY <1>1, RankGrows
  <1> QED BY <1>1, <1>2

LEMMA RankIsReached ==
  ASSUME NEW F \in SUBSET Int, IsFiniteSet(F), NEW i \in 0..(Cardinality(F) - 1)
  PROVE  \E s \in F : RankIn(F, s) = i
  <1>1. PICK m \in Nat : m = Cardinality(F)
    BY Zenon, FS_CardinalityType
  <1>2. PICK T : T = 0..(m - 1)
    BY Zenon
  <1>3. IsFiniteSet(T) /\ Cardinality(T) = m
    <2>1. m - 1 \in Int /\ 0 \in Int
      OBVIOUS
    <2>2. IsFiniteSet(0..(m - 1)) /\ Cardinality(0..(m - 1)) = IF 0 > m - 1 THEN 0 ELSE m - 1 - 0 + 1
      BY Zenon, <2>1, FS_Interval
    <2>3. (IF 0 > m - 1 THEN 0 ELSE m - 1 - 0 + 1) = m
      OBVIOUS
    <2> QED BY Zenon, <1>2, <2>2, <2>3
  <1>4. PICK f : f = [s \in F |-> RankIn(F, s)]
    BY Zenon
  <1>5. f \in [F -> T]
    BY Zenon, <1>1, <1>2, <1>4, RankType
  <1>6. f \in Injection(F, T)
    BY Zenon, <1>4, <1>5, RankIsOne DEF Injection, IsInjective
  <1>7. f \in Surjection(F, T)
    BY Zenon, <1>1, <1>3, <1>6, FS_Injection
  <1>8. \E s \in F : f[s] = i
    BY Zenon, <1>1, <1>2, <1>7 DEF Surjection
  <1> QED BY Zenon, <1>4, <1>8

LEMMA RanksBelow ==
  ASSUME NEW F \in SUBSET Int, IsFiniteSet(F), NEW n \in 0..Cardinality(F)
  PROVE  LET G == {s \in F : RankIn(F, s) < n}
         IN  IsFiniteSet(G) /\ Cardinality(G) = n
  <1>1. PICK G \in SUBSET F : G = {s \in F : RankIn(F, s) < n}
    BY Zenon
  <1>2. PICK T : T = 0..(n - 1)
    BY Zenon
  <1>3. n \in Nat /\ Cardinality(F) \in Nat /\ n <= Cardinality(F)
    BY FS_CardinalityType
  <1>4. IsFiniteSet(T) /\ Cardinality(T) = n
    <2>1. n - 1 \in Int /\ 0 \in Int
      BY <1>3
    <2>2. IsFiniteSet(0..(n - 1)) /\ Cardinality(0..(n - 1)) = IF 0 > n - 1 THEN 0 ELSE n - 1 - 0 + 1
      BY Zenon, <2>1, FS_Interval
    <2>3. (IF 0 > n - 1 THEN 0 ELSE n - 1 - 0 + 1) = n
      BY <1>3
    <2> QED BY Zenon, <1>2, <2>2, <2>3
  <1>5. PICK f : f = [s \in G |-> RankIn(F, s)]
    BY Zenon
  <1>6. f \in [G -> T]
    <2>1. ASSUME NEW s \in G PROVE RankIn(F, s) \in T
      BY SMTT(60), <1>1, <1>2, <1>3, RankType
    <2> QED BY Zenon, <1>5, <2>1
  <1>7. f \in Injection(G, T)
    BY <1>5, <1>6, RankIsOne DEF Injection, IsInjective
  <1>8. f \in Surjection(G, T)
    <2>1. ASSUME NEW i \in T PROVE \E s \in G : f[s] = i
      <3>1. i \in 0..(Cardinality(F) - 1) /\ i < n
        BY <1>2, <1>3
      <3>2. PICK s \in F : RankIn(F, s) = i
        BY Zenon, <3>1, RankIsReached
      <3> QED BY Zenon, <1>1, <1>5, <3>1, <3>2
    <2> QED BY Zenon, <1>6, <2>1 DEF Surjection
  <1>9. IsFiniteSet(G) /\ Cardinality(G) = Cardinality(T)
    BY Zenon, <1>4, <1>7, <1>8, FS_Injection
  <1> QED BY Zenon, <1>1, <1>4, <1>9

(* The reads a Submit asks the kernel for are as many as their tokens. *)
LEMMA AskedAreCounted ==
  ASSUME NEW x \in Nat, NEW m \in Nat
  PROVE  LET A == {Asked(t) : t \in x..(x + m - 1)}
         IN  /\ IsFiniteSet(A) /\ Cardinality(A) = m
             /\ A \subseteq [token : Nat, left : Int]
  <1>1. PICK T : T = x..(x + m - 1)
    BY Zenon
  <1>2. IsFiniteSet(T) /\ Cardinality(T) = m /\ T \subseteq Nat
    <2>1. x \in Int /\ x + m - 1 \in Int
      OBVIOUS
    <2>2. /\ IsFiniteSet(x..(x + m - 1))
          /\ Cardinality(x..(x + m - 1)) = IF x > x + m - 1 THEN 0 ELSE x + m - 1 - x + 1
      BY <2>1, FS_Interval
    <2>3. (IF x > x + m - 1 THEN 0 ELSE x + m - 1 - x + 1) = m
      OBVIOUS
    <2> QED BY <1>1, <2>2, <2>3
  <1>3. PICK A : A = {Asked(t) : t \in T}
    BY Zenon
  <1>4. PICK f : f = [t \in T |-> Asked(t)]
    BY Zenon
  <1>5. f \in [T -> A]
    BY Zenon, <1>3, <1>4
  <1>6. f \in Injection(T, A)
    <2>1. \A t, z \in T : f[t] = f[z] => t = z
      BY Zenon, <1>4 DEF Asked
    <2> QED BY Zenon, <1>5, <2>1 DEF Injection, IsInjective
  <1>7. f \in Surjection(T, A)
    BY Zenon, <1>3, <1>4, <1>5 DEF Surjection
  <1>8. IsFiniteSet(A) /\ Cardinality(A) = Cardinality(T)
    BY Zenon, <1>2, <1>6, <1>7, FS_Surjection
  <1>9. A \subseteq [token : Nat, left : Int]
    BY <1>2, <1>3, UringAssumption DEF Asked
  <1> QED BY Zenon, <1>1, <1>2, <1>3, <1>8, <1>9
LEMMA FreeIsFinite ==
  ASSUME NEW F \in SUBSET RingSlots
  PROVE  IsFiniteSet(F) /\ F \in SUBSET Int /\ Cardinality(F) \in Nat
  <1>1. IsFiniteSet(1..UringDepth) /\ 1..UringDepth \subseteq Int
    <2>1. 1 \in Int /\ UringDepth \in Int
      BY UringAssumption
    <2> QED BY <2>1, FS_Interval
  <1>2. IsFiniteSet(F) /\ F \in SUBSET Int
    BY ZenonT(60), <1>1, FS_Subset DEF RingSlots
  <1> QED BY Zenon, <1>2, FS_CardinalityType

(* Submit takes the first n free slots for tokens next, next + 1, ... *)
TakesSlots(pending, new, x, n) ==
  /\ new \in [RingSlots -> PendingRecs]
  /\ \A s \in RingSlots :
       \/ pending[s].used /\ new[s] = pending[s]
       \/ ~pending[s].used /\ ~new[s].used
       \/ ~pending[s].used /\ new[s].used /\ new[s].token \in x..(x + n - 1) /\ new[s].done = 0
  /\ \A t \in x..(x + n - 1) : \E s \in RingSlots :
       ~pending[s].used /\ new[s].used /\ new[s].token = t
  /\ \A s, z \in RingSlots :
       ~pending[s].used /\ ~pending[z].used /\ new[s].used /\ new[z].used
       /\ new[s].token = new[z].token => s = z
  /\ Cardinality({s \in RingSlots : ~new[s].used})
       = Cardinality({s \in RingSlots : ~pending[s].used}) - n

LEMMA FilledEffect ==
  ASSUME uring \in UringRecs, NEW n \in 0..Cardinality(FreePending)
  PROVE  TakesSlots(uring.pending, Filled(n), uring.next, n)
  <1>1. PICK F \in SUBSET RingSlots : F = FreePending /\ F = {s \in RingSlots : ~uring.pending[s].used}
    BY Zenon DEF FreePending
  <1>2. IsFiniteSet(F) /\ F \in SUBSET Int /\ Cardinality(F) \in Nat /\ n \in 0..Cardinality(F)
    BY Zenon, <1>1, FreeIsFinite
  <1>3. PICK x \in Nat : x = uring.next
    BY Zenon DEF UringRecs
  <1>4. PICK old \in [RingSlots -> PendingRecs] : old = uring.pending
    BY Zenon DEF UringRecs
  <1>5. PICK G \in SUBSET F : G = {s \in F : RankIn(F, s) < n}
    BY Zenon
  <1>6. PICK new : /\ new = Filled(n)
                   /\ new = [s \in RingSlots |->
                        IF s \in F /\ RankIn(F, s) < n
                        THEN [used |-> TRUE, token |-> x + RankIn(F, s), done |-> 0, reaps |-> 0]
                        ELSE old[s]]
    BY Zenon, <1>1, <1>3, <1>4 DEF Filled, RankIn
  <1>7. /\ \A s \in G : new[s] = [used |-> TRUE, token |-> x + RankIn(F, s), done |-> 0, reaps |-> 0]
        /\ \A s \in RingSlots \ G : new[s] = old[s]
    BY Zenon, <1>5, <1>6
  <1>8. \A s \in G : RankIn(F, s) \in Nat /\ RankIn(F, s) < n
    BY SMTT(60), <1>2, <1>5, RankType
  <1>9. \A s \in G : x + RankIn(F, s) \in x..(x + n - 1) /\ x + RankIn(F, s) \in Nat
    BY SMTT(60), <1>2, <1>8
  <1>10. \A s \in G : /\ new[s].used /\ new[s].token = x + RankIn(F, s) /\ new[s].done = 0
                      /\ new[s] \in PendingRecs /\ ~old[s].used
    <2> SUFFICES ASSUME NEW s \in G
                 PROVE  /\ new[s].used /\ new[s].token = x + RankIn(F, s) /\ new[s].done = 0
                        /\ new[s] \in PendingRecs /\ ~old[s].used
      BY Zenon
    <2>1. ~old[s].used
      BY Zenon, <1>1, <1>4
    <2>2. PICK y \in Nat : y = x + RankIn(F, s)
      BY Zenon, <1>9
    <2>3. new[s] = [used |-> TRUE, token |-> y, done |-> 0, reaps |-> 0]
      BY Zenon, <1>7, <2>2
    <2> QED BY SMTT(60), <2>1, <2>2, <2>3 DEF PendingRecs
  <1>11. new \in [RingSlots -> PendingRecs]
    BY ZenonT(60), <1>6, <1>7, <1>10
  <1>12. \A s \in RingSlots :
           \/ old[s].used /\ new[s] = old[s]
           \/ ~old[s].used /\ ~new[s].used
           \/ ~old[s].used /\ new[s].used /\ new[s].token \in x..(x + n - 1) /\ new[s].done = 0
    <2> SUFFICES ASSUME NEW s \in RingSlots
                 PROVE  \/ old[s].used /\ new[s] = old[s]
                        \/ ~old[s].used /\ ~new[s].used
                        \/ ~old[s].used /\ new[s].used /\ new[s].token \in x..(x + n - 1)
                           /\ new[s].done = 0
      BY Zenon
    <2>1. CASE s \in G
      BY Zenon, <1>9, <1>10, <2>1
    <2>2. CASE s \notin G
      BY Zenon, <1>7, <2>2
    <2> QED BY Zenon, <2>1, <2>2
  <1>13. ASSUME NEW t \in x..(x + n - 1)
         PROVE  \E s \in RingSlots : ~old[s].used /\ new[s].used /\ new[s].token = t
    <2>1. t - x \in 0..(Cardinality(F) - 1) /\ t - x < n /\ t = x + (t - x)
      BY <1>2
    <2>2. PICK s \in F : RankIn(F, s) = t - x
      BY Zenon, <1>2, <2>1, RankIsReached
    <2>3. s \in G
      BY Zenon, <1>5, <2>1, <2>2
    <2> QED BY Zenon, <1>10, <2>1, <2>2, <2>3
  <1>14. ASSUME NEW s \in RingSlots, NEW z \in RingSlots, ~old[s].used, ~old[z].used,
                new[s].used, new[z].used, new[s].token = new[z].token
         PROVE  s = z
    <2>1. s \in G /\ z \in G
      BY Zenon, <1>7, <1>14
    <2>2. x + RankIn(F, s) = x + RankIn(F, z)
      BY Zenon, <1>10, <1>14, <2>1
    <2>3. RankIn(F, s) = RankIn(F, z)
      BY <1>8, <2>1, <2>2
    <2> QED BY Zenon, <1>2, <2>1, <2>3, RankIsOne
  <1>15. Cardinality({s \in RingSlots : ~new[s].used}) = Cardinality(F) - n
    <2>1. IsFiniteSet(G) /\ Cardinality(G) = n
      BY Zenon, <1>2, <1>5, RanksBelow
    <2>2. F \cap G = G
      BY Zenon
    <2>3. Cardinality(F \ G) = Cardinality(F) - n
      BY ZenonT(60), <1>2, <2>1, <2>2, FS_Difference
    <2>4. {s \in RingSlots : ~new[s].used} = F \ G
      <3>1. \A s \in RingSlots : s \in F <=> ~old[s].used
        BY Zenon, <1>1, <1>4
      <3>2. \A s \in RingSlots : ~new[s].used <=> s \in F \ G
        BY Zenon, <1>7, <1>10, <3>1
      <3> QED BY Zenon, <3>2
    <2> QED BY Zenon, <2>3, <2>4
  <1>16. F = {s \in RingSlots : ~old[s].used}
    BY Zenon, <1>1, <1>4
  <1>17. TakesSlots(old, new, x, n)
    <2>1. \A t \in x..(x + n - 1) : \E s \in RingSlots :
            ~old[s].used /\ new[s].used /\ new[s].token = t
      BY Zenon, <1>13
    <2>2. \A s, z \in RingSlots :
            ~old[s].used /\ ~old[z].used /\ new[s].used /\ new[z].used
            /\ new[s].token = new[z].token => s = z
      BY Zenon, <1>14
    <2> QED BY Zenon, <1>11, <1>12, <1>15, <1>16, <2>1, <2>2 DEF TakesSlots
  <1> QED BY Zenon, <1>3, <1>4, <1>6, <1>17

(* Prepared(p, a): the kernel has a new reads, under tokens of their own. *)
AsksFor(p, a) ==
  /\ kernel' \subseteq [token : Nat, left : Int] /\ IsFiniteSet(kernel')
  /\ Cardinality(kernel') = Cardinality(kernel) + a
  /\ \A r \in kernel' :
       \/ r \in kernel
       \/ r.token \in uring.next..(uring.next + a - 1) /\ r.left = ReadUnits
  /\ \A t \in uring.next..(uring.next + a - 1) : \E r \in kernel' : r.token = t
  /\ kernel \subseteq kernel'
  /\ \A r, q \in kernel' : r.token = q.token => r = q
  /\ sqes' \subseteq Nat /\ (a = p => sqes' = sqes)
  /\ \A t \in sqes' : t \in sqes \/ t >= uring.next

LEMMA PreparedEffect ==
  ASSUME UringInv, NEW p \in Nat, NEW a \in 0..p, Prepared(p, a)
  PROVE  AsksFor(p, a)
  <1>1. PICK x \in Nat : x = uring.next
    BY Zenon DEF UringInv, UringType, UringRecs
  <1>2. PICK A : A = {Asked(t) : t \in x..(x + a - 1)}
    BY Zenon
  <1>3. IsFiniteSet(A) /\ Cardinality(A) = a /\ A \subseteq [token : Nat, left : Int]
    <2>1. a \in Nat
      OBVIOUS
    <2> QED BY Zenon, <1>2, <2>1, AskedAreCounted
  <1>4. \A r \in A : r.token \in x..(x + a - 1) /\ r.left = ReadUnits /\ r = Asked(r.token)
    BY SMTT(60), <1>2 DEF Asked
  <1>5. \A t \in x..(x + a - 1) : Asked(t) \in A /\ Asked(t).token = t
    BY Zenon, <1>2 DEF Asked
  <1>6. kernel' = kernel \cup A
    BY Zenon, <1>1, <1>2 DEF Prepared
  <1>7. \A r \in kernel : r.token \in Nat /\ r.token < x
    BY Zenon, <1>1 DEF UringInv, UringType, TokensAreFresh
  <1>8. \A r \in kernel, q \in A : r.token # q.token
    <2>1. \A q \in A : q.token \in Int /\ q.token >= x
      BY <1>4
    <2> QED BY ONLY SMTT(60), <1>7, <2>1, x \in Nat
  <1>9. IsFiniteSet(kernel') /\ Cardinality(kernel') = Cardinality(kernel) + a
    <2>1. IsFiniteSet(kernel)
      BY Zenon DEF UringInv, UringType
    <2>2. Cardinality(kernel) \in Nat /\ Cardinality({}) = 0
      BY Zenon, <2>1, FS_CardinalityType, FS_EmptySet
    <2>3. kernel \cap A = {}
      BY Zenon, <1>8
    <2>4. /\ IsFiniteSet(kernel \cup A)
          /\ Cardinality(kernel \cup A) = Cardinality(kernel) + Cardinality(A) - Cardinality(kernel \cap A)
      BY Zenon, <1>3, <2>1, FS_Union
    <2>5. Cardinality(kernel \cap A) = 0
      BY ONLY Zenon, <2>2, <2>3
    <2>6. PICK c \in Nat : c = Cardinality(kernel)
      BY Zenon, <2>2
    <2>7. Cardinality(kernel \cup A) = c + a - 0
      BY ONLY Zenon, <1>3, <2>4, <2>5, <2>6
    <2>8. c + a - 0 = c + a
      OBVIOUS
    <2> QED BY ONLY Zenon, <1>6, <2>4, <2>6, <2>7, <2>8
  <1>10. kernel' \subseteq [token : Nat, left : Int]
    BY Zenon, <1>3, <1>6 DEF UringInv, UringType
  <1>11. \A r, q \in kernel' : r.token = q.token => r = q
    <2>1. \A r, q \in kernel : r.token = q.token => r = q
      BY Zenon DEF UringInv, TokensAreOne
    <2>2. \A r, q \in A : r.token = q.token => r = q
      BY Zenon, <1>4
    <2> QED BY Zenon, <1>6, <1>8, <2>1, <2>2
  <1>12. sqes' = sqes \cup ((x..(x + p - 1)) \ (x..(x + a - 1)))
    BY Zenon, <1>1 DEF Prepared
  <1>13. sqes' \subseteq Nat /\ (a = p => sqes' = sqes) /\ \A t \in sqes' : t \in sqes \/ t >= x
    BY <1>12 DEF UringInv, UringType
  <1>14. \A t \in x..(x + a - 1) : \E r \in kernel' : r.token = t
    BY Zenon, <1>5, <1>6
  <1>15. \A r \in kernel' : \/ r \in kernel
                            \/ r.token \in x..(x + a - 1) /\ r.left = ReadUnits
    BY Zenon, <1>4, <1>6
  <1> QED BY Zenon, <1>1, <1>6, <1>9, <1>10, <1>11, <1>13, <1>14, <1>15 DEF AsksFor

LEMMA TokensGrow ==
  ASSUME UringInv, NEW p \in Nat, NEW a \in 0..p, AsksFor(p, a), cqes' = cqes,
         answers' = answers, uring'.next = uring.next + p,
         TakesSlots(uring.pending, uring'.pending, uring.next, p)
  PROVE  TokensAreOne' /\ TokensAreFresh' /\ AnswersAreLast'
  <1>1. PICK x \in Nat : x = uring.next
    BY Zenon DEF UringInv, UringType, UringRecs
  <1>2. PICK old, new : old = uring.pending /\ new = uring'.pending
    BY Zenon
  <1>3. uring'.next = x + p /\ a \in Nat /\ a <= p /\ x + p \in Nat
    BY SMTT(60), <1>1
  <1>4. \A r \in kernel' : r.token \in Nat /\ (r \in kernel \/ r.token >= x) /\ r.token < x + p
    <2> SUFFICES ASSUME NEW r \in kernel'
                 PROVE  r.token \in Nat /\ (r \in kernel \/ r.token >= x) /\ r.token < x + p
      BY Zenon
    <2>1. r.token \in Nat
      BY Zenon DEF AsksFor
    <2>2. CASE r \in kernel
      <3>1. r.token < x
        BY Zenon, <1>1, <2>2 DEF UringInv, TokensAreFresh
      <3> QED BY SMTT(60), <2>1, <2>2, <3>1
    <2>3. CASE r.token \in x..(x + a - 1)
      BY SMTT(60), <1>3, <2>1, <2>3
    <2> QED BY Zenon, <1>1, <2>2, <2>3 DEF AsksFor
  <1>5. \A c \in cqes : c.token \in Nat /\ c.token < x
    BY Zenon, <1>1 DEF UringInv, UringType, TokensAreFresh
  <1>6. \A s \in RingSlots : new[s].used =>
          \/ old[s].used /\ new[s] = old[s] /\ new[s].token \in Nat /\ new[s].token < x
          \/ ~old[s].used /\ new[s].token \in Nat /\ new[s].token >= x /\ new[s].token < x + p
    <2> SUFFICES ASSUME NEW s \in RingSlots, new[s].used
                 PROVE  \/ old[s].used /\ new[s] = old[s] /\ new[s].token \in Nat /\ new[s].token < x
                        \/ ~old[s].used /\ new[s].token \in Nat /\ new[s].token >= x
                           /\ new[s].token < x + p
      BY Zenon
    <2>1. \/ old[s].used /\ new[s] = old[s]
          \/ ~old[s].used /\ new[s].token \in x..(x + p - 1)
      BY Zenon, <1>1, <1>2 DEF TakesSlots
    <2>2. CASE old[s].used /\ new[s] = old[s]
      <3>1. old[s].token \in Nat
        BY Zenon, <1>2 DEF UringInv, UringType, UringRecs, PendingRecs
      <3>2. old[s].token < x
        BY Zenon, <1>1, <1>2, <2>2 DEF UringInv, TokensAreFresh
      <3> QED BY Zenon, <2>2, <3>1, <3>2
    <2>3. CASE ~old[s].used /\ new[s].token \in x..(x + p - 1)
      BY SMTT(60), <2>3
    <2> QED BY ZenonT(60), <2>1, <2>2, <2>3
  <1>7. \A t \in DOMAIN answers : t \in Nat /\ t < x
    BY Zenon, <1>1 DEF UringInv, TokensAreFresh
  <1>8. TokensAreOne'
    <2>1. \A r, q \in kernel' : r.token = q.token => r = q
      BY Zenon DEF AsksFor
    <2>2. \A c, d \in cqes : c.token = d.token => c = d
      BY Zenon DEF UringInv, TokensAreOne
    <2>3. \A r \in kernel', c \in cqes : r.token # c.token
      <3> SUFFICES ASSUME NEW r \in kernel', NEW c \in cqes PROVE r.token # c.token
        BY Zenon
      <3>1. CASE r \in kernel
        BY Zenon, <3>1 DEF UringInv, TokensAreOne
      <3>2. CASE r.token >= x
        BY SMTT(60), <1>4, <1>5, <3>2
      <3> QED BY Zenon, <1>4, <3>1, <3>2
    <2> QED BY Zenon, <2>1, <2>2, <2>3 DEF TokensAreOne
  <1>9. TokensAreFresh'
    <2>1. \A c \in cqes : c.token < x + p
      BY SMTT(60), <1>5
    <2>2. \A s \in RingSlots : new[s].used => new[s].token < x + p
      BY SMTT(60), <1>6
    <2>3. \A t \in DOMAIN answers : t \in Nat /\ t < x + p
      BY SMTT(60), <1>7
    <2> QED BY Zenon, <1>2, <1>3, <1>4, <2>1, <2>2, <2>3 DEF TokensAreFresh
  <1>10. AnswersAreLast'
    <2> SUFFICES ASSUME NEW t \in DOMAIN answers
                 PROVE  /\ t \notin sqes'
                        /\ \A r \in kernel' : r.token # t
                        /\ \A c \in cqes : c.token # t
                        /\ \A s \in RingSlots : new[s].used => new[s].token # t
      BY Zenon, <1>2 DEF AnswersAreLast
    <2>1. /\ t \notin sqes
          /\ \A r \in kernel : r.token # t
          /\ \A c \in cqes : c.token # t
          /\ \A s \in RingSlots : old[s].used => old[s].token # t
      BY Zenon, <1>2 DEF UringInv, AnswersAreLast
    <2>2. t \notin sqes'
      <3>1. \A y \in sqes' : y \in sqes \/ y >= x
        BY Zenon, <1>1 DEF AsksFor
      <3>2. ~(t >= x)
        BY SMTT(60), <1>7
      <3> QED BY Zenon, <2>1, <3>1, <3>2
    <2>3. \A r \in kernel' : r.token # t
      BY SMTT(60), <1>4, <1>7, <2>1
    <2>4. \A s \in RingSlots : new[s].used => new[s].token # t
      BY SMTT(60), <1>6, <1>7, <2>1
    <2> QED BY Zenon, <2>1, <2>2, <2>3, <2>4
  <1> QED BY Zenon, <1>8, <1>9, <1>10

LEMMA FreeAreCounted ==
  ASSUME UringInv, NEW n \in RingSlots, Submittable(n)
  PROVE  n \in 0..Cardinality(FreePending) /\ Cardinality(FreePending) \in Nat /\ n \in Nat
  <1>1. Cardinality(FreePending) \in Nat
    BY Zenon, FreeIsFinite DEF FreePending
  <1>2. n \in 1..(UringDepth - uring.logical) /\ uring.logical = UringDepth - Cardinality(FreePending)
    BY Zenon DEF Submittable, UringInv, SlotsAreExact
  <1> QED BY SMTT(60), <1>1, <1>2, UringAssumption

LEMMA SubmitGroupStep ==
  ASSUME UringInv, NEW n \in RingSlots, SubmitGroup(n)
  PROVE  UringInv'
  <1>1. n \in 0..Cardinality(FreePending) /\ Cardinality(FreePending) \in Nat /\ n \in Nat
    BY Zenon, FreeAreCounted DEF SubmitGroup
  <1>2. /\ owner = "serve" /\ owner' = owner /\ cqes' = cqes /\ answers' = answers
        /\ ringFaults' = ringFaults /\ Prepared(n, n)
    BY Zenon DEF SubmitGroup, Submittable
  <1>3. PICK u \in UringRecs : u = uring
    BY Zenon DEF UringInv, UringType
  <1>4. PICK new \in [RingSlots -> PendingRecs] :
          new = Filled(n) /\ TakesSlots(u.pending, new, u.next, n)
    <2>1. TakesSlots(uring.pending, Filled(n), uring.next, n)
      BY Zenon, <1>1, <1>3, FilledEffect
    <2>2. Filled(n) \in [RingSlots -> PendingRecs]
      BY Zenon, <2>1 DEF TakesSlots
    <2> QED BY Zenon, <1>3, <2>1, <2>2
  <1>5. /\ u.next \in Nat /\ u.next + n \in Nat
        /\ u.kernel + n \in Int /\ u.logical + n \in Int
    BY <1>1 DEF UringRecs
  <1>6. uring' = [u EXCEPT !.pending = new, !.next = u.next + n, !.kernel = u.kernel + n,
                           !.logical = u.logical + n]
    BY Zenon, <1>3, <1>4 DEF SubmitGroup
  <1>7. /\ uring' \in UringRecs /\ uring'.pending = new /\ uring'.next = u.next + n
        /\ uring'.kernel = u.kernel + n /\ uring'.logical = u.logical + n
    BY Zenon, <1>5, <1>6 DEF UringRecs
  <1>8. n \in 0..n
    BY <1>1
  <1>9. AsksFor(n, n)
    BY Zenon, <1>1, <1>2, <1>8, PreparedEffect
  <1>10. TokensAreOne' /\ TokensAreFresh' /\ AnswersAreLast'
    BY Zenon, <1>1, <1>2, <1>3, <1>4, <1>7, <1>8, <1>9, TokensGrow
  <1>11. UringType'
    BY Zenon, <1>2, <1>7, <1>9 DEF UringInv, UringType, AsksFor
  <1>12. uring'.kernel = Cardinality(kernel') + Cardinality(cqes')
    <2>1. /\ Cardinality(kernel) \in Nat /\ Cardinality(cqes) \in Nat
          /\ u.kernel = Cardinality(kernel) + Cardinality(cqes)
      BY Zenon, <1>3, FS_CardinalityType DEF UringInv, UringType
    <2>2. Cardinality(kernel') = Cardinality(kernel) + n
      BY Zenon, <1>9 DEF AsksFor
    <2> QED BY SMTT(60), <1>1, <1>2, <1>7, <2>1, <2>2
  <1>13. SlotsAreExact'
    <2>1. PICK x \in Nat : x = u.next
      BY Zenon, <1>5
    <2>2. PICK old : old = u.pending
      BY Zenon
    <2>3. /\ \A s \in RingSlots :
               \/ old[s].used /\ new[s] = old[s]
               \/ ~old[s].used /\ ~new[s].used
               \/ ~old[s].used /\ new[s].used /\ new[s].token \in x..(x + n - 1) /\ new[s].done = 0
          /\ \A t \in x..(x + n - 1) : \E s \in RingSlots :
               ~old[s].used /\ new[s].used /\ new[s].token = t
          /\ \A s, z \in RingSlots :
               ~old[s].used /\ ~old[z].used /\ new[s].used /\ new[z].used
               /\ new[s].token = new[z].token => s = z
          /\ Cardinality({s \in RingSlots : ~new[s].used})
               = Cardinality({s \in RingSlots : ~old[s].used}) - n
      BY ZenonT(60), <1>4, <2>1, <2>2 DEF TakesSlots
    <2>4. /\ \A s \in RingSlots : old[s].used => old[s].token \in Int /\ old[s].token < x
          /\ \A r \in kernel : r.token \in Int /\ r.token < x
      BY SMTT(60), <1>3, <2>1, <2>2
         DEF UringInv, UringType, UringRecs, PendingRecs, TokensAreFresh
    <2>5. \A t \in x..(x + n - 1) : t \in Int /\ ~(t < x)
      BY SMTT(60), <1>1
    <2>6. \A r \in kernel' : r \in kernel \/ (r.token \in x..(x + n - 1) /\ r.left = ReadUnits)
      BY Zenon, <1>3, <1>9, <2>1 DEF AsksFor
    <2>7. /\ sqes = {}
          /\ \A r \in kernel : \E s \in RingSlots : old[s].used /\ old[s].token = r.token
          /\ \A c \in cqes : \E s \in RingSlots : old[s].used /\ old[s].token = c.token
          /\ \A s, z \in RingSlots :
               old[s].used /\ old[z].used /\ old[s].token = old[z].token => s = z
          /\ u.logical = UringDepth - Cardinality(FreePending)
          /\ u.logical = u.kernel
          /\ \A r \in kernel, s \in RingSlots :
               old[s].used /\ old[s].token = r.token => r.left + old[s].done = ReadUnits
      BY ZenonT(60), <1>2, <1>3, <2>2 DEF UringInv, SlotsAreExact
    <2>8. sqes' = {}
      BY ZenonT(60), <1>9, <2>7 DEF AsksFor
    <2>9. \A r \in kernel' : \E s \in RingSlots : new[s].used /\ new[s].token = r.token
      BY SMTT(60), <2>3, <2>6, <2>7
    <2>10. \A c \in cqes : \E s \in RingSlots : new[s].used /\ new[s].token = c.token
      BY <2>3, <2>7
    <2>11. \A s, z \in RingSlots :
             new[s].used /\ new[z].used /\ new[s].token = new[z].token => s = z
      BY SMTT(60), <2>3, <2>4, <2>5, <2>7
    <2>12. u.logical + n = UringDepth - Cardinality(FreePending') /\ u.logical + n = u.kernel + n
      <3>1. Cardinality(FreePending') = Cardinality(FreePending) - n
        BY SMTT(60), <1>3, <1>7, <2>2, <2>3 DEF FreePending
      <3> QED BY SMTT(60), <1>1, <2>7, <3>1, UringAssumption
    <2>13. ASSUME NEW r \in kernel', NEW s \in RingSlots, new[s].used, new[s].token = r.token
           PROVE  r.left + new[s].done = ReadUnits
      <3>1. CASE r \in kernel
        <4>1. old[s].used /\ new[s] = old[s]
          BY SMTT(60), <2>3, <2>4, <2>5, <2>13, <3>1
        <4> QED BY SMTT(60), <2>7, <2>13, <3>1, <4>1
      <3>2. CASE r.token \in x..(x + n - 1) /\ r.left = ReadUnits
        <4>1. ~old[s].used
          BY SMTT(60), <2>3, <2>4, <2>5, <2>13, <3>2
        <4>2. new[s].done = 0
          BY Zenon, <2>3, <2>13, <4>1
        <4> QED BY SMTT(60), <3>2, <4>2, UringAssumption
      <3> QED BY Zenon, <2>6, <3>1, <3>2
    <2> QED BY SMTT(60), <1>2, <1>7, <2>8, <2>9, <2>10, <2>11, <2>12, <2>13 DEF SlotsAreExact
  <1> QED BY Zenon, <1>2, <1>10, <1>11, <1>12, <1>13 DEF UringInv

LEMMA SubmitFailsStep ==
  ASSUME UringInv, NEW n \in RingSlots, NEW p \in 0..UringDepth, NEW a \in 0..UringDepth,
         SubmitFails(n, p, a)
  PROVE  UringInv'
  <1>1. PICK u \in UringRecs : u = uring
    BY Zenon DEF UringInv, UringType
  <1>2. /\ Submittable(n) /\ owner = "serve" /\ owner' = "failed" /\ cqes' = cqes
        /\ answers' = answers
    BY Zenon DEF SubmitFails, Submittable
  <1>3. CASE uring.next + n - 1 > MaxTokens
    <2>1. /\ uring' = [u EXCEPT !.poisoned = TRUE] /\ kernel' = kernel /\ sqes' = sqes
          /\ ringFaults' = ringFaults
      BY Zenon, <1>1, <1>3 DEF SubmitFails
    <2>2. /\ uring' \in UringRecs /\ uring'.pending = u.pending /\ uring'.next = u.next
          /\ uring'.kernel = u.kernel
      BY Zenon, <2>1 DEF UringRecs
    <2>3. UringType' /\ TokensAreOne' /\ TokensAreFresh' /\ AnswersAreLast'
      BY SMTT(60), <1>1, <1>2, <2>1, <2>2
         DEF UringInv, UringType, TokensAreOne, TokensAreFresh, AnswersAreLast
    <2> QED BY Zenon, <1>1, <1>2, <2>1, <2>2, <2>3 DEF UringInv, SlotsAreExact
  <1>4. CASE ~(uring.next + n - 1 > MaxTokens)
    <2>1. /\ n \in 0..Cardinality(FreePending) /\ Cardinality(FreePending) \in Nat /\ n \in Nat
      BY Zenon, <1>2, FreeAreCounted
    <2>2. p \in Nat /\ a \in 0..p /\ p \in 0..Cardinality(FreePending) /\ a \in Nat
      <3>1. a < n /\ p <= n /\ (p < n => a = 0)
        BY Zenon DEF SubmitFails
      <3> QED BY <2>1, <3>1, UringAssumption
    <2>3. Prepared(p, a) /\ ringFaults' = ringFaults + 1
      BY Zenon, <1>4 DEF SubmitFails, UringFault
    <2>4. PICK new \in [RingSlots -> PendingRecs] :
            new = Filled(p) /\ TakesSlots(u.pending, new, u.next, p)
      <3>1. TakesSlots(uring.pending, Filled(p), uring.next, p)
        BY Zenon, <1>1, <2>2, FilledEffect
      <3>2. Filled(p) \in [RingSlots -> PendingRecs]
        BY Zenon, <3>1 DEF TakesSlots
      <3> QED BY Zenon, <1>1, <3>1, <3>2
    <2>5. u.next + p \in Nat /\ u.kernel + a \in Int
      BY <2>2 DEF UringRecs
    <2>6. uring' = [u EXCEPT !.pending = new, !.next = u.next + p, !.kernel = u.kernel + a,
                             !.poisoned = TRUE]
      BY Zenon, <1>1, <1>4, <2>4 DEF SubmitFails, CountsAccepted
    <2>7. /\ uring' \in UringRecs /\ uring'.pending = new /\ uring'.next = u.next + p
          /\ uring'.kernel = u.kernel + a
      BY Zenon, <2>5, <2>6 DEF UringRecs
    <2>8. AsksFor(p, a)
      BY Zenon, <2>2, <2>3, PreparedEffect
    <2>9. TokensAreOne' /\ TokensAreFresh' /\ AnswersAreLast'
      BY Zenon, <1>1, <1>2, <2>2, <2>4, <2>7, <2>8, TokensGrow
    <2>10. UringType'
      <3>1. ringFaults' \in Nat
        BY SMTT(60), <2>3 DEF UringInv, UringType
      <3> QED BY Zenon, <1>2, <2>7, <2>8, <3>1 DEF UringInv, UringType, AsksFor
    <2>11. uring'.kernel = Cardinality(kernel') + Cardinality(cqes')
      <3>1. /\ Cardinality(kernel) \in Nat /\ Cardinality(cqes) \in Nat
            /\ u.kernel = Cardinality(kernel) + Cardinality(cqes)
        BY Zenon, <1>1, FS_CardinalityType DEF UringInv, UringType
      <3>2. Cardinality(kernel') = Cardinality(kernel) + a
        BY Zenon, <2>8 DEF AsksFor
      <3> QED BY SMTT(60), <1>2, <2>2, <2>7, <3>1, <3>2
    <2> QED BY Zenon, <1>2, <2>9, <2>10, <2>11 DEF UringInv, SlotsAreExact
  <1> QED BY Zenon, <1>3, <1>4

(* A step of the loop that ends its service, or one after that, and takes   *)
(* nothing from the kernel. *)
LEMMA QuietStep ==
  ASSUME UringInv, uring' \in UringRecs, uring'.pending = uring.pending,
         uring'.next = uring.next, uring'.kernel = uring.kernel,
         kernel' = kernel, cqes' = cqes, sqes' = sqes, answers' = answers,
         owner' \in {"failed", "drained"}, ringFaults' \in Nat
  PROVE  UringInv'
  <1>1. UringType' /\ TokensAreOne' /\ TokensAreFresh' /\ AnswersAreLast'
    BY Zenon DEF UringInv, UringType, TokensAreOne, TokensAreFresh, AnswersAreLast
  <1> QED BY Zenon, <1>1 DEF UringInv, SlotsAreExact

LEMMA PeekFailsStep ==
  ASSUME UringInv, PeekFails
  PROVE  UringInv'
  <1>1. PICK u \in UringRecs : u = uring
    BY Zenon DEF UringInv, UringType
  <1>2. /\ uring' = [u EXCEPT !.poisoned = TRUE] /\ ringFaults' = ringFaults + 1
        /\ kernel' = kernel /\ cqes' = cqes /\ sqes' = sqes /\ answers' = answers
        /\ owner' = "failed"
    BY Zenon, <1>1 DEF PeekFails, UringFault
  <1>3. /\ uring' \in UringRecs /\ uring'.pending = u.pending /\ uring'.next = u.next
        /\ uring'.kernel = u.kernel
    BY Zenon, <1>2 DEF UringRecs
  <1>4. ringFaults' \in Nat
    BY <1>2 DEF UringInv, UringType
  <1> QED BY Zenon, <1>1, <1>2, <1>3, <1>4, QuietStep

LEMMA ServeEndsStep ==
  ASSUME UringInv, ServeEnds
  PROVE  UringInv'
  <1>1. /\ uring' = uring /\ ringFaults' = ringFaults /\ kernel' = kernel /\ cqes' = cqes
        /\ sqes' = sqes /\ answers' = answers /\ owner' = "failed"
    BY Zenon DEF ServeEnds
  <1>2. uring \in UringRecs /\ ringFaults \in Nat
    BY Zenon DEF UringInv, UringType
  <1> QED BY Zenon, <1>1, <1>2, QuietStep

LEMMA KernelReadsStep ==
  ASSUME UringInv, NEW r \in kernel, KernelReads(r)
  PROVE  UringInv'
  <1>1. /\ kernel' = kernel \ {r} /\ uring' = uring /\ sqes' = sqes /\ answers' = answers
        /\ owner' = owner /\ ringFaults' = ringFaults
    BY Zenon DEF KernelReads
  <1>2. r.token \in Nat /\ r.left \in Int
    BY Zenon DEF UringInv, UringType
  <1>3. PICK c \in [token : Nat, res : Int] : c.token = r.token /\ cqes' = cqes \cup {c}
    <2>1. PICK res \in -1..r.left : cqes' = cqes \cup {[token |-> r.token, res |-> res]}
      BY Zenon DEF KernelReads
    <2>2. res \in Int
      BY SMTT(60), <1>2, <2>1
    <2> QED BY Zenon, <1>2, <2>1, <2>2
  <1>4. /\ IsFiniteSet(kernel) /\ IsFiniteSet(cqes)
        /\ Cardinality(kernel) \in Nat /\ Cardinality(cqes) \in Nat
    BY Zenon, FS_CardinalityType DEF UringInv, UringType
  <1>5. c \notin cqes
    BY Zenon, <1>3 DEF UringInv, TokensAreOne
  <1>6. /\ IsFiniteSet(kernel') /\ Cardinality(kernel') = Cardinality(kernel) - 1
        /\ IsFiniteSet(cqes') /\ Cardinality(cqes') = Cardinality(cqes) + 1
    BY Zenon, <1>1, <1>3, <1>4, <1>5, FS_AddElement, FS_RemoveElement
  <1>7. UringType'
    BY Zenon, <1>1, <1>3, <1>6 DEF UringInv, UringType
  <1>8. TokensAreOne'
    BY SMTT(60), <1>1, <1>3 DEF UringInv, TokensAreOne
  <1>9. TokensAreFresh'
    BY Zenon, <1>1, <1>3 DEF UringInv, TokensAreFresh
  <1>10. AnswersAreLast'
    BY Zenon, <1>1, <1>3 DEF UringInv, AnswersAreLast
  <1>11. uring'.kernel = Cardinality(kernel') + Cardinality(cqes')
    <2>1. uring.kernel = Cardinality(kernel) + Cardinality(cqes)
      BY Zenon DEF UringInv
    <2> QED BY SMTT(60), <1>1, <1>4, <1>6, <2>1
  <1>12. SlotsAreExact'
    <2>1. FreePending' = FreePending
      BY Zenon, <1>1 DEF FreePending
    <2> QED BY SMTT(60), <1>1, <1>3, <2>1 DEF UringInv, SlotsAreExact
  <1> QED BY Zenon, <1>1, <1>7, <1>8, <1>9, <1>10, <1>11, <1>12 DEF UringInv

LEMMA OneIsSeen ==
  ASSUME UringInv, NEW c \in cqes
  PROVE  /\ IsFiniteSet(cqes \ {c}) /\ Cardinality(cqes \ {c}) = Cardinality(cqes) - 1
         /\ IsFiniteSet(kernel) /\ Cardinality(kernel) \in Nat /\ Cardinality(cqes) \in Nat
         /\ uring.kernel = Cardinality(kernel) + Cardinality(cqes)
         /\ c.token \in Nat /\ c.res \in Int
  <1>1. IsFiniteSet(kernel) /\ IsFiniteSet(cqes) /\ c.token \in Nat /\ c.res \in Int
    BY Zenon DEF UringInv, UringType
  <1> QED BY Zenon, <1>1, FS_CardinalityType, FS_RemoveElement DEF UringInv

LEMMA DrainOneStep ==
  ASSUME UringInv, NEW c \in cqes, DrainOne(c)
  PROVE  UringInv'
  <1>1. PICK u \in UringRecs : u = uring
    BY Zenon DEF UringInv, UringType
  <1>2. /\ uring' = [u EXCEPT !.kernel = u.kernel - 1] /\ cqes' = cqes \ {c} /\ kernel' = kernel
        /\ sqes' = sqes /\ answers' = answers /\ owner' = owner /\ ringFaults' = ringFaults
        /\ owner \in {"failed", "drained"}
    BY Zenon, <1>1 DEF DrainOne
  <1>3. u.kernel - 1 \in Int
    BY DEF UringRecs
  <1>4. /\ uring' \in UringRecs /\ uring'.pending = u.pending /\ uring'.next = u.next
        /\ uring'.kernel = u.kernel - 1
    BY Zenon, <1>2, <1>3 DEF UringRecs
  <1>5. UringType'
    BY Zenon, <1>2, <1>4, OneIsSeen DEF UringInv, UringType
  <1>6. TokensAreOne' /\ TokensAreFresh' /\ AnswersAreLast'
    BY SMTT(60), <1>1, <1>2, <1>4 DEF UringInv, TokensAreOne, TokensAreFresh, AnswersAreLast
  <1>7. uring'.kernel = Cardinality(kernel') + Cardinality(cqes')
    <2>1. PICK a \in Nat, b \in Nat : a = Cardinality(kernel) /\ b = Cardinality(cqes)
      BY Zenon, OneIsSeen
    <2>2. u.kernel = a + b /\ Cardinality(cqes') = b - 1 /\ Cardinality(kernel') = a
      BY ZenonT(60), <1>1, <1>2, <2>1, OneIsSeen
    <2> QED BY <1>4, <2>1, <2>2
  <1> QED BY Zenon, <1>2, <1>5, <1>6, <1>7 DEF UringInv, SlotsAreExact

LEMMA AbortedStep ==
  ASSUME UringInv, uring.kernel = 0, uring' = Aborted, owner' \in {"drained", "gone"},
         kernel' = kernel, cqes' = cqes, sqes' = sqes, answers' = answers, ringFaults' = ringFaults
  PROVE  UringInv'
  <1>1. PICK u \in UringRecs : u = uring
    BY Zenon DEF UringInv, UringType
  <1>2. PICK new : new = [s \in RingSlots |-> [u.pending[s] EXCEPT !.used = FALSE]]
    BY Zenon
  <1>3. new \in [RingSlots -> PendingRecs] /\ \A s \in RingSlots : new[s].used = FALSE
    <2>1. \A s \in RingSlots : u.pending[s] \in PendingRecs
      BY Zenon DEF UringRecs
    <2> QED BY Zenon, <1>2, <2>1 DEF PendingRecs
  <1>4. uring' = [u EXCEPT !.pending = new, !.logical = 0]
    BY Zenon, <1>1, <1>2 DEF Aborted
  <1>5. /\ uring' \in UringRecs /\ uring'.pending = new /\ uring'.next = u.next
        /\ uring'.kernel = u.kernel
    <2>1. new \in [RingSlots -> PendingRecs]
      BY Zenon, <1>3
    <2>2. PICK z \in Int : z = 0
      OBVIOUS
    <2>3. uring' = [u EXCEPT !.pending = new, !.logical = z]
      BY Zenon, <1>4, <2>2
    <2> QED BY ONLY Zenon, <2>1, <2>3, u \in UringRecs, z \in Int DEF UringRecs
  <1>6. UringType'
    BY Zenon, <1>5 DEF UringInv, UringType
  <1>7. TokensAreOne' /\ TokensAreFresh' /\ AnswersAreLast'
    BY Zenon, <1>1, <1>3, <1>5 DEF UringInv, TokensAreOne, TokensAreFresh, AnswersAreLast
  <1>8. uring'.kernel = Cardinality(kernel') + Cardinality(cqes') /\ uring'.kernel = 0
    BY Zenon, <1>1, <1>5 DEF UringInv
  <1> QED BY Zenon, <1>6, <1>7, <1>8 DEF UringInv, SlotsAreExact

LEMMA DrainReturnsStep ==
  ASSUME UringInv, DrainReturns
  PROVE  UringInv'
  <1>1. /\ owner' = "drained" /\ kernel' = kernel /\ cqes' = cqes /\ sqes' = sqes
        /\ answers' = answers
    BY Zenon DEF DrainReturns
  <1>2. CASE uring.kernel = 0 /\ uring' = Aborted /\ ringFaults' = ringFaults
    BY Zenon, <1>1, <1>2, AbortedStep
  <1>3. CASE uring' = uring /\ UringFault
    <2>1. ringFaults' \in Nat /\ uring \in UringRecs
      BY <1>3 DEF UringFault, UringInv, UringType
    <2> QED BY Zenon, <1>1, <1>3, <2>1, QuietStep
  <1> QED BY Zenon, <1>2, <1>3 DEF DrainReturns

LEMMA DestroyedStep ==
  ASSUME UringInv, Destroyed
  PROVE  UringInv'
  <1>1. /\ uring.kernel = 0 /\ uring' = Aborted /\ owner' = "gone" /\ kernel' = kernel
        /\ cqes' = cqes /\ sqes' = sqes /\ answers' = answers /\ ringFaults' = ringFaults
    BY Zenon DEF Destroyed
  <1> QED BY Zenon, <1>1, AbortedStep

(* What Reap has done when it has seen the completion c of the read in slot  *)
(* s: w is the ring, q the slot with the completion counted. *)
Sees(c, s, q, w) ==
  /\ q.used = TRUE /\ q.token = c.token
  /\ w = [uring EXCEPT !.kernel = uring.kernel - 1,
                       !.pending = [uring.pending EXCEPT ![s] = q]]

LEMMA SeenEffect ==
  ASSUME UringInv, NEW c \in cqes, NEW s \in SlotOfToken(c.token), NEW q, NEW w,
         q = [uring.pending[s] EXCEPT !.reaps = @ + 1,
                                      !.done = @ + (IF c.res > 0 THEN c.res ELSE 0)],
         w = [uring EXCEPT !.kernel = @ - 1, !.pending[s] = q]
  PROVE  q \in PendingRecs /\ Sees(c, s, q, w) /\ w.pending[s] = q
  <1>1. PICK u \in UringRecs : u = uring
    BY Zenon DEF UringInv, UringType
  <1>2. PICK old \in [RingSlots -> PendingRecs] : old = u.pending
    BY Zenon DEF UringRecs
  <1>3. PICK o \in PendingRecs : o = old[s]
    BY Zenon DEF SlotOfToken
  <1>4. s \in RingSlots /\ o.used = TRUE /\ o.token = c.token
    <2>1. s \in RingSlots /\ o.used /\ o.token = c.token
      BY Zenon, <1>1, <1>2, <1>3 DEF SlotOfToken
    <2> QED BY Zenon, <2>1 DEF PendingRecs
  <1>5. PICK more \in Nat : more = IF c.res > 0 THEN c.res ELSE 0
    <2>1. c.res \in Int
      BY Zenon, OneIsSeen
    <2>2. (IF c.res > 0 THEN c.res ELSE 0) \in Nat
      BY ONLY <2>1
    <2> QED BY Zenon, <2>2
  <1>6. PICK y \in Nat, z \in Nat : y = o.reaps + 1 /\ z = o.done + more
    BY DEF PendingRecs
  <1>7. q = [o EXCEPT !.reaps = y, !.done = z]
    <2>1. uring.pending[s] = o
      BY ONLY Zenon, <1>1, <1>2, <1>3
    <2>2. q = [o EXCEPT !.reaps = o.reaps + 1, !.done = o.done + (IF c.res > 0 THEN c.res ELSE 0)]
      BY Zenon, <2>1
    <2>3. q = [o EXCEPT !.reaps = o.reaps + 1, !.done = o.done + more]
      BY ONLY Zenon, <1>5, <2>2
    <2> QED BY ONLY Zenon, <1>6, <2>3
  <1>8. q \in PendingRecs /\ q.used = TRUE /\ q.token = c.token
    BY ONLY Zenon, <1>4, <1>7, o \in PendingRecs, y \in Nat, z \in Nat DEF PendingRecs
  <1>9. w = [u EXCEPT !.kernel = u.kernel - 1, !.pending = [old EXCEPT ![s] = q]]
    BY Zenon, <1>1, <1>2
  <1>10. w.pending[s] = q
    <2>1. PICK new : new = [old EXCEPT ![s] = q]
      BY Zenon
    <2>2. new[s] = q
      BY ONLY Zenon, <1>4, <2>1, old \in [RingSlots -> PendingRecs]
    <2>3. PICK n : n = u.kernel - 1
      BY Zenon
    <2>4. w = [u EXCEPT !.kernel = n, !.pending = new]
      BY ONLY Zenon, <1>9, <2>1, <2>3
    <2>5. w.pending = new
      BY ONLY Zenon, <2>4, u \in UringRecs DEF UringRecs
    <2> QED BY ONLY Zenon, <2>2, <2>5
  <1>11. Sees(c, s, q, w)
    BY Zenon, <1>1, <1>2, <1>8, <1>9 DEF Sees
  <1> QED BY Zenon, <1>8, <1>10, <1>11

(* The ring with the completion seen, in fields. *)
SeenFacts(c, s, q, w) ==
  /\ w \in UringRecs /\ w.next = uring.next /\ w.kernel = uring.kernel - 1
  /\ w.logical = uring.logical /\ s \in RingSlots
  /\ w.pending \in [RingSlots -> PendingRecs] /\ w.pending[s] = q
  /\ \A z \in RingSlots : z # s => w.pending[z] = uring.pending[z]
  /\ uring.pending[s].used /\ uring.pending[s].token = c.token
  /\ q.used = TRUE /\ q.token = c.token

LEMMA SeenFields ==
  ASSUME UringInv, NEW c \in cqes, NEW s \in SlotOfToken(c.token), NEW q \in PendingRecs, NEW w,
         Sees(c, s, q, w)
  PROVE  SeenFacts(c, s, q, w)
  <1>1. PICK u \in UringRecs : u = uring
    BY Zenon DEF UringInv, UringType
  <1>2. PICK old \in [RingSlots -> PendingRecs] : old = u.pending
    BY Zenon DEF UringRecs
  <1>3. PICK new : new = [old EXCEPT ![s] = q]
    BY Zenon
  <1>4. PICK n \in Int : n = u.kernel - 1
    BY SMTT(60) DEF UringRecs
  <1>5. s \in RingSlots /\ uring.pending[s].used /\ uring.pending[s].token = c.token
    BY Zenon DEF SlotOfToken
  <1>6. /\ new \in [RingSlots -> PendingRecs] /\ new[s] = q
        /\ \A z \in RingSlots : z # s => new[z] = old[z]
    BY Zenon, <1>3, <1>5
  <1>7. w = [u EXCEPT !.kernel = n, !.pending = new]
    BY Zenon, <1>1, <1>2, <1>3, <1>4 DEF Sees
  <1>8. /\ w \in UringRecs /\ w.next = u.next /\ w.kernel = n /\ w.logical = u.logical
        /\ w.pending = new
    BY ONLY ZenonT(60), <1>6, <1>7, n \in Int, u \in UringRecs DEF UringRecs
  <1> QED BY Zenon, <1>1, <1>2, <1>4, <1>5, <1>6, <1>8 DEF Sees, SeenFacts

(* A completion is seen and its slot kept: what holds of the tokens stays. *)
LEMMA SeenTokens ==
  ASSUME UringInv, NEW c \in cqes, NEW s \in RingSlots, NEW q \in PendingRecs, NEW w,
         SeenFacts(c, s, q, w), NEW z \in RingSlots
  PROVE  /\ w.pending[z].used <=> uring.pending[z].used
         /\ w.pending[z].token = uring.pending[z].token
  <1>1. CASE z = s
    BY Zenon, <1>1 DEF SeenFacts
  <1>2. CASE z # s
    BY Zenon, <1>2 DEF SeenFacts
  <1> QED BY Zenon, <1>1, <1>2

LEMMA ResubmitFailsStep ==
  ASSUME UringInv, NEW c \in cqes, NEW s \in RingSlots, NEW q \in PendingRecs, NEW w,
         SeenFacts(c, s, q, w), cqes' = cqes \ {c}, NEW left \in SUBSET {c.token},
         ResubmitFails(w, left), ringFaults' \in Nat
  PROVE  UringInv'
  <1>1. /\ w \in UringRecs /\ w.next = uring.next /\ w.kernel = uring.kernel - 1
    BY Zenon DEF SeenFacts
  <1>2. PICK v \in UringRecs : v = w
    BY Zenon, <1>1
  <1>3. /\ uring' = [v EXCEPT !.poisoned = TRUE] /\ sqes' = sqes \cup left /\ owner' = "failed"
        /\ kernel' = kernel /\ answers' = answers
    BY Zenon, <1>2 DEF ResubmitFails
  <1>4. /\ uring' \in UringRecs /\ uring'.pending = v.pending /\ uring'.next = v.next
        /\ uring'.kernel = v.kernel
    BY ZenonT(60), <1>3 DEF UringRecs
  <1>5. /\ \A z \in RingSlots : uring'.pending[z].used <=> uring.pending[z].used
        /\ \A z \in RingSlots : uring'.pending[z].token = uring.pending[z].token
    BY <1>2, <1>4, SeenTokens
  <1>6. UringType'
    <2>1. left \subseteq Nat /\ IsFiniteSet(cqes')
      BY Zenon, OneIsSeen
    <2> QED BY Zenon, <1>3, <1>4, <2>1 DEF UringInv, UringType
  <1>7. TokensAreOne'
    BY Zenon, <1>3 DEF UringInv, TokensAreOne
  <1>8. TokensAreFresh'
    BY Zenon, <1>1, <1>2, <1>3, <1>4, <1>5 DEF UringInv, TokensAreFresh
  <1>9. AnswersAreLast'
    BY SMTT(60), <1>3, <1>5 DEF UringInv, AnswersAreLast
  <1>10. uring'.kernel = Cardinality(kernel') + Cardinality(cqes')
    <2>1. PICK a \in Nat, b \in Nat : a = Cardinality(kernel) /\ b = Cardinality(cqes)
      BY Zenon, OneIsSeen
    <2>2. uring.kernel = a + b /\ Cardinality(cqes') = b - 1 /\ Cardinality(kernel') = a
      BY Zenon, <1>3, <2>1, OneIsSeen
    <2> QED BY SMTT(60), <1>1, <1>2, <1>4, <2>1, <2>2
  <1> QED BY Zenon, <1>3, <1>6, <1>7, <1>8, <1>9, <1>10 DEF UringInv, SlotsAreExact


LEMMA ResubmitsStep ==
  ASSUME UringInv, NEW c \in cqes, NEW s \in RingSlots, NEW q \in PendingRecs, NEW w,
         SeenFacts(c, s, q, w), cqes' = cqes \ {c}, Resubmits(s, c, w), owner = "serve"
  PROVE  UringInv'
  <1>1. PICK v \in UringRecs : v = w
    BY Zenon DEF SeenFacts
  <1>2. PICK n : n = [token |-> c.token, left |-> ReadUnits - q.done]
    BY Zenon
  <1>3. /\ kernel' = kernel \cup {n} /\ uring' = [v EXCEPT !.kernel = v.kernel + 1]
        /\ sqes' = sqes /\ answers' = answers /\ owner' = owner /\ ringFaults' = ringFaults
    BY Zenon, <1>1, <1>2 DEF Resubmits, SeenFacts
  <1>4. v.kernel + 1 \in Int /\ v.kernel = uring.kernel - 1 /\ uring.kernel \in Int
    BY <1>1 DEF SeenFacts, UringRecs, UringInv, UringType
  <1>5. /\ uring' \in UringRecs /\ uring'.pending = v.pending /\ uring'.next = v.next
        /\ uring'.kernel = v.kernel + 1 /\ uring'.logical = v.logical
    BY Zenon, <1>3, <1>4 DEF UringRecs
  <1>6. uring'.next = uring.next /\ uring'.kernel = uring.kernel /\ uring'.logical = uring.logical
    BY SMTT(60), <1>1, <1>4, <1>5 DEF SeenFacts
  <1>7. ASSUME NEW z \in RingSlots
        PROVE  /\ uring'.pending[z].used <=> uring.pending[z].used
               /\ uring'.pending[z].token = uring.pending[z].token
    BY SMTT(60), <1>1, <1>5, SeenTokens
  <1>8. n.token = c.token /\ n.left = ReadUnits - q.done /\ n \in [token : Nat, left : Int]
    <2>1. c.token \in Nat
      BY Zenon, OneIsSeen
    <2>2. PICK l \in Int : l = ReadUnits - q.done
      BY UringAssumption DEF PendingRecs
    <2> QED BY ONLY Zenon, <1>2, <2>1, <2>2
  <1>9. \A r \in kernel : r.token # c.token
    BY Zenon DEF UringInv, TokensAreOne
  <1>10. \A d \in cqes' : d \in cqes /\ d.token # c.token
    BY Zenon DEF UringInv, TokensAreOne
  <1>11. UringType'
    <2>1. IsFiniteSet(kernel \cup {n}) /\ IsFiniteSet(cqes \ {c})
      BY Zenon, OneIsSeen, FS_AddElement
    <2> QED BY Zenon, <1>3, <1>5, <1>8, <2>1 DEF UringInv, UringType
  <1>12. TokensAreOne'
    BY Zenon, <1>3, <1>8, <1>9, <1>10 DEF UringInv, TokensAreOne
  <1>13. TokensAreFresh'
    BY Zenon, <1>3, <1>6, <1>7, <1>8, <1>10 DEF UringInv, TokensAreFresh
  <1>14. AnswersAreLast'
    BY SMTT(60), <1>3, <1>7, <1>8, <1>10 DEF UringInv, AnswersAreLast
  <1>15. uring'.kernel = Cardinality(kernel') + Cardinality(cqes')
    <2>1. PICK a \in Nat, b \in Nat : a = Cardinality(kernel) /\ b = Cardinality(cqes)
      BY Zenon, OneIsSeen
    <2>2. uring.kernel = a + b /\ Cardinality(cqes') = b - 1
      BY Zenon, <1>3, <2>1, OneIsSeen
    <2>3. Cardinality(kernel') = a + 1
      BY Zenon, <1>3, <1>8, <1>9, <2>1, OneIsSeen, FS_AddElement
    <2> QED BY SMTT(60), <1>6, <2>1, <2>2, <2>3
  <1>16. SlotsAreExact'
    <2>1. FreePending' = FreePending
      BY Zenon, <1>7 DEF FreePending
    <2>2. \A r \in kernel' : \E z \in RingSlots :
            uring'.pending[z].used /\ uring'.pending[z].token = r.token
      BY SMTT(60), <1>3, <1>7, <1>8 DEF UringInv, SlotsAreExact, SeenFacts
    <2>3. \A d \in cqes' : \E z \in RingSlots :
            uring'.pending[z].used /\ uring'.pending[z].token = d.token
      BY SMTT(60), <1>7, <1>10 DEF UringInv, SlotsAreExact
    <2>4. \A x, z \in RingSlots :
            uring'.pending[x].used /\ uring'.pending[z].used
            /\ uring'.pending[x].token = uring'.pending[z].token => x = z
      BY Zenon, <1>7 DEF UringInv, SlotsAreExact
    <2>5. ASSUME NEW r \in kernel', NEW z \in RingSlots,
                 uring'.pending[z].used, uring'.pending[z].token = r.token
          PROVE  r.left + uring'.pending[z].done = ReadUnits
      <3>1. uring.pending[z].used /\ uring.pending[z].token = r.token
        BY Zenon, <1>7, <2>5
      <3>2. CASE r = n
        <4>1. z = s
          BY ZenonT(60), <1>8, <3>1, <3>2 DEF UringInv, SlotsAreExact, SeenFacts
        <4>2. uring'.pending[z] = q
          BY Zenon, <1>1, <1>5, <4>1 DEF SeenFacts
        <4>3. q.done \in Int
          BY SMTT(60) DEF PendingRecs
        <4> QED BY SMTT(60), <1>8, <3>2, <4>2, <4>3, UringAssumption
      <3>3. CASE r \in kernel
        <4>1. z # s
          BY Zenon, <1>9, <3>1, <3>3 DEF SeenFacts
        <4>2. uring'.pending[z] = uring.pending[z]
          BY Zenon, <1>1, <1>5, <4>1 DEF SeenFacts
        <4> QED BY SMTT(60), <3>1, <3>3, <4>2 DEF UringInv, SlotsAreExact
      <3> QED BY Zenon, <1>3, <2>5, <3>2, <3>3
    <2> QED BY SMTT(60), <1>3, <1>6, <2>1, <2>2, <2>3, <2>4, <2>5 DEF UringInv, SlotsAreExact
  <1> QED BY Zenon, <1>3, <1>6, <1>11, <1>12, <1>13, <1>14, <1>15, <1>16 DEF UringInv


LEMMA CompletesStep ==
  ASSUME UringInv, NEW c \in cqes, NEW s \in RingSlots, NEW q \in PendingRecs, NEW w,
         SeenFacts(c, s, q, w), cqes' = cqes \ {c}, Completes(s, c, w), owner = "serve"
  PROVE  UringInv'
  <1>1. PICK v \in UringRecs : v = w
    BY Zenon DEF SeenFacts
  <1>2. PICK old \in [RingSlots -> PendingRecs] : old = v.pending
    BY Zenon DEF UringRecs
  <1>3. PICK m : m = [q EXCEPT !.used = FALSE]
    BY Zenon
  <1>4. m \in PendingRecs /\ ~m.used
    BY Zenon, <1>3 DEF PendingRecs
  <1>5. PICK new : new = [old EXCEPT ![s] = m]
    BY ZenonT(60)
  <1>6. /\ new \in [RingSlots -> PendingRecs] /\ ~new[s].used
        /\ \A z \in RingSlots : z # s => new[z] = uring.pending[z]
    BY Zenon, <1>1, <1>2, <1>4, <1>5 DEF SeenFacts
  <1>7. PICK k \in Int : k = v.logical - 1
    BY DEF UringRecs
  <1>8. /\ uring' = [v EXCEPT !.pending = new, !.logical = k]
        /\ DOMAIN answers' = DOMAIN answers \cup {c.token}
        /\ kernel' = kernel /\ sqes' = sqes /\ owner' = owner /\ ringFaults' = ringFaults
    <2>1. old[s] = q
      BY Zenon, <1>1, <1>2 DEF SeenFacts
    <2>2. uring' = [v EXCEPT !.pending[s].used = FALSE, !.logical = @ - 1]
      BY Zenon, <1>1 DEF Completes
    <2>3. uring' = [v EXCEPT !.pending = new, !.logical = k]
      BY ONLY Zenon, <1>2, <1>3, <1>5, <1>7, <2>1, <2>2, v \in UringRecs DEF UringRecs
    <2> QED BY Zenon, <2>3 DEF Completes
  <1>9. /\ uring' \in UringRecs /\ uring'.pending = new /\ uring'.next = v.next
        /\ uring'.kernel = v.kernel /\ uring'.logical = k
    BY ZenonT(60), <1>6, <1>8 DEF UringRecs
  <1>10. /\ uring'.next = uring.next /\ uring'.kernel = uring.kernel - 1
         /\ uring'.logical = uring.logical - 1
    BY Zenon, <1>1, <1>7, <1>9 DEF SeenFacts
  <1>11. ~uring'.pending[s].used /\ \A z \in RingSlots : z # s => uring'.pending[z] = uring.pending[z]
    BY ZenonT(60), <1>6, <1>9
  <1>12. uring.pending[s].used /\ uring.pending[s].token = c.token
    BY Zenon DEF SeenFacts
  <1>13. \A r \in kernel : r.token # c.token
    BY Zenon DEF UringInv, TokensAreOne
  <1>14. \A d \in cqes' : d \in cqes /\ d.token # c.token
    BY Zenon DEF UringInv, TokensAreOne
  <1>15. UringType'
    BY Zenon, <1>8, <1>9, OneIsSeen DEF UringInv, UringType
  <1>16. TokensAreOne'
    BY Zenon, <1>8 DEF UringInv, TokensAreOne
  <1>17. TokensAreFresh'
    <2>1. c.token \in Nat /\ c.token < uring.next
      BY Zenon, OneIsSeen DEF UringInv, TokensAreFresh
    <2> QED BY Zenon, <1>8, <1>10, <1>11, <1>14, <2>1 DEF UringInv, TokensAreFresh
  <1>18. uring'.kernel = Cardinality(kernel') + Cardinality(cqes')
    <2>1. PICK a \in Nat, b \in Nat : a = Cardinality(kernel) /\ b = Cardinality(cqes)
      BY Zenon, OneIsSeen
    <2>2. uring.kernel = a + b /\ Cardinality(cqes') = b - 1 /\ Cardinality(kernel') = a
      BY Zenon, <1>8, <2>1, OneIsSeen
    <2>3. PICK j \in Int : j = uring.kernel
      BY SMTT(60), <2>1, <2>2
    <2>4. uring'.kernel = j - 1 /\ j = a + b
      BY ONLY Zenon, <1>10, <2>2, <2>3
    <2>5. uring'.kernel = a + (b - 1)
      BY ONLY SMTT(60), <2>4, a \in Nat, b \in Nat, j \in Int
    <2> QED BY ONLY Zenon, <2>2, <2>5
  <1>19. ASSUME NEW z \in RingSlots, uring'.pending[z].used
         PROVE  z # s /\ uring.pending[z].used /\ uring'.pending[z] = uring.pending[z]
                /\ uring.pending[z].token # c.token
    BY Zenon, <1>11, <1>12, <1>19 DEF UringInv, SlotsAreExact
  <1>20. AnswersAreLast'
    <2>1. sqes = {}
      BY Zenon DEF UringInv, SlotsAreExact
    <2> QED BY SMTT(60), <1>8, <1>13, <1>14, <1>19, <2>1 DEF UringInv, AnswersAreLast
  <1>21. SlotsAreExact'
    <2>1. /\ Cardinality(FreePending') = Cardinality(FreePending) + 1
          /\ Cardinality(FreePending) \in Nat
      <3>1. FreePending' = FreePending \cup {s} /\ s \notin FreePending
        BY Zenon, <1>11, <1>12 DEF FreePending
      <3>2. IsFiniteSet(FreePending) /\ Cardinality(FreePending) \in Nat
        BY Zenon, FreeIsFinite DEF FreePending
      <3> QED BY ZenonT(60), <3>1, <3>2, FS_AddElement
    <2>2. uring'.logical = UringDepth - Cardinality(FreePending') /\ uring'.logical = uring'.kernel
      <3>1. uring.logical = UringDepth - Cardinality(FreePending) /\ uring.logical = uring.kernel
        BY Zenon DEF UringInv, SlotsAreExact
      <3> QED BY SMTT(60), <1>10, <2>1, <3>1, UringAssumption
    <2>3. \A r \in kernel' : \E z \in RingSlots :
            uring'.pending[z].used /\ uring'.pending[z].token = r.token
      BY SMTT(60), <1>8, <1>11, <1>12, <1>13 DEF UringInv, SlotsAreExact
    <2>4. \A d \in cqes' : \E z \in RingSlots :
            uring'.pending[z].used /\ uring'.pending[z].token = d.token
      BY SMTT(60), <1>11, <1>12, <1>14 DEF UringInv, SlotsAreExact
    <2>5. \A x, z \in RingSlots :
            uring'.pending[x].used /\ uring'.pending[z].used
            /\ uring'.pending[x].token = uring'.pending[z].token => x = z
      BY Zenon, <1>19 DEF UringInv, SlotsAreExact
    <2>6. \A r \in kernel', z \in RingSlots :
            uring'.pending[z].used /\ uring'.pending[z].token = r.token =>
              r.left + uring'.pending[z].done = ReadUnits
      BY <1>8, <1>19 DEF UringInv, SlotsAreExact
    <2> QED BY Zenon, <1>8, <2>2, <2>3, <2>4, <2>5, <2>6 DEF UringInv, SlotsAreExact
  <1> QED BY Zenon, <1>8, <1>15, <1>16, <1>17, <1>18, <1>20, <1>21 DEF UringInv


LEMMA ReapOneStep ==
  ASSUME UringInv, NEW c \in cqes, ReapOne(c)
  PROVE  UringInv'
  <1>1. owner = "serve" /\ cqes' = cqes \ {c}
    BY Zenon DEF ReapOne
  <1>2. PICK s, q, w :
          /\ s \in SlotOfToken(c.token)
          /\ q = [uring.pending[s] EXCEPT !.reaps = @ + 1,
                                          !.done = @ + (IF c.res > 0 THEN c.res ELSE 0)]
          /\ w = [uring EXCEPT !.kernel = @ - 1, !.pending[s] = q]
          /\ \/ Resubmits(s, c, w)
             \/ UringFault /\ \E left \in SUBSET {c.token} : ResubmitFails(w, left)
             \/ ResubmitFails(w, {}) /\ UNCHANGED ringFaults
             \/ Completes(s, c, w)
    BY Zenon DEF ReapOne
  <1>3. q \in PendingRecs /\ Sees(c, s, q, w)
    BY Zenon, <1>2, SeenEffect
  <1>4. SeenFacts(c, s, q, w) /\ s \in RingSlots
    BY Zenon, <1>2, <1>3, SeenFields DEF SlotOfToken
  <1>5. CASE Resubmits(s, c, w)
    BY Zenon, <1>1, <1>3, <1>4, <1>5, ResubmitsStep
  <1>6. CASE UringFault /\ \E left \in SUBSET {c.token} : ResubmitFails(w, left)
    <2>1. ringFaults' \in Nat
      BY SMTT(60), <1>6 DEF UringFault, UringInv, UringType
    <2> QED BY Zenon, <1>1, <1>3, <1>4, <1>6, <2>1, ResubmitFailsStep
  <1>7. CASE ResubmitFails(w, {}) /\ UNCHANGED ringFaults
    <2>1. ringFaults' \in Nat
      BY Zenon, <1>7 DEF UringInv, UringType
    <2>2. PICK left \in SUBSET {c.token} : left = {}
      BY ZenonT(60)
    <2> QED BY Zenon, <1>1, <1>3, <1>4, <1>7, <2>1, <2>2, ResubmitFailsStep
  <1>8. CASE Completes(s, c, w)
    BY Zenon, <1>1, <1>3, <1>4, <1>8, CompletesStep
  <1> QED BY Zenon, <1>2, <1>5, <1>6, <1>7, <1>8

LEMMA UringInitHolds ==
  ASSUME UringReaderInit
  PROVE  UringInv
  <1>1. PICK z \in Nat : z = 0
    BY Zenon
  <1>2. PICK e : e = [used |-> FALSE, token |-> z, done |-> z, reaps |-> z]
    BY Zenon
  <1>3. e \in PendingRecs /\ ~e.used
    BY ONLY Zenon, <1>2, z \in Nat DEF PendingRecs
  <1>4. PICK none : none = [s \in RingSlots |-> e]
    BY Zenon
  <1>5. none \in [RingSlots -> PendingRecs] /\ \A s \in RingSlots : ~none[s].used
    BY Zenon, <1>3, <1>4
  <1>6. PICK n \in Nat : n = 1
    BY Zenon
  <1>7. /\ uring = [pending |-> none, next |-> n, logical |-> z, kernel |-> z, poisoned |-> FALSE]
        /\ kernel = {} /\ cqes = {} /\ sqes = {} /\ DOMAIN answers = {} /\ owner = "serve"
        /\ ringFaults = 0
    BY Zenon, <1>1, <1>2, <1>4, <1>6 DEF UringReaderInit, UnusedSlot
  <1>8. /\ uring \in UringRecs /\ uring.pending = none /\ uring.logical = z /\ uring.kernel = z
    BY SMTT(60), <1>5, <1>7 DEF UringRecs
  <1>9. Cardinality(kernel) = 0 /\ Cardinality(cqes) = 0 /\ IsFiniteSet(kernel) /\ IsFiniteSet(cqes)
    BY Zenon, <1>7, FS_EmptySet
  <1>10. FreePending = 1..UringDepth
    BY Zenon, <1>5, <1>8 DEF FreePending, RingSlots
  <1>11. Cardinality(FreePending) = UringDepth
    <2>1. 1 \in Int /\ UringDepth \in Int /\ UringDepth - 1 + 1 = UringDepth
      BY UringAssumption
    <2>2. CASE UringDepth = 0
      <3>1. FreePending = {}
        BY SMTT(60), <1>10, <2>2
      <3> QED BY Zenon, <2>2, <3>1, FS_EmptySet
    <2>3. CASE UringDepth > 0
      BY SMTT(60), <1>10, <2>1, <2>3, FS_Interval
    <2> QED BY SMTT(60), <2>2, <2>3, UringAssumption
  <1>12. UringType
    BY Zenon, <1>7, <1>8, <1>9 DEF UringType
  <1>13. TokensAreOne /\ AnswersAreLast
    BY Zenon, <1>7 DEF TokensAreOne, AnswersAreLast
  <1>14. TokensAreFresh
    BY Zenon, <1>5, <1>7, <1>8 DEF TokensAreFresh
  <1>15. SlotsAreExact
    BY SMTT(60), <1>1, <1>5, <1>7, <1>8, <1>11, UringAssumption DEF SlotsAreExact
  <1> QED BY SMTT(60), <1>1, <1>7, <1>8, <1>9, <1>12, <1>13, <1>14, <1>15 DEF UringInv

LEMMA UringNextHolds ==
  ASSUME UringInv, [UringReaderNext]_uringVars
  PROVE  UringInv'
  <1>1. ASSUME NEW n \in RingSlots, SubmitGroup(n)
        PROVE  UringInv'
    BY Zenon, <1>1, SubmitGroupStep
  <1>2. ASSUME NEW n \in RingSlots, NEW p \in 0..UringDepth, NEW a \in 0..UringDepth,
               SubmitFails(n, p, a)
        PROVE  UringInv'
    BY Zenon, <1>2, SubmitFailsStep
  <1>3. ASSUME NEW r \in kernel, KernelReads(r)
        PROVE  UringInv'
    BY Zenon, <1>3, KernelReadsStep
  <1>4. ASSUME NEW c \in cqes, ReapOne(c)
        PROVE  UringInv'
    BY Zenon, <1>4, ReapOneStep
  <1>5. ASSUME NEW c \in cqes, DrainOne(c)
        PROVE  UringInv'
    BY Zenon, <1>5, DrainOneStep
  <1>6. CASE PeekFails
    BY Zenon, <1>6, PeekFailsStep
  <1>7. CASE ServeEnds
    BY Zenon, <1>7, ServeEndsStep
  <1>8. CASE DrainReturns
    BY Zenon, <1>8, DrainReturnsStep
  <1>9. CASE Destroyed
    BY Zenon, <1>9, DestroyedStep
  <1>10. CASE UNCHANGED uringVars
    BY ZenonT(60), <1>10
    DEF uringVars, UringInv, UringType, TokensAreOne, TokensAreFresh, SlotsAreExact,
                 AnswersAreLast, FreePending
  <1> QED BY Zenon, <1>1, <1>2, <1>3, <1>4, <1>5, <1>6, <1>7, <1>8, <1>9, <1>10
          DEF UringReaderNext

(* The invariant says what the release of the buffers rests on. *)
LEMMA UringInvOwns ==
  ASSUME UringInv
  PROVE  RingIsOwned
  <1>1. ASSUME owner = "serve", NEW t \in TokensOf(kernel) \cup TokensOf(cqes)
        PROVE  Cardinality(SlotOfToken(t)) = 1
    <2>1. PICK s \in RingSlots : uring.pending[s].used /\ uring.pending[s].token = t
      BY SMTT(60), <1>1 DEF UringInv, SlotsAreExact, TokensOf
    <2>2. SlotOfToken(t) = {s}
      BY <1>1, <2>1 DEF UringInv, SlotsAreExact, SlotOfToken
    <2> QED BY Zenon, <2>2, FS_Singleton
  <1>2. ASSUME owner = "gone"
        PROVE  kernel = {} /\ cqes = {}
    <2>1. IsFiniteSet(kernel) /\ IsFiniteSet(cqes)
      BY Zenon DEF UringInv, UringType
    <2>2. PICK a \in Nat, b \in Nat : a = Cardinality(kernel) /\ b = Cardinality(cqes)
      BY Zenon, <2>1, FS_CardinalityType
    <2>3. a = 0 /\ b = 0
      BY SMTT(60), <1>2, <2>2 DEF UringInv
    <2> QED BY Zenon, <2>1, <2>2, <2>3, FS_EmptySet
  <1>3. KernelIsCounted
    BY Zenon, <1>1, <1>2 DEF UringInv, SlotsAreExact, KernelIsCounted
  <1>4. ReadsAreAnsweredOnce
    BY DEF UringInv, SlotsAreExact, AnswersAreLast, ReadsAreAnsweredOnce, TokensOf
  <1> QED BY Zenon, <1>3, <1>4 DEF RingIsOwned

(* UringReader::Submit, Peek, Wait, Reap, Drain and ~UringReader: through      *)
(* partial submissions, short reads resubmitted, failures and a timed Drain,   *)
(* kernel_inflight_ counts the reads the kernel has, each has its slot to      *)
(* itself while the loop serves, each is answered at most once, and when the   *)
(* ring is gone the kernel has none: for every depth and read size. *)
THEOREM RingIsAlwaysOwned ==
  UringReaderSpec => []RingIsOwned
  <1>1. UringReaderInit => UringInv
    BY Zenon, UringInitHolds
  <1>2. UringInv /\ [UringReaderNext]_uringVars => UringInv'
    BY Zenon, UringNextHolds
  <1>3. UringInv => RingIsOwned
    BY Zenon, UringInvOwns
  <1> QED BY <1>1, <1>2, <1>3, PTL DEF UringReaderSpec

=============================================================================
