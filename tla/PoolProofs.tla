----------------------------- MODULE PoolProofs -----------------------------
(***************************************************************************)
(* Proofs about the client's pools.  The shards of a read batch that go to *)
(* the reader threads (ReadScheduler) are each carried out exactly once,   *)
(* before the call returns.  The pinned bounce buffers through which       *)
(* objects are published (BouncePool), for any number of publishers, slots *)
(* and waiters.                                                            *)
(***************************************************************************)
EXTENDS ReadScheduler, BouncePool, FiniteSetTheorems, TLAPS

-----------------------------------------------------------------------------
(* Read batches.                                                           *)

BatchStates == [pc : {"start", "queued", "lock", "holding", "asleep", "returned"},
                next : Nat, done : Nat]
ReaderStates == [pc : {"asleep", "loop", "run", "count", "notify"},
                 job : Callers \cup {NoCaller}, index : Nat]

SchedType ==
  /\ queue \in Seq(Callers)
  /\ batch \in [Callers -> BatchStates] /\ reader \in [Readers -> ReaderStates]
  /\ \A r \in Readers : reader[r].pc \in {"run", "count", "notify"} => reader[r].job \in Callers
  /\ DOMAIN shardRuns = Callers
  /\ \A c \in Callers : shardRuns[c] \in [0..(Shards[c] - 1) -> Nat]

ReaderHolds(r, c, i) ==
  reader[r].pc \in {"run", "count"} /\ reader[r].job = c /\ reader[r].index = i
ReaderRuns(r, c, i) == reader[r].pc = "run" /\ reader[r].job = c /\ reader[r].index = i

InQueue(c) == \E n \in 1..Len(queue) : queue[n] = c

\* A batch is queued once, while it has shards that no worker has taken.
QueueIsExact ==
  /\ \A m, n \in 1..Len(queue) : queue[m] = queue[n] => m = n
  /\ \A c \in Callers :
       /\ InQueue(c) <=> batch[c].pc # "start" /\ batch[c].next < Shards[c]
       /\ batch[c].next <= Shards[c]

\* A shard that was taken is below the next one, and one worker's.
TakenOnce ==
  \A r \in Readers, c \in Callers, i \in Nat :
    ReaderHolds(r, c, i) =>
      i < batch[c].next /\ \A s \in Readers : ReaderHolds(s, c, i) => s = r

\* The shards that were executed and counted.
CountedShards(c) ==
  {i \in 0..(Shards[c] - 1) : i < batch[c].next /\ \A r \in Readers : ~ReaderHolds(r, c, i)}

BatchIsExact(c) ==
  /\ batch[c].pc = "start" => batch[c].next = 0
  /\ batch[c].done = Cardinality(CountedShards(c))
  /\ \A i \in 0..(Shards[c] - 1) :
       shardRuns[c][i] =
         IF i < batch[c].next /\ \A r \in Readers : ~ReaderRuns(r, c, i) THEN 1 ELSE 0
  /\ batch[c].pc = "returned" => batch[c].done = Shards[c]

\* Work in the queue has a worker that is awake, or a caller about to wake
\* one; a caller that sleeps on a finished batch has a worker about to wake it.
WorkIsSeen ==
  queue # <<>> => \/ \E r \in Readers : reader[r].pc # "asleep"
                  \/ \E c \in Callers : batch[c].pc = "queued"

WillBeWoken(c) ==
  batch[c].pc \in {"holding", "asleep"} /\ batch[c].done = Shards[c] =>
    \E r \in Readers : reader[r].pc = "notify" /\ reader[r].job = c

SchedInv ==
  /\ SchedType /\ QueueIsExact /\ TakenOnce /\ WorkIsSeen
  /\ \A c \in Callers : BatchIsExact(c) /\ WillBeWoken(c)

LEMMA CountedShardsType ==
  ASSUME NEW c \in Callers
  PROVE  /\ IsFiniteSet(CountedShards(c)) /\ Cardinality(CountedShards(c)) \in Nat
         /\ Cardinality(CountedShards(c)) = Shards[c] => CountedShards(c) = 0..(Shards[c] - 1)
  <1>1. Shards[c] \in Nat
    BY Zenon, ReadSchedulerAssumption
  <1>2. IsFiniteSet(0..(Shards[c] - 1)) /\ Cardinality(0..(Shards[c] - 1)) = Shards[c]
    BY SMTT(60), <1>1, FS_Interval
  <1>3. CountedShards(c) \in SUBSET (0..(Shards[c] - 1))
    BY Zenon DEF CountedShards
  <1> QED BY Zenon, <1>2, <1>3, FS_Subset, FS_CardinalityType

LEMMA SchedInit == ReadSchedulerInit => SchedInv
  <1> SUFFICES ASSUME ReadSchedulerInit PROVE SchedInv
    BY Zenon
  <1> USE ReadSchedulerAssumption DEF ReadSchedulerInit
  <1>1. SchedType
    BY DEF SchedType, BatchStates, ReaderStates
  <1>2. Len(queue) = 0
    BY Zenon
  <1>3. QueueIsExact
    BY <1>2 DEF QueueIsExact, InQueue
  <1>4. TakenOnce /\ WorkIsSeen
    BY Zenon DEF TakenOnce, ReaderHolds, WorkIsSeen
  <1>5. ASSUME NEW c \in Callers PROVE BatchIsExact(c) /\ WillBeWoken(c)
    <2>1. CountedShards(c) = {}
      BY SMTT(60) DEF CountedShards
    <2> QED BY <2>1, FS_EmptySet DEF BatchIsExact, WillBeWoken
  <1> QED BY Zenon, <1>1, <1>3, <1>4, <1>5 DEF SchedInv

\* A step that leaves a batch's shards where they are.
LEMMA ShardsFrame ==
  ASSUME NEW c \in Callers, BatchIsExact(c),
         batch'[c].next = batch[c].next, batch'[c].done = batch[c].done,
         batch'[c].pc = "start" => batch[c].pc = "start",
         batch'[c].pc = "returned" => batch[c].pc = "returned" \/ batch[c].done = Shards[c],
         shardRuns'[c] = shardRuns[c],
         \A r \in Readers, i \in Nat : /\ ReaderHolds(r, c, i)' <=> ReaderHolds(r, c, i)
                                       /\ ReaderRuns(r, c, i)' <=> ReaderRuns(r, c, i)
  PROVE  BatchIsExact(c)'
  <1>1. CountedShards(c)' = CountedShards(c)
    BY SMTT(60), ReadSchedulerAssumption DEF CountedShards
  <1> QED BY SMTT(60), <1>1, ReadSchedulerAssumption DEF BatchIsExact

LEMMA TakenFrame ==
  ASSUME SchedType, TakenOnce,
         \A c \in Callers : batch'[c].next = batch[c].next,
         \A r \in Readers, c \in Callers, i \in Nat : ReaderHolds(r, c, i)' => ReaderHolds(r, c, i)
  PROVE  TakenOnce'
  BY Zenon DEF TakenOnce

\* The queue and what it says of the batches.
LEMMA QueueFrame ==
  ASSUME QueueIsExact, queue' = queue,
         \A c \in Callers : /\ batch'[c].next = batch[c].next
                            /\ batch'[c].pc = "start" <=> batch[c].pc = "start"
  PROVE  QueueIsExact'
  <1>1. \A c \in Callers : InQueue(c)' <=> InQueue(c)
    BY Zenon DEF InQueue
  <1> QED BY Zenon, <1>1 DEF QueueIsExact

\* A caller moves on, in Run, without touching the queue or a worker.
LEMMA CallerMoves ==
  ASSUME SchedInv, NEW c \in Callers, NEW pc \in {"lock", "holding", "asleep", "returned"},
         batch[c].pc \in {"lock", "holding"}, batch' = [batch EXCEPT ![c].pc = pc],
         UNCHANGED <<queue, reader, shardRuns>>,
         pc = "returned" => batch[c].done = Shards[c],
         pc = "holding" => batch[c].done # Shards[c],
         pc = "asleep" => batch[c].pc = "holding"
  PROVE  SchedInv'
  <1> USE DEF SchedInv
  <1>1. SchedType'
    <2>1. batch' \in [Callers -> BatchStates]
      BY SMTT(60) DEF SchedType, BatchStates
    <2> QED BY Zenon, <2>1 DEF SchedType
  <1>2. /\ batch'[c].pc = pc /\ batch'[c].next = batch[c].next /\ batch'[c].done = batch[c].done
        /\ \A d \in Callers \ {c} : batch'[d] = batch[d]
    BY Zenon DEF SchedType, BatchStates
  <1>3. \A r \in Readers, d \in Callers, i \in Nat :
          /\ ReaderHolds(r, d, i)' <=> ReaderHolds(r, d, i)
          /\ ReaderRuns(r, d, i)' <=> ReaderRuns(r, d, i)
    BY Zenon DEF ReaderHolds, ReaderRuns
  <1>4. QueueIsExact'
    BY Zenon, <1>2, QueueFrame
  <1>5. TakenOnce'
    BY Zenon, <1>2, <1>3, TakenFrame
  <1>6. WorkIsSeen'
    BY Zenon, <1>2 DEF WorkIsSeen
  <1>7. ASSUME NEW d \in Callers PROVE BatchIsExact(d)'
    <2>1. CASE d = c
      BY Zenon, <1>2, <1>3, <2>1, ShardsFrame
    <2>2. CASE d # c
      BY Zenon, <1>2, <1>3, <2>2, ShardsFrame
    <2> QED BY Zenon, <2>1, <2>2
  <1>8. ASSUME NEW d \in Callers PROVE WillBeWoken(d)'
    BY <1>2 DEF WillBeWoken
  <1> QED BY Zenon, <1>1, <1>4, <1>5, <1>6, <1>7, <1>8


\* What a worker has in its hands is the same after a wakeup.
LEMMA NotifyOneEffect ==
  ASSUME NEW R \in [Readers -> ReaderStates], NEW rs \in NotifyOne(R)
  PROVE  /\ rs \in [Readers -> ReaderStates]
         /\ \A r \in Readers : \/ rs[r] = R[r]
                               \/ /\ R[r].pc = "asleep" /\ rs[r].pc = "loop"
                                  /\ rs[r].job = R[r].job /\ rs[r].index = R[r].index
         /\ \E r \in Readers : rs[r].pc # "asleep"
  <1>1. CASE {r \in Readers : R[r].pc = "asleep"} = {}
    <2>1. rs = R
      BY Zenon, <1>1 DEF NotifyOne
    <2> QED BY Zenon, <1>1, <2>1, ReadSchedulerAssumption
  <1>2. CASE {r \in Readers : R[r].pc = "asleep"} # {}
    <2>1. PICK s \in Readers : R[s].pc = "asleep" /\ rs = [R EXCEPT ![s].pc = "loop"]
      BY Zenon, <1>2 DEF NotifyOne
    <2>2. rs \in [Readers -> ReaderStates]
      BY Zenon, <2>1 DEF ReaderStates
    <2>3. rs[s].pc = "loop" /\ rs[s].job = R[s].job /\ rs[s].index = R[s].index
      BY Zenon, <2>1 DEF ReaderStates
    <2>4. \A r \in Readers \ {s} : rs[r] = R[r]
      BY Zenon, <2>1
    <2> QED BY Zenon, <2>1, <2>2, <2>3, <2>4
  <1> QED BY Zenon, <1>1, <1>2

LEMMA RunBatchStep ==
  ASSUME SchedInv, NEW c \in Callers, RunBatch(c)
  PROVE  SchedInv'
  <1> USE ReadSchedulerAssumption DEF SchedInv
  <1>1. batch[c].pc = "start" /\ UNCHANGED <<reader, shardRuns>>
    BY Zenon DEF RunBatch
  <1>2. PICK pc \in {"returned", "queued"} : batch' = [batch EXCEPT ![c].pc = pc]
    BY Zenon DEF RunBatch
  <1>3. /\ batch'[c].pc = pc /\ batch'[c].next = batch[c].next /\ batch'[c].done = batch[c].done
        /\ \A d \in Callers \ {c} : batch'[d] = batch[d]
    BY Zenon, <1>2 DEF SchedType, BatchStates
  <1>4. batch' \in [Callers -> BatchStates]
    BY ZenonT(60), <1>2 DEF SchedType, BatchStates
  <1>5. \A r \in Readers, d \in Callers, i \in Nat :
          /\ ReaderHolds(r, d, i)' <=> ReaderHolds(r, d, i)
          /\ ReaderRuns(r, d, i)' <=> ReaderRuns(r, d, i)
    BY Zenon, <1>1 DEF ReaderHolds, ReaderRuns
  <1>6. batch[c].next = 0 /\ CountedShards(c) = {}
    <2>1. batch[c].next = 0
      BY Zenon, <1>1 DEF BatchIsExact
    <2>2. \A i \in 0..(Shards[c] - 1) : ~(i < batch[c].next)
      BY <2>1
    <2> QED BY Zenon, <2>1, <2>2 DEF CountedShards
  <1>7. batch[c].done = 0
    BY Zenon, <1>6, FS_EmptySet DEF BatchIsExact
  <1>8. ASSUME NEW d \in Callers PROVE BatchIsExact(d)'
    <2>1. pc = "returned" => Shards[c] = 0
      BY SMTT(60), <1>2, <1>3 DEF RunBatch, SchedType, BatchStates
    <2>2. CASE d = c
      BY Zenon, <1>1, <1>3, <1>5, <1>7, <2>1, <2>2, ShardsFrame
    <2>3. CASE d # c
      BY Zenon, <1>1, <1>3, <1>5, <2>3, ShardsFrame
    <2> QED BY Zenon, <2>2, <2>3
  <1>9. ASSUME NEW d \in Callers PROVE WillBeWoken(d)'
    BY Zenon, <1>1, <1>3 DEF WillBeWoken
  <1>10. TakenOnce'
    <2>1. \A d \in Callers : batch'[d].next = batch[d].next
      BY Zenon, <1>3
    <2> QED BY Zenon, <1>5, <2>1, TakenFrame
  <1>11. CASE Shards[c] = 0
    <2>1. queue' = queue /\ pc = "returned"
      BY SMTT(60), <1>2, <1>3, <1>11 DEF RunBatch, SchedType, BatchStates
    <2>2. SchedType'
      BY Zenon, <1>1, <1>4, <2>1 DEF SchedType
    <2>3. QueueIsExact'
      <3>1. \A d \in Callers : InQueue(d)' <=> InQueue(d)
        BY Zenon, <2>1 DEF InQueue
      <3> QED BY SMTT(60), <1>1, <1>3, <1>6, <1>11, <2>1, <3>1 DEF QueueIsExact
    <2>4. WorkIsSeen'
      BY Zenon, <1>1, <1>3, <2>1 DEF WorkIsSeen
    <2> QED BY Zenon, <1>8, <1>9, <1>10, <2>2, <2>3, <2>4
  <1>12. CASE Shards[c] # 0
    <2>1. queue' = Append(queue, c) /\ pc = "queued"
      BY SMTT(60), <1>2, <1>3, <1>12 DEF RunBatch, SchedType, BatchStates
    <2>2. /\ queue' \in Seq(Callers) /\ Len(queue) \in Nat /\ Len(queue') = Len(queue) + 1
          /\ \A n \in 1..Len(queue) : queue'[n] = queue[n]
          /\ queue'[Len(queue) + 1] = c
      BY SMTT(60), <2>1 DEF SchedType
    <2>3. SchedType'
      BY Zenon, <1>1, <1>4, <2>2 DEF SchedType
    <2>4. QueueIsExact'
      <3>1. ~InQueue(c)
        BY Zenon, <1>1 DEF QueueIsExact
      <3>2. \A n \in 1..Len(queue) : queue[n] # c
        BY Zenon, <3>1 DEF InQueue
      <3>3. ASSUME NEW m \in 1..Len(queue'), NEW n \in 1..Len(queue'), queue'[m] = queue'[n]
            PROVE  m = n
        BY SMTT(60), <2>2, <3>2, <3>3 DEF QueueIsExact
      <3>4. ASSUME NEW d \in Callers
            PROVE  InQueue(d)' <=> InQueue(d) \/ d = c
        BY SMTT(60), <2>2 DEF InQueue
      <3> QED BY SMTT(60), <1>1, <1>3, <1>6, <1>12, <2>1, <3>3, <3>4 DEF QueueIsExact
    <2>5. WorkIsSeen'
      BY Zenon, <1>3, <2>1 DEF WorkIsSeen
    <2> QED BY Zenon, <1>8, <1>9, <1>10, <2>3, <2>4, <2>5
  <1> QED BY Zenon, <1>11, <1>12

LEMMA NotifyReadyStep ==
  ASSUME SchedInv, NEW c \in Callers, NotifyReady(c)
  PROVE  SchedInv'
  <1> USE ReadSchedulerAssumption DEF SchedInv
  <1>1. /\ batch[c].pc = "queued" /\ batch' = [batch EXCEPT ![c].pc = "lock"]
        /\ UNCHANGED <<queue, shardRuns>> /\ reader' \in NotifyOne(reader)
    BY Zenon DEF NotifyReady
  <1>2. /\ reader' \in [Readers -> ReaderStates]
        /\ \A r \in Readers : \/ reader'[r] = reader[r]
                              \/ /\ reader[r].pc = "asleep" /\ reader'[r].pc = "loop"
                                 /\ reader'[r].job = reader[r].job
                                 /\ reader'[r].index = reader[r].index
        /\ \E r \in Readers : reader'[r].pc # "asleep"
    BY Zenon, <1>1, NotifyOneEffect DEF SchedType
  <1>3. /\ batch'[c].pc = "lock" /\ batch'[c].next = batch[c].next
        /\ batch'[c].done = batch[c].done
        /\ \A d \in Callers \ {c} : batch'[d] = batch[d]
    BY Zenon, <1>1 DEF SchedType, BatchStates
  <1>4. SchedType'
    <2>1. batch' \in [Callers -> BatchStates]
      BY ZenonT(60), <1>1 DEF SchedType, BatchStates
    <2> QED BY Zenon, <1>1, <1>2, <2>1 DEF SchedType
  <1>5. \A r \in Readers, d \in Callers, i \in Nat :
          /\ ReaderHolds(r, d, i)' <=> ReaderHolds(r, d, i)
          /\ ReaderRuns(r, d, i)' <=> ReaderRuns(r, d, i)
    BY Zenon, <1>2 DEF ReaderHolds, ReaderRuns
  <1>6. QueueIsExact'
    BY Zenon, <1>1, <1>3, QueueFrame
  <1>7. TakenOnce'
    BY Zenon, <1>3, <1>5, TakenFrame
  <1>8. WorkIsSeen'
    BY Zenon, <1>2 DEF WorkIsSeen
  <1>9. ASSUME NEW d \in Callers PROVE BatchIsExact(d)'
    <2>1. CASE d = c
      BY Zenon, <1>1, <1>3, <1>5, <2>1, ShardsFrame
    <2>2. CASE d # c
      BY Zenon, <1>1, <1>3, <1>5, <2>2, ShardsFrame
    <2> QED BY Zenon, <2>1, <2>2
  <1>10. ASSUME NEW d \in Callers PROVE WillBeWoken(d)'
    BY <1>1, <1>2, <1>3 DEF WillBeWoken
  <1> QED BY Zenon, <1>4, <1>6, <1>7, <1>8, <1>9, <1>10

LEMMA CallerStepHolds ==
  ASSUME SchedInv, NEW c \in Callers, CallerStep(c)
  PROVE  SchedInv'
  <1>1. CASE NotifyReady(c)
    BY Zenon, <1>1, NotifyReadyStep
  <1>2. CASE TestDone(c)
    <2>1. PICK pc \in {"returned", "holding"} :
            /\ batch' = [batch EXCEPT ![c].pc = pc]
            /\ pc = "returned" <=> batch[c].done = Shards[c]
      BY Zenon, <1>2 DEF TestDone
    <2>2. batch[c].pc = "lock" /\ UNCHANGED <<queue, reader, shardRuns>>
      BY Zenon, <1>2 DEF TestDone
    <2> QED BY Zenon, <2>1, <2>2, CallerMoves
  <1>3. CASE SleepUntilDone(c)
    BY Zenon, <1>3, CallerMoves DEF SleepUntilDone
  <1> QED BY Zenon, <1>1, <1>2, <1>3 DEF CallerStep


\* The worker that takes a shard of the batch at the head of the queue.
Takes(r, c, i) ==
  /\ c \in Callers /\ queue # <<>> /\ c = Head(queue) /\ i \in Nat /\ i = batch[c].next
  /\ i < Shards[c] /\ batch[c].pc # "start"
  /\ batch' = [batch EXCEPT ![c].next = i + 1] /\ shardRuns' = shardRuns
  /\ queue' = IF i + 1 < Shards[c] THEN Append(Tail(queue), c) ELSE Tail(queue)
  /\ reader[r].pc = "loop"
  /\ reader' \in [Readers -> ReaderStates]
  /\ reader'[r].pc = "run" /\ reader'[r].job = c /\ reader'[r].index = i
  /\ \A s \in Readers \ {r} : \/ reader'[s] = reader[s]
                              \/ reader[s].pc = "asleep" /\ reader'[s].pc = "loop"

LEMMA TakeShardEffect ==
  ASSUME SchedInv, NEW r \in Readers, TakeShard(r), queue # <<>>
  PROVE  \E c, i : Takes(r, c, i)
  <1> USE ReadSchedulerAssumption DEF SchedInv
  <1>1. PICK c : c = Head(queue)
    BY Zenon
  <1>2. c \in Callers /\ Len(queue) \in Nat /\ Len(queue) # 0 /\ c = queue[1]
    BY <1>1 DEF SchedType
  <1>3. InQueue(c)
    BY <1>2 DEF InQueue
  <1>4. PICK i \in Nat : i = batch[c].next
    BY Zenon, <1>2 DEF SchedType, BatchStates
  <1>5. i < Shards[c] /\ batch[c].pc # "start"
    BY Zenon, <1>2, <1>3, <1>4 DEF QueueIsExact
  <1>6. PICK took : took = [reader EXCEPT ![r] = [pc |-> "run", job |-> c, index |-> i]]
    BY Zenon
  <1>7. /\ took \in [Readers -> ReaderStates]
        /\ took[r].pc = "run" /\ took[r].job = c /\ took[r].index = i
        /\ \A s \in Readers \ {r} : took[s] = reader[s]
    BY Zenon, <1>2, <1>6 DEF SchedType, ReaderStates
  <1>8. /\ reader[r].pc = "loop" /\ shardRuns' = shardRuns
        /\ batch' = [batch EXCEPT ![c].next = i + 1]
        /\ queue' = IF i + 1 < Shards[c] THEN Append(Tail(queue), c) ELSE Tail(queue)
        /\ reader' = took \/ reader' \in NotifyOne(took)
    BY Zenon, <1>1, <1>4, <1>6 DEF TakeShard
  <1>9. /\ reader' \in [Readers -> ReaderStates]
        /\ \A s \in Readers : \/ reader'[s] = took[s]
                              \/ took[s].pc = "asleep" /\ reader'[s].pc = "loop"
    BY SMTT(60), <1>7, <1>8, NotifyOneEffect
  <1>10. reader'[r] = took[r]
    BY Zenon, <1>7, <1>9
  <1>11. Takes(r, c, i)
    BY Zenon, <1>1, <1>2, <1>4, <1>5, <1>7, <1>8, <1>9, <1>10 DEF Takes
  <1> QED BY Zenon, <1>11

LEMMA TakesQueue ==
  ASSUME SchedInv, NEW r \in Readers, NEW c, NEW i, Takes(r, c, i)
  PROVE  queue' \in Seq(Callers) /\ QueueIsExact'
  <1> USE ReadSchedulerAssumption DEF SchedInv
  <1> DEFINE rest == Tail(queue)
  <1>1. /\ Len(queue) \in Nat /\ Len(queue) # 0 /\ c = queue[1]
        /\ rest \in Seq(Callers) /\ Len(rest) = Len(queue) - 1
        /\ \A n \in 1..Len(rest) : rest[n] = queue[n + 1]
    BY DEF SchedType, Takes
  <1>2. queue' = (IF i + 1 < Shards[c] THEN Append(rest, c) ELSE rest) /\ c \in Callers
    BY Zenon DEF Takes
  <1> HIDE DEF rest
  <1>3. /\ \A m, n \in 1..Len(rest) : rest[m] = rest[n] => m = n
        /\ \A n \in 1..Len(rest) : rest[n] # c
    <2>1. \A n \in 1..Len(rest) : n + 1 \in 1..Len(queue) /\ n + 1 # 1
      BY <1>1
    <2>2. 1 \in 1..Len(queue)
      BY <1>1
    <2>3. \A m, n \in 1..Len(queue) : queue[m] = queue[n] => m = n
      BY Zenon DEF QueueIsExact
    <2>4. ASSUME NEW m \in 1..Len(rest), NEW n \in 1..Len(rest), rest[m] = rest[n] PROVE m = n
      <3>1. m + 1 = n + 1
        BY SMTT(60), <1>1, <2>1, <2>3, <2>4
      <3> QED BY <3>1
    <2>5. ASSUME NEW n \in 1..Len(rest) PROVE rest[n] # c
      BY Zenon, <1>1, <2>1, <2>2, <2>3
    <2> QED BY Zenon, <2>4, <2>5
  <1>4. \A d \in Callers \ {c} : (\E n \in 1..Len(rest) : rest[n] = d) <=> InQueue(d)
    <2>1. ASSUME NEW d \in Callers \ {c}, InQueue(d) PROVE \E n \in 1..Len(rest) : rest[n] = d
      <3>1. PICK n \in 1..Len(queue) : queue[n] = d
        BY Zenon, <2>1 DEF InQueue
      <3>2. n - 1 \in 1..Len(rest) /\ (n - 1) + 1 = n
        BY SMTT(60), <1>1, <3>1
      <3> QED BY Zenon, <1>1, <3>1, <3>2
    <2>2. ASSUME NEW d \in Callers \ {c}, NEW n \in 1..Len(rest), rest[n] = d PROVE InQueue(d)
      <3>1. n + 1 \in 1..Len(queue)
        BY <1>1
      <3> QED BY Zenon, <1>1, <2>2, <3>1 DEF InQueue
    <2> QED BY Zenon, <2>1, <2>2
  <1>5. /\ batch'[c].next = i + 1 /\ batch'[c].pc = batch[c].pc /\ i \in Nat
        /\ \A d \in Callers \ {c} : batch'[d] = batch[d]
    BY SMTT(60) DEF Takes, SchedType, BatchStates
  <1>6. i < Shards[c] /\ batch[c].pc # "start"
    BY Zenon DEF Takes
  <1>7. CASE i + 1 < Shards[c]
    <2>1. queue' = Append(rest, c)
      BY Zenon, <1>2, <1>7
    <2>2. /\ queue' \in Seq(Callers) /\ Len(rest) \in Nat /\ Len(queue') = Len(rest) + 1
          /\ \A n \in 1..Len(rest) : queue'[n] = rest[n]
          /\ queue'[Len(rest) + 1] = c
      BY SMTT(60), <1>1, <1>2, <2>1
    <2>3. \A m, n \in 1..Len(queue') : queue'[m] = queue'[n] => m = n
      BY SMTT(60), <1>3, <2>2
    <2>4. InQueue(c)' /\ \A d \in Callers \ {c} : InQueue(d)' <=> InQueue(d)
      <3>1. Len(rest) + 1 \in 1..Len(queue')
        BY <2>2
      <3>2. \A n \in 1..Len(queue') : n \in 1..Len(rest) \/ n = Len(rest) + 1
        BY <2>2
      <3>3. \A n \in 1..Len(rest) : n \in 1..Len(queue')
        BY <2>2
      <3>4. InQueue(c)'
        BY Zenon, <2>2, <3>1 DEF InQueue
      <3>5. ASSUME NEW d \in Callers \ {c}
            PROVE  InQueue(d)' <=> \E n \in 1..Len(rest) : rest[n] = d
        BY Zenon, <2>2, <3>2, <3>3 DEF InQueue
      <3> QED BY Zenon, <1>4, <3>4, <3>5
    <2>5. \A d \in Callers : InQueue(d)' <=> batch'[d].pc # "start" /\ batch'[d].next < Shards[d]
      BY Zenon, <1>5, <1>6, <1>7, <2>4 DEF QueueIsExact
    <2>6. \A d \in Callers : batch'[d].next <= Shards[d]
      BY <1>2, <1>5, <1>7 DEF QueueIsExact
    <2> QED BY Zenon, <2>2, <2>3, <2>5, <2>6 DEF QueueIsExact
  <1>8. CASE ~(i + 1 < Shards[c])
    <2>1. queue' = rest
      BY Zenon, <1>2, <1>8
    <2>2. ~InQueue(c)' /\ \A d \in Callers \ {c} : InQueue(d)' <=> InQueue(d)
      BY Zenon, <1>3, <1>4, <2>1 DEF InQueue
    <2>3. ~(i + 1 < Shards[c]) /\ i + 1 <= Shards[c]
      BY SMTT(60), <1>2, <1>5, <1>6, <1>8
    <2> QED BY Zenon, <1>1, <1>2, <1>3, <1>5, <2>1, <2>2, <2>3 DEF QueueIsExact
  <1> QED BY Zenon, <1>7, <1>8

LEMMA TakeShardStep ==
  ASSUME SchedInv, NEW r \in Readers, TakeShard(r)
  PROVE  SchedInv'
  <1> USE ReadSchedulerAssumption DEF SchedInv
  <1>1. CASE queue = <<>>
    <2>1. /\ reader[r].pc = "loop" /\ reader' = [reader EXCEPT ![r].pc = "asleep"]
          /\ UNCHANGED <<queue, batch, shardRuns>>
      BY Zenon, <1>1 DEF TakeShard
    <2>2. /\ \A s \in Readers \ {r} : reader'[s] = reader[s]
          /\ reader'[r].pc = "asleep"
      BY Zenon, <2>1 DEF SchedType, ReaderStates
    <2>3. SchedType'
      <3>1. reader' \in [Readers -> ReaderStates]
        BY ZenonT(60), <2>1 DEF SchedType, ReaderStates
      <3> QED BY Zenon, <2>1, <2>2, <3>1 DEF SchedType
    <2>4. \A s \in Readers, d \in Callers, i \in Nat :
            /\ ReaderHolds(s, d, i)' <=> ReaderHolds(s, d, i)
            /\ ReaderRuns(s, d, i)' <=> ReaderRuns(s, d, i)
      BY Zenon, <2>1, <2>2 DEF ReaderHolds, ReaderRuns
    <2>5. QueueIsExact' /\ TakenOnce'
      BY Zenon, <2>1, <2>4, QueueFrame, TakenFrame
    <2>6. WorkIsSeen'
      BY Zenon, <1>1, <2>1 DEF WorkIsSeen
    <2>7. \A d \in Callers : BatchIsExact(d)'
      BY Zenon, <2>1, <2>4, ShardsFrame
    <2>8. \A d \in Callers : WillBeWoken(d)'
      BY <2>1, <2>2 DEF WillBeWoken
    <2> QED BY Zenon, <2>3, <2>5, <2>6, <2>7, <2>8
  <1>2. CASE queue # <<>>
    <2>1. PICK c, i : Takes(r, c, i)
      BY Zenon, <1>2, TakeShardEffect
    <2>2. queue' \in Seq(Callers) /\ QueueIsExact'
      BY Zenon, <2>1, TakesQueue
    <2>3. /\ c \in Callers /\ i \in Nat /\ i = batch[c].next
          /\ batch'[c].next = i + 1 /\ batch'[c].pc = batch[c].pc
          /\ batch'[c].done = batch[c].done /\ \A d \in Callers \ {c} : batch'[d] = batch[d]
          /\ batch' \in [Callers -> BatchStates] /\ shardRuns' = shardRuns
      <3>1. /\ c \in Callers /\ i \in Nat /\ i = batch[c].next /\ shardRuns' = shardRuns
            /\ batch' = [batch EXCEPT ![c].next = i + 1]
        BY Zenon, <2>1 DEF Takes
      <3>2. i + 1 \in Nat
        BY <3>1
      <3> QED BY Zenon, <3>1, <3>2 DEF SchedType, BatchStates
    <2>4. /\ reader[r].pc = "loop" /\ reader' \in [Readers -> ReaderStates]
          /\ reader'[r].pc = "run" /\ reader'[r].job = c /\ reader'[r].index = i
          /\ \A s \in Readers \ {r} : \/ reader'[s] = reader[s]
                                      \/ reader[s].pc = "asleep" /\ reader'[s].pc = "loop"
      BY Zenon, <2>1 DEF Takes
    <2>5. SchedType'
      <3>1. \A s \in Readers : reader'[s].pc \in {"run", "count", "notify"} => reader'[s].job \in Callers
        BY ZenonT(60), <2>3, <2>4 DEF SchedType
      <3> QED BY Zenon, <2>2, <2>3, <2>4, <3>1 DEF SchedType
    <2>6. /\ \A s \in Readers \ {r} : \A d \in Callers, j \in Nat :
               /\ ReaderHolds(s, d, j)' <=> ReaderHolds(s, d, j)
               /\ ReaderRuns(s, d, j)' <=> ReaderRuns(s, d, j)
          /\ \A d \in Callers, j \in Nat : ~ReaderHolds(r, d, j) /\ ~ReaderRuns(r, d, j)
          /\ \A d \in Callers, j \in Nat : /\ ReaderHolds(r, d, j)' <=> d = c /\ j = i
                                           /\ ReaderRuns(r, d, j)' <=> d = c /\ j = i
      BY Zenon, <2>4 DEF ReaderHolds, ReaderRuns
    <2>7. TakenOnce'
      <3>1. \A s \in Readers : ~ReaderHolds(s, c, i)
        BY SMTT(60), <2>3 DEF TakenOnce
      <3>2. ASSUME NEW s \in Readers, NEW d \in Callers, NEW j \in Nat, ReaderHolds(s, d, j)'
            PROVE  j < batch'[d].next /\ \A u \in Readers : ReaderHolds(u, d, j)' => u = s
        <4>1. CASE s = r
          BY SMTT(60), <2>3, <2>6, <3>1, <3>2, <4>1
        <4>2. CASE s # r
          <5>1. ReaderHolds(s, d, j)
            BY Zenon, <2>6, <3>2, <4>2
          <5>2. j < batch[d].next /\ \A u \in Readers : ReaderHolds(u, d, j) => u = s
            BY Zenon, <5>1 DEF TakenOnce
          <5>3. j < batch'[d].next
            BY SMTT(60), <2>3, <5>2
          <5> QED BY Zenon, <2>6, <3>1, <5>1, <5>2, <5>3
        <4> QED BY Zenon, <4>1, <4>2
      <3> QED BY Zenon, <3>2 DEF TakenOnce
    <2>8. WorkIsSeen'
      BY Zenon, <2>4 DEF WorkIsSeen
    <2>9. BatchIsExact(c)'
      <3>1. /\ \A j \in 0..(Shards[c] - 1) : j < i + 1 <=> j < i \/ j = i
            /\ \A j \in 0..(Shards[c] - 1) : j \in Nat
        BY SMTT(60), <2>3
      <3>2. \A j \in 0..(Shards[c] - 1) :
              j < i + 1 /\ (\A s \in Readers : ~ReaderHolds(s, c, j)') <=>
              j < i /\ (\A s \in Readers : ~ReaderHolds(s, c, j))
        BY SMTT(60), <2>3, <2>6, <3>1
      <3>3. CountedShards(c)' = CountedShards(c)
        BY Zenon, <2>3, <3>2 DEF CountedShards
      <3>4. \A j \in 0..(Shards[c] - 1) :
              j < i + 1 /\ (\A s \in Readers : ~ReaderRuns(s, c, j)') <=>
              j < i /\ (\A s \in Readers : ~ReaderRuns(s, c, j))
        BY <2>3, <2>6, <3>1
      <3>5. batch[c].pc # "start"
        BY Zenon, <2>1 DEF Takes
      <3> QED BY ZenonT(60), <2>3, <3>3, <3>4, <3>5 DEF BatchIsExact
    <2>10. \A d \in Callers \ {c} : BatchIsExact(d)'
      BY ZenonT(60), <2>3, <2>6, ShardsFrame
    <2>11. \A d \in Callers : WillBeWoken(d)'
      BY <2>3, <2>4 DEF WillBeWoken
    <2> QED BY Zenon, <2>2, <2>5, <2>7, <2>8, <2>9, <2>10, <2>11
  <1> QED BY Zenon, <1>1, <1>2


LEMMA RunShardStep ==
  ASSUME SchedInv, NEW r \in Readers, RunShard(r)
  PROVE  SchedInv'
  <1> USE ReadSchedulerAssumption DEF SchedInv
  <1>1. PICK c \in Callers, i \in Nat : c = reader[r].job /\ i = reader[r].index
    BY Zenon DEF RunShard, SchedType, ReaderStates
  <1>2. /\ reader[r].pc = "run" /\ UNCHANGED <<queue, batch>>
        /\ shardRuns' = [shardRuns EXCEPT ![c][i] = @ + 1]
        /\ reader' = [reader EXCEPT ![r].pc = "count"]
    BY Zenon, <1>1 DEF RunShard
  <1>3. /\ reader'[r].pc = "count" /\ reader'[r].job = c /\ reader'[r].index = i
        /\ \A s \in Readers \ {r} : reader'[s] = reader[s]
        /\ reader' \in [Readers -> ReaderStates]
    BY ZenonT(60), <1>1, <1>2 DEF SchedType, ReaderStates
  <1>4. ReaderHolds(r, c, i) /\ ReaderRuns(r, c, i)
    BY Zenon, <1>1, <1>2 DEF ReaderHolds, ReaderRuns
  <1>5. i \in 0..(Shards[c] - 1) /\ i < batch[c].next
    <2>1. i < batch[c].next /\ batch[c].next <= Shards[c] /\ batch[c].next \in Nat
      BY Zenon, <1>4 DEF TakenOnce, QueueIsExact, SchedType, BatchStates
    <2> QED BY SMTT(60), <2>1
  <1>6. shardRuns[c] \in [0..(Shards[c] - 1) -> Nat] /\ shardRuns[c][i] = 0
    BY Zenon, <1>4, <1>5 DEF SchedType, BatchIsExact
  <1>7. /\ DOMAIN shardRuns' = Callers /\ \A d \in Callers \ {c} : shardRuns'[d] = shardRuns[d]
        /\ shardRuns'[c] = [shardRuns[c] EXCEPT ![i] = 1]
    BY <1>2, <1>5, <1>6 DEF SchedType
  <1>8. SchedType'
    <2>1. \A d \in Callers : shardRuns'[d] \in [0..(Shards[d] - 1) -> Nat]
      <3>1. PICK S : S = 0..(Shards[c] - 1)
        BY Zenon
      <3>2. PICK f \in [S -> Nat] : f = shardRuns[c]
        BY Zenon, <1>6, <3>1
      <3>3. [f EXCEPT ![i] = 1] \in [S -> Nat]
        BY Zenon
      <3>4. shardRuns'[c] \in [0..(Shards[c] - 1) -> Nat]
        BY Zenon, <1>7, <3>1, <3>2, <3>3
      <3> QED BY Zenon, <1>7, <3>4 DEF SchedType
    <2>2. \A s \in Readers : reader'[s].pc \in {"run", "count", "notify"} => reader'[s].job \in Callers
      BY Zenon, <1>3 DEF SchedType
    <2> QED BY Zenon, <1>2, <1>3, <1>7, <2>1, <2>2 DEF SchedType
  <1>9. /\ \A s \in Readers, d \in Callers, j \in Nat :
             ReaderHolds(s, d, j)' <=> ReaderHolds(s, d, j)
        /\ \A s \in Readers \ {r} : \A d \in Callers, j \in Nat :
             ReaderRuns(s, d, j)' <=> ReaderRuns(s, d, j)
        /\ \A d \in Callers, j \in Nat : ~ReaderRuns(r, d, j)'
        /\ \A d \in Callers, j \in Nat : ReaderRuns(r, d, j) <=> d = c /\ j = i
    BY Zenon, <1>1, <1>2, <1>3 DEF ReaderHolds, ReaderRuns
  <1>10. QueueIsExact' /\ TakenOnce'
    BY Zenon, <1>2, <1>9, QueueFrame, TakenFrame
  <1>11. WorkIsSeen'
    BY Zenon, <1>3 DEF WorkIsSeen
  <1>12. ASSUME NEW d \in Callers \ {c} PROVE BatchIsExact(d)'
    BY <1>2, <1>7, <1>9, ShardsFrame
  <1>13. BatchIsExact(c)'
    <2>1. CountedShards(c)' = CountedShards(c)
      BY <1>2, <1>9 DEF CountedShards
    <2>2. \A s \in Readers : ~ReaderRuns(s, c, i)'
      <3>1. \A s \in Readers : ReaderRuns(s, c, i) => s = r
        BY Zenon, <1>4 DEF TakenOnce, ReaderHolds, ReaderRuns
      <3> QED BY Zenon, <1>9, <3>1
    <2>3. shardRuns'[c][i] = 1
      BY Zenon, <1>5, <1>6, <1>7
    <2>4. ASSUME NEW j \in 0..(Shards[c] - 1), j # i
          PROVE  shardRuns'[c][j] = IF j < batch'[c].next /\ \A s \in Readers : ~ReaderRuns(s, c, j)'
                                    THEN 1 ELSE 0
      <3>1. shardRuns'[c][j] = shardRuns[c][j]
        BY Zenon, <1>6, <1>7, <2>4
      <3>2. \A s \in Readers : ReaderRuns(s, c, j)' <=> ReaderRuns(s, c, j)
        BY <1>9, <2>4
      <3> QED BY Zenon, <1>2, <3>1, <3>2 DEF BatchIsExact
    <2> QED BY Zenon, <1>2, <1>5, <2>1, <2>2, <2>3, <2>4 DEF BatchIsExact
  <1>14. \A d \in Callers : WillBeWoken(d)'
    BY Zenon, <1>2, <1>3 DEF WillBeWoken
  <1> QED BY Zenon, <1>8, <1>10, <1>11, <1>12, <1>13, <1>14

LEMMA CountShardStep ==
  ASSUME SchedInv, NEW r \in Readers, CountShard(r)
  PROVE  SchedInv'
  <1> USE ReadSchedulerAssumption DEF SchedInv
  <1>1. PICK c \in Callers, i \in Nat : c = reader[r].job /\ i = reader[r].index
    BY Zenon DEF CountShard, SchedType, ReaderStates
  <1>2. PICK n \in Nat : n = batch[c].done
    BY Zenon DEF SchedType, BatchStates
  <1>3. PICK pc \in {"notify", "loop"} :
          /\ reader' = [reader EXCEPT ![r].pc = pc]
          /\ pc = "notify" <=> n + 1 = Shards[c]
    BY Zenon, <1>1, <1>2 DEF CountShard
  <1>4. /\ reader[r].pc = "count" /\ UNCHANGED <<queue, shardRuns>>
        /\ batch' = [batch EXCEPT ![c].done = n + 1]
    BY Zenon, <1>1, <1>2 DEF CountShard
  <1>5. /\ reader'[r].pc = pc /\ reader'[r].job = c
        /\ \A s \in Readers \ {r} : reader'[s] = reader[s]
        /\ reader' \in [Readers -> ReaderStates]
    BY ZenonT(60), <1>1, <1>3 DEF SchedType, ReaderStates
  <1>6. /\ batch'[c].done = n + 1 /\ batch'[c].next = batch[c].next /\ batch'[c].pc = batch[c].pc
        /\ \A d \in Callers \ {c} : batch'[d] = batch[d]
        /\ batch' \in [Callers -> BatchStates]
    <2>1. n + 1 \in Nat
      OBVIOUS
    <2> QED BY ZenonT(60), <1>4, <2>1 DEF SchedType, BatchStates
  <1>7. SchedType'
    <2>1. \A s \in Readers : reader'[s].pc \in {"run", "count", "notify"} => reader'[s].job \in Callers
      BY Zenon, <1>5 DEF SchedType
    <2> QED BY Zenon, <1>4, <1>5, <1>6, <2>1 DEF SchedType
  <1>8. /\ \A s \in Readers \ {r} : \A d \in Callers, j \in Nat :
             ReaderHolds(s, d, j)' <=> ReaderHolds(s, d, j)
        /\ \A s \in Readers, d \in Callers, j \in Nat : ReaderRuns(s, d, j)' <=> ReaderRuns(s, d, j)
        /\ \A d \in Callers, j \in Nat : ~ReaderHolds(r, d, j)'
        /\ \A d \in Callers, j \in Nat : ReaderHolds(r, d, j) <=> d = c /\ j = i
    BY Zenon, <1>1, <1>4, <1>5 DEF ReaderHolds, ReaderRuns
  <1>9. QueueIsExact'
    BY Zenon, <1>4, <1>6, QueueFrame
  <1>10. TakenOnce'
    BY Zenon, <1>6, <1>8, TakenFrame
  <1>11. WorkIsSeen'
    BY Zenon, <1>5 DEF WorkIsSeen
  <1>12. ASSUME NEW d \in Callers \ {c} PROVE BatchIsExact(d)'
    BY <1>4, <1>6, <1>8, ShardsFrame
  <1>13. BatchIsExact(c)'
    <2>1. i < batch[c].next /\ \A s \in Readers \ {r} : ~ReaderHolds(s, c, i)
      BY Zenon, <1>8 DEF TakenOnce
    <2>2. i \in 0..(Shards[c] - 1)
      <3>1. batch[c].next <= Shards[c] /\ batch[c].next \in Nat
        BY Zenon DEF QueueIsExact, SchedType, BatchStates
      <3> QED BY SMTT(60), <2>1, <3>1
    <2>3. i \notin CountedShards(c) /\ CountedShards(c)' = CountedShards(c) \cup {i}
      <3>1. i \notin CountedShards(c)
        BY Zenon, <1>8 DEF CountedShards
      <3>2. \A j \in Nat : (\A s \in Readers : ~ReaderHolds(s, c, j)')
                            <=> j = i \/ (\A s \in Readers : ~ReaderHolds(s, c, j))
        BY Zenon, <1>8, <2>1
      <3> QED BY SMTT(60), <1>6, <2>1, <2>2, <3>1, <3>2 DEF CountedShards
    <2>4. Cardinality(CountedShards(c)') = n + 1
      <3>1. IsFiniteSet(CountedShards(c)) /\ Cardinality(CountedShards(c)) = n
        BY Zenon, <1>2, CountedShardsType DEF BatchIsExact
      <3> QED BY Zenon, <2>3, <3>1, FS_AddElement
    <2>5. batch[c].pc # "returned"
      <3>1. batch[c].pc = "returned" => CountedShards(c) = 0..(Shards[c] - 1)
        BY Zenon, CountedShardsType DEF BatchIsExact
      <3> QED BY Zenon, <2>2, <2>3, <3>1
    <2> QED BY SMTT(60), <1>4, <1>6, <1>8, <2>4, <2>5 DEF BatchIsExact
  <1>14. ASSUME NEW d \in Callers PROVE WillBeWoken(d)'
    <2>1. CASE d = c
      BY SMTT(60), <1>3, <1>5, <1>6, <2>1 DEF WillBeWoken
    <2>2. CASE d # c
      <3>1. \A s \in Readers : reader[s].pc = "notify" => reader'[s] = reader[s]
        BY Zenon, <1>4, <1>5
      <3> QED BY <1>6, <2>2, <3>1 DEF WillBeWoken
    <2> QED BY Zenon, <2>1, <2>2
  <1> QED BY Zenon, <1>7, <1>9, <1>10, <1>11, <1>12, <1>13, <1>14

LEMMA NotifyDoneStep ==
  ASSUME SchedInv, NEW r \in Readers, NotifyDone(r)
  PROVE  SchedInv'
  <1> USE ReadSchedulerAssumption DEF SchedInv
  <1>1. PICK c \in Callers : c = reader[r].job
    BY Zenon DEF NotifyDone, SchedType
  <1>2. PICK pc : pc = IF batch[c].pc = "asleep" THEN "lock" ELSE batch[c].pc
    BY Zenon
  <1>3. /\ reader[r].pc = "notify" /\ batch[c].pc # "holding" /\ UNCHANGED <<queue, shardRuns>>
        /\ batch' = [batch EXCEPT ![c].pc = pc] /\ reader' = [reader EXCEPT ![r].pc = "loop"]
    BY Zenon, <1>1, <1>2 DEF NotifyDone, SchedType
  <1>4. /\ reader'[r].pc = "loop" /\ \A s \in Readers \ {r} : reader'[s] = reader[s]
        /\ reader' \in [Readers -> ReaderStates]
    BY ZenonT(60), <1>3 DEF SchedType, ReaderStates
  <1>5. /\ batch'[c].pc = pc /\ batch'[c].next = batch[c].next /\ batch'[c].done = batch[c].done
        /\ \A d \in Callers \ {c} : batch'[d] = batch[d]
        /\ batch' \in [Callers -> BatchStates]
    BY ZenonT(60), <1>2, <1>3 DEF SchedType, BatchStates
  <1>6. SchedType'
    BY Zenon, <1>3, <1>4, <1>5 DEF SchedType
  <1>7. \A s \in Readers, d \in Callers, i \in Nat :
          /\ ReaderHolds(s, d, i)' <=> ReaderHolds(s, d, i)
          /\ ReaderRuns(s, d, i)' <=> ReaderRuns(s, d, i)
    BY Zenon, <1>3, <1>4 DEF ReaderHolds, ReaderRuns
  <1>8. QueueIsExact'
    BY <1>2, <1>3, <1>5, QueueFrame
  <1>9. TakenOnce'
    BY Zenon, <1>5, <1>7, TakenFrame
  <1>10. WorkIsSeen'
    BY Zenon, <1>4 DEF WorkIsSeen
  <1>11. ASSUME NEW d \in Callers PROVE BatchIsExact(d)'
    <2>1. CASE d = c
      BY SMTT(60), <1>2, <1>3, <1>5, <1>7, <2>1, ShardsFrame
    <2>2. CASE d # c
      BY Zenon, <1>3, <1>5, <1>7, <2>2, ShardsFrame
    <2> QED BY Zenon, <2>1, <2>2
  <1>12. ASSUME NEW d \in Callers PROVE WillBeWoken(d)'
    <2>1. CASE d = c
      BY SMTT(60), <1>2, <1>3, <1>5, <2>1 DEF WillBeWoken
    <2>2. CASE d # c
      BY <1>1, <1>4, <1>5, <2>2 DEF WillBeWoken
    <2> QED BY Zenon, <2>1, <2>2
  <1> QED BY Zenon, <1>6, <1>8, <1>9, <1>10, <1>11, <1>12

LEMMA SchedNext ==
  ASSUME SchedInv, [ReadSchedulerNext]_schedVars
  PROVE  SchedInv'
  <1>1. ASSUME NEW c \in Callers, RunBatch(c) \/ CallerStep(c) PROVE SchedInv'
    BY Zenon, <1>1, RunBatchStep, CallerStepHolds
  <1>2. ASSUME NEW r \in Readers, ReaderStep(r) PROVE SchedInv'
    BY Zenon, <1>2, TakeShardStep, RunShardStep, CountShardStep, NotifyDoneStep DEF ReaderStep
  <1>3. CASE UNCHANGED schedVars
    <2>1. UNCHANGED <<queue, batch, reader, shardRuns>>
      BY Zenon, <1>3 DEF schedVars
    <2>2. \A r \in Readers, c \in Callers, i \in Nat :
            /\ ReaderHolds(r, c, i)' <=> ReaderHolds(r, c, i)
            /\ ReaderRuns(r, c, i)' <=> ReaderRuns(r, c, i)
      BY Zenon, <2>1 DEF ReaderHolds, ReaderRuns
    <2>3. SchedType' /\ WorkIsSeen'
      BY Zenon, <2>1 DEF SchedInv, SchedType, WorkIsSeen
    <2>4. QueueIsExact' /\ TakenOnce'
      BY Zenon, <2>1, <2>2, QueueFrame, TakenFrame DEF SchedInv
    <2>5. \A c \in Callers : BatchIsExact(c)'
      BY Zenon, <2>1, <2>2, ShardsFrame DEF SchedInv
    <2>6. \A c \in Callers : WillBeWoken(c)'
      BY Zenon, <2>1 DEF SchedInv, WillBeWoken
    <2> QED BY Zenon, <2>3, <2>4, <2>5, <2>6 DEF SchedInv
  <1> QED BY Zenon, <1>1, <1>2, <1>3 DEF ReadSchedulerNext

LEMMA SchedCompletes == SchedInv => BatchesComplete
  <1> SUFFICES ASSUME SchedInv PROVE BatchesComplete
    BY Zenon
  <1> USE ReadSchedulerAssumption DEF SchedInv
  <1>1. ASSUME NEW c \in Callers, batch[c].pc \notin {"start", "returned"}
        PROVE  SomeoneIsAwake
    <2>1. CASE batch[c].pc # "asleep"
      BY Zenon, <1>1, <2>1 DEF SomeoneIsAwake, SchedType, BatchStates
    <2>2. CASE batch[c].pc = "asleep" /\ batch[c].done = Shards[c]
      BY Zenon, <2>2 DEF WillBeWoken, SomeoneIsAwake
    <2>3. CASE batch[c].pc = "asleep" /\ batch[c].done # Shards[c]
      <3>1. CASE batch[c].next < Shards[c]
        <4>1. InQueue(c)
          BY Zenon, <2>3, <3>1 DEF QueueIsExact
        <4>2. queue # <<>>
          BY <4>1 DEF InQueue
        <4> QED BY Zenon, <4>2 DEF WorkIsSeen, SomeoneIsAwake
      <3>2. CASE ~(batch[c].next < Shards[c])
        <4>1. CountedShards(c) # 0..(Shards[c] - 1)
          <5>1. Shards[c] \in Nat
            BY Zenon
          <5>2. 0 \in Int /\ Shards[c] - 1 \in Int /\ (0 <= Shards[c] - 1 \/ Shards[c] = 0)
            BY <5>1
          <5>3. Cardinality(0..(Shards[c] - 1)) = Shards[c]
            BY SMTT(60), <5>1, <5>2, FS_Interval
          <5> QED BY Zenon, <2>3, <5>3 DEF BatchIsExact
        <4>2. \A i \in 0..(Shards[c] - 1) : i < batch[c].next
          BY SMTT(60), <3>2 DEF SchedType, BatchStates
        <4>3. PICK i \in 0..(Shards[c] - 1), r \in Readers : ReaderHolds(r, c, i)
          BY Zenon, <4>1, <4>2 DEF CountedShards
        <4> QED BY Zenon, <4>3 DEF ReaderHolds, SomeoneIsAwake
      <3> QED BY Zenon, <3>1, <3>2
    <2> QED BY Zenon, <2>1, <2>2, <2>3
  <1>2. ASSUME NEW c \in Callers, batch[c].pc = "returned", NEW i \in DOMAIN shardRuns[c]
        PROVE  shardRuns[c][i] = 1
    <2>1. i \in 0..(Shards[c] - 1)
      BY Zenon DEF SchedType
    <2>2. CountedShards(c) = 0..(Shards[c] - 1)
      BY Zenon, <1>2, CountedShardsType DEF BatchIsExact
    <2>3. i < batch[c].next /\ \A r \in Readers : ~ReaderRuns(r, c, i)
      BY Zenon, <2>1, <2>2 DEF CountedShards, ReaderHolds, ReaderRuns
    <2> QED BY Zenon, <2>1, <2>3 DEF BatchIsExact
  <1> QED BY Zenon, <1>1, <1>2 DEF BatchesComplete

(* For any number of callers, shards and workers: no wakeup of the read     *)
(* scheduler is lost, and Run returns after each shard of its batch was     *)
(* carried out exactly once.                                               *)
THEOREM BatchesAlwaysComplete == ReadSchedulerSpec => []BatchesComplete
  <1>1. SchedInv /\ [ReadSchedulerNext]_schedVars => SchedInv'
    BY Zenon, SchedNext
  <1> QED BY <1>1, SchedInit, SchedCompletes, PTL DEF ReadSchedulerSpec

-----------------------------------------------------------------------------
(* The values of the pool's and the publishers' members. *)
PubPlaces == {"idle", "acquire", "wait", "alloc", "aborting", "copy", "sync", "recover",
              "copied", "refused"}
PubRecs == [pc : PubPlaces, home : {"app", "device"}, cur : {"app", "device"},
            stream : BOOLEAN, retained : BOOLEAN, refs : Int, restore : BOOLEAN,
            failed : BOOLEAN, finished : BOOLEAN, copies : Int, left : Int, slot : Int]
SlotRecs == [data : BOOLEAN, allocating : BOOLEAN, inUse : BOOLEAN, poisoned : BOOLEAN]
BounceRecs == [slot : [SlotIds -> SlotRecs], allocated : Int, allocs : Int, active : Int,
               disabled : BOOLEAN, down : BOOLEAN]

BounceType ==
  /\ bounce \in BounceRecs /\ pub \in [Publishers -> PubRecs]
  /\ dma \subseteq SlotIds /\ freed \subseteq SlotIds /\ driverFaults \in Nat

LeasePlaces == {"copy", "sync", "recover"}
AllocPlaces == {"alloc", "aborting"}
Allocators == {t \in Publishers : pub[t].pc \in AllocPlaces}

(* What a publisher's record says of its context, whatever the pool is doing. *)
PublisherOk(p) ==
  /\ p.pc = "idle" => (p.failed \/ (p.cur = p.home /\ p.left = 0))
  /\ p.pc # "idle" => p.cur = "device"
  /\ p.pc = "copied" => p.left = 0
  /\ p.finished => p.refs = 0 /\ p.pc = "idle"
  /\ ~p.finished => p.refs = (IF p.retained THEN 1 ELSE 0)
  /\ p.retained => p.stream \/ p.finished

(* A slot is in use, poisoned or being allocated, and not two of these. *)
SlotOk(s) ==
  /\ s.inUse => s.data /\ ~s.poisoned
  /\ s.poisoned => s.data
  /\ s.allocating => ~s.data

(* Every slot in use has its holder, and every slot being allocated its thread. *)
SlotsAreHeld ==
  /\ \A i \in SlotIds : SlotOk(bounce.slot[i])
  /\ \A i \in SlotIds : bounce.slot[i].inUse => \E t \in Leasing : pub[t].slot = i
  /\ \A t \in Publishers : pub[t].pc \in LeasePlaces =>
       pub[t].slot \in SlotIds /\ bounce.slot[pub[t].slot].inUse
  /\ \A t, u \in Publishers : pub[t].pc \in LeasePlaces /\ pub[u].pc \in LeasePlaces
       /\ pub[t].slot = pub[u].slot => t = u
  /\ \A t \in Publishers : pub[t].pc = "alloc" =>
       pub[t].slot \in SlotIds /\ bounce.slot[pub[t].slot].allocating
  /\ \A t, u \in Publishers : pub[t].pc = "alloc" /\ pub[u].pc = "alloc"
       /\ pub[t].slot = pub[u].slot => t = u

(* What the device may be reading, and what teardown gave back. *)
MemoryIsSafe ==
  /\ \A i \in dma : bounce.slot[i].inUse \/ bounce.slot[i].poisoned
  /\ freed # {} => bounce.down /\ Leasing = {}
  /\ \A i \in freed : ~bounce.slot[i].poisoned

PoolInv ==
  /\ BounceType /\ SlotsAreHeld /\ MemoryIsSafe
  /\ \A t \in Publishers : PublisherOk(pub[t])
  /\ bounce.active = Cardinality(Leasing) /\ bounce.allocs = Cardinality(Allocators)
  /\ \A t \in Publishers : pub[t].pc = "wait" => bounce.active + bounce.allocs > 0

(* What a step of thread t leaves alone: the others, but for waking them. *)
OthersStay(t, p) ==
  \A u \in Publishers \ {t} :
    /\ p[u] \in PubRecs /\ PublisherOk(p[u]) /\ p[u].slot = pub[u].slot
    /\ p[u].pc = pub[u].pc \/ (pub[u].pc = "wait" /\ p[u].pc = "acquire")

LEMMA OneMoves ==
  ASSUME PoolInv, NEW t \in Publishers, NEW r \in PubRecs, PublisherOk(r),
         NEW p, p = [pub EXCEPT ![t] = r]
  PROVE  p \in [Publishers -> PubRecs] /\ OthersStay(t, p) /\ p[t] = r
  BY Zenon DEF PoolInv, BounceType, OthersStay

LEMMA AllAreWoken ==
  ASSUME NEW p \in [Publishers -> PubRecs], NEW n, n = NotifiedAll(p)
  PROVE  /\ n \in [Publishers -> PubRecs]
         /\ \A u \in Publishers :
              /\ p[u].pc # "wait" => n[u] = p[u]
              /\ n[u].pc # "wait" /\ n[u].slot = p[u].slot
              /\ p[u].pc = "wait" => n[u].pc = "acquire"
              /\ PublisherOk(p[u]) => PublisherOk(n[u])
  <1>1. ASSUME NEW u \in Publishers
        PROVE  /\ n[u] \in PubRecs /\ n[u].pc # "wait" /\ n[u].slot = p[u].slot
               /\ p[u].pc # "wait" => n[u] = p[u]
               /\ p[u].pc = "wait" => n[u].pc = "acquire"
               /\ PublisherOk(p[u]) => PublisherOk(n[u])
    <2>1. PICK o \in PubRecs : o = p[u]
      BY Zenon
    <2>2. n[u] = [o EXCEPT !.pc = IF o.pc = "wait" THEN "acquire" ELSE o.pc]
      BY Zenon, <2>1 DEF NotifiedAll
    <2>3. CASE o.pc = "wait"
      <3>1. PICK m : m = [o EXCEPT !.pc = "acquire"]
        BY Zenon
      <3>2. /\ m \in PubRecs /\ m.pc = "acquire" /\ m.slot = o.slot /\ m.cur = o.cur
            /\ m.finished = o.finished /\ m.refs = o.refs /\ m.retained = o.retained
            /\ m.stream = o.stream
        BY ONLY Zenon, <3>1, o \in PubRecs DEF PubRecs, PubPlaces
      <3>3. n[u] = m
        BY Zenon, <2>2, <2>3, <3>1
      <3>4. PublisherOk(o) => PublisherOk(m)
        BY Zenon, <2>3, <3>2 DEF PublisherOk
      <3> QED BY Zenon, <2>1, <2>3, <3>2, <3>3, <3>4
    <2>4. CASE o.pc # "wait"
      <3>1. n[u] = o
        BY Zenon, <2>2, <2>4 DEF PubRecs
      <3> QED BY Zenon, <2>1, <2>4, <3>1
    <2> QED BY Zenon, <2>3, <2>4
  <1>2. n = [u \in Publishers |-> n[u]]
    BY Zenon DEF NotifiedAll
  <1> QED BY Zenon, <1>1, <1>2

(* Thread t moves to r and every waiter is woken. *)
WokenPub(t, r) == NotifiedAll([pub EXCEPT ![t] = r])

LEMMA OneMovesAllWake ==
  ASSUME PoolInv, NEW t \in Publishers, NEW r \in PubRecs, PublisherOk(r), r.pc # "wait",
         NEW p, p = WokenPub(t, r)
  PROVE  /\ p \in [Publishers -> PubRecs] /\ OthersStay(t, p) /\ p[t] = r
         /\ \A u \in Publishers : p[u].pc # "wait"
  <1>1. PICK q : q = [pub EXCEPT ![t] = r]
    BY Zenon
  <1>2. q \in [Publishers -> PubRecs] /\ OthersStay(t, q) /\ q[t] = r
    BY Zenon, <1>1, OneMoves
  <1>3. \A u \in Publishers \ {t} : q[u] = pub[u]
    BY Zenon, <1>1 DEF PoolInv, BounceType
  <1>4. p = NotifiedAll(q)
    BY Zenon, <1>1 DEF WokenPub
  <1>5. /\ p \in [Publishers -> PubRecs]
        /\ \A u \in Publishers :
             /\ q[u].pc # "wait" => p[u] = q[u]
             /\ p[u].pc # "wait" /\ p[u].slot = q[u].slot
             /\ q[u].pc = "wait" => p[u].pc = "acquire"
             /\ PublisherOk(q[u]) => PublisherOk(p[u])
    BY ONLY <1>2, <1>4, AllAreWoken
  <1>6. OthersStay(t, p)
    <2>1. ASSUME NEW u \in Publishers \ {t}
          PROVE  /\ PublisherOk(q[u]) /\ q[u] = pub[u]
      BY Zenon, <1>2, <1>3 DEF OthersStay
    <2> QED BY Zenon, <1>5, <2>1 DEF OthersStay
  <1>7. p[t] = r
    BY Zenon, <1>2, <1>5
  <1> QED BY Zenon, <1>5, <1>6, <1>7

(* Who leases and who allocates, after a step of t. *)
LEMMA SetsMove ==
  ASSUME PoolInv, NEW t \in Publishers, OthersStay(t, pub')
  PROVE  /\ Leasing' \ {t} = Leasing \ {t} /\ Allocators' \ {t} = Allocators \ {t}
         /\ IsFiniteSet(Leasing) /\ IsFiniteSet(Allocators)
         /\ Cardinality(Leasing) \in Nat /\ Cardinality(Allocators) \in Nat
  <1>1. IsFiniteSet(Leasing) /\ IsFiniteSet(Allocators)
    BY Zenon, BounceAssumption, FS_Subset DEF Leasing, Allocators
  <1>2. ASSUME NEW u \in Publishers \ {t}
        PROVE  /\ u \in Leasing' <=> u \in Leasing
               /\ u \in Allocators' <=> u \in Allocators
    BY Zenon DEF OthersStay, Leasing, Allocators, AllocPlaces
  <1>3. Leasing' \subseteq Publishers /\ Leasing \subseteq Publishers
        /\ Allocators' \subseteq Publishers /\ Allocators \subseteq Publishers
    BY Zenon DEF Leasing, Allocators
  <1> QED BY Zenon, <1>1, <1>2, <1>3, FS_CardinalityType

(* The counts, after a step of t. *)
LEMMA CountsMove ==
  ASSUME PoolInv, NEW t \in Publishers, OthersStay(t, pub')
  PROVE  /\ (t \in Leasing <=> t \in Leasing') => Leasing' = Leasing
         /\ t \notin Leasing /\ t \in Leasing' =>
              Cardinality(Leasing') = Cardinality(Leasing) + 1
         /\ t \in Leasing /\ t \notin Leasing' =>
              Cardinality(Leasing') = Cardinality(Leasing) - 1
         /\ (t \in Allocators <=> t \in Allocators') => Allocators' = Allocators
         /\ t \notin Allocators /\ t \in Allocators' =>
              Cardinality(Allocators') = Cardinality(Allocators) + 1
         /\ t \in Allocators /\ t \notin Allocators' =>
              Cardinality(Allocators') = Cardinality(Allocators) - 1
  <1>1. /\ Leasing' \ {t} = Leasing \ {t} /\ Allocators' \ {t} = Allocators \ {t}
        /\ IsFiniteSet(Leasing) /\ IsFiniteSet(Allocators)
    BY Zenon, SetsMove
  <1>2. ASSUME NEW A, NEW B, IsFiniteSet(A), B \ {t} = A \ {t}
        PROVE  /\ (t \in A <=> t \in B) => B = A
               /\ t \notin A /\ t \in B => Cardinality(B) = Cardinality(A) + 1
               /\ t \in A /\ t \notin B => Cardinality(B) = Cardinality(A) - 1
    <2>1. CASE t \notin A /\ t \in B
      <3>1. B = A \cup {t}
        BY Zenon, <1>2, <2>1
      <3> QED BY Zenon, <1>2, <2>1, <3>1, FS_AddElement
    <2>2. CASE t \in A /\ t \notin B
      <3>1. B = A \ {t}
        BY Zenon, <1>2, <2>2
      <3> QED BY Zenon, <1>2, <2>2, <3>1, FS_RemoveElement
    <2>3. CASE t \in A <=> t \in B
      <3>1. B = A
        BY <1>2, <2>3
      <3> QED BY Zenon, <2>3, <3>1
    <2> QED BY Zenon, <2>1, <2>2, <2>3
  <1> QED BY Zenon, <1>1, <1>2

(* The holders, when the slots stay and t neither takes nor gives one up. *)
LEMMA HoldersStay ==
  ASSUME PoolInv, NEW t \in Publishers, OthersStay(t, pub'), bounce'.slot = bounce.slot,
         pub'[t].pc \in LeasePlaces <=> pub[t].pc \in LeasePlaces,
         pub'[t].pc = "alloc" <=> pub[t].pc = "alloc",
         pub'[t].pc \in LeasePlaces \cup {"alloc"} => pub'[t].slot = pub[t].slot
  PROVE  SlotsAreHeld'
  <1>1. ASSUME NEW u \in Publishers
        PROVE  /\ pub'[u].pc \in LeasePlaces <=> pub[u].pc \in LeasePlaces
               /\ pub'[u].pc = "alloc" <=> pub[u].pc = "alloc"
               /\ pub'[u].pc \in LeasePlaces \cup {"alloc"} => pub'[u].slot = pub[u].slot
    BY Zenon DEF OthersStay, LeasePlaces
  <1>2. \A u \in Publishers : u \in Leasing' <=> u \in Leasing
    BY Zenon, <1>1 DEF Leasing, LeasePlaces
  <1> QED BY <1>1, <1>2 DEF PoolInv, SlotsAreHeld, Leasing, LeasePlaces

LEMMA QuietMoves ==
  ASSUME PoolInv, NEW t \in Publishers, NEW r \in PubRecs, PublisherOk(r),
         pub' = [pub EXCEPT ![t] = r], r.pc \notin LeasePlaces \cup AllocPlaces,
         pub[t].pc \notin LeasePlaces \cup AllocPlaces,
         r.pc = "wait" => bounce.active + bounce.allocs > 0,
         bounce' = bounce, dma' = dma, freed' = freed, driverFaults' \in Nat
  PROVE  PoolInv'
  <1>1. pub' \in [Publishers -> PubRecs] /\ OthersStay(t, pub') /\ pub'[t] = r
    BY Zenon, OneMoves
  <1>2. Leasing' = Leasing /\ Allocators' = Allocators
    BY Zenon, <1>1, CountsMove DEF Leasing, Allocators, LeasePlaces, AllocPlaces
  <1>3. SlotsAreHeld'
    BY Zenon, <1>1, HoldersStay DEF AllocPlaces
  <1>4. BounceType' /\ MemoryIsSafe'
    BY Zenon, <1>1, <1>2 DEF PoolInv, BounceType, MemoryIsSafe
  <1>5. \A u \in Publishers : PublisherOk(pub'[u])
    BY Zenon, <1>1 DEF OthersStay
  <1>6. \A u \in Publishers : pub'[u].pc = "wait" => bounce.active + bounce.allocs > 0
    BY Zenon, <1>1 DEF PoolInv, OthersStay
  <1> QED BY Zenon, <1>2, <1>3, <1>4, <1>5, <1>6 DEF PoolInv


(* The pool with slot i now s. *)
SlotIs(i, s, b) ==
  /\ b \in BounceRecs /\ b.slot[i] = s /\ b.down = bounce.down
  /\ \A j \in SlotIds \ {i} : b.slot[j] = bounce.slot[j]

WithSlot(i, s, x, n, a, d) ==
  [bounce EXCEPT !.slot = [bounce.slot EXCEPT ![i] = s], !.allocated = x,
                 !.allocs = n, !.active = a, !.disabled = d]

LEMMA OneSlotMoves ==
  ASSUME PoolInv, NEW i \in SlotIds, NEW s \in SlotRecs, NEW x \in Int, NEW n \in Int,
         NEW a \in Int, NEW d \in BOOLEAN, NEW b, b = WithSlot(i, s, x, n, a, d)
  PROVE  SlotIs(i, s, b) /\ b.allocs = n /\ b.active = a
  <1>1. PICK o \in BounceRecs : o = bounce
    BY Zenon DEF PoolInv, BounceType
  <1>2. PICK old \in [SlotIds -> SlotRecs] : old = o.slot
    BY Zenon DEF BounceRecs
  <1>3. PICK new : new = [old EXCEPT ![i] = s]
    BY Zenon
  <1>4. new \in [SlotIds -> SlotRecs] /\ new[i] = s /\ \A j \in SlotIds \ {i} : new[j] = old[j]
    BY ONLY Zenon, <1>3, i \in SlotIds, s \in SlotRecs, old \in [SlotIds -> SlotRecs]
  <1>5. b = [o EXCEPT !.slot = new, !.allocated = x, !.allocs = n, !.active = a, !.disabled = d]
    BY ONLY Zenon, <1>1, <1>2, <1>3, b = WithSlot(i, s, x, n, a, d) DEF WithSlot
  <1>6. /\ b \in BounceRecs /\ b.slot = new /\ b.down = o.down /\ b.allocs = n /\ b.active = a
    BY ONLY Zenon, <1>4, <1>5, o \in BounceRecs, x \in Int, n \in Int, a \in Int, d \in BOOLEAN
       DEF BounceRecs
  <1> QED BY Zenon, <1>1, <1>2, <1>4, <1>6 DEF SlotIs

(* The fields of the pool and of a slot. *)
LEMMA PoolFields ==
  ASSUME PoolInv
  PROVE  /\ bounce.allocated \in Int /\ bounce.allocs \in Int /\ bounce.active \in Int
         /\ bounce.disabled \in BOOLEAN /\ bounce.down \in BOOLEAN
         /\ bounce.slot \in [SlotIds -> SlotRecs]
  BY Zenon DEF PoolInv, BounceType, BounceRecs

(* A step of t that changes one slot, and the conjuncts it may not touch. *)
LEMMA SlotStepKeeps ==
  ASSUME PoolInv, NEW t \in Publishers, NEW i \in SlotIds, NEW s \in SlotRecs,
         SlotIs(i, s, bounce'), pub' \in [Publishers -> PubRecs], OthersStay(t, pub'),
         PublisherOk(pub'[t]), dma' \subseteq SlotIds, freed' = freed, driverFaults' \in Nat
  PROVE  BounceType' /\ \A u \in Publishers : PublisherOk(pub'[u])
  BY Zenon DEF PoolInv, BounceType, SlotIs, OthersStay

(* The holders, when slot i becomes s for thread t and nobody else has it. *)
LEMMA HeldMoves ==
  ASSUME PoolInv, NEW t \in Publishers, NEW i \in SlotIds, NEW s \in SlotRecs,
         SlotIs(i, s, bounce'), OthersStay(t, pub'), SlotOk(s),
         \A u \in Publishers \ {t} : pub[u].pc \in LeasePlaces \cup {"alloc"} => pub[u].slot # i,
         s.inUse <=> pub'[t].pc \in LeasePlaces,
         pub'[t].pc \in LeasePlaces \cup {"alloc"} => pub'[t].slot = i,
         pub'[t].pc = "alloc" => s.allocating,
         pub[t].pc \in LeasePlaces => pub[t].slot = i
  PROVE  SlotsAreHeld'
  <1>1. ASSUME NEW u \in Publishers \ {t}
        PROVE  /\ pub'[u].pc \in LeasePlaces <=> pub[u].pc \in LeasePlaces
               /\ pub'[u].pc = "alloc" <=> pub[u].pc = "alloc"
               /\ pub'[u].slot = pub[u].slot
    BY Zenon DEF OthersStay, LeasePlaces
  <1>2. bounce'.slot[i] = s /\ \A j \in SlotIds \ {i} : bounce'.slot[j] = bounce.slot[j]
    BY Zenon DEF SlotIs
  <1>3. \A j \in SlotIds : SlotOk(bounce'.slot[j])
    BY Zenon, <1>2 DEF PoolInv, SlotsAreHeld
  <1>4. ASSUME NEW j \in SlotIds, bounce'.slot[j].inUse
        PROVE  \E u \in Leasing' : pub'[u].slot = j
    <2>1. CASE j = i
      BY Zenon, <1>2, <1>4, <2>1 DEF Leasing, LeasePlaces
    <2>2. CASE j # i
      <3>1. PICK u \in Leasing : pub[u].slot = j
        BY Zenon, <1>2, <1>4, <2>2 DEF PoolInv, SlotsAreHeld
      <3>2. u \in Publishers \ {t}
        BY Zenon, <2>2, <3>1 DEF Leasing, LeasePlaces
      <3> QED BY Zenon, <1>1, <3>1, <3>2 DEF Leasing, LeasePlaces
    <2> QED BY Zenon, <2>1, <2>2
  <1>5. ASSUME NEW u \in Publishers \ {t}, pub'[u].pc \in LeasePlaces
        PROVE  /\ pub'[u].slot \in SlotIds \ {i} /\ bounce'.slot[pub'[u].slot].inUse
               /\ pub[u].pc \in LeasePlaces /\ pub'[u].slot = pub[u].slot
    <2>1. pub[u].pc \in LeasePlaces /\ pub'[u].slot = pub[u].slot
      BY Zenon, <1>1, <1>5
    <2>2. pub[u].slot \in SlotIds \ {i} /\ bounce.slot[pub[u].slot].inUse
      BY Zenon, <2>1 DEF PoolInv, SlotsAreHeld
    <2> QED BY Zenon, <1>2, <2>1, <2>2
  <1>6. ASSUME NEW u \in Publishers \ {t}, pub'[u].pc = "alloc"
        PROVE  /\ pub'[u].slot \in SlotIds \ {i} /\ bounce'.slot[pub'[u].slot].allocating
               /\ pub[u].pc = "alloc" /\ pub'[u].slot = pub[u].slot
    <2>1. pub[u].pc = "alloc" /\ pub'[u].slot = pub[u].slot
      BY Zenon, <1>1, <1>6
    <2>2. pub[u].slot \in SlotIds \ {i} /\ bounce.slot[pub[u].slot].allocating
      BY Zenon, <2>1 DEF PoolInv, SlotsAreHeld
    <2> QED BY Zenon, <1>2, <2>1, <2>2
  <1>7. \A u \in Publishers : pub'[u].pc \in LeasePlaces =>
          pub'[u].slot \in SlotIds /\ bounce'.slot[pub'[u].slot].inUse
    BY Zenon, <1>2, <1>5
  <1>8. \A u \in Publishers : pub'[u].pc = "alloc" =>
          pub'[u].slot \in SlotIds /\ bounce'.slot[pub'[u].slot].allocating
    BY Zenon, <1>2, <1>6
  <1>9. ASSUME NEW u \in Publishers, NEW v \in Publishers, pub'[u].pc \in LeasePlaces,
               pub'[v].pc \in LeasePlaces, pub'[u].slot = pub'[v].slot, u # v
        PROVE  FALSE
    <2>1. CASE u = t \/ v = t
      BY Zenon, <1>5, <1>9, <2>1
    <2>2. CASE u # t /\ v # t
      BY Zenon, <1>5, <1>9, <2>2 DEF PoolInv, SlotsAreHeld
    <2> QED BY Zenon, <2>1, <2>2
  <1>10. ASSUME NEW u \in Publishers, NEW v \in Publishers, pub'[u].pc = "alloc",
                pub'[v].pc = "alloc", pub'[u].slot = pub'[v].slot, u # v
         PROVE  FALSE
    <2>1. CASE u = t \/ v = t
      BY Zenon, <1>6, <1>10, <2>1
    <2>2. CASE u # t /\ v # t
      BY <1>6, <1>10, <2>2 DEF PoolInv, SlotsAreHeld
    <2> QED BY Zenon, <2>1, <2>2
  <1> QED BY Zenon, <1>3, <1>4, <1>7, <1>8, <1>9, <1>10 DEF SlotsAreHeld

(* A thread in the middle of a copy moves on. *)
Moved(p, c, i) == [p EXCEPT !.pc = c, !.slot = i]

LEMMA PlaceMoves ==
  ASSUME NEW p \in PubRecs, PublisherOk(p), p.pc # "idle",
         NEW c \in PubPlaces \ {"idle", "copied"}, NEW i \in Int,
         NEW r, r = Moved(p, c, i)
  PROVE  r \in PubRecs /\ r.pc = c /\ r.slot = i /\ PublisherOk(r)
  <1>1. /\ r \in PubRecs /\ r.pc = c /\ r.slot = i /\ r.cur = p.cur
        /\ r.finished = p.finished /\ r.refs = p.refs /\ r.retained = p.retained
        /\ r.stream = p.stream
    BY Zenon DEF PubRecs, Moved
  <1> QED BY Zenon, <1>1 DEF PublisherOk

(* Acquire takes a free slot. *)
LEMMA LeaseTaken ==
  ASSUME PoolInv, NEW t \in Publishers, NEW i \in UsableSlot, ~bounce.down,
         pub[t].pc = "acquire",
         bounce' = [bounce EXCEPT !.slot[i].inUse = TRUE, !.active = @ + 1],
         pub' = [pub EXCEPT ![t].pc = "copy", ![t].slot = i],
         dma' = dma, freed' = freed, driverFaults' = driverFaults
  PROVE  PoolInv'
  <1>1. i \in SlotIds /\ bounce.slot[i].data /\ ~bounce.slot[i].inUse /\ ~bounce.slot[i].poisoned
    BY Zenon DEF UsableSlot
  <1>2. PICK o \in SlotRecs : o = bounce.slot[i]
    BY Zenon, <1>1, PoolFields
  <1>3. PICK s : s = [o EXCEPT !.inUse = TRUE]
    BY Zenon
  <1>4. /\ s \in SlotRecs /\ s.inUse /\ s.data = o.data /\ s.poisoned = o.poisoned
        /\ s.allocating = o.allocating
    BY ONLY Zenon, <1>3, o \in SlotRecs DEF SlotRecs
  <1>5. SlotIs(i, s, bounce') /\ bounce'.allocs = bounce.allocs /\ bounce'.active = bounce.active + 1
    <2>1. PICK x \in Int, n \in Int, a \in Int, d \in BOOLEAN :
            x = bounce.allocated /\ n = bounce.allocs /\ a = bounce.active + 1 /\ d = bounce.disabled
      BY PoolFields
    <2>2. bounce' = WithSlot(i, s, x, n, a, d)
      <3>1. PICK b \in BounceRecs : b = bounce
        BY Zenon DEF PoolInv, BounceType
      <3>2. PICK new : new = [bounce.slot EXCEPT ![i] = s]
        BY Zenon
      <3>3. bounce' = [b EXCEPT !.slot = new, !.active = a]
        BY Zenon, <1>2, <1>3, <2>1, <3>1, <3>2
      <3>4. x = b.allocated /\ n = b.allocs /\ d = b.disabled
        BY Zenon, <2>1, <3>1
      <3>5. [b EXCEPT !.slot = new, !.active = a]
              = [b EXCEPT !.slot = new, !.allocated = x, !.allocs = n, !.active = a, !.disabled = d]
        BY ONLY Zenon, <3>4, b \in BounceRecs DEF BounceRecs
      <3> QED BY ONLY Zenon, <3>1, <3>2, <3>3, <3>5 DEF WithSlot
    <2>3. SlotIs(i, s, bounce') /\ bounce'.allocs = n /\ bounce'.active = a
      BY ONLY PoolInv, <1>1, <1>4, <2>2, x \in Int, n \in Int, a \in Int, d \in BOOLEAN,
              OneSlotMoves
    <2> QED BY Zenon, <2>1, <2>3
  <1>6. PICK p \in PubRecs : p = pub[t]
    BY Zenon DEF PoolInv, BounceType
  <1>7. PICK r : r = Moved(p, "copy", i)
    BY Zenon
  <1>8. r \in PubRecs /\ r.pc = "copy" /\ r.slot = i /\ PublisherOk(r)
    <2>1. i \in Int /\ "copy" \in PubPlaces \ {"idle", "copied"}
      BY <1>1, BounceAssumption DEF SlotIds, PubPlaces
    <2>2. PublisherOk(p) /\ p.pc # "idle"
      BY Zenon, <1>6 DEF PoolInv
    <2> QED BY ONLY <1>7, <2>1, <2>2, p \in PubRecs, PlaceMoves
  <1>9. pub' \in [Publishers -> PubRecs] /\ OthersStay(t, pub') /\ pub'[t] = r
    <2>1. pub' = [pub EXCEPT ![t] = r]
      BY Zenon, <1>6, <1>7 DEF PoolInv, BounceType, Moved
    <2> QED BY ZenonT(60), <1>8, <2>1, OneMoves
  <1>10. /\ Cardinality(Leasing') = Cardinality(Leasing) + 1 /\ Allocators' = Allocators
         /\ t \in Leasing'
    BY Zenon, <1>8, <1>9, CountsMove DEF Leasing, Allocators, AllocPlaces

  <1>11. \A u \in Publishers \ {t} : pub[u].pc \in LeasePlaces \cup {"alloc"} => pub[u].slot # i
    BY Zenon, <1>1 DEF PoolInv, SlotsAreHeld, SlotOk
  <1>12. SlotsAreHeld'
    <2>1. SlotOk(s)
      BY Zenon, <1>1, <1>2, <1>4 DEF PoolInv, SlotsAreHeld, SlotOk
    <2>2. /\ s.inUse <=> pub'[t].pc \in LeasePlaces
          /\ pub'[t].pc \in LeasePlaces \cup {"alloc"} => pub'[t].slot = i
          /\ pub'[t].pc = "alloc" => s.allocating
          /\ pub[t].pc \in LeasePlaces => pub[t].slot = i
      BY Zenon, <1>4, <1>8, <1>9 DEF LeasePlaces
    <2> QED BY Zenon, <1>1, <1>4, <1>5, <1>9, <1>11, <2>1, <2>2, HeldMoves
  <1>13. MemoryIsSafe'
    BY Zenon, <1>1, <1>2, <1>4, <1>5 DEF PoolInv, BounceType, MemoryIsSafe, SlotIs
  <1>14. BounceType' /\ \A u \in Publishers : PublisherOk(pub'[u])
    BY Zenon, <1>1, <1>4, <1>5, <1>8, <1>9, SlotStepKeeps DEF PoolInv, BounceType
  <1>15. bounce'.active = Cardinality(Leasing') /\ bounce'.allocs = Cardinality(Allocators')
    BY Zenon, <1>5, <1>10 DEF PoolInv
  <1>16. \A u \in Publishers : pub'[u].pc = "wait" => bounce'.active + bounce'.allocs > 0
    <2>1. Cardinality(Leasing) \in Nat /\ Cardinality(Allocators) \in Nat
      BY Zenon, <1>9, SetsMove
    <2> QED BY <1>5, <2>1 DEF PoolInv
  <1> QED BY Zenon, <1>12, <1>13, <1>14, <1>15, <1>16 DEF PoolInv


(* Acquire begins to allocate a slot. *)
LEMMA AllocBegun ==
  ASSUME PoolInv, NEW t \in Publishers, NEW i \in Vacant, pub[t].pc = "acquire",
         bounce' = [bounce EXCEPT !.slot[i].allocating = TRUE, !.allocs = @ + 1],
         pub' = [pub EXCEPT ![t].pc = "alloc", ![t].slot = i],
         dma' = dma, freed' = freed, driverFaults' = driverFaults
  PROVE  PoolInv'
  <1>1. i \in SlotIds /\ ~bounce.slot[i].data /\ ~bounce.slot[i].allocating
    BY Zenon DEF Vacant
  <1>2. PICK o \in SlotRecs : o = bounce.slot[i]
    BY Zenon, <1>1, PoolFields
  <1>3. PICK s : s = [o EXCEPT !.allocating = TRUE]
    BY Zenon
  <1>4. /\ s \in SlotRecs /\ s.allocating /\ s.data = o.data /\ s.poisoned = o.poisoned
        /\ s.inUse = o.inUse
    BY ONLY Zenon, <1>3, o \in SlotRecs DEF SlotRecs
  <1>5. SlotIs(i, s, bounce') /\ bounce'.allocs = bounce.allocs + 1 /\ bounce'.active = bounce.active
    <2>1. PICK x \in Int, n \in Int, a \in Int, d \in BOOLEAN :
            x = bounce.allocated /\ n = bounce.allocs + 1 /\ a = bounce.active /\ d = bounce.disabled
      BY PoolFields
    <2>2. bounce' = WithSlot(i, s, x, n, a, d)
      <3>1. PICK b \in BounceRecs : b = bounce
        BY Zenon DEF PoolInv, BounceType
      <3>2. PICK new : new = [bounce.slot EXCEPT ![i] = s]
        BY Zenon
      <3>3. bounce' = [b EXCEPT !.slot = new, !.allocs = n]
        BY Zenon, <1>2, <1>3, <2>1, <3>1, <3>2
      <3>4. x = b.allocated /\ a = b.active /\ d = b.disabled
        BY Zenon, <2>1, <3>1
      <3>5. [b EXCEPT !.slot = new, !.allocs = n]
              = [b EXCEPT !.slot = new, !.allocated = x, !.allocs = n, !.active = a, !.disabled = d]
        BY ONLY Zenon, <3>4, b \in BounceRecs DEF BounceRecs
      <3> QED BY ONLY Zenon, <3>1, <3>2, <3>3, <3>5 DEF WithSlot
    <2>3. SlotIs(i, s, bounce') /\ bounce'.allocs = n /\ bounce'.active = a
      BY ONLY PoolInv, <1>1, <1>4, <2>2, x \in Int, n \in Int, a \in Int, d \in BOOLEAN,
              OneSlotMoves
    <2> QED BY Zenon, <2>1, <2>3
  <1>6. PICK p \in PubRecs : p = pub[t]
    BY Zenon DEF PoolInv, BounceType
  <1>7. PICK r : r = Moved(p, "alloc", i)
    BY Zenon
  <1>8. r \in PubRecs /\ r.pc = "alloc" /\ r.slot = i /\ PublisherOk(r)
    <2>1. i \in Int /\ "alloc" \in PubPlaces \ {"idle", "copied"}
      BY <1>1, BounceAssumption DEF SlotIds, PubPlaces
    <2>2. PublisherOk(p) /\ p.pc # "idle"
      BY Zenon, <1>6 DEF PoolInv
    <2> QED BY ONLY <1>7, <2>1, <2>2, p \in PubRecs, PlaceMoves
  <1>9. pub' \in [Publishers -> PubRecs] /\ OthersStay(t, pub') /\ pub'[t] = r
    <2>1. pub' = [pub EXCEPT ![t] = r]
      BY Zenon, <1>6, <1>7 DEF PoolInv, BounceType, Moved
    <2> QED BY Zenon, <1>8, <2>1, OneMoves
  <1>10. Cardinality(Allocators') = Cardinality(Allocators) + 1 /\ Leasing' = Leasing
    BY Zenon, <1>8, <1>9, CountsMove DEF Leasing, Allocators, AllocPlaces
  <1>11. \A u \in Publishers \ {t} : pub[u].pc \in LeasePlaces \cup {"alloc"} => pub[u].slot # i
    BY Zenon, <1>1 DEF PoolInv, SlotsAreHeld, SlotOk
  <1>12. SlotsAreHeld'
    <2>1. SlotOk(s) /\ ~s.inUse
      BY Zenon, <1>1, <1>2, <1>4 DEF PoolInv, SlotsAreHeld, SlotOk
    <2>2. /\ pub'[t].pc \notin LeasePlaces /\ pub[t].pc \notin LeasePlaces
          /\ pub'[t].slot = i
      BY Zenon, <1>8, <1>9 DEF LeasePlaces
    <2> QED BY Zenon, <1>1, <1>4, <1>5, <1>9, <1>11, <2>1, <2>2, HeldMoves
  <1>13. MemoryIsSafe'
    BY Zenon, <1>1, <1>2, <1>4, <1>5, <1>10 DEF PoolInv, BounceType, MemoryIsSafe, SlotIs
  <1>14. BounceType' /\ \A u \in Publishers : PublisherOk(pub'[u])
    BY Zenon, <1>1, <1>4, <1>5, <1>8, <1>9, SlotStepKeeps DEF PoolInv, BounceType
  <1>15. bounce'.active = Cardinality(Leasing') /\ bounce'.allocs = Cardinality(Allocators')
    BY Zenon, <1>5, <1>10 DEF PoolInv
  <1>16. \A u \in Publishers : pub'[u].pc = "wait" => bounce'.active + bounce'.allocs > 0
    <2>1. Cardinality(Leasing) \in Nat /\ Cardinality(Allocators) \in Nat
      BY Zenon, <1>9, SetsMove
    <2> QED BY <1>5, <2>1 DEF PoolInv
  <1> QED BY Zenon, <1>12, <1>13, <1>14, <1>15, <1>16 DEF PoolInv


(* The slot a thread is allocating is nobody else's. *)
LEMMA AllocatedAlone ==
  ASSUME PoolInv, NEW t \in Publishers, pub[t].pc = "alloc"
  PROVE  /\ pub[t].slot \in SlotIds /\ pub[t].slot \in Int
         /\ bounce.slot[pub[t].slot].allocating /\ ~bounce.slot[pub[t].slot].data
         /\ ~bounce.slot[pub[t].slot].inUse /\ ~bounce.slot[pub[t].slot].poisoned
         /\ \A u \in Publishers \ {t} :
              pub[u].pc \in LeasePlaces \cup {"alloc"} => pub[u].slot # pub[t].slot
  <1>1. pub[t].slot \in SlotIds /\ bounce.slot[pub[t].slot].allocating
    BY Zenon DEF PoolInv, SlotsAreHeld
  <1>2. /\ ~bounce.slot[pub[t].slot].data /\ ~bounce.slot[pub[t].slot].inUse
        /\ ~bounce.slot[pub[t].slot].poisoned
    BY Zenon, <1>1 DEF PoolInv, SlotsAreHeld, SlotOk
  <1>3. ASSUME NEW u \in Publishers \ {t}, pub[u].pc \in LeasePlaces
        PROVE  pub[u].slot # pub[t].slot
    BY Zenon, <1>2, <1>3 DEF PoolInv, SlotsAreHeld
  <1>4. ASSUME NEW u \in Publishers \ {t}, pub[u].pc = "alloc"
        PROVE  pub[u].slot # pub[t].slot
    BY Zenon, <1>4 DEF PoolInv, SlotsAreHeld
  <1>5. pub[t].slot \in Int
    BY <1>1, BounceAssumption DEF SlotIds
  <1> QED BY Zenon, <1>1, <1>2, <1>3, <1>4, <1>5

LEMMA AllocateDoneStep ==
  ASSUME PoolInv, NEW t \in Publishers, AllocateDone(t)
  PROVE  PoolInv'
  <1>1. /\ pub[t].pc = "alloc" /\ ~bounce.down
        /\ pub' = NotifiedAll([pub EXCEPT ![t].pc = "copy"])
        /\ dma' = dma /\ freed' = freed /\ driverFaults' = driverFaults
    BY Zenon DEF AllocateDone
  <1>2. PICK i \in SlotIds : i = pub[t].slot
    BY Zenon, <1>1, AllocatedAlone
  <1>3. PICK o \in SlotRecs : o = bounce.slot[i]
    BY Zenon, PoolFields
  <1>4. PICK s : s = [o EXCEPT !.allocating = FALSE, !.data = TRUE, !.inUse = TRUE]
    BY Zenon
  <1>5. /\ s \in SlotRecs /\ ~s.allocating /\ s.data /\ s.inUse /\ s.poisoned = o.poisoned
    BY ONLY Zenon, <1>4, o \in SlotRecs DEF SlotRecs
  <1>6. /\ SlotIs(i, s, bounce') /\ bounce'.allocs = bounce.allocs - 1
        /\ bounce'.active = bounce.active + 1
    <2>1. PICK x \in Int, n \in Int, a \in Int, d \in BOOLEAN :
            /\ x = bounce.allocated + 1 /\ n = bounce.allocs - 1 /\ a = bounce.active + 1
            /\ d = bounce.disabled
      <3>1. bounce.allocated + 1 \in Int /\ bounce.allocs - 1 \in Int /\ bounce.active + 1 \in Int
        BY PoolFields
      <3>2. bounce.disabled \in BOOLEAN
        BY Zenon, PoolFields
      <3> QED BY ONLY Zenon, <3>1, <3>2
    <2>2. bounce' = WithSlot(i, s, x, n, a, d)
      <3>1. PICK b \in BounceRecs : b = bounce
        BY Zenon DEF PoolInv, BounceType
      <3>2. PICK new : new = [bounce.slot EXCEPT ![i] = s]
        BY Zenon
      <3>3. bounce' = [b EXCEPT !.slot = new, !.allocs = n, !.allocated = x, !.active = a]
        <4>1. bounce' = [bounce EXCEPT !.slot[i] = s, !.allocs = @ - 1, !.allocated = @ + 1,
                                       !.active = @ + 1]
          BY Zenon, <1>2, <1>3, <1>4 DEF AllocateDone
        <4>2. bounce' = [bounce EXCEPT !.slot = new, !.allocs = n, !.allocated = x, !.active = a]
          BY ONLY Zenon, <2>1, <3>2, <4>1
        <4> QED BY ONLY Zenon, <3>1, <4>2
      <3>4. d = b.disabled
        BY Zenon, <2>1, <3>1
      <3>5. [b EXCEPT !.slot = new, !.allocs = n, !.allocated = x, !.active = a]
              = [b EXCEPT !.slot = new, !.allocated = x, !.allocs = n, !.active = a, !.disabled = d]
        BY ONLY Zenon, <3>4, b \in BounceRecs DEF BounceRecs
      <3> QED BY ONLY Zenon, <3>1, <3>2, <3>3, <3>5 DEF WithSlot
    <2>3. SlotIs(i, s, bounce') /\ bounce'.allocs = n /\ bounce'.active = a
      BY ONLY PoolInv, i \in SlotIds, <1>5, <2>2, x \in Int, n \in Int, a \in Int, d \in BOOLEAN,
              OneSlotMoves
    <2> QED BY Zenon, <2>1, <2>3
  <1>7. PICK p \in PubRecs : p = pub[t]
    BY Zenon DEF PoolInv, BounceType
  <1>8. PICK r : r = Moved(p, "copy", i)
    BY Zenon
  <1>9. r \in PubRecs /\ r.pc = "copy" /\ r.slot = i /\ PublisherOk(r)
    <2>1. i \in Int /\ "copy" \in PubPlaces \ {"idle", "copied"}
      BY BounceAssumption DEF SlotIds, PubPlaces
    <2>2. PublisherOk(p) /\ p.pc # "idle"
      BY Zenon, <1>1, <1>7 DEF PoolInv
    <2> QED BY ONLY <1>8, <2>1, <2>2, p \in PubRecs, PlaceMoves
  <1>10. /\ pub' \in [Publishers -> PubRecs] /\ OthersStay(t, pub') /\ pub'[t] = r
         /\ \A u \in Publishers : pub'[u].pc # "wait"
    <2>1. r = [p EXCEPT !.pc = "copy"]
      BY Zenon, <1>2, <1>7, <1>8 DEF Moved, PubRecs
    <2>2. pub' = WokenPub(t, r)
      BY Zenon, <1>1, <1>7, <2>1 DEF PoolInv, BounceType, WokenPub
    <2>3. r.pc # "wait"
      BY Zenon, <1>9
    <2> QED BY ONLY PoolInv, t \in Publishers, <1>9, <2>2, <2>3, OneMovesAllWake
  <1>11. /\ Cardinality(Allocators') = Cardinality(Allocators) - 1
         /\ Cardinality(Leasing') = Cardinality(Leasing) + 1
    BY Zenon, <1>1, <1>9, <1>10, CountsMove DEF Leasing, Allocators, AllocPlaces
  <1>12. SlotsAreHeld'
    <2>1. SlotOk(s)
      BY Zenon, <1>1, <1>2, <1>3, <1>5, AllocatedAlone DEF SlotOk
    <2>2. /\ s.inUse /\ pub'[t].pc \in LeasePlaces /\ pub'[t].slot = i /\ pub'[t].pc # "alloc"
          /\ pub[t].pc \notin LeasePlaces
      BY Zenon, <1>1, <1>5, <1>9, <1>10 DEF LeasePlaces
    <2>3. \A u \in Publishers \ {t} :
            pub[u].pc \in LeasePlaces \cup {"alloc"} => pub[u].slot # i
      BY Zenon, <1>1, <1>2, AllocatedAlone
    <2> QED BY Zenon, <1>5, <1>6, <1>10, <2>1, <2>2, <2>3, HeldMoves
  <1>13. MemoryIsSafe'
    BY Zenon, <1>1, <1>2, <1>3, <1>5, <1>6 DEF PoolInv, BounceType, MemoryIsSafe, SlotIs
  <1>14. BounceType' /\ \A u \in Publishers : PublisherOk(pub'[u])
    BY Zenon, <1>1, <1>5, <1>6, <1>9, <1>10, SlotStepKeeps DEF PoolInv, BounceType
  <1>15. bounce'.active = Cardinality(Leasing') /\ bounce'.allocs = Cardinality(Allocators')
    BY Zenon, <1>6, <1>11 DEF PoolInv
  <1> QED BY Zenon, <1>10, <1>12, <1>13, <1>14, <1>15 DEF PoolInv


LEMMA AllocateFailsStep ==
  ASSUME PoolInv, NEW t \in Publishers, AllocateFails(t)
  PROVE  PoolInv'
  <1>1. /\ pub[t].pc = "alloc" /\ dma' = dma /\ freed' = freed /\ driverFaults' \in Nat
    BY DEF AllocateFails, DriverFails, PoolInv, BounceType
  <1>2. PICK i \in SlotIds : i = pub[t].slot
    BY Zenon, <1>1, AllocatedAlone
  <1>3. PICK o \in SlotRecs : o = bounce.slot[i]
    BY Zenon, PoolFields
  <1>4. PICK s : s = [o EXCEPT !.allocating = FALSE]
    BY Zenon
  <1>5. /\ s \in SlotRecs /\ ~s.allocating /\ s.data = o.data /\ s.inUse = o.inUse
        /\ s.poisoned = o.poisoned
    BY ONLY Zenon, <1>4, o \in SlotRecs DEF SlotRecs
  <1>6. PICK b : /\ b = [bounce EXCEPT !.slot[pub[t].slot].allocating = FALSE,
                                       !.allocs = @ - 1, !.disabled = TRUE]
                 /\ bounce' = b
                 /\ pub' = [NotifiedAll(pub) EXCEPT ![t].slot = NoSlot,
                              ![t].pc = IF CanEventuallyAcquire(b) THEN "wait" ELSE "refused"]
    BY Zenon DEF AllocateFails
  <1>7. SlotIs(i, s, b) /\ b.allocs = bounce.allocs - 1 /\ b.active = bounce.active
    <2>1. PICK x \in Int, n \in Int, a \in Int, d \in BOOLEAN :
            x = bounce.allocated /\ n = bounce.allocs - 1 /\ a = bounce.active /\ d = TRUE
      <3>1. bounce.allocated \in Int /\ bounce.allocs - 1 \in Int /\ bounce.active \in Int
        BY PoolFields
      <3> QED BY ONLY Zenon, <3>1
    <2>2. b = WithSlot(i, s, x, n, a, d)
      <3>1. PICK c \in BounceRecs : c = bounce
        BY Zenon DEF PoolInv, BounceType
      <3>2. PICK new : new = [bounce.slot EXCEPT ![i] = s]
        BY Zenon
      <3>3. b = [c EXCEPT !.slot = new, !.allocs = n, !.disabled = d]
        <4>1. b = [bounce EXCEPT !.slot[i] = s, !.allocs = @ - 1, !.disabled = TRUE]
          <5>1. b = [bounce EXCEPT !.slot[i].allocating = FALSE, !.allocs = @ - 1, !.disabled = TRUE]
            BY ONLY Zenon, <1>2, <1>6
          <5>2. [bounce.slot[i] EXCEPT !.allocating = FALSE] = s
            BY ONLY Zenon, <1>3, <1>4
          <5> QED BY ONLY Zenon, <5>1, <5>2
        <4>2. b = [bounce EXCEPT !.slot = new, !.allocs = n, !.disabled = d]
          BY ONLY Zenon, <2>1, <3>2, <4>1
        <4> QED BY ONLY Zenon, <3>1, <4>2
      <3>4. x = c.allocated /\ a = c.active
        BY Zenon, <2>1, <3>1
      <3>5. [c EXCEPT !.slot = new, !.allocs = n, !.disabled = d]
              = [c EXCEPT !.slot = new, !.allocated = x, !.allocs = n, !.active = a, !.disabled = d]
        BY ONLY Zenon, <3>4, c \in BounceRecs DEF BounceRecs
      <3> QED BY ONLY Zenon, <3>1, <3>2, <3>3, <3>5 DEF WithSlot
    <2>3. SlotIs(i, s, b) /\ b.allocs = n /\ b.active = a
      BY ONLY PoolInv, i \in SlotIds, <1>5, <2>2, x \in Int, n \in Int, a \in Int, d \in BOOLEAN,
              OneSlotMoves
    <2> QED BY Zenon, <2>1, <2>3
  <1>8. PICK p \in PubRecs : p = pub[t]
    BY Zenon DEF PoolInv, BounceType
  <1>9. PICK c \in {"wait", "refused"} :
          c = IF CanEventuallyAcquire(b) THEN "wait" ELSE "refused"
    BY Zenon
  <1>10. PICK r : r = Moved(p, c, NoSlot)
    BY Zenon
  <1>11. r \in PubRecs /\ r.pc = c /\ r.slot = NoSlot /\ PublisherOk(r)
    <2>1. NoSlot \in Int /\ c \in PubPlaces \ {"idle", "copied"}
      BY DEF NoSlot, PubPlaces
    <2>2. PublisherOk(p) /\ p.pc # "idle"
      BY Zenon, <1>1, <1>8 DEF PoolInv
    <2> QED BY ONLY <1>10, <2>1, <2>2, p \in PubRecs, PlaceMoves
  <1>12. /\ pub' \in [Publishers -> PubRecs] /\ OthersStay(t, pub') /\ pub'[t] = r
         /\ \A u \in Publishers \ {t} : pub'[u].pc # "wait"
    <2>1. PICK q : q = NotifiedAll(pub)
      BY Zenon
    <2>2. /\ q \in [Publishers -> PubRecs]
          /\ \A u \in Publishers :
               /\ pub[u].pc # "wait" => q[u] = pub[u]
               /\ q[u].pc # "wait" /\ q[u].slot = pub[u].slot
               /\ pub[u].pc = "wait" => q[u].pc = "acquire"
               /\ PublisherOk(pub[u]) => PublisherOk(q[u])
      <3>1. pub \in [Publishers -> PubRecs]
        BY Zenon DEF PoolInv, BounceType
      <3> QED BY ONLY <2>1, <3>1, AllAreWoken
    <2>3. q[t] = p
      BY Zenon, <1>1, <1>8, <2>2
    <2>4. pub' = [q EXCEPT ![t] = r]
      <3>1. pub' = [q EXCEPT ![t].slot = NoSlot, ![t].pc = c]
        BY ONLY Zenon, <1>6, <1>9, <2>1
      <3>2. [p EXCEPT !.slot = NoSlot, !.pc = c] = r
        BY Zenon, <1>10 DEF Moved, PubRecs
      <3> QED BY ONLY Zenon, <2>2, <2>3, <3>1, <3>2, t \in Publishers
    <2>5. /\ pub' \in [Publishers -> PubRecs] /\ pub'[t] = r
          /\ \A u \in Publishers \ {t} : pub'[u] = q[u]
      BY ONLY Zenon, <1>11, <2>2, <2>4, t \in Publishers
    <2>6. OthersStay(t, pub')
      <3>1. ASSUME NEW u \in Publishers \ {t}
            PROVE  PublisherOk(pub[u])
        BY Zenon DEF PoolInv
      <3> QED BY Zenon, <2>2, <2>5, <3>1 DEF OthersStay
    <2> QED BY Zenon, <2>2, <2>5, <2>6
  <1>13. Cardinality(Allocators') = Cardinality(Allocators) - 1 /\ Leasing' = Leasing
    BY Zenon, <1>1, <1>11, <1>12, CountsMove DEF Leasing, Allocators, AllocPlaces
  <1>14. SlotsAreHeld'
    <2>1. SlotOk(s) /\ ~s.inUse
      BY Zenon, <1>1, <1>2, <1>3, <1>5, AllocatedAlone DEF SlotOk
    <2>2. /\ pub'[t].pc \notin LeasePlaces \cup {"alloc"} /\ pub[t].pc \notin LeasePlaces
      BY Zenon, <1>1, <1>11, <1>12 DEF LeasePlaces
    <2>3. \A u \in Publishers \ {t} :
            pub[u].pc \in LeasePlaces \cup {"alloc"} => pub[u].slot # i
      BY Zenon, <1>1, <1>2, AllocatedAlone
    <2> QED BY ZenonT(60), <1>5, <1>6, <1>7, <1>12, <2>1, <2>2, <2>3, HeldMoves
  <1>15. MemoryIsSafe'
    BY <1>1, <1>3, <1>5, <1>6, <1>7, <1>13 DEF PoolInv, BounceType, MemoryIsSafe, SlotIs
  <1>16. BounceType' /\ \A u \in Publishers : PublisherOk(pub'[u])
    BY Zenon, <1>1, <1>5, <1>6, <1>7, <1>11, <1>12, SlotStepKeeps DEF PoolInv, BounceType
  <1>17. bounce'.active = Cardinality(Leasing') /\ bounce'.allocs = Cardinality(Allocators')
    BY Zenon, <1>6, <1>7, <1>13 DEF PoolInv
  <1>18. \A u \in Publishers : pub'[u].pc = "wait" => bounce'.active + bounce'.allocs > 0
    <2>1. SUFFICES ASSUME CanEventuallyAcquire(b)
                   PROVE  bounce'.active + bounce'.allocs > 0
      BY Zenon, <1>9, <1>11, <1>12
    <2>2. IsFiniteSet(Leasing') /\ IsFiniteSet(Allocators')
      BY Zenon, BounceAssumption, FS_Subset DEF Leasing, Allocators
    <2>3. PICK m \in Nat, n \in Nat : m = Cardinality(Leasing') /\ n = Cardinality(Allocators')
      BY Zenon, <2>2, FS_CardinalityType
    <2>4. CASE bounce'.allocs # 0
      BY <1>17, <2>3, <2>4
    <2>5. CASE \E j \in SlotIds : bounce'.slot[j].inUse
      <3>1. Leasing' # {}
        BY Zenon, <1>14, <2>5 DEF SlotsAreHeld
      <3>2. m # 0
        BY Zenon, <2>2, <2>3, <3>1, FS_EmptySet
      <3> QED BY <1>17, <2>3, <3>2
    <2> QED BY Zenon, <1>6, <2>1, <2>4, <2>5 DEF CanEventuallyAcquire
  <1> QED BY Zenon, <1>14, <1>15, <1>16, <1>17, <1>18 DEF PoolInv


LEMMA AllocateAbortsStep ==
  ASSUME PoolInv, NEW t \in Publishers, AllocateAborts(t)
  PROVE  PoolInv'
  <1>1. /\ pub[t].pc = "alloc" /\ pub' = [pub EXCEPT ![t].pc = "aborting"]
        /\ bounce' = [bounce EXCEPT !.slot[pub[t].slot].allocating = FALSE]
        /\ dma' = dma /\ freed' = freed /\ driverFaults' = driverFaults
    BY Zenon DEF AllocateAborts
  <1>2. PICK i \in SlotIds : i = pub[t].slot
    BY Zenon, <1>1, AllocatedAlone
  <1>3. PICK o \in SlotRecs : o = bounce.slot[i]
    BY Zenon, PoolFields
  <1>4. PICK s : s = [o EXCEPT !.allocating = FALSE]
    BY Zenon
  <1>5. /\ s \in SlotRecs /\ ~s.allocating /\ s.data = o.data /\ s.inUse = o.inUse
        /\ s.poisoned = o.poisoned
    BY ONLY Zenon, <1>4, o \in SlotRecs DEF SlotRecs
  <1>6. /\ SlotIs(i, s, bounce') /\ bounce'.allocs = bounce.allocs
        /\ bounce'.active = bounce.active
    <2>1. PICK x \in Int, n \in Int, a \in Int, d \in BOOLEAN :
            x = bounce.allocated /\ n = bounce.allocs /\ a = bounce.active /\ d = bounce.disabled
      BY Zenon, PoolFields
    <2>2. bounce' = WithSlot(i, s, x, n, a, d)
      <3>1. PICK c \in BounceRecs : c = bounce
        BY Zenon DEF PoolInv, BounceType
      <3>2. PICK new : new = [bounce.slot EXCEPT ![i] = s]
        BY Zenon
      <3>3. bounce' = [c EXCEPT !.slot = new]
        BY ONLY Zenon, <1>1, <1>2, <1>3, <1>4, <3>1, <3>2
      <3>4. x = c.allocated /\ n = c.allocs /\ a = c.active /\ d = c.disabled
        BY Zenon, <2>1, <3>1
      <3>5. [c EXCEPT !.slot = new]
              = [c EXCEPT !.slot = new, !.allocated = x, !.allocs = n, !.active = a, !.disabled = d]
        BY ONLY Zenon, <3>4, c \in BounceRecs DEF BounceRecs
      <3> QED BY ONLY Zenon, <3>1, <3>2, <3>3, <3>5 DEF WithSlot
    <2>3. SlotIs(i, s, bounce') /\ bounce'.allocs = n /\ bounce'.active = a
      BY ONLY PoolInv, i \in SlotIds, <1>5, <2>2, x \in Int, n \in Int, a \in Int, d \in BOOLEAN,
              OneSlotMoves
    <2> QED BY Zenon, <2>1, <2>3
  <1>7. PICK p \in PubRecs : p = pub[t]
    BY Zenon DEF PoolInv, BounceType
  <1>8. PICK r : r = Moved(p, "aborting", i)
    BY Zenon
  <1>9. r \in PubRecs /\ r.pc = "aborting" /\ r.slot = i /\ PublisherOk(r)
    <2>1. i \in Int /\ "aborting" \in PubPlaces \ {"idle", "copied"}
      BY BounceAssumption DEF SlotIds, PubPlaces
    <2>2. PublisherOk(p) /\ p.pc # "idle"
      BY Zenon, <1>1, <1>7 DEF PoolInv
    <2> QED BY ONLY <1>8, <2>1, <2>2, p \in PubRecs, PlaceMoves
  <1>10. pub' \in [Publishers -> PubRecs] /\ OthersStay(t, pub') /\ pub'[t] = r
    <2>1. r = [p EXCEPT !.pc = "aborting"]
      BY Zenon, <1>2, <1>7, <1>8 DEF Moved, PubRecs
    <2>2. pub' = [pub EXCEPT ![t] = r]
      BY Zenon, <1>1, <1>7, <2>1 DEF PoolInv, BounceType
    <2> QED BY Zenon, <1>9, <2>2, OneMoves
  <1>11. Allocators' = Allocators /\ Leasing' = Leasing
    BY Zenon, <1>1, <1>9, <1>10, CountsMove DEF Leasing, Allocators, AllocPlaces
  <1>12. SlotsAreHeld'
    <2>1. SlotOk(s) /\ ~s.inUse
      BY Zenon, <1>1, <1>2, <1>3, <1>5, AllocatedAlone DEF SlotOk
    <2>2. /\ pub'[t].pc \notin LeasePlaces \cup {"alloc"} /\ pub[t].pc \notin LeasePlaces
      BY Zenon, <1>1, <1>9, <1>10 DEF LeasePlaces
    <2>3. \A u \in Publishers \ {t} :
            pub[u].pc \in LeasePlaces \cup {"alloc"} => pub[u].slot # i
      BY Zenon, <1>1, <1>2, AllocatedAlone
    <2> QED BY Zenon, <1>5, <1>6, <1>10, <2>1, <2>2, <2>3, HeldMoves
  <1>13. MemoryIsSafe'
    BY <1>1, <1>3, <1>5, <1>6, <1>11 DEF PoolInv, BounceType, MemoryIsSafe, SlotIs
  <1>14. BounceType' /\ \A u \in Publishers : PublisherOk(pub'[u])
    BY Zenon, <1>1, <1>5, <1>6, <1>9, <1>10, SlotStepKeeps DEF PoolInv, BounceType
  <1>15. \A u \in Publishers : pub'[u].pc = "wait" => bounce'.active + bounce'.allocs > 0
    BY Zenon, <1>6, <1>9, <1>10 DEF PoolInv, OthersStay
  <1> QED BY Zenon, <1>6, <1>11, <1>12, <1>13, <1>14, <1>15 DEF PoolInv

LEMMA AllocateAbortedStep ==
  ASSUME PoolInv, NEW t \in Publishers, AllocateAborted(t)
  PROVE  PoolInv'
  <1>1. /\ pub[t].pc = "aborting" /\ bounce' = [bounce EXCEPT !.allocs = @ - 1]
        /\ pub' = NotifiedAll([pub EXCEPT ![t].pc = "refused", ![t].slot = NoSlot])
        /\ dma' = dma /\ freed' = freed /\ driverFaults' = driverFaults
    BY Zenon DEF AllocateAborted
  <1>2. /\ bounce' \in BounceRecs /\ bounce'.slot = bounce.slot /\ bounce'.down = bounce.down
        /\ bounce'.active = bounce.active /\ bounce'.allocs = bounce.allocs - 1
    <2>1. PICK c \in BounceRecs : c = bounce
      BY Zenon DEF PoolInv, BounceType
    <2>2. PICK n \in Int : n = c.allocs - 1
      BY DEF BounceRecs
    <2>3. bounce' = [c EXCEPT !.allocs = n]
      BY ONLY Zenon, <1>1, <2>1, <2>2
    <2>4. /\ bounce' \in BounceRecs /\ bounce'.slot = c.slot /\ bounce'.down = c.down
          /\ bounce'.active = c.active /\ bounce'.allocs = n
      BY ONLY Zenon, <2>3, c \in BounceRecs, n \in Int DEF BounceRecs
    <2> QED BY ONLY Zenon, <2>1, <2>2, <2>4
  <1>3. PICK p \in PubRecs : p = pub[t]
    BY Zenon DEF PoolInv, BounceType
  <1>4. PICK r : r = Moved(p, "refused", NoSlot)
    BY Zenon
  <1>5. r \in PubRecs /\ r.pc = "refused" /\ r.slot = NoSlot /\ PublisherOk(r)
    <2>1. NoSlot \in Int /\ "refused" \in PubPlaces \ {"idle", "copied"}
      BY DEF NoSlot, PubPlaces
    <2>2. PublisherOk(p) /\ p.pc # "idle"
      BY Zenon, <1>1, <1>3 DEF PoolInv
    <2> QED BY ONLY <1>4, <2>1, <2>2, p \in PubRecs, PlaceMoves
  <1>6. /\ pub' \in [Publishers -> PubRecs] /\ OthersStay(t, pub') /\ pub'[t] = r
        /\ \A u \in Publishers : pub'[u].pc # "wait"
    <2>1. pub' = WokenPub(t, r)
      BY Zenon, <1>1, <1>3, <1>4 DEF PoolInv, BounceType, Moved, WokenPub
    <2>2. r.pc # "wait"
      BY Zenon, <1>5
    <2> QED BY ONLY PoolInv, t \in Publishers, <1>5, <2>1, <2>2, OneMovesAllWake
  <1>7. Cardinality(Allocators') = Cardinality(Allocators) - 1 /\ Leasing' = Leasing
    BY Zenon, <1>1, <1>5, <1>6, CountsMove DEF Leasing, Allocators, AllocPlaces
  <1>8. SlotsAreHeld'
    BY Zenon, <1>1, <1>2, <1>5, <1>6, HoldersStay DEF LeasePlaces
  <1>9. MemoryIsSafe' /\ BounceType'
    BY Zenon, <1>1, <1>2, <1>6, <1>7 DEF PoolInv, BounceType, MemoryIsSafe
  <1>10. \A u \in Publishers : PublisherOk(pub'[u])
    BY Zenon, <1>5, <1>6 DEF OthersStay
  <1>11. bounce'.active = Cardinality(Leasing') /\ bounce'.allocs = Cardinality(Allocators')
    BY Zenon, <1>2, <1>7 DEF PoolInv
  <1> QED BY Zenon, <1>6, <1>8, <1>9, <1>10, <1>11 DEF PoolInv


(* The slot a thread holds is nobody else's. *)
LEMMA HeldAlone ==
  ASSUME PoolInv, NEW t \in Publishers, pub[t].pc \in LeasePlaces
  PROVE  /\ pub[t].slot \in SlotIds /\ pub[t].slot \in Int /\ t \in Leasing
         /\ bounce.slot[pub[t].slot].inUse /\ bounce.slot[pub[t].slot].data
         /\ ~bounce.slot[pub[t].slot].poisoned /\ ~bounce.slot[pub[t].slot].allocating
         /\ \A u \in Publishers \ {t} :
              pub[u].pc \in LeasePlaces \cup {"alloc"} => pub[u].slot # pub[t].slot
  <1>1. pub[t].slot \in SlotIds /\ bounce.slot[pub[t].slot].inUse
    BY Zenon DEF PoolInv, SlotsAreHeld
  <1>2. /\ bounce.slot[pub[t].slot].data /\ ~bounce.slot[pub[t].slot].poisoned
        /\ ~bounce.slot[pub[t].slot].allocating
    BY Zenon, <1>1 DEF PoolInv, SlotsAreHeld, SlotOk
  <1>3. ASSUME NEW u \in Publishers \ {t}, pub[u].pc \in LeasePlaces
        PROVE  pub[u].slot # pub[t].slot
    BY Zenon, <1>3 DEF PoolInv, SlotsAreHeld
  <1>4. ASSUME NEW u \in Publishers \ {t}, pub[u].pc = "alloc"
        PROVE  pub[u].slot # pub[t].slot
    BY Zenon, <1>2, <1>4 DEF PoolInv, SlotsAreHeld
  <1>5. pub[t].slot \in Int
    BY <1>1, BounceAssumption DEF SlotIds
  <1>6. t \in Leasing
    BY Zenon DEF Leasing, LeasePlaces
  <1> QED BY Zenon, <1>1, <1>2, <1>3, <1>4, <1>5, <1>6

(* The copy is enqueued, or may have been: the device reads the thread's slot. *)
LEMMA EnqueuedStep ==
  ASSUME PoolInv, NEW t \in Publishers, EnqueueCopy(t) \/ EnqueueFails(t)
  PROVE  PoolInv'
  <1>1. /\ pub[t].pc = "copy" /\ bounce' = bounce /\ freed' = freed /\ driverFaults' \in Nat
        /\ dma' \subseteq dma \cup {pub[t].slot}
        /\ \E c \in {"sync", "recover"} : pub' = [pub EXCEPT ![t].pc = c]
    BY DEF EnqueueCopy, EnqueueFails, DriverFails, DriverWorks, PoolInv, BounceType
  <1>2. PICK c \in {"sync", "recover"} : pub' = [pub EXCEPT ![t].pc = c]
    BY Zenon, <1>1
  <1>3. PICK i \in SlotIds : i = pub[t].slot /\ i \in Int /\ bounce.slot[i].inUse
    BY Zenon, <1>1, HeldAlone DEF LeasePlaces
  <1>4. PICK p \in PubRecs : p = pub[t]
    BY Zenon DEF PoolInv, BounceType
  <1>5. PICK r : r = Moved(p, c, i)
    BY Zenon
  <1>6. r \in PubRecs /\ r.pc = c /\ r.slot = i /\ PublisherOk(r)
    <2>1. i \in Int /\ c \in PubPlaces \ {"idle", "copied"}
      BY Zenon, <1>3 DEF PubPlaces
    <2>2. PublisherOk(p) /\ p.pc # "idle"
      BY Zenon, <1>1, <1>4 DEF PoolInv
    <2> QED BY ONLY <1>5, <2>1, <2>2, p \in PubRecs, PlaceMoves
  <1>7. pub' \in [Publishers -> PubRecs] /\ OthersStay(t, pub') /\ pub'[t] = r
    <2>1. r = [p EXCEPT !.pc = c]
      BY Zenon, <1>3, <1>4, <1>5 DEF Moved, PubRecs
    <2>2. pub' = [pub EXCEPT ![t] = r]
      BY Zenon, <1>2, <1>4, <2>1 DEF PoolInv, BounceType
    <2> QED BY Zenon, <1>6, <2>2, OneMoves
  <1>8. Allocators' = Allocators /\ Leasing' = Leasing
    BY Zenon, <1>1, <1>6, <1>7, CountsMove DEF Leasing, Allocators, AllocPlaces
  <1>9. SlotsAreHeld'
    BY Zenon, <1>1, <1>3, <1>6, <1>7, HoldersStay DEF LeasePlaces
  <1>10. MemoryIsSafe' /\ BounceType'
    BY Zenon, <1>1, <1>3, <1>7, <1>8 DEF PoolInv, BounceType, MemoryIsSafe
  <1>11. \A u \in Publishers : PublisherOk(pub'[u])
    BY Zenon, <1>6, <1>7 DEF OthersStay
  <1>12. \A u \in Publishers : pub'[u].pc = "wait" => bounce'.active + bounce'.allocs > 0
    BY Zenon, <1>1, <1>6, <1>7 DEF PoolInv, OthersStay
  <1> QED BY Zenon, <1>1, <1>8, <1>9, <1>10, <1>11, <1>12 DEF PoolInv

(* A lease ends: the thread is now r, and the slot is poisoned unless it was fenced. *)
LEMMA LeaseEnds ==
  ASSUME PoolInv, NEW t \in Publishers, pub[t].pc \in {"sync", "recover"},
         NEW fenced \in BOOLEAN, NEW r \in PubRecs, PublisherOk(r),
         r.pc \in {"refused", "copied", "acquire"},
         ReleaseSlot(pub[t].slot, fenced, [pub EXCEPT ![t] = r]),
         dma' \subseteq dma, fenced => pub[t].slot \notin dma',
         freed' = freed, driverFaults' \in Nat
  PROVE  PoolInv'
  <1>1. pub' = NotifiedAll([pub EXCEPT ![t] = r]) /\ r.pc # "wait"
    BY Zenon DEF ReleaseSlot
  <1>2. PICK i \in SlotIds : i = pub[t].slot
    BY Zenon, HeldAlone DEF LeasePlaces
  <1>3. PICK o \in SlotRecs : o = bounce.slot[i]
    BY Zenon, PoolFields
  <1>4. PICK poison \in BOOLEAN : poison = (o.poisoned \/ ~fenced)
    BY Zenon
  <1>5. PICK s : s = [o EXCEPT !.inUse = FALSE, !.poisoned = poison]
    BY Zenon
  <1>6. /\ s \in SlotRecs /\ ~s.inUse /\ s.data = o.data /\ s.allocating = o.allocating
        /\ s.poisoned = poison
    BY ONLY Zenon, <1>5, o \in SlotRecs, poison \in BOOLEAN DEF SlotRecs
  <1>7. /\ SlotIs(i, s, bounce') /\ bounce'.allocs = bounce.allocs
        /\ bounce'.active = bounce.active - 1
    <2>1. PICK x \in Int, n \in Int, a \in Int, d \in BOOLEAN :
            x = bounce.allocated /\ n = bounce.allocs /\ a = bounce.active - 1 /\ d = bounce.disabled
      <3>1. bounce.allocated \in Int /\ bounce.allocs \in Int /\ bounce.active - 1 \in Int
        BY PoolFields
      <3>2. bounce.disabled \in BOOLEAN
        BY Zenon, PoolFields
      <3> QED BY ONLY Zenon, <3>1, <3>2
    <2>2. bounce' = WithSlot(i, s, x, n, a, d)
      <3>1. PICK c \in BounceRecs : c = bounce
        BY Zenon DEF PoolInv, BounceType
      <3>2. PICK new : new = [bounce.slot EXCEPT ![i] = s]
        BY Zenon
      <3>3. bounce' = [c EXCEPT !.slot = new, !.active = a]
        <4>1. s = [bounce.slot[i] EXCEPT !.inUse = FALSE, !.poisoned = @ \/ ~fenced]
          BY ONLY Zenon, <1>3, <1>4, <1>5
        <4>2. bounce' = [bounce EXCEPT !.slot[i] = s, !.active = @ - 1]
          BY ONLY Zenon, <1>2, <4>1, ReleaseSlot(pub[t].slot, fenced, [pub EXCEPT ![t] = r])
             DEF ReleaseSlot
        <4> QED BY ONLY Zenon, <2>1, <3>1, <3>2, <4>2
      <3>4. x = c.allocated /\ n = c.allocs /\ d = c.disabled
        BY Zenon, <2>1, <3>1
      <3>5. [c EXCEPT !.slot = new, !.active = a]
              = [c EXCEPT !.slot = new, !.allocated = x, !.allocs = n, !.active = a, !.disabled = d]
        BY ONLY Zenon, <3>4, c \in BounceRecs DEF BounceRecs
      <3> QED BY ONLY Zenon, <3>1, <3>2, <3>3, <3>5 DEF WithSlot
    <2>3. SlotIs(i, s, bounce') /\ bounce'.allocs = n /\ bounce'.active = a
      BY ONLY SMTT(60), PoolInv, i \in SlotIds, <1>6, <2>2, x \in Int, n \in Int, a \in Int, d \in BOOLEAN,
              OneSlotMoves
    <2> QED BY Zenon, <2>1, <2>3
  <1>8. /\ pub' \in [Publishers -> PubRecs] /\ OthersStay(t, pub') /\ pub'[t] = r
        /\ \A u \in Publishers : pub'[u].pc # "wait"
    <2>1. pub' = WokenPub(t, r)
      BY Zenon, <1>1 DEF WokenPub
    <2>2. r \in PubRecs /\ PublisherOk(r) /\ r.pc # "wait"
      BY Zenon, <1>1
    <2> QED BY ONLY PoolInv, t \in Publishers, <2>1, <2>2, OneMovesAllWake
  <1>9. Cardinality(Leasing') = Cardinality(Leasing) - 1 /\ Allocators' = Allocators
    BY ZenonT(60), <1>8, CountsMove DEF Leasing, Allocators, AllocPlaces
  <1>10. SlotsAreHeld'
    <2>1. SlotOk(s)
      BY Zenon, <1>2, <1>3, <1>6, HeldAlone DEF SlotOk, LeasePlaces
    <2>2. /\ pub'[t].pc \notin LeasePlaces \cup {"alloc"}
          /\ pub[t].pc \in LeasePlaces => pub[t].slot = i
      BY Zenon, <1>2, <1>8 DEF LeasePlaces
    <2>3. \A u \in Publishers \ {t} :
            pub[u].pc \in LeasePlaces \cup {"alloc"} => pub[u].slot # i
      BY Zenon, <1>2, HeldAlone DEF LeasePlaces
    <2> QED BY Zenon, <1>6, <1>7, <1>8, <2>1, <2>2, <2>3, HeldMoves
  <1>11. MemoryIsSafe'
    <2>1. freed' = {}
      BY Zenon, HeldAlone DEF PoolInv, MemoryIsSafe, LeasePlaces
    <2>2. ASSUME NEW j \in dma'
          PROVE  bounce'.slot[j].inUse \/ bounce'.slot[j].poisoned
      <3>1. j \in dma /\ j \in SlotIds
        BY Zenon, <2>2 DEF PoolInv, BounceType
      <3>2. CASE j = i
        BY Zenon, <1>2, <1>4, <1>6, <1>7, <2>2, <3>2 DEF SlotIs
      <3>3. CASE j # i
        BY Zenon, <1>7, <3>1, <3>3 DEF SlotIs, PoolInv, MemoryIsSafe
      <3> QED BY Zenon, <3>2, <3>3
    <2> QED BY Zenon, <2>1, <2>2 DEF MemoryIsSafe
  <1>12. BounceType' /\ \A u \in Publishers : PublisherOk(pub'[u])
    <2>1. dma' \subseteq SlotIds
      BY Zenon DEF PoolInv, BounceType
    <2> QED BY Zenon, <1>6, <1>7, <1>8, <2>1, SlotStepKeeps
  <1>13. bounce'.active = Cardinality(Leasing') /\ bounce'.allocs = Cardinality(Allocators')
    BY Zenon, <1>7, <1>9 DEF PoolInv
  <1> QED BY Zenon, <1>8, <1>10, <1>11, <1>12, <1>13 DEF PoolInv

LEMMA FenceFailsStep ==
  ASSUME PoolInv, NEW t \in Publishers, FenceFails(t)
  PROVE  PoolInv'
  <1>1. /\ pub[t].pc \in {"sync", "recover"} /\ driverFaults' \in Nat /\ dma' = dma /\ freed' = freed
        /\ ReleaseSlot(pub[t].slot, FALSE, [pub EXCEPT ![t].slot = NoSlot, ![t].pc = "refused"])
    <2>1. /\ pub[t].pc \in {"sync", "recover"} /\ DriverFails /\ dma' = dma /\ freed' = freed
          /\ ReleaseSlot(pub[t].slot, FALSE, [pub EXCEPT ![t].slot = NoSlot, ![t].pc = "refused"])
      BY Zenon DEF FenceFails
    <2>2. driverFaults' \in Nat
      BY <2>1 DEF DriverFails, PoolInv, BounceType
    <2> QED BY ONLY Zenon, <2>1, <2>2
  <1>2. PICK p \in PubRecs : p = pub[t]
    BY Zenon DEF PoolInv, BounceType
  <1>3. PICK r : r = Moved(p, "refused", NoSlot)
    BY Zenon
  <1>4. r \in PubRecs /\ r.pc = "refused" /\ r.slot = NoSlot /\ PublisherOk(r)
    <2>1. NoSlot \in Int /\ "refused" \in PubPlaces \ {"idle", "copied"}
      BY DEF NoSlot, PubPlaces
    <2>2. PublisherOk(p) /\ p.pc # "idle"
      BY Zenon, <1>1, <1>2 DEF PoolInv
    <2> QED BY ONLY <1>3, <2>1, <2>2, p \in PubRecs, PlaceMoves
  <1>5. [pub EXCEPT ![t].slot = NoSlot, ![t].pc = "refused"] = [pub EXCEPT ![t] = r]
    <2>1. [p EXCEPT !.slot = NoSlot, !.pc = "refused"] = r
      BY ONLY Zenon, <1>3, p \in PubRecs DEF Moved, PubRecs
    <2> QED BY Zenon, <1>2, <2>1 DEF PoolInv, BounceType
  <1>6. ReleaseSlot(pub[t].slot, FALSE, [pub EXCEPT ![t] = r])
    BY ONLY Zenon, <1>1, <1>5
  <1> QED BY Zenon, <1>1, <1>4, <1>6, LeaseEnds

LEMMA FencedStep ==
  ASSUME PoolInv, NEW t \in Publishers, Fenced(t)
  PROVE  PoolInv'
  <1>1. /\ pub[t].pc \in {"sync", "recover"} /\ driverFaults' \in Nat
        /\ dma' = dma \ {pub[t].slot} /\ freed' = freed
    BY Zenon DEF Fenced, DriverWorks, PoolInv, BounceType
  <1>2. PICK p \in PubRecs : p = pub[t]
    BY Zenon DEF PoolInv, BounceType
  <1>3. PICK left \in Int : left = IF p.pc = "sync" THEN p.left - 1 ELSE p.left
    BY DEF PubRecs
  <1>4. PICK c \in {"refused", "copied", "acquire"} :
          c = IF p.pc # "sync" THEN "refused" ELSE IF left = 0 THEN "copied" ELSE "acquire"
    BY Zenon
  <1>5. PICK r : r = [p EXCEPT !.slot = NoSlot, !.left = left, !.pc = c]
    BY Zenon
  <1>6. /\ r \in PubRecs /\ r.pc = c /\ r.left = left /\ r.cur = p.cur
        /\ r.finished = p.finished /\ r.refs = p.refs /\ r.retained = p.retained
        /\ r.stream = p.stream
    <2>1. NoSlot \in Int /\ c \in PubPlaces
      BY DEF NoSlot, PubPlaces
    <2> QED BY ONLY Zenon, <1>5, <2>1, p \in PubRecs, left \in Int DEF PubRecs
  <1>7. PublisherOk(r)
    <2>1. PublisherOk(p) /\ p.pc # "idle"
      BY Zenon, <1>1, <1>2 DEF PoolInv
    <2>2. c = "copied" => left = 0
      BY Zenon, <1>4
    <2> QED BY Zenon, <1>6, <2>1, <2>2 DEF PublisherOk
  <1>8. ReleaseSlot(pub[t].slot, TRUE, [pub EXCEPT ![t] = r])
    <2>1. PICK q : q = [pub EXCEPT ![t].slot = NoSlot,
                                   ![t].left = IF pub[t].pc = "sync" THEN pub[t].left - 1 ELSE @,
                                   ![t].pc = IF ~(pub[t].pc = "sync") THEN "refused"
                                             ELSE IF pub[t].left - 1 = 0 THEN "copied" ELSE "acquire"]
      BY Zenon
    <2>2. ReleaseSlot(pub[t].slot, TRUE, q)
      BY Zenon, <2>1 DEF Fenced
    <2>3. q = [pub EXCEPT ![t] = r]
      BY Zenon, <1>2, <1>3, <1>4, <1>5, <2>1 DEF PoolInv, BounceType
    <2> QED BY ONLY Zenon, <2>2, <2>3
  <1> QED BY Zenon, <1>1, <1>6, <1>7, <1>8, LeaseEnds


(* A thread waits only for one that will give a slot up. *)
LEMMA WaitIsForSomeone ==
  ASSUME PoolInv, CanEventuallyAcquire(bounce)
  PROVE  bounce.active + bounce.allocs > 0
  <1>1. IsFiniteSet(Leasing) /\ IsFiniteSet(Allocators)
    BY Zenon, BounceAssumption, FS_Subset DEF Leasing, Allocators
  <1>2. PICK m \in Nat, n \in Nat : m = Cardinality(Leasing) /\ n = Cardinality(Allocators)
    BY Zenon, <1>1, FS_CardinalityType
  <1>3. CASE bounce.allocs # 0
    BY <1>2, <1>3 DEF PoolInv
  <1>4. CASE \E j \in SlotIds : bounce.slot[j].inUse
    <2>1. Leasing # {}
      BY Zenon, <1>4 DEF PoolInv, SlotsAreHeld
    <2>2. m # 0
      BY Zenon, <1>1, <1>2, <2>1, FS_EmptySet
    <2> QED BY SMTT(60), <1>2, <2>2 DEF PoolInv
  <1> QED BY Zenon, <1>3, <1>4 DEF CanEventuallyAcquire

LEMMA AcquireStepHolds ==
  ASSUME PoolInv, NEW t \in Publishers, AcquireStep(t)
  PROVE  PoolInv'
  <1>1. pub[t].pc = "acquire" /\ dma' = dma /\ freed' = freed /\ driverFaults' = driverFaults
    BY Zenon DEF AcquireStep
  <1>2. ASSUME NEW c \in {"wait", "refused"}, pub' = [pub EXCEPT ![t].pc = c], bounce' = bounce,
               c = "wait" => CanEventuallyAcquire(bounce)
        PROVE  PoolInv'
    <2>1. PICK p \in PubRecs : p = pub[t]
      BY Zenon DEF PoolInv, BounceType
    <2>2. PICK r : r = Moved(p, c, p.slot)
      BY Zenon
    <2>3. r \in PubRecs /\ r.pc = c /\ PublisherOk(r)
      <3>1. p.slot \in Int /\ c \in PubPlaces \ {"idle", "copied"}
        BY Zenon DEF PubPlaces, PubRecs
      <3>2. PublisherOk(p) /\ p.pc # "idle"
        BY Zenon, <1>1, <2>1 DEF PoolInv
      <3> QED BY ONLY <2>2, <3>1, <3>2, p \in PubRecs, PlaceMoves
    <2>4. pub' = [pub EXCEPT ![t] = r]
      <3>1. r = [p EXCEPT !.pc = c]
        BY Zenon, <2>2 DEF Moved, PubRecs
      <3> QED BY Zenon, <1>2, <2>1, <3>1 DEF PoolInv, BounceType
    <2>5. r.pc = "wait" => bounce.active + bounce.allocs > 0
      BY Zenon, <1>2, <2>3, WaitIsForSomeone
    <2>6. r.pc \notin LeasePlaces \cup AllocPlaces /\ pub[t].pc \notin LeasePlaces \cup AllocPlaces
      BY Zenon, <1>1, <2>3 DEF LeasePlaces, AllocPlaces
    <2>7. driverFaults' \in Nat
      BY Zenon, <1>1 DEF PoolInv, BounceType
    <2> QED BY Zenon, <1>1, <1>2, <2>3, <2>4, <2>5, <2>6, <2>7, QuietMoves
  <1>3. ASSUME ~bounce.down, NEW i \in UsableSlot,
               bounce' = [bounce EXCEPT !.slot[i].inUse = TRUE, !.active = @ + 1],
               pub' = [pub EXCEPT ![t].pc = "copy", ![t].slot = i]
        PROVE  PoolInv'
    BY Zenon, <1>1, <1>3, LeaseTaken
  <1>4. ASSUME NEW i \in Vacant,
               bounce' = [bounce EXCEPT !.slot[i].allocating = TRUE, !.allocs = @ + 1],
               pub' = [pub EXCEPT ![t].pc = "alloc", ![t].slot = i]
        PROVE  PoolInv'
    BY Zenon, <1>1, <1>4, AllocBegun
  <1>5. \/ \E c \in {"wait", "refused"} :
             /\ pub' = [pub EXCEPT ![t].pc = c] /\ bounce' = bounce
             /\ c = "wait" => CanEventuallyAcquire(bounce)
        \/ ~bounce.down /\ \E i \in UsableSlot :
             /\ bounce' = [bounce EXCEPT !.slot[i].inUse = TRUE, !.active = @ + 1]
             /\ pub' = [pub EXCEPT ![t].pc = "copy", ![t].slot = i]
        \/ \E i \in Vacant :
             /\ bounce' = [bounce EXCEPT !.slot[i].allocating = TRUE, !.allocs = @ + 1]
             /\ pub' = [pub EXCEPT ![t].pc = "alloc", ![t].slot = i]
    BY Zenon DEF AcquireStep, First
  <1> QED BY Zenon, <1>2, <1>3, <1>4, <1>5

(* A publisher's step away from the pool. *)
LEMMA PublisherMoves ==
  ASSUME PoolInv, NEW t \in Publishers, NEW R, PublisherStep(t, R),
         pub[t].pc \in {"idle", "copied", "refused"},
         \A r \in R : /\ r.f \in Nat /\ r.p \in PubRecs /\ PublisherOk(r.p)
                      /\ r.p.pc \in {"idle", "acquire"}
  PROVE  PoolInv'
  <1>1. PICK r \in R : /\ driverFaults' = driverFaults + r.f /\ pub' = [pub EXCEPT ![t] = r.p]
                       /\ bounce' = bounce /\ dma' = dma /\ freed' = freed
    BY Zenon DEF PublisherStep
  <1>2. PICK q \in PubRecs : q = r.p /\ PublisherOk(q) /\ q.pc \in {"idle", "acquire"}
    BY Zenon
  <1>3. driverFaults' \in Nat
    BY <1>1 DEF PoolInv, BounceType
  <1>4. pub' = [pub EXCEPT ![t] = q]
    BY Zenon, <1>1, <1>2
  <1>5. q.pc \notin LeasePlaces \cup AllocPlaces /\ pub[t].pc \notin LeasePlaces \cup AllocPlaces
        /\ q.pc # "wait"
    BY Zenon, <1>2 DEF LeasePlaces, AllocPlaces
  <1> QED BY Zenon, <1>1, <1>2, <1>3, <1>4, <1>5, QuietMoves


(* Where a change of context may leave the thread. *)
LEMMA ContextsAre ==
  ASSUME NEW c \in {"app", "device"}, NEW g \in {"app", "device"}, NEW b \in SetCurrent(c, g)
  PROVE  /\ b.cur \in {"app", "device"} /\ b.f \in {0, 1} /\ b.ok \in BOOLEAN
         /\ b.f = 0 => b.ok
         /\ b.ok => b.cur = g
  <1>1. \/ b = [ok |-> TRUE, cur |-> g, f |-> 0]
        \/ b = [ok |-> FALSE, cur |-> c, f |-> 1] \/ b = [ok |-> FALSE, cur |-> g, f |-> 1]
    <2>1. CASE b \in {[ok |-> FALSE, cur |-> x, f |-> 1] : x \in {c, g}}
      BY Zenon, <2>1
    <2> QED BY Zenon, <2>1 DEF SetCurrent
  <1>2. CASE b = [ok |-> TRUE, cur |-> g, f |-> 0]
    BY Zenon, <1>2
  <1>3. CASE b = [ok |-> FALSE, cur |-> c, f |-> 1]
    BY <1>3
  <1>4. CASE b = [ok |-> FALSE, cur |-> g, f |-> 1]
    BY <1>4
  <1> QED BY Zenon, <1>1, <1>2, <1>3, <1>4

LEMMA GoBackAre ==
  ASSUME NEW c \in {"app", "device"}, NEW b \in GoBack(c)
  PROVE  b.cur \in {"app", "device"} /\ b.f \in {0, 1} /\ b.ok \in BOOLEAN
  <1>1. PICK d \in {"app", "device"} : b \in SetCurrent(d, c)
    BY Zenon DEF GoBack
  <1> QED BY Zenon, <1>1, ContextsAre

(* A publication between copies may fail, wherever its context is left. *)
LEMMA FailedIsOk ==
  ASSUME NEW p \in PubRecs, PublisherOk(p), p.pc = "idle", NEW c \in {"app", "device"},
         NEW e \in BOOLEAN, NEW q, q = [p EXCEPT !.failed = TRUE, !.cur = c, !.restore = e]
  PROVE  q \in PubRecs /\ PublisherOk(q) /\ q.pc = "idle"
  <1>1. /\ q \in PubRecs /\ q.pc = p.pc /\ q.failed /\ q.finished = p.finished
        /\ q.refs = p.refs /\ q.retained = p.retained /\ q.stream = p.stream
    BY Zenon DEF PubRecs
  <1> QED BY Zenon, <1>1 DEF PublisherOk

(* A copy begins in the device's context. *)
Begun(p, keeps, refs, n, m) ==
  [p EXCEPT !.stream = TRUE, !.pc = "acquire", !.copies = n, !.left = m,
            !.retained = keeps, !.refs = refs, !.cur = "device"]

LEMMA ReadyIsOk ==
  ASSUME NEW p \in PubRecs, PublisherOk(p), p.pc = "idle", ~p.finished,
         NEW keeps \in BOOLEAN, NEW refs \in Int, refs = (IF keeps THEN 1 ELSE 0),
         NEW n \in Int, NEW m \in Int,
         NEW q, q = Begun(p, keeps, refs, n, m)
  PROVE  q \in PubRecs /\ PublisherOk(q) /\ q.pc = "acquire"
  <1>1. /\ q \in PubRecs /\ q.pc = "acquire" /\ q.cur = "device" /\ q.finished = p.finished
        /\ q.refs = refs /\ q.retained = keeps /\ q.stream
    BY Zenon DEF PubRecs, PubPlaces, Begun
  <1> QED BY Zenon, <1>1 DEF PublisherOk

(* What a publisher's steps away from the pool may lead to. *)
SafeResult(r) ==
  r.f \in Nat /\ r.p \in PubRecs /\ PublisherOk(r.p) /\ r.p.pc \in {"idle", "acquire"}

LEMMA OpenedIsSafe ==
  ASSUME NEW p \in PubRecs, PublisherOk(p), p.pc = "idle", ~p.finished, ~p.stream,
         NEW r \in Opened(p)
  PROVE  SafeResult(r)
  <1> DEFINE ready == [p EXCEPT !.stream = TRUE, !.pc = "acquire", !.copies = @ + 1,
                                !.left = ChunksPerCopy]
             lost == [p EXCEPT !.failed = TRUE]
  <1>1. /\ p.cur \in {"app", "device"} /\ p.restore \in BOOLEAN /\ p.copies + 1 \in Int
        /\ ~p.retained /\ p.refs = 0 /\ ChunksPerCopy \in Int
    BY BounceAssumption DEF PubRecs, PublisherOk
  <1>2. CASE r = [p |-> lost, f |-> 1]
    <2>1. lost = [p EXCEPT !.failed = TRUE, !.cur = p.cur, !.restore = p.restore]
      BY Zenon DEF PubRecs
    <2>2. lost \in PubRecs /\ PublisherOk(lost) /\ lost.pc = "idle"
      BY ZenonT(60), <1>1, <2>1, FailedIsOk
    <2> QED BY Zenon, <1>2, <2>2 DEF SafeResult
  <1>3. CASE p.cur = "device" /\ r = [p |-> ready, f |-> 0]
    <2>1. PICK n \in Int : n = p.copies + 1
      BY Zenon, <1>1
    <2>2. PICK keeps \in BOOLEAN, refs \in Int : keeps = FALSE /\ refs = 0
      <3>1. FALSE \in BOOLEAN /\ 0 \in Int
        OBVIOUS
      <3> QED BY ONLY Zenon, <3>1
    <2>3. PICK q : q = Begun(p, keeps, refs, n, ChunksPerCopy)
      BY Zenon
    <2>4. q = ready
      BY Zenon, <1>1, <1>3, <2>1, <2>2, <2>3 DEF PubRecs, Begun
    <2>5. q \in PubRecs /\ PublisherOk(q) /\ q.pc = "acquire"
      BY <1>1, <2>2, <2>3, ReadyIsOk
    <2> QED BY Zenon, <1>3, <2>4, <2>5 DEF SafeResult
  <1>4. CASE r = [p |-> [ready EXCEPT !.retained = TRUE, !.refs = @ + 1, !.cur = "device"], f |-> 0]
    <2>1. PICK n \in Int : n = p.copies + 1
      BY Zenon, <1>1
    <2>0. PICK keeps \in BOOLEAN, refs \in Int : keeps = TRUE /\ refs = 1
      <3>1. TRUE \in BOOLEAN /\ 1 \in Int
        OBVIOUS
      <3> QED BY ONLY Zenon, <3>1
    <2>2. PICK q : q = Begun(p, keeps, refs, n, ChunksPerCopy)
      BY Zenon
    <2>3. q = [ready EXCEPT !.retained = TRUE, !.refs = @ + 1, !.cur = "device"]
      <3>1. PICK a : a = [p EXCEPT !.stream = TRUE, !.pc = "acquire", !.copies = n,
                                   !.left = ChunksPerCopy]
        BY Zenon
      <3>2. ready = a
        BY Zenon, <2>1, <3>1
      <3>3. a \in PubRecs /\ a.refs = 0
        BY Zenon, <1>1, <3>1 DEF PubRecs, PubPlaces
      <3>4. q = [a EXCEPT !.retained = TRUE, !.refs = 1, !.cur = "device"]
        BY ONLY Zenon, <2>0, <2>2, <3>1, p \in PubRecs DEF Begun, PubRecs
      <3>5. q = [a EXCEPT !.retained = TRUE, !.refs = @ + 1, !.cur = "device"]
        BY ONLY <3>3, <3>4
      <3> QED BY ONLY Zenon, <3>2, <3>5
    <2>4. q \in PubRecs /\ PublisherOk(q) /\ q.pc = "acquire"
      <3>1. refs = (IF keeps THEN 1 ELSE 0)
        BY ONLY Zenon, <2>0
      <3>2. ChunksPerCopy \in Int
        BY Zenon, <1>1
      <3>3. PublisherOk(p) /\ p.pc = "idle" /\ ~p.finished
        BY Zenon
      <3> QED BY ONLY SMTT(60), <2>2, <3>1, <3>2, <3>3, p \in PubRecs, keeps \in BOOLEAN, refs \in Int,
                      n \in Int, ReadyIsOk
    <2> QED BY Zenon, <1>4, <2>3, <2>4 DEF SafeResult
  <1>5. ASSUME NEW b \in GoBack(p.cur), r = [p |-> [lost EXCEPT !.cur = b.cur], f |-> 1 + b.f]
        PROVE  SafeResult(r)
    <2>1. b.cur \in {"app", "device"} /\ b.f \in {0, 1}
      BY Zenon, <1>1, GoBackAre
    <2>2. PICK q : q = [p EXCEPT !.failed = TRUE, !.cur = b.cur, !.restore = p.restore]
      BY Zenon
    <2>3. q = [lost EXCEPT !.cur = b.cur]
      BY Zenon, <2>2 DEF PubRecs
    <2>4. q \in PubRecs /\ PublisherOk(q) /\ q.pc = "idle"
      BY Zenon, <1>1, <2>1, <2>2, FailedIsOk
    <2>5. r.f \in Nat
      BY <1>5, <2>1
    <2> QED BY Zenon, <1>5, <2>3, <2>4, <2>5 DEF SafeResult
  <1> QED BY Zenon, <1>2, <1>3, <1>4, <1>5 DEF Opened

LEMMA ReenteredIsSafe ==
  ASSUME NEW p \in PubRecs, PublisherOk(p), p.pc = "idle", ~p.finished, p.stream,
         NEW r \in Reentered(p)
  PROVE  SafeResult(r)
  <1> DEFINE ready == [p EXCEPT !.cur = "device", !.pc = "acquire", !.copies = @ + 1,
                                !.left = ChunksPerCopy]
  <1>1. /\ p.cur \in {"app", "device"} /\ p.restore \in BOOLEAN /\ p.copies + 1 \in Int
        /\ p.retained \in BOOLEAN /\ p.refs \in Int /\ ChunksPerCopy \in Int
        /\ p.refs = (IF p.retained THEN 1 ELSE 0)
    BY BounceAssumption DEF PubRecs, PublisherOk
  <1>2. CASE r = [p |-> ready, f |-> 0]
    <2>1. PICK n \in Int : n = p.copies + 1
      BY Zenon, <1>1
    <2>2. PICK q : q = Begun(p, p.retained, p.refs, n, ChunksPerCopy)
      BY Zenon
    <2>3. q = ready
      BY Zenon, <2>1, <2>2 DEF PubRecs, Begun
    <2>4. q \in PubRecs /\ PublisherOk(q) /\ q.pc = "acquire"
      BY <1>1, <2>2, ReadyIsOk
    <2> QED BY Zenon, <1>2, <2>3, <2>4 DEF SafeResult
  <1>3. CASE r = [p |-> [p EXCEPT !.failed = TRUE], f |-> 1]
    <2>1. PICK q : q = [p EXCEPT !.failed = TRUE, !.cur = p.cur, !.restore = p.restore]
      BY Zenon
    <2>2. q = [p EXCEPT !.failed = TRUE]
      BY Zenon, <2>1 DEF PubRecs
    <2>3. q \in PubRecs /\ PublisherOk(q) /\ q.pc = "idle"
      BY Zenon, <1>1, <2>1, FailedIsOk
    <2> QED BY Zenon, <1>3, <2>2, <2>3 DEF SafeResult
  <1>4. ASSUME NEW b \in GoBack(p.cur),
               r = [p |-> [p EXCEPT !.failed = TRUE, !.cur = b.cur, !.restore = ~b.ok], f |-> 1 + b.f]
        PROVE  SafeResult(r)
    <2>1. b.cur \in {"app", "device"} /\ b.f \in {0, 1} /\ (~b.ok) \in BOOLEAN
      BY Zenon, <1>1, GoBackAre
    <2>2. PICK q : q = [p EXCEPT !.failed = TRUE, !.cur = b.cur, !.restore = ~b.ok]
      BY Zenon
    <2>3. q \in PubRecs /\ PublisherOk(q) /\ q.pc = "idle"
      BY Zenon, <1>1, <2>1, <2>2, FailedIsOk
    <2>4. r.f \in Nat
      BY <1>4, <2>1
    <2> QED BY Zenon, <1>4, <2>2, <2>3, <2>4 DEF SafeResult
  <1> QED BY Zenon, <1>2, <1>3, <1>4 DEF Reentered


LEMMA ReturnedIsSafe ==
  ASSUME NEW p \in PubRecs, PublisherOk(p), p.pc \in {"copied", "refused"}, NEW r \in Returned(p)
  PROVE  SafeResult(r)
  <1>1. /\ p.home \in {"app", "device"} /\ p.cur = "device" /\ p.failed \in BOOLEAN
        /\ ~p.finished /\ (p.pc = "copied" => p.left = 0)
    BY Zenon DEF PubRecs, PublisherOk
  <1>2. PICK b : /\ b.cur \in {"app", "device"} /\ b.ok \in BOOLEAN /\ b.f \in {0, 1}
                 /\ b.ok => b.cur = p.home
                 /\ r = [p |-> [p EXCEPT !.pc = "idle", !.cur = b.cur, !.restore = ~b.ok,
                                         !.failed = @ \/ p.pc = "refused" \/ ~b.ok], f |-> b.f]
    <2>1. CASE p.home = "device"
      <3>1. r = LET b == [ok |-> TRUE, cur |-> p.cur, f |-> 0]
                IN [p |-> [p EXCEPT !.pc = "idle", !.cur = b.cur, !.restore = ~b.ok,
                                    !.failed = @ \/ p.pc = "refused" \/ ~b.ok], f |-> b.f]
        BY Zenon, <2>1 DEF Returned
      <3>2. PICK b : b = [ok |-> TRUE, cur |-> p.cur, f |-> 0]
        BY Zenon
      <3>3. b.cur = p.cur /\ b.ok = TRUE /\ b.f = 0
        BY Zenon, <3>2
      <3> QED BY Zenon, <1>1, <2>1, <3>1, <3>2, <3>3
    <2>2. CASE p.home # "device"
      <3>1. PICK b \in SetCurrent(p.cur, p.home) :
              r = [p |-> [p EXCEPT !.pc = "idle", !.cur = b.cur, !.restore = ~b.ok,
                                   !.failed = @ \/ p.pc = "refused" \/ ~b.ok], f |-> b.f]
        BY Zenon, <2>2 DEF Returned
      <3>2. /\ b.cur \in {"app", "device"} /\ b.ok \in BOOLEAN /\ b.f \in {0, 1}
            /\ b.ok => b.cur = p.home
        BY Zenon, <1>1, ContextsAre
      <3> QED BY Zenon, <3>1, <3>2
    <2> QED BY Zenon, <2>1, <2>2
  <1>3. PICK lost \in BOOLEAN : lost = (p.failed \/ p.pc = "refused" \/ ~b.ok)
    BY Zenon
  <1>4. PICK torn \in BOOLEAN : torn = ~b.ok
    BY Zenon
  <1>5. PICK q : q = [p EXCEPT !.pc = "idle", !.cur = b.cur, !.restore = torn, !.failed = lost]
    BY Zenon
  <1>6. r.p = q /\ r.f = b.f
    BY Zenon, <1>2, <1>3, <1>4, <1>5
  <1>7. /\ q \in PubRecs /\ q.pc = "idle" /\ q.cur = b.cur /\ q.failed = lost /\ q.home = p.home
        /\ q.left = p.left /\ q.finished = p.finished /\ q.refs = p.refs
        /\ q.retained = p.retained /\ q.stream = p.stream
    <2>1. b.cur \in {"app", "device"}
      BY Zenon, <1>2
    <2> QED BY ONLY Zenon, <1>5, <2>1, p \in PubRecs, lost \in BOOLEAN, torn \in BOOLEAN
            DEF PubRecs, PubPlaces
  <1>8. lost \/ (b.cur = p.home /\ p.left = 0)
    <2>1. p.pc = "refused" \/ ~b.ok => lost
      BY ONLY Zenon, <1>3
    <2>2. p.pc = "copied" /\ b.ok => b.cur = p.home /\ p.left = 0
      BY ONLY Zenon, <1>1, <1>2
    <2>3. p.pc = "copied" \/ p.pc = "refused"
      BY Zenon
    <2> QED BY ONLY Zenon, <2>1, <2>2, <2>3
  <1>9. PublisherOk(q)
    BY Zenon, <1>7, <1>8 DEF PublisherOk
  <1>10. r.f \in Nat
    BY SMTT(60), <1>2, <1>6
  <1> QED BY Zenon, <1>6, <1>7, <1>9, <1>10 DEF SafeResult

(* Finish leaves the caller's context behind, or says that it failed. *)
Ended(p, stream, c, refs, lost) ==
  [p EXCEPT !.finished = TRUE, !.stream = stream, !.cur = c, !.refs = refs, !.failed = lost]

LEMMA FinishedIsOk ==
  ASSUME NEW p \in PubRecs, PublisherOk(p), p.pc = "idle", ~p.finished,
         NEW c \in {"app", "device"}, NEW lost \in BOOLEAN, NEW stream \in BOOLEAN,
         NEW refs \in Int, refs = p.refs - (IF p.retained THEN 1 ELSE 0),
         lost \/ (c = p.home /\ p.left = 0),
         NEW q, q = Ended(p, stream, c, refs, lost)
  PROVE  q \in PubRecs /\ PublisherOk(q) /\ q.pc = "idle"
  <1>1. /\ q \in PubRecs /\ q.pc = "idle" /\ q.cur = c /\ q.failed = lost /\ q.home = p.home
        /\ q.left = p.left /\ q.finished /\ q.refs = refs
    BY ZenonT(60) DEF PubRecs, Ended
  <1>2. refs = 0
    BY DEF PublisherOk, PubRecs
  <1> QED BY Zenon, <1>1, <1>2 DEF PublisherOk


LEMMA FinishedIsSafe ==
  ASSUME NEW p \in PubRecs, PublisherOk(p), p.pc = "idle", ~p.finished, NEW r \in Finished(p)
  PROVE  SafeResult(r)
  <1>1. /\ p.home \in {"app", "device"} /\ p.cur \in {"app", "device"} /\ p.failed \in BOOLEAN
        /\ p.restore \in BOOLEAN /\ p.retained \in BOOLEAN /\ p.refs \in Int
        /\ ~p.failed => p.cur = p.home /\ p.left = 0
    BY Zenon DEF PubRecs, PublisherOk
  <1>2. PICK e \in EnterContext(p), sync \in 0..1 : \E b \in LeaveContext(p, e) :
          r = FinishedAs(p, e, sync, b)
    BY DEF Finished
  <1>3. PICK b \in LeaveContext(p, e) : r = FinishedAs(p, e, sync, b)
    BY Zenon, <1>2
  <1>4. /\ e.cur \in {"app", "device"} /\ e.f \in {0, 1} /\ e.switched \in BOOLEAN
        /\ e.f = 0 => e.switched \/ e.cur = p.cur
    <2>1. CASE e = [cur |-> p.cur, switched |-> FALSE, f |-> 1]
      BY Zenon, <1>1, <2>1
    <2>2. CASE e = [cur |-> p.cur, switched |-> FALSE, f |-> 0]
      BY Zenon, <1>1, <2>2
    <2>3. ASSUME NEW s \in SetCurrent(p.cur, "device"),
                 e = [cur |-> s.cur, switched |-> s.ok, f |-> s.f]
          PROVE  /\ e.cur \in {"app", "device"} /\ e.f \in {0, 1} /\ e.switched \in BOOLEAN
                 /\ e.f = 0 => e.switched \/ e.cur = p.cur
      <3>1. /\ s.cur \in {"app", "device"} /\ s.f \in {0, 1} /\ s.ok \in BOOLEAN
            /\ s.f = 0 => s.ok
        BY Zenon, <1>1, ContextsAre
      <3>2. e.cur = s.cur /\ e.switched = s.ok /\ e.f = s.f
        BY Zenon, <2>3
      <3> QED BY ONLY Zenon, <3>1, <3>2
    <2> QED BY Zenon, <1>2, <2>1, <2>2, <2>3 DEF EnterContext
  <1>5. /\ b.cur \in {"app", "device"} /\ b.f \in {0, 1}
        /\ b.f = 0 => b.cur = p.home \/ (b.cur = e.cur /\ ~e.switched)
    <2>1. CASE b \in SetCurrent(e.cur, p.home)
      <3>1. /\ b.cur \in {"app", "device"} /\ b.f \in {0, 1} /\ (b.f = 0 => b.ok)
            /\ b.ok => b.cur = p.home
        BY Zenon, <1>1, <1>4, <2>1, ContextsAre
      <3> QED BY ONLY Zenon, <3>1
    <2>2. CASE ~e.switched /\ b = [ok |-> TRUE, cur |-> e.cur, f |-> 0]
      BY Zenon, <1>4, <2>2
    <2> QED BY Zenon, <1>3, <2>1, <2>2 DEF LeaveContext
  <1>6. PICK n \in Nat : n = e.f + sync + b.f
    BY <1>2, <1>4, <1>5
  <1>7. n = 0 => e.f = 0 /\ b.f = 0
    BY <1>2, <1>4, <1>5, <1>6
  <1>8. PICK lost \in BOOLEAN : lost = (p.failed \/ n > 0)
    BY Zenon
  <1>9. lost \/ (b.cur = p.home /\ p.left = 0)
    <2>1. p.failed \/ n > 0 => lost
      BY ONLY Zenon, <1>8
    <2>2. n > 0 \/ n = 0
      OBVIOUS
    <2> QED BY Zenon, <1>1, <1>4, <1>5, <1>7, <2>1, <2>2
  <1>10. PICK refs \in Int : refs = p.refs - (IF p.retained THEN 1 ELSE 0)
    BY <1>1
  <1>a. PICK stream \in BOOLEAN : stream = FALSE
    BY Zenon
  <1>11. PICK q : q = Ended(p, stream, b.cur, refs, lost)
    BY Zenon
  <1>12. r.p = q /\ r.f = n
    BY Zenon, <1>3, <1>6, <1>8, <1>10, <1>a, <1>11 DEF Ended, FinishedAs
  <1>13. q \in PubRecs /\ PublisherOk(q) /\ q.pc = "idle"
    BY <1>5, <1>9, <1>10, <1>11, FinishedIsOk
  <1> QED BY Zenon, <1>12, <1>13 DEF SafeResult


LEMMA PublisherStepHolds ==
  ASSUME PoolInv, NEW t \in Publishers, CopyBegin(t) \/ CopyReturn(t) \/ PublisherFinish(t)
  PROVE  PoolInv'
  <1>1. PICK p \in PubRecs : p = pub[t] /\ PublisherOk(p)
    BY Zenon DEF PoolInv, BounceType
  <1>2. CASE CopyBegin(t)
    <2>1. /\ p.pc = "idle" /\ ~p.finished
          /\ PublisherStep(t, IF p.stream THEN Reentered(p) ELSE Opened(p))
      BY Zenon, <1>1, <1>2 DEF CopyBegin
    <2>2. PICK R : R = IF p.stream THEN Reentered(p) ELSE Opened(p)
      BY Zenon
    <2>3. PublisherStep(t, R)
      BY ONLY Zenon, <2>1, <2>2
    <2>4. \A r \in R : SafeResult(r)
      <3>1. CASE p.stream
        BY Zenon, <1>1, <2>1, <2>2, <3>1, ReenteredIsSafe
      <3>2. CASE ~p.stream
        BY Zenon, <1>1, <2>1, <2>2, <3>2, OpenedIsSafe
      <3> QED BY Zenon, <3>1, <3>2
    <2> QED BY Zenon, <1>1, <2>1, <2>3, <2>4, PublisherMoves DEF SafeResult
  <1>3. CASE CopyReturn(t)
    <2>1. p.pc \in {"copied", "refused"} /\ PublisherStep(t, Returned(p))
      BY Zenon, <1>1, <1>3 DEF CopyReturn
    <2>2. \A r \in Returned(p) : SafeResult(r)
      BY Zenon, <1>1, <2>1, ReturnedIsSafe
    <2> QED BY Zenon, <1>1, <2>1, <2>2, PublisherMoves DEF SafeResult
  <1>4. CASE PublisherFinish(t)
    <2>1. /\ p.pc = "idle" /\ ~p.finished
          /\ PublisherStep(t, IF p.stream THEN Finished(p)
                              ELSE {[p |-> [p EXCEPT !.finished = TRUE], f |-> 0]})
      BY Zenon, <1>1, <1>4 DEF PublisherFinish
    <2>2. PICK R : R = IF p.stream THEN Finished(p)
                       ELSE {[p |-> [p EXCEPT !.finished = TRUE], f |-> 0]}
      BY Zenon
    <2>3. PublisherStep(t, R)
      BY ONLY Zenon, <2>1, <2>2
    <2>4. \A r \in R : SafeResult(r)
      <3>1. CASE p.stream
        BY Zenon, <1>1, <2>1, <2>2, <3>1, FinishedIsSafe
      <3>2. CASE ~p.stream
        <4>1. SUFFICES ASSUME NEW r, r = [p |-> [p EXCEPT !.finished = TRUE], f |-> 0]
                       PROVE  SafeResult(r)
          BY Zenon, <2>2, <3>2
        <4>2. PICK q : q = [p EXCEPT !.finished = TRUE]
          BY Zenon
        <4>3. r.p = q /\ r.f = 0
          BY Zenon, <4>1, <4>2
        <4>4. /\ q \in PubRecs /\ q.pc = p.pc /\ q.cur = p.cur /\ q.failed = p.failed
              /\ q.home = p.home /\ q.left = p.left /\ q.finished /\ q.refs = p.refs
              /\ q.retained = p.retained /\ q.stream = p.stream
          BY ONLY Zenon, <4>2, p \in PubRecs DEF PubRecs
        <4>5. PublisherOk(q)
          BY Zenon, <1>1, <2>1, <3>2, <4>4 DEF PublisherOk
        <4> QED BY <2>1, <4>3, <4>4, <4>5 DEF SafeResult
      <3> QED BY Zenon, <3>1, <3>2
    <2> QED BY Zenon, <1>1, <2>1, <2>3, <2>4, PublisherMoves DEF SafeResult
  <1> QED BY Zenon, <1>2, <1>3, <1>4

(* Teardown begins, and what it frees. *)
LEMMA TeardownBeginStep ==
  ASSUME PoolInv, TeardownBegin
  PROVE  PoolInv'
  <1>1. /\ bounce' = [bounce EXCEPT !.down = TRUE] /\ pub' = NotifiedAll(pub)
        /\ dma' = dma /\ freed' = freed /\ driverFaults' = driverFaults
    BY Zenon DEF TeardownBegin
  <1>2. /\ bounce' \in BounceRecs /\ bounce'.slot = bounce.slot /\ bounce'.down = TRUE
        /\ bounce'.active = bounce.active /\ bounce'.allocs = bounce.allocs
    BY Zenon, <1>1 DEF PoolInv, BounceType, BounceRecs
  <1>3. /\ pub' \in [Publishers -> PubRecs]
        /\ \A u \in Publishers :
             /\ pub[u].pc # "wait" => pub'[u] = pub[u]
             /\ pub'[u].pc # "wait" /\ pub'[u].slot = pub[u].slot
             /\ pub[u].pc = "wait" => pub'[u].pc = "acquire"
             /\ PublisherOk(pub[u]) => PublisherOk(pub'[u])
    <2>1. pub \in [Publishers -> PubRecs]
      BY Zenon DEF PoolInv, BounceType
    <2> QED BY ONLY <1>1, <2>1, AllAreWoken
  <1>4. ASSUME NEW u \in Publishers
        PROVE  /\ pub'[u].pc \in LeasePlaces <=> pub[u].pc \in LeasePlaces
               /\ pub'[u].pc \in AllocPlaces <=> pub[u].pc \in AllocPlaces
               /\ pub'[u].pc = "alloc" <=> pub[u].pc = "alloc"
               /\ pub'[u].slot = pub[u].slot /\ PublisherOk(pub'[u])
    <2>1. PublisherOk(pub[u])
      BY Zenon DEF PoolInv
    <2>2. CASE pub[u].pc = "wait"
      BY Zenon, <1>3, <2>1, <2>2 DEF LeasePlaces, AllocPlaces
    <2>3. CASE pub[u].pc # "wait"
      <3>1. pub'[u] = pub[u]
        BY Zenon, <1>3, <2>3
      <3> QED BY Zenon, <2>1, <3>1
    <2> QED BY Zenon, <2>2, <2>3
  <1>5. Leasing' = Leasing /\ Allocators' = Allocators
    BY Zenon, <1>4 DEF Leasing, Allocators, LeasePlaces
  <1>6. SlotsAreHeld'
    <2>1. \A t \in Leasing : pub'[t].slot = pub[t].slot
      BY Zenon, <1>4 DEF Leasing
    <2>2. \A i \in SlotIds : bounce'.slot[i].inUse => \E t \in Leasing' : pub'[t].slot = i
      BY Zenon, <1>2, <1>5, <2>1 DEF PoolInv, SlotsAreHeld
    <2>3. \A i \in SlotIds : SlotOk(bounce'.slot[i])
      BY Zenon, <1>2 DEF PoolInv, SlotsAreHeld
    <2>4. \A t \in Publishers : pub'[t].pc \in LeasePlaces =>
            pub'[t].slot \in SlotIds /\ bounce'.slot[pub'[t].slot].inUse
      BY Zenon, <1>2, <1>4 DEF PoolInv, SlotsAreHeld
    <2>5. \A t \in Publishers : pub'[t].pc = "alloc" =>
            pub'[t].slot \in SlotIds /\ bounce'.slot[pub'[t].slot].allocating
      BY Zenon, <1>2, <1>4 DEF PoolInv, SlotsAreHeld
    <2>6. /\ \A t, u \in Publishers : pub'[t].pc \in LeasePlaces /\ pub'[u].pc \in LeasePlaces
               /\ pub'[t].slot = pub'[u].slot => t = u
          /\ \A t, u \in Publishers : pub'[t].pc = "alloc" /\ pub'[u].pc = "alloc"
               /\ pub'[t].slot = pub'[u].slot => t = u
      BY <1>4 DEF PoolInv, SlotsAreHeld
    <2> QED BY Zenon, <2>2, <2>3, <2>4, <2>5, <2>6 DEF SlotsAreHeld
  <1>7. BounceType' /\ MemoryIsSafe'
    BY Zenon, <1>1, <1>2, <1>3, <1>5 DEF PoolInv, BounceType, MemoryIsSafe
  <1> QED BY Zenon, <1>2, <1>3, <1>4, <1>5, <1>6, <1>7 DEF PoolInv

LEMMA TeardownFreeStep ==
  ASSUME PoolInv, TeardownFree
  PROVE  PoolInv'
  <1>1. /\ bounce.down /\ bounce.active = 0 /\ UNCHANGED <<bounce, pub, dma, driverFaults>>
        /\ freed' = {i \in SlotIds : bounce.slot[i].data /\ ~bounce.slot[i].poisoned}
    BY Zenon DEF TeardownFree
  <1>2. Leasing = {}
    <2>1. IsFiniteSet(Leasing)
      BY Zenon, BounceAssumption, FS_Subset DEF Leasing
    <2> QED BY Zenon, <1>1, <2>1, FS_EmptySet DEF PoolInv
  <1>3. Leasing' = Leasing /\ Allocators' = Allocators
    BY Zenon, <1>1 DEF Leasing, Allocators
  <1>4. SlotsAreHeld'
    BY Zenon, <1>1, <1>3 DEF PoolInv, SlotsAreHeld
  <1>5. BounceType' /\ MemoryIsSafe'
    BY Zenon, <1>1, <1>2, <1>3 DEF PoolInv, BounceType, MemoryIsSafe
  <1> QED BY Zenon, <1>1, <1>3, <1>4, <1>5 DEF PoolInv

LEMMA PoolInit ==
  ASSUME BouncePoolInit
  PROVE  PoolInv
  <1>1. /\ bounce \in BounceRecs /\ bounce.active = 0 /\ bounce.allocs = 0
        /\ \A i \in SlotIds : /\ bounce.slot[i].data = FALSE /\ bounce.slot[i].allocating = FALSE
                              /\ bounce.slot[i].inUse = FALSE /\ bounce.slot[i].poisoned = FALSE
    BY SMTT(60) DEF BouncePoolInit, BounceRecs, SlotRecs
  <1>2. dma = {} /\ freed = {} /\ driverFaults = 0
    BY Zenon DEF BouncePoolInit
  <1>3. PICK home \in [Publishers -> {"app", "device"}] :
          pub = [t \in Publishers |->
                   [pc |-> "idle", home |-> home[t], cur |-> home[t], stream |-> FALSE,
                    retained |-> FALSE, refs |-> 0, restore |-> FALSE, failed |-> FALSE,
                    finished |-> FALSE, copies |-> 0, left |-> 0, slot |-> NoSlot]]
    BY Zenon DEF BouncePoolInit
  <1>4. /\ pub \in [Publishers -> PubRecs]
        /\ \A t \in Publishers : /\ pub[t].pc = "idle" /\ pub[t].cur = pub[t].home
                                 /\ pub[t].left = 0 /\ pub[t].finished = FALSE /\ pub[t].refs = 0
                                 /\ pub[t].retained = FALSE
    BY <1>3 DEF PubRecs, PubPlaces, NoSlot
  <1>5. \A t \in Publishers : PublisherOk(pub[t])
    BY Zenon, <1>4 DEF PublisherOk
  <1>6. Leasing = {} /\ Allocators = {}
    BY Zenon, <1>4 DEF Leasing, Allocators, AllocPlaces
  <1>7. Cardinality(Leasing) = 0 /\ Cardinality(Allocators) = 0
    BY Zenon, <1>6, FS_EmptySet
  <1>8. BounceType /\ MemoryIsSafe
    BY Zenon, <1>1, <1>2, <1>4 DEF BounceType, MemoryIsSafe
  <1>9. SlotsAreHeld
    BY Zenon, <1>1, <1>4 DEF SlotsAreHeld, SlotOk, LeasePlaces
  <1> QED BY Zenon, <1>1, <1>4, <1>5, <1>7, <1>8, <1>9 DEF PoolInv


LEMMA PoolNext ==
  ASSUME PoolInv, [BouncePoolNext]_bounceVars
  PROVE  PoolInv'
  <1>1. CASE UNCHANGED bounceVars
    <2>1. UNCHANGED <<bounce, pub, dma, freed, driverFaults>>
      BY Zenon, <1>1 DEF bounceVars
    <2>2. Leasing' = Leasing /\ Allocators' = Allocators
      BY Zenon, <2>1 DEF Leasing, Allocators
    <2>3. SlotsAreHeld' /\ BounceType' /\ MemoryIsSafe'
      BY Zenon, <2>1, <2>2 DEF PoolInv, SlotsAreHeld, BounceType, MemoryIsSafe
    <2> QED BY Zenon, <2>1, <2>2, <2>3 DEF PoolInv
  <1>2. ASSUME NEW t \in Publishers, PublisherRuns(t) PROVE PoolInv'
    BY Zenon, <1>2, AcquireStepHolds, AllocateDoneStep, AllocateFailsStep, AllocateAbortsStep,
       AllocateAbortedStep, EnqueuedStep, FencedStep, FenceFailsStep, PublisherStepHolds
       DEF PublisherRuns
  <1>3. ASSUME NEW t \in Publishers, CopyBegin(t) \/ PublisherFinish(t) PROVE PoolInv'
    BY Zenon, <1>3, PublisherStepHolds
  <1> QED BY Zenon, <1>1, <1>2, <1>3, TeardownBeginStep, TeardownFreeStep DEF BouncePoolNext

(* The slots' holders are what PublishIsSafe counts. *)
LEMMA PoolInvImplies ==
  ASSUME PoolInv
  PROVE  PublishIsSafe
  <1>1. ASSUME NEW i \in SlotIds
        PROVE  /\ bounce.slot[i].inUse <=> Cardinality(SlotHolders(i)) = 1
               /\ Cardinality(SlotHolders(i)) <= 1
    <2>1. IsFiniteSet(SlotHolders(i))
      <3>1. SlotHolders(i) \subseteq Publishers
        BY Zenon DEF SlotHolders, Leasing
      <3> QED BY Zenon, <3>1, BounceAssumption, FS_Subset
    <2>2. CASE bounce.slot[i].inUse
      <3>1. PICK t \in Leasing : pub[t].slot = i
        BY Zenon, <2>2 DEF PoolInv, SlotsAreHeld
      <3>2. ASSUME NEW u \in SlotHolders(i) PROVE u = t
        <4>1. u \in Publishers /\ t \in Publishers /\ pub[u].pc \in LeasePlaces
              /\ pub[t].pc \in LeasePlaces /\ pub[u].slot = i
          BY Zenon, <3>1, <3>2 DEF SlotHolders, Leasing, LeasePlaces
        <4> QED BY Zenon, <3>1, <4>1 DEF PoolInv, SlotsAreHeld
      <3>3. SlotHolders(i) = {t}
        BY Zenon, <3>1, <3>2 DEF SlotHolders
      <3> QED BY SMTT(60), <2>2, <3>3, FS_Singleton
    <2>3. CASE ~bounce.slot[i].inUse
      <3>1. SlotHolders(i) = {}
        BY Zenon, <2>3 DEF SlotHolders, Leasing, PoolInv, SlotsAreHeld, LeasePlaces
      <3>2. Cardinality(SlotHolders(i)) = 0
        BY Zenon, <3>1, FS_EmptySet
      <3> QED BY SMTT(30), <2>3, <3>2
    <2> QED BY Zenon, <2>2, <2>3
  <1>2. \A i \in SlotIds : i \in dma => (bounce.slot[i].inUse \/ bounce.slot[i].poisoned)
    BY Zenon DEF PoolInv, MemoryIsSafe
  <1>3. ASSUME NEW i \in SlotIds, i \in freed
        PROVE  i \notin dma /\ ~bounce.slot[i].inUse
    <2>1. Leasing = {} /\ ~bounce.slot[i].poisoned
      BY Zenon, <1>3 DEF PoolInv, MemoryIsSafe
    <2>2. ~bounce.slot[i].inUse
      BY Zenon, <2>1 DEF PoolInv, SlotsAreHeld
    <2> QED BY Zenon, <1>2, <2>1, <2>2
  <1>4. SlotsAreFenced
    BY Zenon, <1>1, <1>2, <1>3 DEF SlotsAreFenced
  <1>5. WaitersAreWoken
    BY Zenon DEF PoolInv, WaitersAreWoken, Allocators, AllocPlaces
  <1>6. PublicationIsClean
    BY Zenon DEF PoolInv, PublicationIsClean, PublisherOk
  <1> QED BY Zenon, <1>4, <1>5, <1>6 DEF PublishIsSafe

\* Publishing into GPU memory is safe for any number of threads, slots, copies
\* and driver failures: no slot the device may still read is handed on or freed,
\* no thread waits for a slot nobody will give back, and the caller gets its
\* CUDA context back or is told that the publication failed (cuda_ipc.cc:
\* PinnedBouncePool, PublishThroughBounce, DestinationPublisher).
THEOREM PublishingIsSafe == BouncePoolSpec => []PublishIsSafe
  <1>1. BouncePoolInit => PoolInv
    BY Zenon, PoolInit
  <1>2. PoolInv /\ [BouncePoolNext]_bounceVars => PoolInv'
    BY Zenon, PoolNext
  <1>3. PoolInv => PublishIsSafe
    BY Zenon, PoolInvImplies
  <1> QED BY <1>1, <1>2, <1>3, PTL DEF BouncePoolSpec

=============================================================================
