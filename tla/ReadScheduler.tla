---------------------------- MODULE ReadScheduler ---------------------------
(***************************************************************************)
(* The process-wide scheduler of read shards (read_scheduler.h).  A caller *)
(* of Run queues its batch and sleeps; a fixed set of workers takes one    *)
(* shard of the batch at the head of the queue and puts the batch back at  *)
(* the tail.  Mutexes and condition variables are explicit: a thread that  *)
(* has tested its predicate and not yet gone to sleep misses a             *)
(* notification unless the notifier needs the mutex it holds.              *)
(***************************************************************************)
EXTENDS Integers, Sequences, FiniteSets

CONSTANTS Callers,   \* threads that call Run, one batch each
          Shards,    \* [Callers -> Nat]: shards of the batch
          Readers    \* the workers: WorkerCount()

\* WorkerCount() is between 1 and 64.
ASSUME ReadSchedulerAssumption == Shards \in [Callers -> Nat] /\ Readers # {}

VARIABLES queue,     \* queue_, of callers: a batch is named by its caller
          batch,     \* [Callers -> Job and the caller's place in Run]
          reader,    \* [Readers -> the worker's place in WorkerLoop]
          shardRuns  \* history: how often each shard was executed

schedVars == <<queue, batch, reader, shardRuns>>

NoCaller == "none"

\* The workers have started and found no work.
ReadSchedulerInit ==
  /\ queue = <<>>
  /\ batch = [c \in Callers |-> [pc |-> "start", next |-> 0, done |-> 0]]
  /\ reader = [r \in Readers |-> [pc |-> "asleep", job |-> NoCaller, index |-> 0]]
  /\ shardRuns = [c \in Callers |-> [i \in 0..(Shards[c] - 1) |-> 0]]

\* ready_.notify_one: some sleeping worker, if there is one, wakes up.
NotifyOne(rs) ==
  LET asleep == {r \in Readers : rs[r].pc = "asleep"} IN
  IF asleep = {} THEN {rs}
  ELSE {[rs EXCEPT ![r].pc = "loop"] : r \in asleep}

(***************************************************************************)
(* Run: enqueue under mu_, wake a worker, sleep until all shards are done. *)
(***************************************************************************)
RunBatch(c) ==
  /\ batch[c].pc = "start"
  /\ IF Shards[c] = 0
     THEN /\ batch' = [batch EXCEPT ![c].pc = "returned"]
          /\ UNCHANGED <<queue, reader>>
     ELSE /\ batch' = [batch EXCEPT ![c].pc = "queued"]
          /\ queue' = Append(queue, c)
          /\ UNCHANGED reader
  /\ UNCHANGED shardRuns

NotifyReady(c) ==
  /\ batch[c].pc = "queued"
  /\ batch' = [batch EXCEPT ![c].pc = "lock"]
  /\ \E rs \in NotifyOne(reader) : reader' = rs
  /\ UNCHANGED <<queue, shardRuns>>

\* The predicate is tested with job->mu held, which the wait releases.
TestDone(c) ==
  /\ batch[c].pc = "lock"
  /\ batch' = [batch EXCEPT ![c].pc =
                 IF batch[c].done = Shards[c] THEN "returned" ELSE "holding"]
  /\ UNCHANGED <<queue, reader, shardRuns>>

SleepUntilDone(c) ==
  /\ batch[c].pc = "holding"
  /\ batch' = [batch EXCEPT ![c].pc = "asleep"]
  /\ UNCHANGED <<queue, reader, shardRuns>>

(***************************************************************************)
(* WorkerLoop.                                                             *)
(***************************************************************************)
TakeShard(r) ==
  /\ reader[r].pc = "loop"
  /\ IF queue = <<>>
     THEN reader' = [reader EXCEPT ![r].pc = "asleep"] /\ UNCHANGED <<queue, batch>>
     ELSE LET c == Head(queue)
              i == batch[c].next
              took == [reader EXCEPT ![r] = [pc |-> "run", job |-> c, index |-> i]]
          IN /\ batch' = [batch EXCEPT ![c].next = i + 1]
             /\ IF i + 1 < Shards[c]
                THEN /\ queue' = Append(Tail(queue), c)
                     /\ \E rs \in NotifyOne(took) : reader' = rs
                ELSE queue' = Tail(queue) /\ reader' = took
  /\ UNCHANGED shardRuns

RunShard(r) ==
  /\ reader[r].pc = "run"
  /\ shardRuns' = [shardRuns EXCEPT ![reader[r].job][reader[r].index] = @ + 1]
  /\ reader' = [reader EXCEPT ![r].pc = "count"]
  /\ UNCHANGED <<queue, batch>>

CountShard(r) ==
  /\ reader[r].pc = "count"
  /\ LET c == reader[r].job IN
     /\ batch' = [batch EXCEPT ![c].done = @ + 1]
     /\ reader' = [reader EXCEPT ![r].pc =
                     IF batch[c].done + 1 = Shards[c] THEN "notify" ELSE "loop"]
  /\ UNCHANGED <<queue, shardRuns>>

(* Mutant: the last worker notifies without taking the job's mutex.        *)
NotifyDoneUnlocked(r) ==
  /\ reader[r].pc = "notify"
  /\ LET c == reader[r].job IN
     batch' = [batch EXCEPT ![c].pc = IF @ = "asleep" THEN "lock" ELSE @]
  /\ reader' = [reader EXCEPT ![r].pc = "loop"]
  /\ UNCHANGED <<queue, shardRuns>>

NotifyDone(r) ==
  /\ reader[r].pc = "notify"
  /\ LET c == reader[r].job IN
     /\ batch[c].pc # "holding"
     /\ batch' = [batch EXCEPT ![c].pc = IF @ = "asleep" THEN "lock" ELSE @]
  /\ reader' = [reader EXCEPT ![r].pc = "loop"]
  /\ UNCHANGED <<queue, shardRuns>>

CallerStep(c) == NotifyReady(c) \/ TestDone(c) \/ SleepUntilDone(c)
ReaderStep(r) == TakeShard(r) \/ RunShard(r) \/ CountShard(r) \/ NotifyDone(r)

ReadSchedulerNext ==
  (\E c \in Callers : RunBatch(c) \/ CallerStep(c)) \/ (\E r \in Readers : ReaderStep(r))

ReadSchedulerSpec == ReadSchedulerInit /\ [][ReadSchedulerNext]_schedVars

(***************************************************************************)
(* No wakeup is lost, neither between the queue and a worker nor between   *)
(* the last worker and the caller: while a Run has not returned, some      *)
(* thread is awake (and can take a step: a job's mutex is only waited for  *)
(* while its caller holds it on the way to sleep), and when it has, every  *)
(* shard of its batch has been carried out exactly once.                   *)
(***************************************************************************)
SomeoneIsAwake ==
  \/ \E c \in Callers : batch[c].pc \in {"queued", "lock", "holding"}
  \/ \E r \in Readers : reader[r].pc # "asleep"

BatchesComplete ==
  /\ (\E c \in Callers : batch[c].pc \notin {"start", "returned"}) => SomeoneIsAwake
  /\ \A c \in Callers : batch[c].pc = "returned" =>
       \A i \in DOMAIN shardRuns[c] : shardRuns[c][i] = 1
=============================================================================
