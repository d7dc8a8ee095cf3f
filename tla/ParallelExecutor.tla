-------------------------- MODULE ParallelExecutor --------------------------
(***************************************************************************)
(* The process-wide executor of small parallel loops (parallel_for.h).     *)
(* Run queues the job once per helper it would like, takes part in the     *)
(* work itself and returns when all items are done; copies of the job that *)
(* no helper has taken stay in the queue after that.  The item function    *)
(* refers to the caller's frame.                                           *)
(***************************************************************************)
EXTENDS Integers, Sequences, FiniteSets

CONSTANTS Loops,         \* calls of Run, each by a thread of its own
          Items,         \* [Loops -> Nat]: count
          Concurrency,   \* [Loops -> Nat]: concurrency
          Helpers        \* the pool's threads, at most MaxThreads()

ASSUME ParallelExecutorAssumption ==
  Items \in [Loops -> Nat] /\ Concurrency \in [Loops -> Nat] /\ IsFiniteSet(Helpers)

VARIABLES helpQueue,     \* queue_, of loops
          loop,          \* [Loops -> Job and the caller's place in Run]
          helper,        \* [Helpers -> a helper's place in Loop and Work]
          itemRuns       \* history: how often each item was executed

execVars == <<helpQueue, loop, helper, itemRuns>>

NoLoop == "none"
Worker0 == [pc |-> "absent", job |-> NoLoop, i |-> 0]

ParallelExecutorInit ==
  /\ helpQueue = <<>>
  /\ loop = [l \in Loops |-> [pc |-> "start", next |-> 0, done |-> 0, i |-> 0]]
  /\ helper = [h \in Helpers |-> Worker0]
  /\ itemRuns = [l \in Loops |-> [i \in 0..(Items[l] - 1) |-> 0]]

Width(l) ==
  LET least(a, b) == IF a < b THEN a ELSE b
  IN least(least(Concurrency[l], Items[l]), Cardinality(Helpers))

(***************************************************************************)
(* Run.  With no helper wanted the items are executed in the caller, one   *)
(* after another.  EnsureThreads starts helpers up to the length the queue *)
(* had when the job was added.                                             *)
(***************************************************************************)
RunLoop(l) ==
  /\ loop[l].pc = "start"
  /\ IF Width(l) <= 1
     THEN /\ loop' = [loop EXCEPT ![l].pc = IF Items[l] = 0 THEN "returned" ELSE "serial"]
          /\ UNCHANGED helpQueue
     ELSE /\ helpQueue' = helpQueue \o [n \in 1..(Width(l) - 1) |-> l]
          /\ loop' = [loop EXCEPT ![l].pc = "ensure", ![l].i = Len(helpQueue')]
  /\ UNCHANGED <<helper, itemRuns>>

EnsureThreads(l) ==
  /\ loop[l].pc = "ensure"
  /\ LET present == {h \in Helpers : helper[h].pc # "absent"}
         lacking == {h \in Helpers : helper[h].pc = "absent"}
         short   == loop[l].i - Cardinality(present)
     IN \E new \in SUBSET lacking :
          /\ Cardinality(new) = (IF short <= 0 THEN 0
                                 ELSE IF short < Cardinality(lacking) THEN short
                                 ELSE Cardinality(lacking))
          /\ helper' = [h \in Helpers |->
                 IF h \in new THEN [Worker0 EXCEPT !.pc = "idle"] ELSE helper[h]]
  /\ loop' = [loop EXCEPT ![l].pc = "next", ![l].i = 0]
  /\ UNCHANGED <<helpQueue, itemRuns>>

RunSerially(l) ==
  /\ loop[l].pc = "serial"
  /\ itemRuns' = [itemRuns EXCEPT ![l] = [i \in DOMAIN @ |-> @[i] + 1]]
  /\ loop' = [loop EXCEPT ![l].pc = "returned"]
  /\ UNCHANGED <<helpQueue, helper>>

\* Loop: a helper takes the job at the head of the queue (cv_ is notified
\* after every enqueue, so an idle helper does look).
TakeJob(h) ==
  /\ helper[h].pc = "idle" /\ helpQueue # <<>>
  /\ helper' = [helper EXCEPT ![h] = [pc |-> "next", job |-> Head(helpQueue), i |-> 0]]
  /\ helpQueue' = Tail(helpQueue)
  /\ UNCHANGED <<loop, itemRuns>>

(***************************************************************************)
(* Work, by the caller and by a helper: draw an index, execute the item,   *)
(* count it.                                                               *)
(***************************************************************************)
Drawn(l) == {loop[l].next}

DrawByCaller(l) ==
  /\ loop[l].pc = "next"
  /\ \E i \in Drawn(l) :
     loop' = [loop EXCEPT ![l].next = @ + 1, ![l].i = i,
                          ![l].pc = IF i < Items[l] THEN "item" ELSE "wait"]
  /\ UNCHANGED <<helpQueue, helper, itemRuns>>

ItemByCaller(l) ==
  /\ loop[l].pc = "item"
  /\ itemRuns' = [itemRuns EXCEPT ![l][loop[l].i] = @ + 1]
  /\ loop' = [loop EXCEPT ![l].pc = "next", ![l].done = @ + 1]
  /\ UNCHANGED <<helpQueue, helper>>

DrawByHelper(h) ==
  /\ helper[h].pc = "next"
  /\ LET l == helper[h].job IN
     \E i \in Drawn(l) :
       /\ loop' = [loop EXCEPT ![l].next = @ + 1]
       /\ helper' = [helper EXCEPT ![h] = IF i < Items[l]
                       THEN [pc |-> "item", job |-> l, i |-> i]
                       ELSE [Worker0 EXCEPT !.pc = "idle"]]
  /\ UNCHANGED <<helpQueue, itemRuns>>

ItemByHelper(h) ==
  /\ helper[h].pc = "item"
  /\ itemRuns' = [itemRuns EXCEPT ![helper[h].job][helper[h].i] = @ + 1]
  /\ helper' = [helper EXCEPT ![h].pc = "count"]
  /\ UNCHANGED <<helpQueue, loop>>

CountByHelper(h) ==
  /\ helper[h].pc = "count"
  /\ loop' = [loop EXCEPT ![helper[h].job].done = @ + 1]
  /\ helper' = [helper EXCEPT ![h].pc = "next"]
  /\ UNCHANGED <<helpQueue, itemRuns>>

(* Mutant: the caller leaves as soon as it finds no more items to draw.    *)
LeaveEarly(l) ==
  /\ loop[l].pc = "wait"
  /\ loop' = [loop EXCEPT ![l].pc = "returned"]
  /\ UNCHANGED <<helpQueue, helper, itemRuns>>

WaitDone(l) ==
  /\ loop[l].pc = "wait" /\ loop[l].done = Items[l]
  /\ loop' = [loop EXCEPT ![l].pc = "returned"]
  /\ UNCHANGED <<helpQueue, helper, itemRuns>>

ParallelExecutorNext ==
  \/ \E l \in Loops : \/ RunLoop(l) \/ EnsureThreads(l) \/ RunSerially(l)
                      \/ DrawByCaller(l) \/ ItemByCaller(l) \/ WaitDone(l)
  \/ \E h \in Helpers : \/ TakeJob(h) \/ DrawByHelper(h) \/ ItemByHelper(h)
                        \/ CountByHelper(h)

ParallelExecutorSpec == ParallelExecutorInit /\ [][ParallelExecutorNext]_execVars

(***************************************************************************)
(* The item function runs inside the call: once Run has returned, every    *)
(* item has been executed exactly once, and no helper that still holds the *)
(* job (or finds it in the queue later) is executing or will execute one,  *)
(* when the caller's frame is gone.                                        *)
(***************************************************************************)
ItemsRunInsideTheCall ==
  \A l \in Loops :
    loop[l].pc = "returned" =>
      /\ \A i \in DOMAIN itemRuns[l] : itemRuns[l][i] = 1
      /\ \A h \in Helpers : helper[h].job = l => helper[h].pc # "item"
=============================================================================
