---------------------------- MODULE PernodeSink -----------------------------
(***************************************************************************)
(* The writer of the client's per-node log lines (class PernodeSink in     *)
(* kv_client.cc): callers enqueue without blocking and drop when the queue *)
(* is full; one thread writes, and reports the drops with the next batch.  *)
(* A batch is a number of bytes; a file is its current length.             *)
(***************************************************************************)
EXTENDS Integers, Sequences

CONSTANTS Capacity,      \* capacity_
          RotateBytes,   \* rotate_bytes_
          BatchBytes,    \* the sizes of batches, one line each
          MaxEnqueues

ASSUME PernodeSinkAssumption ==
  /\ Capacity \in Nat /\ RotateBytes \in Nat /\ MaxEnqueues \in Nat
  /\ BatchBytes \subseteq Nat

VARIABLES sinkQueue, droppedPending, droppedTotal,
          writing,       \* the batch the thread writes, with dropped_before
          flushRequested, stopping, drainers,
          fileBytes, enqueues,
          reported,      \* history: drops the file or log has been told of
          sinkDone       \* the thread has ended

sinkVars == <<sinkQueue, droppedPending, droppedTotal, writing, flushRequested,
              stopping, drainers, fileBytes, enqueues, reported, sinkDone>>

NotWriting == [what |-> "nothing", bytes |-> 0, before |-> 0]

PernodeSinkInit ==
  /\ sinkQueue = <<>> /\ droppedPending = 0 /\ droppedTotal = 0
  /\ writing = NotWriting /\ flushRequested = FALSE /\ stopping = FALSE /\ drainers = 0
  /\ fileBytes = 0 /\ enqueues = 0 /\ reported = 0 /\ sinkDone = FALSE

Enqueue(b) ==
  /\ enqueues < MaxEnqueues /\ ~stopping /\ enqueues' = enqueues + 1
  /\ IF Len(sinkQueue) >= Capacity
     THEN /\ droppedTotal' = droppedTotal + 1 /\ droppedPending' = droppedPending + 1
          /\ UNCHANGED sinkQueue
     ELSE sinkQueue' = Append(sinkQueue, b) /\ UNCHANGED <<droppedTotal, droppedPending>>
  /\ UNCHANGED <<writing, flushRequested, stopping, drainers, fileBytes, reported, sinkDone>>

Drain ==
  /\ ~stopping /\ drainers = 0
  /\ flushRequested' = TRUE /\ drainers' = 1
  /\ UNCHANGED <<sinkQueue, droppedPending, droppedTotal, writing, stopping, fileBytes,
                 enqueues, reported, sinkDone>>

Drained ==
  /\ drainers = 1 /\ sinkQueue = <<>> /\ writing = NotWriting /\ ~flushRequested
  /\ drainers' = 0
  /\ UNCHANGED <<sinkQueue, droppedPending, droppedTotal, writing, flushRequested, stopping,
                 fileBytes, enqueues, reported, sinkDone>>

\* The destructor, when no caller is left.
StopSink ==
  /\ ~stopping /\ drainers = 0 /\ stopping' = TRUE
  /\ UNCHANGED <<sinkQueue, droppedPending, droppedTotal, writing, flushRequested, drainers,
                 fileBytes, enqueues, reported, sinkDone>>

(***************************************************************************)
(* Run: take a batch, a flush, or the end; write without the lock; then    *)
(* settle the account of the drops that were reported.                     *)
(***************************************************************************)
TakeBatch ==
  /\ ~sinkDone /\ writing = NotWriting /\ sinkQueue # <<>>
  /\ writing' = [what |-> "batch", bytes |-> Head(sinkQueue), before |-> droppedPending]
  /\ sinkQueue' = Tail(sinkQueue)
  /\ UNCHANGED <<droppedPending, droppedTotal, flushRequested, stopping, drainers, fileBytes,
                 enqueues, reported, sinkDone>>

TakeFlush ==
  /\ ~sinkDone /\ writing = NotWriting /\ sinkQueue = <<>> /\ flushRequested
  /\ writing' = [NotWriting EXCEPT !.what = "flush"]
  /\ UNCHANGED <<sinkQueue, droppedPending, droppedTotal, flushRequested, stopping, drainers,
                 fileBytes, enqueues, reported, sinkDone>>

EndSink ==
  /\ ~sinkDone /\ writing = NotWriting /\ sinkQueue = <<>> /\ ~flushRequested /\ stopping
  /\ sinkDone' = TRUE
  /\ UNCHANGED <<sinkQueue, droppedPending, droppedTotal, writing, flushRequested, stopping,
                 drainers, fileBytes, enqueues, reported>>

\* write_line: an oversized line is cut to the limit, a line that does not
\* fit starts a new file (Rotate).
Shortened(b) == IF b > RotateBytes THEN RotateBytes ELSE b
After(len, b) ==
  IF len > 0 /\ (len >= RotateBytes \/ Shortened(b) > RotateBytes - len)
  THEN Shortened(b) ELSE len + Shortened(b)

WriteBatch ==
  /\ writing.what = "batch"
  /\ fileBytes' = After(IF writing.before # 0 THEN After(fileBytes, 1) ELSE fileBytes, writing.bytes)
  /\ reported' = reported + writing.before
  /\ writing' = [writing EXCEPT !.what = "written"]
  /\ UNCHANGED <<sinkQueue, droppedPending, droppedTotal, flushRequested, stopping, drainers,
                 enqueues, sinkDone>>

(* Mutant: all pending drops are taken for reported once a batch is out.   *)
AccountForAll ==
  /\ writing.what = "written" /\ writing' = NotWriting
  /\ droppedPending' = 0
  /\ UNCHANGED <<sinkQueue, droppedTotal, flushRequested, stopping, drainers, fileBytes,
                 enqueues, reported, sinkDone>>

Account ==
  /\ writing.what = "written" /\ writing' = NotWriting
  /\ droppedPending' = droppedPending - writing.before
  /\ UNCHANGED <<sinkQueue, droppedTotal, flushRequested, stopping, drainers, fileBytes,
                 enqueues, reported, sinkDone>>

Flush ==
  /\ writing.what = "flush" /\ writing' = NotWriting /\ flushRequested' = FALSE
  /\ UNCHANGED <<sinkQueue, droppedPending, droppedTotal, stopping, drainers, fileBytes,
                 enqueues, reported, sinkDone>>

PernodeSinkNext ==
  \/ \E b \in BatchBytes : Enqueue(b)
  \/ Drain \/ Drained \/ StopSink
  \/ TakeBatch \/ TakeFlush \/ EndSink \/ WriteBatch \/ Account \/ Flush

PernodeSinkSpec == PernodeSinkInit /\ [][PernodeSinkNext]_sinkVars

(***************************************************************************)
(* The drop lines in the file and the drops still to be reported add up to *)
(* all drops, whatever is dropped while a batch is being written; and the  *)
(* file never outgrows its limit.                                          *)
(***************************************************************************)
DropsAreAccounted ==
  /\ reported + droppedPending = droppedTotal
       + (IF writing.what = "written" THEN writing.before ELSE 0)
  /\ fileBytes <= RotateBytes
=============================================================================
