------------------------------ MODULE RdmaServe ------------------------------
(***************************************************************************)
(* One RDMA connection between a client and RdmaServer::Serve: the RC       *)
(* channel with its receive queue and completion queue, the Serve thread    *)
(* with its io_uring (or synchronous) pipeline, the pull grants, the leased *)
(* PUT ranges and the multi-window PUTs the connection holds, and how all   *)
(* of that is torn down.  The client posts one window of requests at a time *)
(* and binds the replies by their order, as RdmaTransport does.             *)
(***************************************************************************)
EXTENDS Integers, Sequences, FiniteSets

LOCAL INSTANCE SequencesExt

CONSTANTS
    Depth,      \* K: receive slots, send slots and requests of one window
    Sessions    \* what a connection is used for: [ops, rounds, uring, gives]

VARIABLES
    session,    \* operations the client may still run on the connection
    cl,         \* the client's current operation
    wire,       \* requests posted by the client, not yet in a receive buffer
    rq,         \* receive slots armed for the next requests, oldest first
    cq,         \* completions the Serve thread has not polled
    nic,        \* replies posted, not yet delivered
    acking,     \* send slots whose reply is delivered and not acknowledged
    inbox,      \* replies delivered to the client
    srv,        \* the Serve thread
    disk        \* reads the kernel owns, and the ones it has finished

serveVars == <<session, cl, wire, rq, cq, nic, acking, inbox, srv, disk>>

KSlots == 1..Depth

NoRequest == [kind |-> "none", id |-> 0, slot |-> 0, leased |-> FALSE]

NotHeld == [busy |-> FALSE, lease |-> FALSE, mr |-> FALSE]

IdleClient == [op |-> "idle", todo |-> <<>>, want |-> <<>>,
               good |-> [i \in KSlots |-> 0], reading |-> FALSE]

RdmaServeInit ==
    /\ session \in Sessions
    /\ cl = IdleClient
    /\ wire = <<>> /\ cq = <<>> /\ nic = <<>> /\ acking = <<>> /\ inbox = <<>>
    /\ rq = [i \in KSlots |-> i]
    /\ srv = [at |-> "poll", free |-> KSlots, pend |-> <<>>, queue |-> <<>>,
              fallbacks |-> FALSE, reclaim |-> FALSE,
              pull |-> [i \in KSlots |-> NotHeld],
              lput |-> [i \in KSlots |-> NotHeld],
              mput |-> {}, qp |-> TRUE]
    /\ disk = [owned |-> {}, done |-> {}]

-----------------------------------------------------------------------------
(* The client: RdmaTransport's use of one connection.                       *)

(* The windows an operation posts, one after the other. *)
Windows(op) ==
    CASE op = "ExistMany"  -> <<"ask">>
      [] op = "CacheMany"  -> <<"write">>
      [] op = "LeasedMany" -> <<"lease", "write">>
      [] op = "CacheMulti" -> <<"first", "last">>
      [] op = "LeasedMulti" -> <<"lease", "first", "last">>
      [] op = "PullInto"   -> <<"pull", "read", "release">>

(* CacheFromMulti sends one object's windows one by one on the first slot. *)
Width(op) == IF op \in {"CacheMulti", "LeasedMulti"} THEN 1 ELSE Depth

IsLeased(op) == op \in {"LeasedMany", "LeasedMulti"}

(* The items of the operation that the window is about: after the first      *)
(* window of a leased PUT or a pull, those the server granted.               *)
WindowItems(c) ==
    { i \in 1..Width(c.op) :
        (Head(c.todo) \notin {"lease", "pull"}
            /\ (IsLeased(c.op) \/ c.op = "PullInto")) => c.good[i] # 0 }

Request(c, i) ==
    [kind |-> Head(c.todo), id |-> i, leased |-> IsLeased(c.op),
     slot |-> IF IsLeased(c.op) /\ c.good[i] # 0 THEN c.good[i] ELSE i]

BeginOperation(op) ==
    /\ cl.op = "idle" /\ session.rounds > 0 /\ op \in session.ops
    /\ cl' = [IdleClient EXCEPT !.op = op, !.todo = Windows(op)]
    /\ session' = [session EXCEPT !.rounds = @ - 1]
    /\ UNCHANGED <<wire, rq, cq, nic, acking, inbox, srv, disk>>

(* Posts a window: every request's receive and send, in item order. *)
PostWindow ==
    LET items == SetToSortSeq(WindowItems(cl), <) IN
    /\ cl.op \notin {"idle", "gone"} /\ cl.want = <<>> /\ cl.todo # <<>>
    /\ Head(cl.todo) # "read" /\ items # <<>>
    /\ wire' = wire \o [n \in DOMAIN items |-> Request(cl, items[n])]
    /\ cl' = [cl EXCEPT !.want = items, !.todo = Tail(@)]
    /\ UNCHANGED <<session, rq, cq, nic, acking, inbox, srv, disk>>

(* The client READs what the grants name; the server takes no part. *)
StartRead ==
    /\ cl.want = <<>> /\ cl.todo # <<>> /\ Head(cl.todo) = "read" /\ ~cl.reading
    /\ cl' = [cl EXCEPT !.reading = \E i \in KSlots : cl.good[i] # 0,
                        !.todo = IF \E i \in KSlots : cl.good[i] # 0
                                 THEN @ ELSE <<>>]
    /\ UNCHANGED <<session, wire, rq, cq, nic, acking, inbox, srv, disk>>

EndRead ==
    /\ cl.reading
    /\ cl' = [cl EXCEPT !.reading = FALSE, !.todo = Tail(@)]
    /\ UNCHANGED <<session, wire, rq, cq, nic, acking, inbox, srv, disk>>

(* One reply: the grant of a reserved range or of a readable slot is kept. A *)
(* window of a multi-window PUT that fails ends the operation.               *)
ReapReply ==
    LET reply == Head(inbox) IN
    /\ cl.op \notin {"idle", "gone"} /\ cl.want # <<>> /\ inbox # <<>>
    /\ inbox' = Tail(inbox)
    /\ cl' = [cl EXCEPT !.want = Tail(@),
                        !.good = IF reply.slot # 0
                                 THEN [@ EXCEPT ![Head(cl.want)] = reply.slot]
                                 ELSE @]
    /\ UNCHANGED <<session, wire, rq, cq, nic, acking, srv, disk>>

(* The operation is over when no window is left, or none of its items was    *)
(* granted a range. *)
EndOperation ==
    /\ cl.op \notin {"idle", "gone"} /\ cl.want = <<>> /\ ~cl.reading
    /\ cl.todo # <<>> => Head(cl.todo) # "read" /\ WindowItems(cl) = {}
    /\ cl' = IdleClient
    /\ UNCHANGED <<session, wire, rq, cq, nic, acking, inbox, srv, disk>>

(* A window's deadline passes (or the process ends): the client destroys the *)
(* connection, and every receive the server has armed completes in error.    *)
ClientGone ==
    /\ session.gives /\ cl.op # "gone" /\ srv.qp
    /\ cl' = [IdleClient EXCEPT !.op = "gone"]
    /\ wire' = <<>> /\ nic' = <<>> /\ inbox' = <<>> /\ acking' = <<>>
    /\ rq' = <<>>
    /\ cq' = Append(cq, [kind |-> "error", slot |-> 0, req |-> NoRequest])
    /\ UNCHANGED <<session, srv, disk>>

-----------------------------------------------------------------------------
(* The channel and the disk.                                                *)

(* A request lands in the oldest armed receive slot; with none armed the     *)
(* client's NIC retries. *)
DeliverRequest ==
    /\ wire # <<>> /\ rq # <<>> /\ srv.qp
    /\ cq' = Append(cq, [kind |-> "recv", slot |-> Head(rq), req |-> Head(wire)])
    /\ wire' = Tail(wire) /\ rq' = Tail(rq)
    /\ UNCHANGED <<session, cl, nic, acking, inbox, srv, disk>>

(* The reply is in the client's buffer before the server sees its SEND       *)
(* complete, so the next request may overtake that completion. *)
DeliverReply ==
    /\ nic # <<>>
    /\ inbox' = Append(inbox, Head(nic).reply)
    /\ acking' = Append(acking, Head(nic).send)
    /\ nic' = Tail(nic)
    /\ UNCHANGED <<session, cl, wire, rq, cq, srv, disk>>

CompleteSend ==
    /\ acking # <<>>
    /\ cq' = Append(cq, [kind |-> "send", slot |-> Head(acking), req |-> NoRequest])
    /\ acking' = Tail(acking)
    /\ UNCHANGED <<session, cl, wire, rq, nic, inbox, srv, disk>>

(* The kernel finishes its reads in any order. *)
FinishRead(s, ok) ==
    /\ s \in disk.owned
    /\ disk' = [owned |-> disk.owned \ {s}, done |-> disk.done \cup {<<s, ok>>}]
    /\ UNCHANGED <<session, cl, wire, rq, cq, nic, acking, inbox, srv>>

-----------------------------------------------------------------------------
(* The Serve thread.  Its operators map a record of the thread's state to    *)
(* the set of records it may become: a handler, a registration and a staging *)
(* allocation each succeed or fail.  at = "fail" is a handler that returned  *)
(* false, which drops the connection.                                        *)

Dropped(s) == [s EXCEPT !.at = "fail"]

(* The reply says whether it grants something, and where. *)
Reply(id, slot) == [id |-> id, slot |-> slot]

(* decode_request: what the connection's slot state allows the request to be.*)
(* A WRITE into a slot with an active lease must be that lease's object, and *)
(* without one it is read from the resident slot.                            *)
Decodes(s, r, req) ==
    CASE req.kind \in {"write", "first", "last"} ->
            /\ req.leased = s.lput[req.slot].busy
            /\ (req.kind = "last") = (req.slot \in s.mput)
      [] req.kind = "lease" -> ~s.lput[r].busy /\ r \notin s.mput
      [] req.kind = "ask" -> r \notin s.mput
      [] OTHER -> TRUE

(* The window state decode_request leaves. *)
Decoded(s, req) ==
    CASE req.kind = "first" -> [s EXCEPT !.mput = @ \cup {req.slot}]
      [] req.kind = "last"  -> [s EXCEPT !.mput = @ \ {req.slot}]
      [] OTHER -> s

(* release_lease_put: revoke the region, then return the range. *)
ReleaseLeasePut(s, d) == [s EXCEPT !.lput[d] = NotHeld]

(* release_pull: revoke, commit the read, return the range. *)
ReleasePull(s, d) == [s EXCEPT !.pull[d] = NotHeld]

(* try_pinned_pull: a RAM hit is registered in place, without staging. *)
TryPinnedPull(s, d) ==
    [s EXCEPT !.pull[d] = [busy |-> TRUE, lease |-> FALSE, mr |-> TRUE]]

(* publish_pull: register the bytes for the client's READ. *)
PublishPull(s, d) ==
    [s EXCEPT !.pull[d] = [busy |-> TRUE, lease |-> TRUE, mr |-> TRUE]]

(* build_reply: <<the thread's state, the slot the reply grants or 0>>. *)
PullRange(s, req) ==
    IF s.pull[req.slot].busy THEN {<<s, 0>>}                 \* kCacheFull
    ELSE { <<TryPinnedPull(s, req.slot), req.slot>>,
           <<PublishPull(s, req.slot), req.slot>>,
           <<s, 0>> }             \* no staging, a miss, a failed registration

PullRelease(s, req) ==
    IF s.pull[req.slot].busy /\ s.pull[req.slot].mr
    THEN {<<ReleasePull(s, req.slot), 0>>} ELSE {<<s, 0>>}

LeasePut(s, r) ==
    { <<[s EXCEPT !.lput[r] = [busy |-> TRUE, lease |-> TRUE, mr |-> TRUE]], r>>,
      <<s, 0>> }

CachePut(s, req) ==
    IF req.kind = "first" THEN {<<s, 0>>}                    \* window ack
    ELSE IF req.leased THEN {<<ReleaseLeasePut(s, req.slot), 0>>}
    ELSE {<<s, 0>>}

BuildReply(s, r, req) ==
    CASE req.kind = "pull"    -> PullRange(s, req)
      [] req.kind = "release" -> PullRelease(s, req)
      [] req.kind = "lease"   -> LeasePut(s, r)
      [] req.kind = "ask"     -> {<<s, 0>>}
      [] OTHER                -> CachePut(s, req)

Entry(send, r, req, state, ready, slot) ==
    [send |-> send, recv |-> r, req |-> req, disk |-> state, ready |-> ready,
     reply |-> Reply(req.id, slot)]

Enqueued(s, e) == [s EXCEPT !.queue = Append(@, e), !.free = @ \ {e.send}]

WaitingForDisk(s) ==
    \E n \in DOMAIN s.queue : s.queue[n].disk \in {"waiting", "inflight"}

(* process_wc's nonblocking pull: pinned, read from disk, answered at once,  *)
(* or (a coalescer follower, no staging) left to the synchronous path, which *)
(* waits until no disk read of this thread is outstanding. *)
AsyncPull(s, send, r, req) ==
    LET d == req.slot
        reserved == [s EXCEPT !.pull[d] = [busy |-> TRUE, lease |-> TRUE,
                                           mr |-> FALSE]] IN
    { Enqueued(reserved, Entry(send, r, req, "waiting", FALSE, 0)) }
    \cup { Enqueued(o[1], Entry(send, r, req, "none", TRUE, o[2])) :
             o \in PullRange(s, req) }
    \cup IF WaitingForDisk(s)
         THEN { [Enqueued(s, Entry(send, r, req, "sync", FALSE, 0))
                    EXCEPT !.fallbacks = TRUE] }
         ELSE {}

ProcessRequest(s, r, req) ==
    IF ~Decodes(s, r, req) \/ s.free = {} THEN {Dropped(s)}
    ELSE LET t == Decoded(s, req)
             send == CHOOSE f \in s.free : TRUE IN
         IF req.kind = "pull" /\ session.uring /\ ~t.pull[req.slot].busy
         THEN AsyncPull(t, send, r, req)
         ELSE { Enqueued(o[1], Entry(send, r, req, "none", TRUE, o[2])) :
                  o \in BuildReply(t, r, req) }

(* dispatch_completions for one completion.  A request that finds no send    *)
(* buffer free waits in a FIFO of K entries; a SEND's completion frees one   *)
(* and lets the oldest waiting request in. *)
Dispatched(s, c) ==
    LET active == [s EXCEPT !.reclaim = FALSE] IN
    CASE c.kind = "error" -> {Dropped(active)}
      [] c.kind = "send" ->
            LET freed == [active EXCEPT !.free = @ \cup {c.slot}] IN
            IF s.pend = <<>> THEN {freed}
            ELSE ProcessRequest([freed EXCEPT !.pend = Tail(@)],
                                Head(s.pend).slot, Head(s.pend).req)
      [] c.kind = "recv" ->
            IF s.pend # <<>> \/ s.free = {}
            THEN IF Len(s.pend) = Depth THEN {Dropped(active)}
                 ELSE {[active EXCEPT !.pend = Append(@, c)]}
            ELSE ProcessRequest(active, c.slot, c.req)

HoldsGrants(s) ==
    (\E d \in KSlots : s.pull[d].busy \/ s.lput[d].busy) \/ s.mput # {}

\* Mutant: a connection that holds grants counts as idle.
ReclaimableWhileHolding(s) ==
    s.pend = <<>> /\ s.free = KSlots /\ s.queue = <<>>

(* A connection may be evicted under memory pressure once nothing of it is   *)
(* in progress: no request, reply, disk read, grant or unfinished PUT. *)
Reclaimable(s) ==
    s.pend = <<>> /\ s.free = KSlots /\ s.queue = <<>> /\ ~HoldsGrants(s)

Poll ==
    /\ srv.at = "poll" /\ cq # <<>>
    /\ \E s \in Dispatched(srv, Head(cq)) :
          srv' = IF s.at # "fail" /\ Reclaimable(s)
                 THEN [s EXCEPT !.reclaim = TRUE] ELSE s
    /\ cq' = Tail(cq)
    /\ UNCHANGED <<session, cl, wire, rq, nic, acking, inbox, disk>>

(* submit_waiting hands every waiting read to the kernel. *)
Submit ==
    LET waiting == { n \in DOMAIN srv.queue : srv.queue[n].disk = "waiting" } IN
    /\ srv.at = "poll" /\ srv.queue # <<>>
    /\ srv' = [srv EXCEPT !.at = "reap",
                 !.queue = [n \in DOMAIN @ |->
                    IF n \in waiting THEN [@[n] EXCEPT !.disk = "inflight"]
                    ELSE @[n]]]
    /\ disk' = [disk EXCEPT !.owned = @ \cup { srv.queue[n].send : n \in waiting }]
    /\ UNCHANGED <<session, cl, wire, rq, cq, nic, acking, inbox>>

(* finish_disk_read: the read's own entry becomes ready; its slot is         *)
(* published for the client, or released when the read failed or the         *)
(* registration did. *)
FinishDiskRead(s, n, ok) ==
    LET e == s.queue[n]
        t == IF ok THEN PublishPull(s, e.req.slot) ELSE ReleasePull(s, e.req.slot) IN
    [t EXCEPT !.queue[n] =
        [e EXCEPT !.disk = "complete", !.ready = TRUE,
                  !.reply = Reply(e.req.id, IF ok THEN e.req.slot ELSE 0)]]

(* reap_event: the completion's token names its entry. *)
ReapDisk ==
    /\ srv.at = "reap" /\ disk.done # {}
    /\ \E c \in disk.done, registered \in BOOLEAN :
         LET n == CHOOSE m \in DOMAIN srv.queue :
                     srv.queue[m].disk = "inflight" /\ srv.queue[m].send = c[1] IN
         /\ srv' = FinishDiskRead(srv, n, c[2] /\ registered)
         /\ disk' = [disk EXCEPT !.done = @ \ {c}]
    /\ UNCHANGED <<session, cl, wire, rq, cq, nic, acking, inbox>>

(* finish_sync_waiting: the deferred pulls run once no disk read of this     *)
(* thread is left.  One of them at a time; the thread serves nothing between.*)
SyncEntries(s) == { n \in DOMAIN s.queue : s.queue[n].disk = "sync" }

AnswerSync(s) ==
    LET n == CHOOSE m \in SyncEntries(s) : \A k \in SyncEntries(s) : m <= k
        e == s.queue[n] IN
    { [o[1] EXCEPT !.queue[n] = Entry(e.send, e.recv, e.req, "complete", TRUE, o[2])] :
        o \in PullRange(s, e.req) }

\* Mutant: fallbacks are forgotten while disk reads are outstanding.
ForgetsFallbacks(s) ==
    IF WaitingForDisk(s) \/ ~s.fallbacks \/ SyncEntries(s) = {}
    THEN {[s EXCEPT !.fallbacks = FALSE, !.at = "emit"]}
    ELSE AnswerSync(s)

FinishSyncWaiting(s) ==
    IF WaitingForDisk(s) \/ ~s.fallbacks THEN {[s EXCEPT !.at = "emit"]}
    ELSE IF SyncEntries(s) = {}
    THEN {[s EXCEPT !.fallbacks = FALSE, !.at = "emit"]}
    ELSE AnswerSync(s)

SyncWaiting ==
    /\ srv.at = "reap"
    /\ srv' \in FinishSyncWaiting(srv)
    /\ UNCHANGED <<session, cl, wire, rq, cq, nic, acking, inbox, disk>>

(* emit_ready sends the ready prefix of the queue: the client binds replies  *)
(* by their order. *)
Emittable(s) ==
    { n \in DOMAIN s.queue : n = 1 /\ s.queue[n].ready }

(* Re-arm the request's receive slot, then post its reply. *)
Emit ==
    /\ srv.at = "emit"
    /\ \E n \in Emittable(srv) :
         LET e == srv.queue[n] IN
         /\ rq' = IF cl.op = "gone" THEN rq ELSE Append(rq, e.recv)
         /\ nic' = IF cl.op = "gone" THEN nic
                   ELSE Append(nic, [send |-> e.send, reply |-> e.reply])
         /\ srv' = [srv EXCEPT !.queue = RemoveAt(@, n)]
    /\ UNCHANGED <<session, cl, wire, cq, acking, inbox, disk>>

EndEmit ==
    /\ srv.at = "emit" /\ Emittable(srv) = {}
    /\ srv' = [srv EXCEPT !.at = "poll"]
    /\ UNCHANGED <<session, cl, wire, rq, cq, nic, acking, inbox, disk>>

(* Stop, or the eviction of a reclaimable connection under memory pressure,  *)
(* wakes the thread; an idle connection ends by itself.  Eviction chooses    *)
(* only connections whose flag is set (AllocateReceiveWithPressure). *)
Wake ==
    /\ session.gives /\ srv.at = "poll" /\ srv.queue = <<>>
    /\ srv.reclaim
    /\ srv' = [srv EXCEPT !.at = "fail"]
    /\ UNCHANGED <<session, cl, wire, rq, cq, nic, acking, inbox, disk>>

(* Leaving the loop: drain the ring while the queue and the endpoint live ... *)
DrainedRing(s) == s.at = "fail" /\ disk.owned = {}

Drain ==
    /\ DrainedRing(srv)
    /\ srv' = [srv EXCEPT !.at = "unwind", !.queue = <<>>, !.pend = <<>>,
                          !.reclaim = FALSE]
    /\ UNCHANGED <<session, cl, wire, rq, cq, nic, acking, inbox, disk>>

(* ... then the endpoint is destroyed, which fences the peer and revokes the *)
(* regions ...  *)
DestroyEndpoint ==
    /\ srv.at = "unwind" /\ srv.qp
    /\ srv' = [srv EXCEPT !.qp = FALSE,
                 !.pull = [d \in KSlots |-> [@[d] EXCEPT !.mr = FALSE]],
                 !.lput = [d \in KSlots |-> [@[d] EXCEPT !.mr = FALSE]]]
    /\ cl' = [IdleClient EXCEPT !.op = "gone"]
    /\ wire' = <<>> /\ rq' = <<>> /\ cq' = <<>> /\ nic' = <<>>
    /\ acking' = <<>> /\ inbox' = <<>>
    /\ UNCHANGED <<session, disk>>

(* ... and the ranges go back to the pool when their owners unwind. *)
ReturnRanges ==
    /\ srv.at = "unwind" /\ ~srv.qp
    /\ srv' = [srv EXCEPT !.at = "ended",
                 !.pull = [d \in KSlots |-> NotHeld],
                 !.lput = [d \in KSlots |-> NotHeld]]
    /\ UNCHANGED <<session, cl, wire, rq, cq, nic, acking, inbox, disk>>

RdmaServeNext ==
    \/ \E op \in session.ops : BeginOperation(op)
    \/ PostWindow \/ StartRead \/ EndRead \/ ReapReply \/ EndOperation
    \/ ClientGone
    \/ DeliverRequest \/ DeliverReply \/ CompleteSend
    \/ \E s \in KSlots, ok \in BOOLEAN : FinishRead(s, ok)
    \/ Poll \/ Submit \/ ReapDisk \/ SyncWaiting \/ Emit \/ EndEmit
    \/ Wake \/ Drain \/ DestroyEndpoint \/ ReturnRanges

(* The Serve loop never stops running, the kernel finishes what it accepted, *)
(* the channel is reliable, and the client reaps. *)
RdmaServeFairness ==
    /\ WF_serveVars(Poll) /\ WF_serveVars(Submit \/ SyncWaiting)
    /\ SF_serveVars(ReapDisk) /\ WF_serveVars(Emit \/ EndEmit)
    /\ WF_serveVars(DeliverRequest) /\ WF_serveVars(DeliverReply)
    /\ WF_serveVars(CompleteSend)
    /\ WF_serveVars(\E s \in KSlots, ok \in BOOLEAN : FinishRead(s, ok))
    /\ WF_serveVars(PostWindow \/ StartRead \/ EndRead \/ ReapReply \/ EndOperation)
    /\ WF_serveVars(Drain \/ DestroyEndpoint \/ ReturnRanges)

RdmaServeSpec == RdmaServeInit /\ [][RdmaServeNext]_serveVars /\ RdmaServeFairness

-----------------------------------------------------------------------------
(* A client that keeps to one window of at most K requests is served: the    *)
(* replies come in the order of the requests although disk reads finish in   *)
(* any order (rdma_server.cc emit_ready), and no request ever finds the      *)
(* connection in a state that makes Serve drop it: a full FIFO, a receive    *)
(* slot whose lease or multi-window PUT is still open, a WRITE into a slot   *)
(* leased to another object (decode_request). *)
WindowIsServed ==
    /\ inbox # <<>> /\ cl.want # <<>> => Head(inbox).id = Head(cl.want)
    /\ srv.at = "fail" => cl.op = "gone" \/ srv.reclaim

(* A connection marked reclaimable may be evicted at any moment               *)
(* (AllocateReceiveWithPressure): the client then has no one-sided transfer   *)
(* under way on it, neither a READ of a grant nor a WRITE into a leased range *)
(* nor the rest of a multi-window PUT. *)
ReclaimableIsQuiet ==
    srv.reclaim =>
        /\ ~cl.reading
        /\ \A n \in DOMAIN wire : wire[n].kind # "last"
              /\ ~(wire[n].leased /\ wire[n].kind \in {"write", "first"})

(* A staging range is back in the pool, where another connection may get it, *)
(* only when neither the kernel nor the peer can still touch it: whatever    *)
(* ends the connection, the ring is drained and the endpoint destroyed first *)
(* (rdma_server.cc Serve, teardown; the owners are declared before ep). *)
StagingIsFenced ==
    /\ srv.at = "ended" => disk.owned = {} /\ ~srv.qp
    /\ \A n \in DOMAIN srv.queue : srv.queue[n].disk = "inflight" =>
          srv.pull[srv.queue[n].req.slot].lease

(* Every window is answered, a pull that was put off to the synchronous path *)
(* included, unless the connection ends (rdma_server.cc finish_sync_waiting).*)
WindowsAreAnswered == (cl.want # <<>>) ~> (cl.want = <<>>)

(***************************************************************************)
(* The connection keeps its promises to the peer and to the pool: windows  *)
(* are served in order, and memory is handed on (a connection open to      *)
(* eviction, a staging range back in the pool) only when its transfers are *)
(* over.                                                                   *)
(***************************************************************************)
ConnectionIsSafe == WindowIsServed /\ ReclaimableIsQuiet /\ StagingIsFenced
=============================================================================
