----------------------------- MODULE RdmaServer -----------------------------
(***************************************************************************)
(* The connections of an RdmaServer: the accept loop, the bootstrap of a    *)
(* Serve thread, the receive memory every connection leases from one pool,  *)
(* the eviction of an idle connection when that pool is exhausted, and Stop.*)
(* What a connection does while it serves is module RdmaServe; here it only *)
(* turns busy and quiet, and asks for staging memory.  The idle timeout is  *)
(* switched off (DFKV_RDMA_IDLE_MS=0): a thread waits until it is woken.    *)
(***************************************************************************)
EXTENDS Integers, FiniteSets

CONSTANTS
    SConns,         \* connections that may be accepted
    PoolUnits,      \* receive memory, in resident leases
    MaxRequests     \* busy periods over all connections

ASSUME RdmaServerAssumption ==
    IsFiniteSet(SConns) /\ PoolUnits \in Nat /\ MaxRequests \in Nat

VARIABLES
    running,        \* running_
    acceptor,       \* the accept loop's thread
    stopper,        \* the thread that calls Stop
    conns,          \* conns_: threads not joined yet
    serve,          \* per connection: the Serve thread
    liveEps,        \* live_eps_
    poolFree,
    requests

serverVars ==
    <<running, acceptor, stopper, conns, serve, liveEps, poolFree, requests>>

NoThread == [at |-> "none", lease |-> 0, reclaim |-> FALSE, woken |-> FALSE]

RdmaServerInit ==
    /\ running = TRUE /\ acceptor = "accept" /\ stopper = "none"
    /\ conns = {} /\ liveEps = {}
    /\ serve = [c \in SConns |-> NoThread]
    /\ poolFree = PoolUnits /\ requests = 0

Goto(c, at) == serve' = [serve EXCEPT ![c].at = at]

\* Mutant: threads that still serve are reaped.
ReapsTheBusy(S) == { c \in S : serve[c].at \notin {"done", "busy"} }

(* ReapDoneLocked joins the threads that have finished. *)
ReapDoneLocked(S) == { c \in S : serve[c].at # "done" }

(* AcceptLoop, with conn_mu_ held once accept has returned. *)
AcceptConn(c) ==
    /\ acceptor = "accept" /\ serve[c].at = "none"
    /\ IF running
       THEN /\ conns' = ReapDoneLocked(conns) \cup {c}
            /\ serve' = [d \in SConns |->
                 IF d = c THEN [NoThread EXCEPT !.at = "boot"]
                 ELSE IF serve[d].at = "done" /\ d \in conns
                 THEN [serve[d] EXCEPT !.at = "joined"] ELSE serve[d]]
            /\ UNCHANGED acceptor
       ELSE acceptor' = "exited" /\ UNCHANGED <<conns, serve>>
    /\ UNCHANGED <<running, stopper, liveEps, poolFree, requests>>

(* Stop's shutdown of the listener makes accept fail. *)
AcceptFails ==
    /\ acceptor = "accept" /\ ~running
    /\ acceptor' = "exited"
    /\ UNCHANGED <<running, stopper, conns, serve, liveEps, poolFree, requests>>

(* The device frame, a probe, a retirement, the QP geometry: the connection  *)
(* is refused or goes on to lease its receive slots.  Every read of it is    *)
(* bounded by the socket's timeout. *)
Bootstrap(c) ==
    /\ serve[c].at = "boot"
    /\ \/ Goto(c, "lease") \/ Goto(c, "done")
    /\ UNCHANGED <<running, acceptor, stopper, conns, liveEps, poolFree, requests>>

(* RecvSegmentPool::Allocate, of the resident slots or of one staging range. *)
TakeLease(c, at) ==
    /\ poolFree > 0
    /\ poolFree' = poolFree - 1
    /\ serve' = [serve EXCEPT ![c].at = at, ![c].lease = @ + 1]

AllocateReceive(c) ==
    /\ serve[c].at \in {"lease", "stage", "leaseWait", "stageWait"}
    /\ TakeLease(c, IF serve[c].at \in {"lease", "leaseWait"} THEN "open" ELSE "busy")
    /\ UNCHANGED <<running, acceptor, stopper, conns, liveEps, requests>>

(* "claim before Wake so concurrent scans skip it" *)
Claimed(v) == [serve[v] EXCEPT !.woken = TRUE]

(* AllocateReceiveWithPressure: claim a reclaimable connection and wake it,  *)
(* then try again until its time is up; with no such connection, or no time, *)
(* the allocation fails. *)
EvictUnderPressure(c) ==
    /\ serve[c].at \in {"lease", "stage", "leaseWait", "stageWait"} /\ poolFree = 0
    /\ \E v \in liveEps :
         /\ serve[v].reclaim
         /\ liveEps' = liveEps \ {v}
         /\ serve' = [serve EXCEPT ![v] = Claimed(v),
               ![c].at = IF @ \in {"lease", "leaseWait"} THEN "leaseWait" ELSE "stageWait"]
    /\ UNCHANGED <<running, acceptor, stopper, conns, poolFree, requests>>

AllocateFails(c) ==
    /\ serve[c].at \in {"lease", "stage", "leaseWait", "stageWait"} /\ poolFree = 0
    /\ serve[c].at \in {"lease", "stage"} =>
          \A v \in liveEps : ~serve[v].reclaim
    /\ Goto(c, IF serve[c].at \in {"lease", "leaseWait"} THEN "done" ELSE "busy")
    /\ UNCHANGED <<running, acceptor, stopper, conns, liveEps, poolFree, requests>>

(* Open the endpoint, exchange QP data, arm the receives, tell the client.   *)
OpenEndpoint(c) ==
    /\ serve[c].at = "open"
    /\ \/ Goto(c, "register") \/ Goto(c, "unwind")
    /\ UNCHANGED <<running, acceptor, stopper, conns, liveEps, poolFree, requests>>

(* "either Stop sees us in live_eps_ (and wakes us) or we see                *)
(* running_==false here": both under conn_mu_. *)
RegisterServe(c) ==
    /\ serve[c].at = "register"
    /\ IF running THEN liveEps' = liveEps \cup {c} /\ Goto(c, "busy")
       ELSE Goto(c, "unwind") /\ UNCHANGED liveEps
    /\ UNCHANGED <<running, acceptor, stopper, conns, poolFree, requests>>

(* The serve loop: a completion makes the connection busy ... *)
Complete(c) ==
    /\ serve[c].at = "wait" /\ ~serve[c].woken /\ requests < MaxRequests
    /\ serve' = [serve EXCEPT ![c].at = "busy", ![c].reclaim = FALSE]
    /\ requests' = requests + 1
    /\ UNCHANGED <<running, acceptor, stopper, conns, liveEps, poolFree>>

(* ... a request may need staging memory ... *)
NeedStaging(c) ==
    /\ serve[c].at = "busy" /\ serve[c].lease = 1 /\ requests < MaxRequests
    /\ Goto(c, "stage") /\ requests' = requests + 1
    /\ UNCHANGED <<running, acceptor, stopper, conns, liveEps, poolFree>>

(* ... which is returned once the request is over; then the thread waits for *)
(* the next completion, quiet unless nothing has been served yet ... *)
WaitComp(c) ==
    /\ serve[c].at = "busy" /\ running
    /\ \E quiet \in BOOLEAN :
         serve' = [serve EXCEPT ![c].at = "wait", ![c].reclaim = quiet, ![c].lease = 1]
    /\ poolFree' = poolFree + serve[c].lease - 1
    /\ UNCHANGED <<running, acceptor, stopper, conns, liveEps, requests>>

(* ... and leaves the loop when it is woken, when running_ is clear between  *)
(* two waits, or when the peer is gone. *)
LeaveLoop(c) ==
    /\ \/ serve[c].at = "wait" /\ serve[c].woken
       \/ serve[c].at = "busy" /\ ~running
       \/ serve[c].at = "wait" /\ requests < MaxRequests
    /\ requests' = IF serve[c].at = "wait" /\ ~serve[c].woken
                   THEN requests + 1 ELSE requests
    /\ Goto(c, "unwind")
    /\ UNCHANGED <<running, acceptor, stopper, conns, liveEps, poolFree>>

(* Erase from live_eps_, destroy the endpoint, return the leases. *)
Unwind(c) ==
    /\ serve[c].at = "unwind"
    /\ liveEps' = liveEps \ {c}
    /\ poolFree' = poolFree + serve[c].lease
    /\ serve' = [serve EXCEPT ![c] = [NoThread EXCEPT !.at = "done"]]
    /\ UNCHANGED <<running, acceptor, stopper, conns, requests>>

(* Stop: clear running_ and join the acceptor; wake every live endpoint and  *)
(* take the threads, under conn_mu_; join them. *)
StopBegins ==
    /\ stopper = "none" /\ stopper' = "accept"
    /\ running' = FALSE
    /\ UNCHANGED <<acceptor, conns, serve, liveEps, poolFree, requests>>

StopWakes ==
    /\ stopper = "accept" /\ acceptor = "exited" /\ stopper' = "join"
    /\ serve' = [c \in SConns |-> IF c \in liveEps
                 THEN [serve[c] EXCEPT !.woken = TRUE] ELSE serve[c]]
    /\ UNCHANGED <<running, acceptor, conns, liveEps, poolFree, requests>>

StopJoins ==
    /\ stopper = "join"
    /\ \A c \in conns : serve[c].at = "done"
    /\ stopper' = "stopped" /\ conns' = {}
    /\ serve' = [c \in SConns |-> IF c \in conns
                 THEN [serve[c] EXCEPT !.at = "joined"] ELSE serve[c]]
    /\ UNCHANGED <<running, acceptor, liveEps, poolFree, requests>>

ServeStep(c) ==
    \/ Bootstrap(c) \/ AllocateReceive(c) \/ AllocateFails(c) \/ OpenEndpoint(c)
    \/ RegisterServe(c) \/ WaitComp(c) \/ Unwind(c)

RdmaServerNext ==
    \/ \E c \in SConns :
         \/ AcceptConn(c) \/ ServeStep(c) \/ EvictUnderPressure(c)
         \/ Complete(c) \/ NeedStaging(c) \/ LeaveLoop(c)
    \/ AcceptFails \/ StopBegins \/ StopWakes \/ StopJoins

RdmaServerSpec == RdmaServerInit /\ [][RdmaServerNext]_serverVars

-----------------------------------------------------------------------------
(* "so no handler call can race the owner's destruction after Stop()          *)
(* returns": when Stop has returned, every Serve thread has been joined and   *)
(* all receive memory is back in the pool, whoever was being evicted or       *)
(* accepted meanwhile (rdma_server.cc Stop). *)
StopLeavesNothing ==
    stopper = "stopped" =>
        /\ \A c \in SConns : serve[c].at \in {"none", "joined"}
        /\ poolFree = PoolUnits /\ liveEps = {}

(* The thread of connection c has a step of its own to take: it is not asleep *)
(* in WaitComp, and a wait for memory ends when there is some, when its time   *)
(* is up, or when nobody can be evicted. *)
ThreadCanRun(c) ==
    \/ serve[c].at \in {"boot", "open", "register", "busy", "unwind", "leaseWait", "stageWait"}
    \/ serve[c].at \in {"lease", "stage"}
          /\ (poolFree > 0 \/ \A v \in liveEps : ~serve[v].reclaim)
    \/ serve[c].at = "wait" /\ serve[c].woken

(* Stop returns: while it is under way, some thread can run (the acceptor,    *)
(* whose listener is shut down, Stop itself or a Serve thread).  No Serve      *)
(* thread can be left asleep in WaitComp, neither one that registers while    *)
(* Stop runs nor one an allocation has already claimed and removed from       *)
(* live_eps_ (rdma_server.cc Serve, Stop). *)
StopReturns ==
    stopper \notin {"none", "stopped"} =>
        \/ acceptor = "accept" /\ ~running
        \/ stopper = "accept" /\ acceptor = "exited"
        \/ stopper = "join" /\ \A c \in conns : serve[c].at = "done"
        \/ \E c \in SConns : ThreadCanRun(c)

(* RdmaServer::Stop returns, and leaves neither a thread nor receive memory    *)
(* behind. *)
StopDrains == StopLeavesNothing /\ StopReturns
=============================================================================
