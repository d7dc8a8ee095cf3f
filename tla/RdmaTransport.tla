--------------------------- MODULE RdmaTransport ---------------------------
(***************************************************************************)
(* The client side of the RDMA transport towards one node                  *)
(* (rdma_transport.cc) with the rail policy (rail_select.h), the remote    *)
(* rail health (remote_rail_health.cc) and the resource budget             *)
(* (rdma_resource_budget.h).  An operation captures the peer's topology,   *)
(* takes credits on a local rail, a lease on the remote rail, then a       *)
(* pooled connection or the budget for a new one, and gives all of them    *)
(* back on every path out.  Topology updates, keepalives, cooldowns and    *)
(* memory registrations interleave with it.                                *)
(*                                                                         *)
(* Abstracted: what is transferred is whether a step completes and who is  *)
(* blamed when it does not (ClassifyCompletion); time is the two cooldowns *)
(* ending; latency scores leave the choice among equal rails open; the     *)
(* four budgeted dimensions are one, the connection's depth.  Destroying a *)
(* connection, which its thread alone owns, is one step.                   *)
(***************************************************************************)
EXTENDS Integers, Sequences, FiniteSets, FiniteSetsExt, Functions

CONSTANTS Tiers,          \* sequence of disjoint sets of rails (positive integers), best first
          Preferred,      \* the rails of the caller's NUMA node
          RThreads, ConnIds,
          RailCredits, ErrorThreshold, FullDepth,
          PoolMax, DataPoolMax,
          Networks        \* bounds, one of which a behaviour keeps: fns, ops (calls),
                          \* limit, raised (the budget), faults, updates, keepalives

VARIABLES topo,           \* the published topology: [pub, healthy]; pub 0 = static peer
          lastPub, live,  \* live: the peer is among live_peer_ids_
          rail,           \* RailPolicy: [rails -> [inflight, errors, quar, probe]]
          remote,         \* RemoteRailHealth of the peer: [rails -> [failed, cool, probing]]
          lease,          \* [holders -> [rail, credits, kind]]: credits and remote lease
          conn,           \* live connections: id -> [pub, rail, lane, depth, at]
          used, limit,    \* ResourceBudget
          caps,           \* the publication peer_capabilities_ describes, 0 = none
          learned,        \* [lanes -> the depth new connections open at]
          rop,            \* [RThreads -> the operation in progress]
          keeper,         \* connections the keepalive thread still has to visit
          network, left   \* the bounds, and what is left of them

rdmaVars == <<topo, lastPub, live, rail, remote, lease, conn, used, limit, caps,
              learned, rop, keeper, network, left>>

Rails == UNION {Tiers[i] : i \in DOMAIN Tiers}
Keeper == "keeper"
Holders == RThreads \cup {Keeper}
NoLease == [rail |-> 0, credits |-> 0, kind |-> "none"]
IdleOp == [pc |-> "idle"]

RdmaTransportInit ==
  /\ network \in Networks
  /\ left = [ops |-> network.ops, faults |-> network.faults,
             updates |-> network.updates, keepalives |-> network.keepalives]
  /\ topo = [pub |-> 1, healthy |-> Rails] /\ lastPub = 1 /\ live = TRUE
  /\ rail = [r \in Rails |-> [inflight |-> 0, errors |-> 0, quar |-> "none", probe |-> FALSE]]
  /\ remote = [r \in Rails |-> [failed |-> FALSE, cool |-> FALSE, probing |-> FALSE]]
  /\ lease = [h \in Holders |-> NoLease] /\ conn = << >>
  /\ used = 0 /\ limit = network.limit /\ caps = 0
  /\ learned = [l \in {"data", "control"} |-> FullDepth]
  /\ rop = [t \in RThreads |-> IdleOp] /\ keeper = {}

(***************************************************************************)
(* What each call is made of: its lane, the credits it wants, whether it   *)
(* may be replayed, and its exchanges in order.  "post" and "send" put the *)
(* request itself on the wire; "reserve" (a leased PUT) and "pull" (a      *)
(* granted READ) commit nothing.                                           *)
(***************************************************************************)
OneCache == [lane |-> "data", want |-> 1, safe |-> FALSE, tries |-> 2, plan |-> <<"post">>]
OneRemove == [lane |-> "control", want |-> 1, safe |-> TRUE, tries |-> 2, plan |-> <<"send">>]
CacheMany == [lane |-> "data", want |-> 2, safe |-> FALSE, tries |-> 2,
              plan |-> <<"post", "reserve", "post">>]
CacheFromMulti == [lane |-> "data", want |-> 1, safe |-> FALSE, tries |-> 2,
                   plan |-> <<"reserve", "post">>]
RangeMany == [lane |-> "data", want |-> 2, safe |-> TRUE, tries |-> 2, plan |-> <<"pull">>]
PullInto == [lane |-> "data", want |-> 1, safe |-> TRUE, tries |-> 1, plan |-> <<"pull">>]
ExistMany == [lane |-> "control", want |-> 2, safe |-> TRUE, tries |-> 2, plan |-> <<"ask">>]

Call(fn) ==
  CASE fn = "Cache"          -> OneCache
    [] fn = "CacheMany"      -> CacheMany
    [] fn = "CacheFromMulti" -> CacheFromMulti
    [] fn = "RangeMany"      -> RangeMany
    [] fn = "PullInto"       -> PullInto
    [] fn = "ExistMany"      -> ExistMany
    [] fn = "Remove"         -> OneRemove

Lane(t) == Call(rop[t].fn).lane
Idle(c) == conn[c].at = "idle"
IsCurrent(pub) == pub = topo.pub
Depths(C) == MapThenSumSet(LAMBDA c : conn[c].depth, C)
Go(t, pc) == rop' = [rop EXCEPT ![t].pc = pc]

(***************************************************************************)
(* RailPolicy.  A rail whose quarantine has expired admits one lease, the  *)
(* probe, and only while nothing else is in flight on it.                  *)
(***************************************************************************)
IsProbe(r) == rail[r].probe \/ rail[r].quar = "expired"

RailAdmits(r, want, excl) ==
  /\ r \notin excl /\ rail[r].quar # "cooling"
  /\ IsProbe(r) => rail[r].inflight = 0
  /\ rail[r].inflight + want <= RailCredits

\* TryAcquireLocked: probes first, then by score.
Selected(mask, want, excl) ==
  LET able == {r \in mask : RailAdmits(r, want, excl)}
      probes == {r \in able : IsProbe(r)}
  IN IF probes # {} THEN probes ELSE able

Granted(r, want) ==
  [rail EXCEPT ![r].inflight = @ + want, ![r].probe = IsProbe(r)]

\* Complete: only a local failure counts against the rail.
Completed(s, credits, completion) ==
  LET back == [s EXCEPT !.inflight = @ - credits]
      errors == IF s.errors < ErrorThreshold THEN s.errors + 1 ELSE s.errors
  IN CASE completion = "success" ->
            [back EXCEPT !.errors = 0, !.probe = FALSE,
                         !.quar = IF s.probe THEN "none" ELSE @]
       [] completion \in {"admission", "endpoint"} -> [back EXCEPT !.probe = FALSE]
       [] completion = "rail" ->
            IF s.probe \/ errors >= ErrorThreshold
            THEN [back EXCEPT !.errors = errors, !.quar = "cooling", !.probe = FALSE]
            ELSE [back EXCEPT !.errors = errors]

(***************************************************************************)
(* RemoteRailHealth.  A lease is normal, a probe (granted while the rail   *)
(* has failures), stale (granted before the last recovery) or gone (its    *)
(* peer was reconciled away).                                              *)
(***************************************************************************)
Unavailable(r) == remote[r].failed /\ (remote[r].cool \/ remote[r].probing)
AllowedMask(pub, mask) == IF pub = 0 THEN mask ELSE {r \in mask : ~Unavailable(r)}
RemoteDenies(r) == ~live \/ Unavailable(r)
RemoteKind(r) == IF remote[r].failed THEN "probe" ELSE "normal"
RemoteGranted(r) == [remote EXCEPT ![r].probing = @ \/ remote[r].failed]

Ended(s, kind, outcome) ==
  LET rest == [s EXCEPT !.probing = @ /\ kind # "probe"]
  IN CASE outcome = "abandon" -> rest
       [] outcome = "success" ->
            IF kind = "probe" THEN [rest EXCEPT !.failed = FALSE, !.cool = FALSE] ELSE s
       [] outcome = "failure" ->
            IF kind = "stale" THEN s ELSE [rest EXCEPT !.failed = TRUE, !.cool = TRUE]

\* Entering a cooldown retires the peer's idle connections on that rail.
RetireIdlePeerRail(h, outcome) ==
  LET l == lease[h] IN
  IF outcome = "failure" /\ l.kind \in {"normal", "probe"} /\ ~remote[l.rail].cool
  THEN {c \in DOMAIN conn : Idle(c) /\ conn[c].pub # 0 /\ conn[c].rail = l.rail}
  ELSE {}

(***************************************************************************)
(* Everything a holder gives back at once: its remote lease with outcome,  *)
(* its credits with completion, the connections in gone and what they      *)
(* budget, and budget it holds beside them.                                *)
(***************************************************************************)
GiveBack(h, pub, completion, outcome, gone, budget) ==
  LET l == lease[h]
      held == l.kind \in {"normal", "probe", "stale"}
      dead == gone \cup RetireIdlePeerRail(h, outcome)
      recovers == outcome = "success" /\ l.kind = "probe"
  IN /\ rail' = IF l.credits = 0 THEN rail
                ELSE [rail EXCEPT ![l.rail] = Completed(@, l.credits, completion)]
     /\ remote' = IF held THEN [remote EXCEPT ![l.rail] = Ended(@, l.kind, outcome)] ELSE remote
     /\ lease' = [x \in Holders |->
          IF x = h THEN NoLease
          ELSE IF recovers /\ lease[x].rail = l.rail /\ lease[x].kind = "normal"
          THEN [lease[x] EXCEPT !.kind = "stale"] ELSE lease[x]]
     /\ conn' = Restrict(conn, DOMAIN conn \ dead)
     /\ used' = used - Depths(dead) - budget
     /\ caps' = IF completion = "endpoint" /\ caps = pub THEN 0 ELSE caps

Blame(completion) == IF completion = "endpoint" THEN "failure" ELSE "abandon"

Destroy(h, c, completion) ==
  GiveBack(h, conn[c].pub, completion, Blame(completion), {c}, 0)

\* complete_unowned_lease, before there is a connection.
CompleteUnowned(t, completion, budget) ==
  GiveBack(t, rop[t].snap.pub, completion, Blame(completion), {}, budget)

\* An attempt that failed asks PrepareRetry what to do next.
Failed(t, failure, status) ==
  rop' = [rop EXCEPT ![t].pc = "retry", ![t].fail = failure, ![t].status = status]

(***************************************************************************)
(* Acquire, first part: the highest tier that the captured topology and    *)
(* the remote health allow, credits on one of its rails (the caller's      *)
(* NUMA node first), then the remote lease.  A refused remote lease        *)
(* returns the credits and excludes the rail.                              *)
(***************************************************************************)
Want(t) == IF Call(rop[t].fn).want <= RailCredits THEN Call(rop[t].fn).want ELSE RailCredits

HighestTier(mask) ==
  LET hit == {i \in DOMAIN Tiers : Tiers[i] \cap mask # {}}
  IN IF hit = {} THEN {} ELSE Tiers[Min(hit)] \cap mask

Local(tier) == IF tier \cap Preferred = {} THEN tier ELSE tier \cap Preferred
Nonlocal(tier) == tier \ Local(tier)

BeginOp(t, fn) ==
  /\ rop[t].pc = "idle" /\ left.ops > 0 /\ fn \in network.fns
  /\ left' = [left EXCEPT !.ops = @ - 1]
  /\ rop' = [rop EXCEPT ![t] =
       [pc |-> "select", fn |-> fn, attempt |-> 0, snap |-> topo, excl |-> {},
        adm |-> {}, sel |-> 0, mask |-> {}, tried |-> 0, conn |-> 0, pooled |-> FALSE,
        posted |-> FALSE, at |-> 1, fail |-> "none", status |-> "io"]]
  /\ UNCHANGED <<topo, lastPub, live, rail, remote, lease, conn, used, limit, caps,
                 learned, keeper, network>>

TakeCredits(t, r) ==
  /\ rail' = Granted(r, Want(t))
  /\ lease' = [lease EXCEPT ![t] = [rail |-> r, credits |-> Want(t), kind |-> "none"]]
  /\ rop' = [rop EXCEPT ![t].pc = "remote", ![t].tried = r, ![t].mask = {}]

SelectRail(t) ==
  /\ rop[t].pc = "select"
  /\ LET tier == HighestTier(AllowedMask(rop[t].snap.pub, rop[t].snap.healthy))
         want == Want(t)
         excl == rop[t].adm
         near == Selected(Local(tier), want, excl)
         far == Selected(Nonlocal(tier), want, excl)
     IN IF tier = {} \/ rop[t].sel = Cardinality(Rails)
        THEN Failed(t, "nocompat", "nocompat") /\ UNCHANGED <<rail, lease>>
        ELSE IF near \cup far # {}
        THEN \E r \in (IF near # {} THEN near ELSE far) : TakeCredits(t, r)
        ELSE /\ rop' = [rop EXCEPT ![t].pc = "credits",
                          ![t].mask = IF Local(tier) \ excl # {} \/ Nonlocal(tier) = {}
                                      THEN Local(tier) ELSE Nonlocal(tier)]
             /\ UNCHANGED <<rail, lease>>
  /\ UNCHANGED <<topo, lastPub, live, remote, conn, used, limit, caps, learned, keeper,
                 network, left>>

\* The bounded wait for credits on the chosen mask.
WaitCredits(t) ==
  /\ rop[t].pc = "credits"
  /\ \/ \E r \in Selected(rop[t].mask, Want(t), rop[t].adm) : TakeCredits(t, r)
     \/ Failed(t, "admission", "exhausted") /\ UNCHANGED <<rail, lease>>
  /\ UNCHANGED <<topo, lastPub, live, remote, conn, used, limit, caps, learned, keeper,
                 network, left>>

TakeRemoteLease(t) ==
  /\ rop[t].pc = "remote"
  /\ LET r == lease[t].rail IN
     IF rop[t].snap.pub = 0
     THEN Go(t, "pool") /\ UNCHANGED <<rail, remote, lease>>
     ELSE IF RemoteDenies(r)
     THEN /\ rail' = [rail EXCEPT ![r] = Completed(@, lease[t].credits, "admission")]
          /\ lease' = [lease EXCEPT ![t] = NoLease]
          /\ rop' = [rop EXCEPT ![t].pc = "select", ![t].adm = @ \cup {r}, ![t].sel = @ + 1]
          /\ UNCHANGED remote
     ELSE /\ remote' = RemoteGranted(r)
          /\ lease' = [lease EXCEPT ![t].kind = RemoteKind(r)]
          /\ Go(t, "pool") /\ UNCHANGED rail
  /\ UNCHANGED <<topo, lastPub, live, conn, used, limit, caps, learned, keeper, network, left>>

(***************************************************************************)
(* Acquire, second part, under mu_: the captured topology must still be    *)
(* the published one; then the shallowest pooled connection that will do.  *)
(* A retry never takes one.                                                *)
(***************************************************************************)
Depth(t) == IF Want(t) <= learned[Lane(t)] THEN Want(t) ELSE learned[Lane(t)]

Pooled(t) == {c \in DOMAIN conn : Idle(c) /\ conn[c].lane = Lane(t)}

Usable(t) ==
  LET fit == {c \in Pooled(t) : /\ conn[c].pub = rop[t].snap.pub
                                /\ conn[c].rail = lease[t].rail
                                /\ conn[c].depth >= Depth(t)}
  IN {c \in fit : \A d \in fit : conn[c].depth <= conn[d].depth}

PoolOrProbe(t) ==
  IF Usable(t) = {} \/ rop[t].attempt # 0
  THEN Go(t, "probe") /\ UNCHANGED conn
  ELSE \E c \in Usable(t) :
         /\ conn' = [conn EXCEPT ![c].at = t]
         /\ rop' = [rop EXCEPT ![t].pc = "run", ![t].conn = c, ![t].pooled = TRUE]

TakePooled(t) ==
  /\ rop[t].pc = "pool"
  /\ IF ~IsCurrent(rop[t].snap.pub)
     THEN CompleteUnowned(t, "admission", 0) /\ Failed(t, "admission", "io")
     ELSE PoolOrProbe(t) /\ UNCHANGED <<rail, remote, lease, used, caps>>
  /\ UNCHANGED <<topo, lastPub, live, limit, learned, keeper, network, left>>

Fault == left.faults > 0 /\ left' = [left EXCEPT !.faults = @ - 1]

\* EnsurePoolMrs failed on the pooled connection.
PooledMrFails(t) ==
  /\ rop[t].pc = "run" /\ rop[t].pooled /\ rop[t].at = 1 /\ Fault
  /\ Destroy(t, rop[t].conn, "rail") /\ Failed(t, "local", "io")
  /\ UNCHANGED <<topo, lastPub, live, limit, learned, keeper, network>>

(***************************************************************************)
(* Acquire, third part: a new connection.  Capabilities are those of the   *)
(* publication, cached or probed; then the budget, evicting one idle       *)
(* connection before waiting; then the bootstrap; then, under mu_, the     *)
(* publication again.                                                      *)
(***************************************************************************)
ProbeV2(t) ==
  /\ rop[t].pc = "probe"
  /\ LET known == caps = rop[t].snap.pub /\ caps # 0
         cached == known /\ rop[t].attempt = 0
     IN \/ /\ caps' = IF known /\ ~cached THEN 0 ELSE caps
           /\ Go(t, "budget") /\ UNCHANGED <<rail, remote, lease, conn, used, left>>
        \/ /\ ~cached /\ Fault
           /\ CompleteUnowned(t, "endpoint", 0) /\ Failed(t, "endpoint", "io")
  /\ UNCHANGED <<topo, lastPub, live, limit, learned, keeper, network>>

TakeBudget(t) ==
  /\ rop[t].pc \in {"budget", "await"} /\ used + Depth(t) <= limit
  /\ used' = used + Depth(t)
  /\ rop' = [rop EXCEPT ![t].pc = "dial", ![t].at = Depth(t)]
  /\ UNCHANGED <<topo, lastPub, live, rail, remote, lease, conn, limit, caps, learned,
                 keeper, network, left>>

EvictOneIdle(t) ==
  /\ rop[t].pc = "budget" /\ used + Depth(t) > limit
  /\ IF \E c \in DOMAIN conn : Idle(c)
     THEN \E c \in DOMAIN conn :
            /\ Idle(c) /\ conn' = Restrict(conn, DOMAIN conn \ {c})
            /\ used' = used - conn[c].depth /\ Go(t, "await")
     ELSE Go(t, "await") /\ UNCHANGED <<conn, used>>
  /\ UNCHANGED <<topo, lastPub, live, rail, remote, lease, limit, caps, learned, keeper,
                 network, left>>

BudgetTimesOut(t) ==
  /\ rop[t].pc = "await" /\ used + Depth(t) > limit
  /\ CompleteUnowned(t, "admission", 0) /\ Failed(t, "admission", "exhausted")
  /\ UNCHANGED <<topo, lastPub, live, limit, learned, keeper, network, left>>

\* Mutant: credits the negotiation did not need are not refunded.
KeepSurplus(t, d) == used' = used

\* Dial, Open, the negotiation and the pool registration; at is the depth asked for.
RefundSurplus(t, d) == used' = used - (rop[t].at - d)

Bootstrap(t) ==
  /\ rop[t].pc = "dial"
  /\ \/ \E d \in 1..rop[t].at : \E c \in ConnIds \ DOMAIN conn :
          /\ c = Min(ConnIds \ DOMAIN conn)
          /\ d = rop[t].at \/ left.faults > 0
          /\ left' = IF d = rop[t].at THEN left ELSE [left EXCEPT !.faults = @ - 1]
          /\ conn' = [x \in DOMAIN conn \cup {c} |->
               IF x = c THEN [pub |-> rop[t].snap.pub, rail |-> lease[t].rail,
                              lane |-> Lane(t), depth |-> d, at |-> t]
               ELSE conn[x]]
          /\ RefundSurplus(t, d)
          /\ learned' = IF d < rop[t].at /\ d < learned[Lane(t)]
                        THEN [learned EXCEPT ![Lane(t)] = d] ELSE learned
          /\ rop' = [rop EXCEPT ![t].pc = "publish", ![t].conn = c, ![t].at = 1]
          /\ UNCHANGED <<rail, remote, lease, caps>>
     \/ \E blame \in {"endpoint", "rail"} :
          /\ Fault /\ CompleteUnowned(t, blame, rop[t].at)
          /\ Failed(t, IF blame = "rail" THEN "local" ELSE "endpoint", "io")
          /\ UNCHANGED learned
  /\ UNCHANGED <<topo, lastPub, live, limit, keeper, network>>

PublishConn(t) ==
  /\ rop[t].pc = "publish"
  /\ IF IsCurrent(rop[t].snap.pub)
     THEN /\ caps' = rop[t].snap.pub /\ Go(t, "run")
          /\ UNCHANGED <<rail, remote, lease, conn, used>>
     ELSE Destroy(t, rop[t].conn, "admission") /\ Failed(t, "admission", "io")
  /\ UNCHANGED <<topo, lastPub, live, limit, learned, keeper, network, left>>

(***************************************************************************)
(* The exchanges of the call (RoundTrip, CacheMany, RangeMany, ExistMany,  *)
(* PullWindow, CacheFromMulti).  One that fails destroys the connection    *)
(* and blames the local rail or the endpoint.                              *)
(***************************************************************************)
Exchange(t) ==
  /\ rop[t].pc = "run"
  /\ LET plan == Call(rop[t].fn).plan IN
     rop' = [rop EXCEPT ![t].at = @ + 1,
               ![t].posted = @ \/ plan[rop[t].at] \in {"post", "send"},
               ![t].pc = IF rop[t].at = Len(plan) THEN "release" ELSE "run"]
  /\ UNCHANGED <<topo, lastPub, live, rail, remote, lease, conn, used, limit, caps,
                 learned, keeper, network, left>>

\* A posted PUT or Remove that fails locally is not known to be undelivered.
ExchangeFails(t) ==
  /\ rop[t].pc = "run" /\ Fault
  /\ LET step == Call(rop[t].fn).plan[rop[t].at] IN
     \E blame \in {"endpoint", "rail"}, sent \in BOOLEAN :
       LET posted == rop[t].posted \/ (step \in {"post", "send"} /\ sent)
           failure == IF blame = "rail" /\ ~posted THEN "local" ELSE "endpoint"
       IN /\ blame = "endpoint" => sent
          /\ Destroy(t, rop[t].conn, blame)
          /\ rop' = [rop EXCEPT ![t].pc = "retry", ![t].fail = failure,
                       ![t].posted = posted, ![t].conn = 0]
  /\ UNCHANGED <<topo, lastPub, live, limit, learned, keeper, network>>

(***************************************************************************)
(* PrepareRetry: at most one fresh attempt.  After a local failure it goes *)
(* to another rail, or to the same one if there is no other; after an      *)
(* endpoint failure to another rail, or to the same one only if the        *)
(* connection came from the pool.                                          *)
(***************************************************************************)
Another(t) ==
  HighestTier(AllowedMask(rop[t].snap.pub, rop[t].snap.healthy)) \ {rop[t].tried} # {}

MayRetry(t) ==
  /\ rop[t].attempt + 1 < Call(rop[t].fn).tries
  /\ Call(rop[t].fn).safe \/ ~rop[t].posted
  /\ rop[t].fail = "local" \/ (rop[t].fail = "endpoint" /\ (Another(t) \/ rop[t].pooled))

PrepareRetry(t) ==
  /\ rop[t].pc = "retry"
  /\ IF MayRetry(t)
     THEN LET excl == IF Another(t) THEN {rop[t].tried} ELSE {} IN
          rop' = [rop EXCEPT ![t].pc = "select", ![t].attempt = 1, ![t].excl = excl,
                    ![t].adm = excl, ![t].sel = 0, ![t].pooled = FALSE, ![t].conn = 0,
                    ![t].posted = FALSE, ![t].at = 1, ![t].fail = "none"]
     ELSE rop' = [rop EXCEPT ![t] = IdleOp]
  /\ UNCHANGED <<topo, lastPub, live, rail, remote, lease, conn, used, limit, caps,
                 learned, keeper, network, left>>

(***************************************************************************)
(* Release: the remote lease, the refresh of the registrations (a failure  *)
(* tears the connection down), the credits; then, under mu_, back to the   *)
(* pool if the publication is still current and there is room, or in place *)
(* of a deeper data connection; otherwise destroyed.                       *)
(***************************************************************************)
ReleaseLeases(h, c) ==
  \/ GiveBack(h, conn[c].pub, "success", "success", {}, 0) /\ UNCHANGED left
  \/ Fault /\ GiveBack(h, conn[c].pub, "rail", "success", {c}, 0)

PoolCap(lane) == IF lane = "control" THEN PoolMax ELSE DataPoolMax

Lanemates(c) == {d \in DOMAIN conn : Idle(d) /\ conn[d].lane = conn[c].lane}

Displaced(c) ==
  {d \in Lanemates(c) : /\ conn[c].lane = "data" /\ conn[d].depth > conn[c].depth
                        /\ \A e \in Lanemates(c) : conn[e].depth <= conn[d].depth}

ReturnToPool(c) ==
  LET room == Cardinality(Lanemates(c)) < PoolCap(conn[c].lane)
      dead == IF ~IsCurrent(conn[c].pub) THEN {{c}}
              ELSE IF room THEN {{}}
              ELSE IF Displaced(c) # {} THEN {{d} : d \in Displaced(c)}
              ELSE {{c}}
  IN \E D \in dead :
       /\ conn' = [x \in DOMAIN conn \ D |->
                     IF x = c THEN [conn[x] EXCEPT !.at = "idle"] ELSE conn[x]]
       /\ used' = used - Depths(D)

Release(t) ==
  /\ rop[t].pc = "release" /\ ReleaseLeases(t, rop[t].conn)
  /\ rop' = [rop EXCEPT ![t] =
       IF rop[t].conn \in DOMAIN conn' THEN [@ EXCEPT !.pc = "return"] ELSE IdleOp]
  /\ UNCHANGED <<topo, lastPub, live, limit, learned, keeper, network>>

Return(t) ==
  /\ rop[t].pc = "return" /\ ReturnToPool(rop[t].conn)
  /\ rop' = [rop EXCEPT ![t] = IdleOp]
  /\ UNCHANGED <<topo, lastPub, live, rail, remote, lease, limit, caps, learned, keeper,
                 network, left>>

(***************************************************************************)
(* The keepalive thread.  TrimIdle retires data connections above the base *)
(* pool size; MaintainIdle takes every idle connection out of the pool and *)
(* exercises them one after the other, with a remote lease but no credits. *)
(***************************************************************************)
TrimIdle ==
  /\ keeper = {} /\ left.keepalives > 0
  /\ \E c \in DOMAIN conn :
       /\ Idle(c) /\ conn[c].lane = "data"
       /\ Cardinality(Lanemates(c)) > PoolMax
       /\ conn' = Restrict(conn, DOMAIN conn \ {c}) /\ used' = used - conn[c].depth
  /\ UNCHANGED <<topo, lastPub, live, rail, remote, lease, limit, caps, learned, rop,
                 keeper, network, left>>

MaintainIdle ==
  /\ keeper = {} /\ left.keepalives > 0
  /\ left' = [left EXCEPT !.keepalives = @ - 1]
  /\ keeper' = {c \in DOMAIN conn : Idle(c)} /\ keeper' # {}
  /\ conn' = [c \in DOMAIN conn |-> IF Idle(c) THEN [conn[c] EXCEPT !.at = Keeper] ELSE conn[c]]
  /\ UNCHANGED <<topo, lastPub, live, rail, remote, lease, used, limit, caps, learned, rop,
                 network>>

\* IsCurrent is read outside mu_; a refused remote lease costs the connection.
VisitConn(c) ==
  /\ c \in keeper /\ conn[c].at = Keeper
  /\ \A d \in keeper : conn[d].at = Keeper
  /\ IF ~IsCurrent(conn[c].pub) \/ (conn[c].pub # 0 /\ RemoteDenies(conn[c].rail))
     THEN /\ Destroy(Keeper, c, "admission") /\ keeper' = keeper \ {c}
     ELSE /\ remote' = IF conn[c].pub = 0 THEN remote ELSE RemoteGranted(conn[c].rail)
          /\ lease' = [lease EXCEPT ![Keeper] =
               [rail |-> conn[c].rail, credits |-> 0,
                kind |-> IF conn[c].pub = 0 THEN "none" ELSE RemoteKind(conn[c].rail)]]
          /\ conn' = [conn EXCEPT ![c].at = "pinged"]
          /\ UNCHANGED <<rail, used, caps, keeper>>
  /\ UNCHANGED <<topo, lastPub, live, limit, learned, rop, network, left>>

KeepaliveConn(c) ==
  /\ c \in keeper /\ conn[c].at = "pinged" /\ lease[Keeper].rail # 0
  /\ \/ ReleaseLeases(Keeper, c) /\ keeper' = keeper \cap DOMAIN conn'
     \/ /\ Fault /\ \E blame \in {"endpoint", "rail", "admission"} : Destroy(Keeper, c, blame)
        /\ keeper' = keeper \ {c}
  /\ UNCHANGED <<topo, lastPub, live, limit, learned, rop, network>>

KeeperReturns(c) ==
  /\ c \in keeper /\ conn[c].at = "pinged" /\ lease[Keeper].rail = 0
  /\ ReturnToPool(c) /\ keeper' = keeper \ {c}
  /\ UNCHANGED <<topo, lastPub, live, rail, remote, lease, limit, caps, learned, rop,
                 network, left>>

(***************************************************************************)
(* What the client's discovery and its clock do to the transport.  An      *)
(* update publishes and detaches the outdated idle connections under one   *)
(* lock; a removal detaches every idle connection of the address.          *)
(***************************************************************************)
OnPeerTopology(next) ==
  /\ left.updates > 0 /\ left' = [left EXCEPT !.updates = @ - 1]
  /\ topo' = next /\ lastPub' = IF next.pub = 0 THEN lastPub ELSE next.pub
  /\ LET stale == {c \in DOMAIN conn : Idle(c) /\ (next.pub = 0 \/ conn[c].pub # next.pub)} IN
     conn' = Restrict(conn, DOMAIN conn \ stale) /\ used' = used - Depths(stale)
  /\ caps' = 0
  /\ UNCHANGED <<live, rail, remote, lease, limit, learned, rop, keeper, network>>

Topologies == [pub : {lastPub + 1}, healthy : SUBSET Rails] \cup {[pub |-> 0, healthy |-> Rails]}

\* Reconcile: a peer that is not live loses its history, and its leases count no more.
OnPeerIdentities ==
  /\ left.updates > 0 /\ left' = [left EXCEPT !.updates = @ - 1]
  /\ live' = ~live
  /\ remote' = [r \in Rails |-> IF live THEN [failed |-> FALSE, cool |-> FALSE, probing |-> FALSE]
                                ELSE remote[r]]
  /\ lease' = [h \in Holders |-> IF live /\ lease[h].kind # "none"
                                 THEN [lease[h] EXCEPT !.kind = "gone"] ELSE lease[h]]
  /\ UNCHANGED <<topo, lastPub, rail, conn, used, limit, caps, learned, rop, keeper, network>>

OnTopologyHint ==
  /\ limit < network.raised /\ limit' = network.raised
  /\ UNCHANGED <<topo, lastPub, live, rail, remote, lease, conn, used, caps, learned, rop,
                 keeper, network, left>>

\* The idle connections that cannot adopt the new registration are discarded.
RegisterMemory ==
  /\ Fault
  /\ \E D \in SUBSET {c \in DOMAIN conn : Idle(c)} :
       /\ D # {} /\ conn' = Restrict(conn, DOMAIN conn \ D) /\ used' = used - Depths(D)
  /\ UNCHANGED <<topo, lastPub, live, rail, remote, lease, limit, caps, learned, rop, keeper,
                 network>>

CooldownEnd(r) ==
  /\ \/ /\ rail[r].quar = "cooling" /\ rail' = [rail EXCEPT ![r].quar = "expired"]
        /\ UNCHANGED remote
     \/ /\ remote[r].cool /\ remote' = [remote EXCEPT ![r].cool = FALSE]
        /\ UNCHANGED rail
  /\ UNCHANGED <<topo, lastPub, live, lease, conn, used, limit, caps, learned, rop, keeper,
                 network, left>>

Step(t) ==
  \/ \E fn \in network.fns : BeginOp(t, fn)
  \/ SelectRail(t) \/ WaitCredits(t) \/ TakeRemoteLease(t) \/ TakePooled(t)
  \/ PooledMrFails(t) \/ ProbeV2(t) \/ TakeBudget(t) \/ EvictOneIdle(t) \/ BudgetTimesOut(t)
  \/ Bootstrap(t) \/ PublishConn(t) \/ Exchange(t) \/ ExchangeFails(t) \/ PrepareRetry(t)
  \/ Release(t) \/ Return(t)

RdmaTransportNext ==
  \/ \E t \in RThreads : Step(t)
  \/ TrimIdle \/ MaintainIdle
  \/ \E c \in DOMAIN conn : VisitConn(c) \/ KeepaliveConn(c) \/ KeeperReturns(c)
  \/ \E next \in Topologies : OnPeerTopology(next)
  \/ OnPeerIdentities \/ OnTopologyHint \/ RegisterMemory
  \/ \E r \in Rails : CooldownEnd(r)

RdmaTransportSpec == RdmaTransportInit /\ [][RdmaTransportNext]_rdmaVars

-----------------------------------------------------------------------------
\* Every path out of an operation returns what it took: the credits in
\* flight on a rail are those of its holders, the budget in use is that of
\* the live connections and of the operations about to open one, and a
\* probe in flight has a holder (Destroy, Release, complete_unowned_lease,
\* the depth refund of Acquire).
LeasesAreReturned ==
  /\ \A r \in Rails :
       /\ rail[r].inflight =
            MapThenSumSet(LAMBDA h : lease[h].credits, {h \in Holders : lease[h].rail = r})
       /\ rail[r].probe => \E h \in Holders : lease[h].rail = r /\ lease[h].credits > 0
       /\ remote[r].probing => \E h \in Holders : lease[h].rail = r /\ lease[h].kind = "probe"
  /\ used = Depths(DOMAIN conn)
            + MapThenSumSet(LAMBDA t : rop[t].at, {t \in RThreads : rop[t].pc = "dial"})
  /\ used <= limit

\* A rail under recovery, local or remote, carries one probe and no other
\* new traffic (TryAcquireLocked, RemoteRailHealth::TryAcquire).
OneProbe ==
  \A r \in Rails :
    /\ rail[r].probe =>
         Cardinality({h \in Holders : lease[h].rail = r /\ lease[h].credits > 0}) = 1
    /\ Cardinality({h \in Holders : lease[h].rail = r /\ lease[h].kind = "probe"}) <= 1

\* No idle connection outlives its publication: an update and the return of
\* a connection order themselves on mu_ (OnPeerTopology, Release).
PooledIsCurrent == \A c \in DOMAIN conn : Idle(c) => IsCurrent(conn[c].pub)

\* The rails' books: what is in flight is accounted for, recovery is tried one
\* operation at a time, and nothing of a replaced topology is used again.
RailsAreAccounted == LeasesAreReturned /\ OneProbe /\ PooledIsCurrent
=============================================================================
