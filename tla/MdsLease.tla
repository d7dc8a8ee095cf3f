------------------------------ MODULE MdsLease ------------------------------
(***************************************************************************)
(* How one cache node stays in the member list.  Its registrar             *)
(* (mds_registrar.cc) sends a registration and then heartbeats to the MDS  *)
(* endpoints in rotation (mds_endpoints.h); the connection's thread at     *)
(* that MDS runs UpsertLeased (mds_server.cc), which keeps the node's key  *)
(* in etcd attached to a lease that this MDS remembers locally.  A request *)
(* the registrar has given up on keeps running at its MDS, so two handlers *)
(* for the same key may interleave their etcd calls.                       *)
(*                                                                         *)
(* Time is counted in ticks, and every clock the code compares with "now"  *)
(* is kept as the number of ticks since, or still to go.  etcd is external *)
(* and modelled from what etcd_client.cc asks of it.  A call that fails    *)
(* may have taken effect or not.                                           *)
(***************************************************************************)
EXTENDS Integers, Sequences, FiniteSets, FiniteSetsExt

CONSTANTS Endpoints,      \* a sequence: the registrar's MDS endpoints
          Upserts,        \* bound: requests being handled at a time
          Leases,         \* bound: lease numbers, 1..n
          Ttl,            \* kTtlSeconds
          StaleTtls,      \* a local lease is pruned after this many Ttl
          CallSpan,       \* longest time from a lease's refresh to the end of
                          \* the Put that follows: two HTTP timeouts
          IoTimeout,      \* the registrar's wait for an answer
          Heartbeat,      \* hb_ms_
          RetryWait,      \* pause between registration attempts
          Backoff,        \* MdsEndpoints backoff
          Deadline,       \* first_registration_timeout_ms_, 0: unbounded
          MaxMdsFaults    \* bound: faults of a behaviour

ASSUME MdsLeaseAssumption ==
  /\ {Ttl, StaleTtls, CallSpan, IoTimeout, Heartbeat, RetryWait, Backoff}
       \subseteq Nat \ {0}
  /\ Deadline \in Nat /\ MaxMdsFaults \in Nat
  /\ CallSpan < Ttl
  /\ Leases \subseteq Nat \ {0}

Mds == {Endpoints[i] : i \in 1..Len(Endpoints)}
NoLease == 0
NoUpsert == "none"

VARIABLES etcd,       \* [owner: lease of the member key, left: ticks to expiry]
          local,      \* LocalLeaseMap of each MDS, for this key
          upsert,     \* the request handlers
          reg,        \* the registrar
          sinceOk,    \* history: ticks since the last kOk answer, at most Ttl
          mdsFaults   \* history: faults so far, slow answers included

mdsVars == <<etcd, local, upsert, reg, sinceOk, mdsFaults>>

IdleUpsert == [pc |-> "idle", mds |-> Endpoints[1], lease |-> NoLease, age |-> 0]

MdsLeaseInit ==
  /\ etcd = [owner |-> NoLease, left |-> [l \in Leases |-> 0]]
  /\ local = [m \in Mds |-> [lease |-> NoLease, idle |-> 0]]
  /\ upsert = [c \in Upserts |-> IdleUpsert]
  /\ reg = [pc |-> "off", req |-> NoUpsert, age |-> 0, wait |-> 0,
            cursor |-> 1, until |-> [m \in Mds |-> 0], registered |-> FALSE,
            left |-> Deadline, timedOut |-> FALSE]
  /\ sinceOk = Ttl
  /\ mdsFaults = 0

MdsFault == mdsFaults < MaxMdsFaults /\ mdsFaults' = mdsFaults + 1

(***************************************************************************)
(* MdsEndpoints: Pick scans from the cursor for an endpoint whose backoff  *)
(* is over, and falls back to the one that is closest to recovery.         *)
(***************************************************************************)
Scan == [i \in 1..Len(Endpoints) |-> ((reg.cursor + i - 2) % Len(Endpoints)) + 1]

Pick(ep) ==
  LET wait(i) == reg.until[Endpoints[Scan[i]]] IN
  \E at \in DOMAIN Scan :
    /\ ep = Scan[at]
    /\ \A j \in DOMAIN Scan : wait(at) <= wait(j)
    /\ \A j \in 1..(at - 1) : wait(at) < wait(j)

Picked(ep) == [reg EXCEPT !.cursor = (ep % Len(Endpoints)) + 1]

\* The backoff runs from the attempt's start.
MarkFailed(r, m) ==
  [r EXCEPT !.until[m] = Max({0, Backoff - r.age}), !.req = NoUpsert, !.age = 0]

MarkOk(r, m) == [r EXCEPT !.until[m] = 0, !.req = NoUpsert, !.age = 0]

(* Loop, after a failed attempt.                                           *)
AfterFailure(r) ==
  IF r.registered THEN [r EXCEPT !.pc = "wait", !.wait = Heartbeat]
  ELSE IF Deadline # 0 /\ r.left <= 0
  THEN [r EXCEPT !.pc = "stopped", !.timedOut = TRUE]
  ELSE [r EXCEPT !.pc = "wait",
          !.wait = IF Deadline = 0 THEN RetryWait ELSE Min({RetryWait, r.left})]

(***************************************************************************)
(* etcd (external).  Lease numbers nobody refers to any more are reused    *)
(* for new leases; a number still referred to is never handed out.         *)
(***************************************************************************)
Alive(l) == l # NoLease /\ etcd.left[l] > 0
MemberListed == Alive(etcd.owner)

Referred(owner, loc, ups) ==
  {owner} \cup {loc[m].lease : m \in Mds} \cup {ups[c].lease : c \in Upserts}

OnlyReferred(e) ==
  [e EXCEPT !.left = [l \in Leases |->
     IF l \in Referred(e.owner, local', upsert') THEN e.left[l] ELSE 0]]

LeaseKeepAlive(l) ==
  etcd' = IF Alive(l) THEN [etcd EXCEPT !.left[l] = Ttl] ELSE etcd
LeaseGrant(l) == etcd' = OnlyReferred([etcd EXCEPT !.left[l] = Ttl])
EtcdPut(l) ==
  etcd' = OnlyReferred(IF Alive(l) THEN [etcd EXCEPT !.owner = l] ELSE etcd)
NoEtcdEffect == etcd' = OnlyReferred(etcd)

SpareLeases == Leases \ Referred(etcd.owner, local, upsert)
FreshLease == CHOOSE l \in SpareLeases : TRUE

(***************************************************************************)
(* UpsertLeased, first part: prune the local map (a scan runs at most once *)
(* per kPruneIntervalMs: here, any number of requests may go by without    *)
(* one), look the key up and touch it.  No etcd call is made under the     *)
(* map's lock.                                                             *)
(***************************************************************************)
PruneLocked(e) ==
  IF e.idle > StaleTtls * Ttl THEN [e EXCEPT !.lease = NoLease] ELSE e

BeginUpsert(c, m) ==
  \E e \in {local[m], PruneLocked(local[m])} :
    /\ local' = [local EXCEPT ![m] = [e EXCEPT !.idle = 0]]
    /\ upsert' = [upsert EXCEPT ![c] =
         [pc |-> IF e.lease = NoLease THEN "grant" ELSE "keepalive",
          mds |-> m, lease |-> e.lease, age |-> 0]]

(***************************************************************************)
(* SendOnce up to the request's arrival: the endpoint is picked, and a     *)
(* dial that fails puts it in backoff.                                     *)
(***************************************************************************)
DueToSend == reg.pc \in {"send", "wait"} /\ reg.wait = 0
OutOfTime == ~reg.registered /\ Deadline # 0 /\ reg.left <= 0

SendOnce(c) ==
  /\ DueToSend /\ ~OutOfTime /\ upsert[c].pc = "idle"
  /\ \E ep \in 1..Len(Endpoints) :
       /\ Pick(ep) /\ BeginUpsert(c, Endpoints[ep])
       /\ reg' = [Picked(ep) EXCEPT !.pc = "await", !.req = c, !.age = 0]
  /\ UNCHANGED <<etcd, sinceOk, mdsFaults>>

DialFails ==
  /\ DueToSend /\ ~OutOfTime /\ MdsFault
  /\ \E ep \in 1..Len(Endpoints) :
       Pick(ep) /\ reg' = AfterFailure(MarkFailed(Picked(ep), Endpoints[ep]))
  /\ UNCHANGED <<etcd, local, upsert, sinceOk>>

\* Loop, at the top: the first registration is out of time.
MarkFirstRegistrationTimedOut ==
  /\ DueToSend /\ OutOfTime
  /\ reg' = [reg EXCEPT !.pc = "stopped", !.timedOut = TRUE]
  /\ UNCHANGED <<etcd, local, upsert, sinceOk, mdsFaults>>

(***************************************************************************)
(* The registrar's end of a request: the answer, or its timeout.           *)
(***************************************************************************)
RegisterOnceBefore(r) ==
  IF ~r.registered /\ Deadline # 0 /\ r.left < 0 THEN AfterFailure(r)
  ELSE [r EXCEPT !.pc = "wait", !.wait = Heartbeat, !.registered = TRUE]

AnswerTo(c, good) ==
  IF reg.req # c THEN UNCHANGED <<reg, sinceOk>>
  ELSE /\ reg' = IF good THEN RegisterOnceBefore(MarkOk(reg, upsert[c].mds))
                 ELSE AfterFailure(MarkFailed(reg, upsert[c].mds))
       /\ sinceOk' = IF good THEN 0 ELSE sinceOk

ReadTimesOut ==
  /\ reg.pc = "await"
  /\ IF reg.age < IoTimeout THEN MdsFault ELSE UNCHANGED mdsFaults
  /\ reg' = AfterFailure(MarkFailed(reg, upsert[reg.req].mds))
  /\ UNCHANGED <<etcd, local, upsert, sinceOk>>

(***************************************************************************)
(* UpsertLeased, the etcd calls.  KeepAlive and Put under the remembered   *)
(* lease is the fast path; any failure falls through to Grant and Put.     *)
(***************************************************************************)
Finish(c, good) ==
  /\ upsert' = [upsert EXCEPT ![c] = IdleUpsert]
  /\ AnswerTo(c, good)

Go(c, pc, l) ==
  /\ upsert' = [upsert EXCEPT ![c] = [@ EXCEPT !.pc = pc, !.lease = l, !.age = 0]]
  /\ UNCHANGED <<local, reg, sinceOk>>

(* Mutants: a successful KeepAlive alone answers the heartbeat; a lease    *)
(* that etcd no longer has is reported and kept.                           *)
FastPathWithoutPut(c) ==
  LET me == upsert[c] IN
  \/ /\ me.pc = "keepalive" /\ Alive(me.lease)
     /\ Finish(c, TRUE) /\ UNCHANGED local
     /\ etcd' = [etcd EXCEPT !.left[me.lease] = Ttl]
  \/ /\ me.pc = "keepalive" /\ ~Alive(me.lease)
     /\ Go(c, "grant", NoLease) /\ NoEtcdEffect

FastPathGivesUp(c) ==
  LET me == upsert[c] IN
  \/ /\ me.pc = "keepalive" /\ Alive(me.lease)
     /\ Go(c, "put", me.lease) /\ LeaseKeepAlive(me.lease)
  \/ /\ me.pc = "put" /\ Alive(me.lease)
     /\ Finish(c, TRUE) /\ UNCHANGED local /\ EtcdPut(me.lease)
  \/ /\ me.pc \in {"keepalive", "put"} /\ ~Alive(me.lease)
     /\ Finish(c, FALSE) /\ UNCHANGED local /\ NoEtcdEffect

FastPath(c) ==
  LET me == upsert[c] IN
  \/ /\ me.pc = "keepalive" /\ Alive(me.lease)
     /\ Go(c, "put", me.lease) /\ LeaseKeepAlive(me.lease)
  \/ /\ me.pc = "put" /\ Alive(me.lease)
     /\ Finish(c, TRUE) /\ UNCHANGED local /\ EtcdPut(me.lease)
  \/ /\ me.pc \in {"keepalive", "put"} /\ ~Alive(me.lease)
     /\ Go(c, "grant", NoLease) /\ NoEtcdEffect

\* CallSpan < Ttl: the lease just granted is alive when the Put arrives.
SlowPath(c) ==
  LET me == upsert[c] IN
  \/ /\ me.pc = "grant" /\ SpareLeases # {}
     /\ Go(c, "put2", FreshLease) /\ LeaseGrant(FreshLease)
  \/ /\ me.pc = "put2" /\ Alive(me.lease)
     /\ Finish(c, TRUE)
     /\ local' = [local EXCEPT ![me.mds] = [lease |-> me.lease, idle |-> 0]]
     /\ EtcdPut(me.lease)

EtcdAnswers(c) == (FastPath(c) \/ SlowPath(c)) /\ UNCHANGED mdsFaults

\* The HTTP call fails; a Put or a KeepAlive may have been carried out.
EtcdFails(c) ==
  /\ upsert[c].pc # "idle" /\ MdsFault
  /\ LET me == upsert[c] IN
     /\ IF me.pc \in {"keepalive", "put"} THEN Go(c, "grant", NoLease)
        ELSE Finish(c, FALSE) /\ UNCHANGED local
     /\ \/ NoEtcdEffect
        \/ me.pc \in {"put", "put2"} /\ EtcdPut(me.lease)
        \/ me.pc = "keepalive" /\ LeaseKeepAlive(me.lease)

\* An MDS restarts: its map and its handlers are gone.
MdsRestart(m) ==
  /\ MdsFault
  /\ local' = [local EXCEPT ![m] = [lease |-> NoLease, idle |-> 0]]
  /\ upsert' = [c \in Upserts |-> IF upsert[c].mds = m THEN IdleUpsert ELSE upsert[c]]
  /\ reg' = IF reg.pc = "await" /\ upsert[reg.req].mds = m
            THEN AfterFailure(MarkFailed(reg, m)) ELSE reg
  /\ NoEtcdEffect /\ UNCHANGED sinceOk

(***************************************************************************)
(* One tick.  It waits for a call or an answer that has reached its        *)
(* timeout; a step it does not wait for is slow, which counts as a fault.  *)
(***************************************************************************)
Less(n) == IF n > 0 THEN n - 1 ELSE 0

MdsTick ==
  /\ \A c \in Upserts : upsert[c].pc # "idle" => upsert[c].age < CallSpan
  /\ reg.pc = "await" => reg.age < IoTimeout
  /\ IF DueToSend \/ \E c \in Upserts : upsert[c].pc # "idle" THEN MdsFault
     ELSE UNCHANGED mdsFaults
  /\ local' = [m \in Mds |-> [local[m] EXCEPT
       !.idle = IF local[m].lease = NoLease THEN 0
                ELSE Min({@ + 1, StaleTtls * Ttl + 1})]]
  /\ upsert' = [c \in Upserts |->
       [upsert[c] EXCEPT !.age = IF upsert[c].pc = "idle" THEN 0 ELSE @ + 1]]
  /\ etcd' = LET left == [l \in Leases |-> Less(etcd.left[l])] IN
       OnlyReferred([owner |-> IF MemberListed /\ left[etcd.owner] > 0
                               THEN etcd.owner ELSE NoLease, left |-> left])
  /\ reg' = [reg EXCEPT
       !.age = IF reg.pc = "await" THEN @ + 1 ELSE 0,
       !.wait = Less(@), !.until = [m \in Mds |-> Less(@[m])],
       !.left = IF Deadline = 0 \/ reg.registered THEN 0
                ELSE IF reg.pc = "off" THEN @ ELSE Max({@ - 1, -1})]
  /\ sinceOk' = Min({sinceOk + 1, Ttl})

\* MdsRegistrar::Start: the thread that registers the node and keeps it listed.
StartRegistrar ==
  /\ reg.pc = "off"
  /\ reg' = [reg EXCEPT !.pc = "send"]
  /\ UNCHANGED <<etcd, local, upsert, sinceOk, mdsFaults>>

MdsLeaseNext ==
  \/ StartRegistrar
  \/ \E c \in Upserts : SendOnce(c) \/ EtcdAnswers(c) \/ EtcdFails(c)
  \/ DialFails \/ MarkFirstRegistrationTimedOut \/ ReadTimesOut
  \/ \E m \in Mds : MdsRestart(m)
  \/ MdsTick

\* The registrar's and the handlers' threads run, and time passes.
MdsLeaseFairness ==
  /\ WF_mdsVars(\E c \in Upserts : SendOnce(c))
  /\ \A c \in Upserts : WF_mdsVars(EtcdAnswers(c))
  /\ WF_mdsVars(MarkFirstRegistrationTimedOut)
  /\ WF_mdsVars(ReadTimesOut) /\ WF_mdsVars(MdsTick)

MdsLeaseSpec == MdsLeaseInit /\ [][MdsLeaseNext]_mdsVars /\ MdsLeaseFairness

(***************************************************************************)
(* A node whose last request was answered with kOk is in the member list:  *)
(* the comment in UpsertLeased calls it the invariant "any MDS that        *)
(* answers a heartbeat guarantees the key survives".  The key outlives the *)
(* answer by its time to live, less the time between the refresh of a      *)
(* lease and the Put under it, whichever MDS the answer came from and      *)
(* whatever an abandoned handler at another MDS still writes.              *)
(***************************************************************************)
AnsweredMemberStays == sinceOk + CallSpan < Ttl => MemberListed

(***************************************************************************)
(* Once the registrar runs and after the last fault, its loop brings the   *)
(* node back and keeps it listed, unless its first registration has run    *)
(* out of time.                                                            *)
(***************************************************************************)
MemberReturns == (reg.pc # "off") ~> (reg.timedOut \/ []MemberListed)
=============================================================================
