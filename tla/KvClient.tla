------------------------------ MODULE KvClient ------------------------------
(***************************************************************************)
(* The operations of KVClient (kv_client.cc), by several client processes  *)
(* of one host that share the same-host rendezvous of NodeDedup.  A call   *)
(* routes its keys to nodes, groups them, skips nodes in cooldown, sends   *)
(* one transport call per group, turns the statuses into health marks and  *)
(* results, and keeps the rendezvous in step: a batched read claims each   *)
(* key first, a write supersedes what the rendezvous holds.                *)
(*                                                                         *)
(* Abstracted: the rendezvous is atomic per key (NodeDedup has its steps), *)
(* a peer's cooldown is a flag (PeerHealth has its clock), the ring does   *)
(* not change (MemberView), and a value is a version with its length.      *)
(***************************************************************************)
EXTENDS Integers, FiniteSets, TLC

CONSTANTS CKeys, CNodes, Clients,
          Route,        \* [CKeys -> CNodes]: ring_.Lookup
          Workloads     \* bounds, one of which a behaviour keeps: fns, the
                        \* operations; keys; calls and faults, how many calls
                        \* and failed transport calls or expired waits

VARIABLES held,         \* [CKeys -> Nat]: the version the key's node holds, 0 = nothing
          newest,       \* versions are numbered in the order the nodes apply them
          cooling,      \* the peers health_ reports unhealthy
          rdv,          \* [CKeys \X Kinds -> rendezvous slot]
          call,         \* [Clients -> the call in progress]
          calls, faults, workload,
          acked         \* history: [CKeys -> the oldest version a later reader may still see]

clientVars == <<held, newest, cooling, rdv, call, calls, faults, workload, acked>>

Kinds == {"data", "exist"}
Free == [st |-> "free", by |-> "none", ver |-> 0]
IdleCall == [op |-> "none", pc |-> "idle"]

\* Every key is stored before the processes start.
KvClientInit ==
  /\ held = [k \in CKeys |-> 1] /\ newest = 1 /\ cooling = {}
  /\ rdv = [s \in CKeys \X Kinds |-> Free]
  /\ call = [p \in Clients |-> IdleCall] /\ calls = 0 /\ faults = 0
  /\ workload \in Workloads
  /\ acked = [k \in CKeys |-> 1]

(***************************************************************************)
(* The start of a call.  A key has a role: "claim" (the rendezvous decides *)
(* first), "fetch" (sent to its node), "wait" (another process fetches     *)
(* it), "answered", "done"; owes is its obligation to publish or abort.    *)
(***************************************************************************)
Begin(p, fn, op, ks, role, retries) ==
  /\ fn \in workload.fns /\ ks \subseteq workload.keys
  /\ call[p].pc = "idle" /\ calls < workload.calls
  /\ call' = [call EXCEPT ![p] =
       [op |-> op, pc |-> "run", keys |-> ks, role |-> [k \in ks |-> role],
        owes |-> {}, ok |-> {}, sent |-> {}, retries |-> retries,
        ver |-> [k \in ks |-> 0], st |-> [k \in ks |-> "invalid"],
        floor |-> [k \in ks |-> IF op \in {"put", "remove"} THEN 0 ELSE acked[k]]]]
  /\ calls' = calls + 1
  /\ UNCHANGED <<held, newest, cooling, rdv, faults, workload, acked>>

\* Scalar calls send their one key and know no rendezvous on the read side.
PutDirect(p, k)     == Begin(p, "PutDirect", "put", {k}, "fetch", 0)
RemoveDirect(p, k)  == Begin(p, "RemoveDirect", "remove", {k}, "fetch", 0)
GetDirect(p, k)     == Begin(p, "GetDirect", "get", {k}, "fetch", 0)
GetAutoDirect(p, k) == Begin(p, "GetAutoDirect", "getauto", {k}, "fetch", 0)
ExistDirect(p, k)   == Begin(p, "ExistDirect", "exist", {k}, "fetch", 0)

\* Batches: writes are grouped by node; reads consult the rendezvous first;
\* the fixed-size and the scatter-gather read repeat a minority of misses.
BatchPut(p, ks)       == Begin(p, "BatchPut", "put", ks, "fetch", 0)
BatchPutSg(p, ks)     == Begin(p, "BatchPutSg", "put", ks, "fetch", 0)
BatchRemove(p, ks)    == Begin(p, "BatchRemove", "remove", ks, "fetch", 0)
BatchGet(p, ks)       == Begin(p, "BatchGet", "get", ks, "claim", 1)
BatchGetAuto(p, ks)   == Begin(p, "BatchGetAuto", "getauto", ks, "claim", 0)
BatchGetAutoSg(p, ks) == Begin(p, "BatchGetAutoSg", "getauto", ks, "claim", 1)
BatchExist(p, ks)     == Begin(p, "BatchExist", "exist", ks, "claim", 0)

KindOf(p) == IF call[p].op = "exist" THEN "exist" ELSE "data"
Slot(p, k) == <<k, KindOf(p)>>
Having(p, r) == {k \in call[p].keys : call[p].role[k] = r}

\* A value has its own length: get wants exactly n bytes (the odd versions),
\* getauto any value up to its capacity (all of them).
Fits(op, v) == op = "get" => v % 2 = 1

\* Mutant: the waits come before the fetches.
WaitsFirst(p) ==
  IF Having(p, "claim") # {} THEN "claim"
  ELSE IF Having(p, "wait") # {} THEN "wait" ELSE "fetch"

(***************************************************************************)
(* The order of a batched read: all claims, then all fetches and what they *)
(* owe the rendezvous, then the waits.                                     *)
(***************************************************************************)
Phase(p) ==
  IF Having(p, "claim") # {} THEN "claim"
  ELSE IF Having(p, "fetch") \cup Having(p, "answered") # {} THEN "fetch" ELSE "wait"

\* A published value of another length, or a destination in device memory,
\* leaves the key to be fetched without the rendezvous.
Served(p, k, v) ==
  [call EXCEPT ![p].role[k] = "done", ![p].ver[k] = v,
               ![p].ok = IF v # 0 THEN @ \cup {k} ELSE @]

Claims(p, k) ==
  /\ call[p].pc = "run" /\ k \in Having(p, "claim")
  /\ LET s == Slot(p, k) IN
     \/ /\ rdv[s].st = "ready" /\ Fits(call[p].op, rdv[s].ver)
        /\ call' = Served(p, k, rdv[s].ver) /\ UNCHANGED rdv
     \/ /\ rdv[s].st = "free"
        /\ rdv' = [rdv EXCEPT ![s] = [st |-> "fetching", by |-> p, ver |-> 0]]
        /\ call' = [call EXCEPT ![p].role[k] = "fetch", ![p].owes = @ \cup {k}]
     \/ /\ rdv[s].st = "fetching"
        /\ call' = [call EXCEPT ![p].role[k] = "wait"] /\ UNCHANGED rdv
     \/ /\ KindOf(p) = "data"
        /\ call' = [call EXCEPT ![p].role[k] = "fetch"] /\ UNCHANGED rdv
  /\ UNCHANGED <<held, newest, cooling, calls, faults, workload, acked>>

(***************************************************************************)
(* One transport call per node and pass (CacheFrom, RangeInto, ExistMany,  *)
(* RemoveMany): the node's effect, and the status of each key of the       *)
(* group.  A group whose node is in cooldown is not sent.  Of a group, the *)
(* keys in lost end in kIOError, with or without the effect; "other"       *)
(* stands for kInvalid, kResourceExhausted, kNoCompatibleRail: not sent.   *)
(***************************************************************************)
Group(p, n) == {k \in Having(p, "fetch") : Route[k] = n}

Unsent(p, n) ==
  /\ call[p].pc = "run" /\ Phase(p) = "fetch"
  /\ n \notin call[p].sent /\ Group(p, n) # {}

Status(p, k) == IF call[p].op = "put" \/ held[k] # 0 THEN "ok" ELSE "notfound"

SendGroup(p, n) ==
  /\ Unsent(p, n) /\ n \notin cooling
  /\ \/ \E lost \in SUBSET Group(p, n), applied \in SUBSET Group(p, n) :
          /\ Group(p, n) \ lost \subseteq applied
          /\ lost # {} => faults < workload.faults
          /\ faults' = IF lost # {} THEN faults + 1 ELSE faults
          /\ newest' = IF call[p].op = "put" /\ applied # {} THEN newest + 1 ELSE newest
          /\ held' = [k \in CKeys |->
               CASE k \in applied /\ call[p].op = "put"    -> newest'
                 [] k \in applied /\ call[p].op = "remove" -> 0
                 [] OTHER                                  -> held[k]]
          /\ call' = [call EXCEPT
               ![p].sent = @ \cup {n},
               ![p].st = [k \in DOMAIN @ |-> IF k \in lost THEN "io"
                                             ELSE IF k \in Group(p, n) THEN Status(p, k)
                                             ELSE @[k]],
               ![p].ver = [k \in DOMAIN @ |-> IF k \notin Group(p, n) THEN @[k]
                                              ELSE IF call[p].op = "put" THEN held'[k] ELSE held[k]]]
     \/ /\ faults < workload.faults /\ faults' = faults + 1
        /\ call' = [call EXCEPT ![p].sent = @ \cup {n},
               ![p].st = [k \in DOMAIN @ |-> IF k \in Group(p, n) THEN "invalid" ELSE @[k]]]
        /\ UNCHANGED <<held, newest>>
  /\ UNCHANGED <<cooling, rdv, calls, workload, acked>>

SkipGroup(p, n) ==
  /\ Unsent(p, n) /\ n \in cooling
  /\ call' = [call EXCEPT ![p].role = [k \in DOMAIN @ |->
                            IF k \in Group(p, n) THEN "answered" ELSE @[k]]]
  /\ UNCHANGED <<held, newest, cooling, rdv, calls, faults, workload, acked>>

(***************************************************************************)
(* The group's statuses come back: any kOk or kNotFound marks the peer     *)
(* good, otherwise any kIOError marks it bad (which may or may not start a *)
(* cooldown); a write that went through supersedes the rendezvous entries  *)
(* of its key (InvalidateRendezvous), of both kinds.  The direct batches   *)
(* group, skip and send alike (Group, SkipGroup, SendGroup, Health); they  *)
(* differ in which answer counts, and that is all their operators say.     *)
(***************************************************************************)
BatchGetDirect(p, k)     == call[p].st[k] = "ok" /\ Fits("get", call[p].ver[k])
BatchGetAutoDirect(p, k) == call[p].st[k] = "ok" /\ Fits("getauto", call[p].ver[k])
BatchExistDirect(p, k)   == call[p].st[k] = "ok"

Accepted(p, k) ==
  CASE call[p].op = "put"     -> call[p].st[k] = "ok"
    [] call[p].op = "remove"  -> call[p].st[k] \in {"ok", "notfound"}
    [] call[p].op = "get"     -> BatchGetDirect(p, k)
    [] call[p].op = "getauto" -> BatchGetAutoDirect(p, k)
    [] call[p].op = "exist"   -> BatchExistDirect(p, k)

(* Mutant: a write does not supersede the rendezvous.                      *)
NotInvalidated(ks) == rdv

InvalidateRendezvous(ks) == [s \in CKeys \X Kinds |-> IF s[1] \in ks THEN Free ELSE rdv[s]]

Health(p, ks, n) ==
  LET sts == {call[p].st[k] : k \in ks} IN
  IF sts \cap {"ok", "notfound"} # {} THEN {cooling \ {n}}
  ELSE IF "io" \in sts THEN {cooling, cooling \cup {n}}
  ELSE {cooling}

FinishGroup(p, n) ==
  /\ call[p].pc = "run" /\ n \in call[p].sent /\ Group(p, n) # {}
  /\ LET g == Group(p, n)
         good == {k \in g : Accepted(p, k)}
         write == call[p].op \in {"put", "remove"} IN
     /\ \E c \in Health(p, g, n) : cooling' = c
     /\ rdv' = IF write THEN InvalidateRendezvous(good) ELSE rdv
     /\ acked' = [k \in CKeys |->
          LET least == IF call[p].op = "put" THEN call[p].ver[k] ELSE call[p].ver[k] + 1
          IN IF write /\ k \in good /\ least > acked[k] THEN least ELSE acked[k]]
     /\ call' = [call EXCEPT
          ![p].sent = @ \ {n},
          ![p].ok = @ \cup good,
          ![p].role = [k \in DOMAIN @ |-> IF k \in g THEN "answered" ELSE @[k]]]
  /\ UNCHANGED <<held, newest, calls, faults, workload>>

Answered(p) ==
  /\ call[p].pc = "run" /\ Phase(p) = "fetch"
  /\ Having(p, "fetch") = {} /\ Having(p, "answered") # {}

Minority(p) ==
  LET missed == Having(p, "answered") \ call[p].ok
  IN missed # {} /\ 2 * Cardinality(missed) <= Cardinality(Having(p, "answered"))

\* The miss retry of the pipelined reads: only a minority, and only once.
RetryMisses(p) ==
  /\ Answered(p) /\ call[p].retries > 0
  /\ Minority(p)
  /\ call' = [call EXCEPT ![p].retries = 0,
       ![p].role = [k \in DOMAIN @ |->
                      IF @[k] = "answered" /\ k \notin call[p].ok THEN "fetch" ELSE @[k]]]
  /\ UNCHANGED <<held, newest, cooling, rdv, calls, faults, workload, acked>>

(***************************************************************************)
(* After the fetches, each claimed key is published or aborted.  Existence *)
(* publishes an authoritative absence too.  A slot another write has       *)
(* superseded, or another process claimed since, is left alone.            *)
(***************************************************************************)
Publishable(p, k) ==
  IF call[p].op = "exist" THEN call[p].st[k] \in {"ok", "notfound"} ELSE k \in call[p].ok

Settle(p) ==
  /\ Answered(p) /\ ~(call[p].retries > 0 /\ Minority(p))
  /\ \E k \in Having(p, "answered") :
     LET s == Slot(p, k)
         mine == k \in call[p].owes /\ rdv[s].st = "fetching" /\ rdv[s].by = p IN
     /\ rdv' = IF ~mine THEN rdv
               ELSE IF Publishable(p, k)
                    THEN [rdv EXCEPT ![s] = [st |-> "ready", by |-> "none", ver |-> call[p].ver[k]]]
                    ELSE [rdv EXCEPT ![s] = Free]
     /\ call' = [call EXCEPT ![p].role[k] = "done", ![p].retries = 0, ![p].st[k] = "invalid",
                             ![p].owes = @ \ {k},
                             ![p].ver[k] = IF k \in call[p].ok THEN @ ELSE 0]
  /\ UNCHANGED <<held, newest, cooling, calls, faults, workload, acked>>

(***************************************************************************)
(* The waits come last.  A wait ends with the peer's publication, or with  *)
(* its bound or the slot's end, and then with a scalar read of the key.    *)
(***************************************************************************)
WaitTurn(p) == call[p].pc = "run" /\ Phase(p) = "wait"

WaitHit(p, k) ==
  /\ WaitTurn(p) /\ k \in Having(p, "wait")
  /\ LET s == Slot(p, k) IN
     /\ rdv[s].st = "ready" /\ Fits(call[p].op, rdv[s].ver)
     /\ call' = Served(p, k, rdv[s].ver)
  /\ UNCHANGED <<held, newest, cooling, rdv, calls, faults, workload, acked>>

WaitEnds(p, k) ==
  /\ WaitTurn(p) /\ k \in Having(p, "wait")
  /\ LET s == Slot(p, k) IN
     rdv[s].st = "free" \/ (rdv[s].st = "ready" /\ ~Fits(call[p].op, rdv[s].ver))
  /\ call' = [call EXCEPT ![p].role[k] = "fetch", ![p].retries = 0]
  /\ UNCHANGED <<held, newest, cooling, rdv, calls, faults, workload, acked>>

WaitTimesOut(p, k) ==
  /\ WaitTurn(p) /\ k \in Having(p, "wait") /\ faults < workload.faults
  /\ call' = [call EXCEPT ![p].role[k] = "fetch", ![p].retries = 0]
  /\ faults' = faults + 1
  /\ UNCHANGED <<held, newest, cooling, rdv, calls, workload, acked>>

Returns(p) ==
  /\ call[p].pc = "run" /\ \A k \in call[p].keys : call[p].role[k] = "done"
  /\ call' = [call EXCEPT ![p] = IdleCall]
  /\ UNCHANGED <<held, newest, cooling, rdv, calls, faults, workload, acked>>

\* ProbeLoop reaches a peer, or its cooldown runs out.
CooldownEnds(n) ==
  /\ n \in cooling /\ cooling' = cooling \ {n}
  /\ UNCHANGED <<held, newest, rdv, call, calls, faults, workload, acked>>

\* The rendezvous forgets: a published entry outlives its time to live or is
\* lapped in the arena.
Forget(s) ==
  /\ rdv[s].st = "ready" /\ rdv' = [rdv EXCEPT ![s] = Free]
  /\ UNCHANGED <<held, newest, cooling, call, calls, faults, workload, acked>>

Batches == SUBSET CKeys \ {{}}

Start(p) ==
  \/ \E k \in CKeys : \/ PutDirect(p, k) \/ RemoveDirect(p, k) \/ GetDirect(p, k)
                      \/ GetAutoDirect(p, k) \/ ExistDirect(p, k)
  \/ \E ks \in Batches : \/ BatchPut(p, ks) \/ BatchPutSg(p, ks) \/ BatchRemove(p, ks)
                         \/ BatchGet(p, ks) \/ BatchGetAuto(p, ks)
                         \/ BatchGetAutoSg(p, ks) \/ BatchExist(p, ks)

Proceed(p) ==
  \/ \E n \in CNodes : SendGroup(p, n) \/ SkipGroup(p, n) \/ FinishGroup(p, n)
  \/ \E k \in CKeys : Claims(p, k) \/ WaitHit(p, k) \/ WaitEnds(p, k)
  \/ RetryMisses(p) \/ Settle(p) \/ Returns(p)

KvClientNext ==
  \/ \E p \in Clients : Start(p) \/ Proceed(p)
  \/ \E p \in Clients, k \in CKeys : WaitTimesOut(p, k)
  \/ \E n \in CNodes : CooldownEnds(n)
  \/ \E s \in CKeys \X Kinds : Forget(s)

KvClientSpec == KvClientInit /\ [][KvClientNext]_clientVars

(***************************************************************************)
(* A read that begins after a Put or Remove of its key has been reported   *)
(* successful on this host does not return what that write replaced,       *)
(* although readers that began earlier may still be fetching, publishing   *)
(* and waiting for the old value.                                          *)
(***************************************************************************)
NoStaleRead ==
  \A p \in Clients :
    (call[p].pc = "run" /\ call[p].op \in {"get", "getauto", "exist"}) =>
      \A k \in call[p].keys :
        (call[p].role[k] = "done" /\ k \in call[p].ok) => call[p].ver[k] >= call[p].floor[k]

(***************************************************************************)
(* Processes that fetch for each other never wait for each other in a      *)
(* circle: while a call is under way, some call can take a step, although  *)
(* no wait has run into its bound.  (Every step brings its call nearer to  *)
(* its end, so calls that are never stuck return.)                         *)
(***************************************************************************)
CallsReturn ==
  (\E p \in Clients : call[p].pc # "idle") => \E p \in Clients : ENABLED Proceed(p)
=============================================================================
