------------------------------- MODULE KvNode -------------------------------
(***************************************************************************)
(* A cache node's request handlers over its RAM tier and its disk group     *)
(* (src/src/cache/kv_node_server.cc): PUT, GET and REMOVE.                 *)
(*                                                                         *)
(* A handler is a sequence of calls into RamTier, whose critical sections   *)
(* are the steps, and into DiskCacheGroup, whose calls publish or hide a    *)
(* key in one step (DiskSlabStore).                                        *)
(***************************************************************************)
EXTENDS RamTier

CONSTANTS
  WriteModes,  \* the values of ram_write_back_ a node may start with
  AckMode,     \* "ack" (RAM-ACK) or "commit" (disk-ACK)
  Promotion,   \* read paths that promote: subset of {"direct", "prepared"}
  PutLimit     \* put_busy_limit_; 0: no limit

ASSUME NodeAssumption ==
  /\ WriteModes \subseteq BOOLEAN /\ AckMode \in {"ack", "commit"}
  /\ Promotion \subseteq {"direct", "prepared"} /\ PutLimit \in Nat

VARIABLES
  req,       \* the request each thread serves, and where its handler is
  keyLock,   \* put_key_mu_: the PUTs (at most one) that hold a key's stripe
  inflight,  \* put_inflight_
  writeBack, \* ram_write_back_: PUT enters the RAM tier first
  gone       \* history: the answer of a REMOVE that no later PUT has undone

nodeVars == <<req, keyLock, inflight, gone>>
allVars == <<vars, nodeVars, writeBack>>

NoReq == [op |-> "none", at |-> "none", clean |-> FALSE]

NodeInit ==
  /\ Init
  /\ req = [t \in Threads |-> NoReq]
  /\ keyLock = [k \in Keys |-> {}]
  /\ inflight = 0 /\ writeBack \in WriteModes
  /\ gone = [k \in Keys |-> "no"]

tierRest == <<ram, work, disk, stop, hist>>
Serving(t, op, at) == req[t].op = op /\ req[t].at = at
Moves(t, at) == req' = [req EXCEPT ![t].at = at]
Finish(t) == req' = [req EXCEPT ![t] = NoReq] /\ thr' = [thr EXCEPT ![t] = Idle]

(* Bound: every request that may still create a generation has room for it. *)
ReqRoom ==
  LET pending == {t \in Threads : thr[t].gen = None /\
                    (req[t].op = "put" \/ req[t].at \in Promotion \cup {"reserving", "promoted"})}
  IN  Len(ram.comp) + Cardinality(pending) < MaxGen

(* A PUT of k starts: it overlaps every REMOVE of k under way.             *)
StartPut(t, k) ==
  /\ req' = [u \in Threads |->
               CASE u = t -> [op |-> "put", at |-> "lock", clean |-> FALSE]
                 [] u # t /\ req[u].op = "remove" /\ thr[u].key = k ->
                      [req[u] EXCEPT !.clean = FALSE]
                 [] OTHER -> req[u]]
  /\ gone' = [gone EXCEPT ![k] = "no"]

-----------------------------------------------------------------------------
(* PUT: ProcessRequestForKey(kCache) and CacheDirectForKey.                *)

TryBeginPut(t, k) ==
  /\ At(t, "idle") /\ ~stop /\ ReqRoom
  /\ PutLimit = 0 \/ inflight < PutLimit     \* a refused PUT answers kCacheFull
  /\ inflight' = IF PutLimit = 0 THEN 0 ELSE inflight + 1
  /\ StartPut(t, k)
  /\ Step(t, [pc |-> "handler", key |-> k])
  /\ UNCHANGED <<tierRest, keyLock>>

(* Mutant: PUTs of one key are not serialised.                             *)
PutWithoutLock(t) ==
  /\ Serving(t, "put", "lock")
  /\ Admit(t, thr[t].key, AckMode) /\ Moves(t, "tier")
  /\ UNCHANGED <<keyLock, inflight, gone>>

LockPutKey(t) ==
  /\ Serving(t, "put", "lock")
  /\ LET k == thr[t].key
     IN  /\ writeBack => keyLock[k] = {}
         /\ keyLock' = IF writeBack THEN [keyLock EXCEPT ![k] = {t}] ELSE keyLock
         /\ IF writeBack
            THEN Admit(t, k, AckMode) /\ Moves(t, "tier")
            ELSE /\ ram' = CompletePut(NewCompletion(ram), Len(ram.comp) + 1, FALSE)
                 /\ Step(t, [gen |-> Len(ram.comp) + 1])
                 /\ Moves(t, "disk") /\ UNCHANGED <<work, disk, stop, hist>>
  /\ UNCHANGED <<inflight, gone>>

EndPut(t, k) ==
  /\ inflight' = IF PutLimit = 0 THEN 0 ELSE inflight - 1
  /\ keyLock' = [keyLock EXCEPT ![k] = @ \ {t}]
  /\ Finish(t)

(* The tier has answered: only a capacity bypass goes to disk.             *)
PutTierAnswer(t) ==
  /\ Serving(t, "put", "tier") /\ At(t, "ret")
  /\ IF thr[t].res = "bypass"
     THEN Moves(t, "disk") /\ UNCHANGED <<thr, inflight, keyLock>>
     ELSE EndPut(t, thr[t].key)
  /\ UNCHANGED <<tierRest, gone>>

(* group_.Cache / CacheDirect: publish unless the key is there, or fail.    *)
PutDisk(t) ==
  /\ Serving(t, "put", "disk")
  /\ LET k == thr[t].key
     IN  /\ \/ disk' = [disk EXCEPT ![k] = IF @ = None THEN thr[t].gen ELSE @]
            \/ UNCHANGED disk
         /\ EndPut(t, k)
  /\ UNCHANGED <<ram, work, stop, hist, gone>>

-----------------------------------------------------------------------------
(* GET.  kRange (TCP) answers from RAM or disk; RangeDirectForKey then      *)
(* offers a whole value to PutDurable; PrepareReadForKey reserves the RAM   *)
(* slot under a disk lease before the read.                                *)

GetBegin(t, k) ==
  /\ At(t, "idle") /\ ~stop
  /\ GetPrep(t, k)
  /\ req' = [req EXCEPT ![t] = [op |-> "get", at |-> "ram", clean |-> FALSE]]
  /\ UNCHANGED <<keyLock, inflight, gone>>

(* RAM hit: done.  RAM miss: read, or lease, the value on disk.            *)
GetRamAnswer(t) ==
  /\ Serving(t, "get", "ram") /\ At(t, "ret")
  /\ LET v == disk[thr[t].key]
     IN  IF thr[t].res = "hit" \/ v = None
         THEN Finish(t)
         ELSE \E path \in {"plain"} \cup (IF ReqRoom THEN Promotion ELSE {}) :
                Moves(t, path) /\ Step(t, [pc |-> "handler", val |-> v])
  /\ UNCHANGED <<tierRest, keyLock, inflight, gone>>

(* The bytes are in hand: answer with them, and promote them.              *)
GetPromote(t) ==
  /\ At(t, "handler")
  /\ \/ Serving(t, "get", "plain") /\ Finish(t) /\ UNCHANGED tierRest
     \/ Serving(t, "get", "direct") /\ PutDurable(t, thr[t].key) /\ Moves(t, "promoted")
     \/ Serving(t, "get", "prepared") /\ ReserveDurable(t, thr[t].key) /\ Moves(t, "reserving")
  /\ UNCHANGED <<keyLock, inflight, gone>>

(* A prepared read that got no slot reads into staging instead, and its     *)
(* completion (FinishDiskRead) offers the value to PutDurable.             *)
GetFinish(t) ==
  /\ At(t, "ret")
  /\ \/ Serving(t, "get", "promoted") /\ Finish(t)
     \/ Serving(t, "get", "reserving") /\ thr[t].gen # None /\ Finish(t)
     \/ /\ Serving(t, "get", "reserving") /\ thr[t].gen = None
        /\ Step(t, [pc |-> "handler"])
        /\ Moves(t, "direct") \/ Moves(t, "plain")
  /\ UNCHANGED <<tierRest, keyLock, inflight, gone>>

-----------------------------------------------------------------------------
(* REMOVE: the RAM fence, then the disk.                                   *)

NoPutOf(k) == \A u \in Threads : req[u].op = "put" => thr[u].key # k

RemoveRam(t, k) ==
  /\ At(t, "idle") /\ ~stop
  /\ RemoveBegin(t, k)
  /\ req' = [req EXCEPT ![t] = [op |-> "remove", at |-> "ram", clean |-> NoPutOf(k)]]
  /\ UNCHANGED <<keyLock, inflight, gone>>

(* Mutant: a key found in RAM is not removed from disk.                    *)
RemoveRamOnly(t) ==
  /\ Serving(t, "remove", "ram") /\ At(t, "ret")
  /\ LET k == thr[t].key
     IN  /\ disk' = IF thr[t].res = "had" THEN disk ELSE [disk EXCEPT ![k] = None]
         /\ gone' = IF req[t].clean /\ thr[t].res = "had" THEN [gone EXCEPT ![k] = "ok"] ELSE gone
  /\ Finish(t)
  /\ UNCHANGED <<ram, work, stop, hist, keyLock, inflight>>

RemoveDisk(t) ==
  /\ Serving(t, "remove", "ram") /\ At(t, "ret")
  /\ LET k == thr[t].key
         answer == IF disk[k] # None \/ thr[t].res = "had" THEN "ok" ELSE "notfound"
     IN  /\ disk' = [disk EXCEPT ![k] = None]
         /\ gone' = IF req[t].clean THEN [gone EXCEPT ![k] = answer] ELSE gone
  /\ Finish(t)
  /\ UNCHANGED <<ram, work, stop, hist, keyLock, inflight>>

-----------------------------------------------------------------------------
Begin(t) == \E k \in Keys : TryBeginPut(t, k) \/ GetBegin(t, k) \/ RemoveRam(t, k)

Handle(t) ==
  \/ LockPutKey(t) \/ PutTierAnswer(t) \/ PutDisk(t)
  \/ GetRamAnswer(t) \/ GetPromote(t) \/ GetFinish(t) \/ RemoveDisk(t)
  \/ Proceed(t) /\ UNCHANGED nodeVars

Background ==
  /\ \E w \in Workers : Flush(w)
     \/ ReclaimTick \/ Destroy \/ DiskForget \/ Terminated
  /\ UNCHANGED nodeVars

NodeNext ==
  /\ Background \/ \E t \in Threads : Begin(t) \/ Handle(t)
  /\ UNCHANGED writeBack

(* A handler that can go on does; the stripe mutex does not starve a waiter. *)
NodeFairness ==
  /\ \A t \in Threads : WF_allVars(Handle(t) /\ UNCHANGED writeBack)
                        /\ SF_allVars(LockPutKey(t) /\ UNCHANGED writeBack)
  /\ \A w \in Workers : WF_allVars(Flush(w) /\ UNCHANGED <<nodeVars, writeBack>>)

NodeSpec == NodeInit /\ [][NodeNext]_allVars /\ NodeFairness

-----------------------------------------------------------------------------
(* Properties.                                                             *)

NodeTypeOK ==
  /\ TypeOK
  /\ inflight \in 0 .. PutLimit /\ gone \in [Keys -> {"no", "ok", "notfound"}]
  /\ keyLock \in [Keys -> SUBSET Threads] /\ writeBack \in BOOLEAN

Holds(k) == Visible(ram, k) \/ disk[k] # None

(* After a REMOVE answered kOk, with no PUT of the key overlapping it or    *)
(* started since, neither tier gives the key to a reader: no deferred       *)
(* flush, no promotion and no late completion brings it back (kRemove).    *)
OkRemoveIsFinal == \A k \in Keys : gone[k] = "ok" => ~Holds(k)

(* The two tiers never offer different bytes of one key as durable: an      *)
(* idempotent kOk of the store does not certify other bytes in RAM.        *)
TiersAgree ==
  \A k \in Keys : Visible(ram, k) /\ ram.index[k].durable /\ disk[k] # None =>
                    ram.index[k].val = disk[k]

(* put_inflight_ counts exactly the PUT handlers between TryBeginPut and    *)
(* EndPut, and a stripe is held by at most one of them, of its own key.      *)
AdmissionIsExact ==
  LET puts == {t \in Threads : req[t].op = "put"}
  IN  /\ PutLimit > 0 => inflight = Cardinality(puts)
      /\ \A k \in Keys : Cardinality(keyLock[k]) <= 1 /\ \A t \in keyLock[k] : t \in puts /\ thr[t].key = k

(* What the node believes of its tiers and of its own PUTs is so.           *)
NodeIsConsistent == NodeTypeOK /\ TiersAgree /\ AdmissionIsExact

(* Every request is answered: no handler waits forever on a completion, a   *)
(* stripe, a fence or a pin.                                               *)
RequestsAnswered == \A t \in Threads : (req[t].op # "none") ~> (req[t].op = "none")
=============================================================================
