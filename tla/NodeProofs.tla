----------------------------- MODULE NodeProofs -----------------------------
(***************************************************************************)
(* Proofs about how clients find a cache node and talk to it.  MdsLease:   *)
(* for any number of MDS endpoints, requests and leases and any timing     *)
(* with CallSpan < Ttl, the key of a node whose request was answered       *)
(* outlives the answer.  TcpTransport and TcpServer, for any callers,      *)
(* sockets, limits, faults and stops: a caller reads no answer but its own,*)
(* and when the server's Stop has returned no connection is left.          *)
(***************************************************************************)
EXTENDS MdsLease, TcpTransport, FiniteSetTheorems, TLAPS

-----------------------------------------------------------------------------
(* The lease of the member key.                                             *)

EtcdStates == [owner : Leases \cup {NoLease}, left : [Leases -> 0..Ttl]]
LocalStates == [Mds -> [lease : Leases \cup {NoLease}, idle : Nat]]
Handlers == [pc : {"idle", "keepalive", "put", "grant", "put2"},
             mds : Mds \cup {Endpoints[1]}, lease : Leases \cup {NoLease}, age : 0..CallSpan]

LeaseType ==
  /\ etcd \in EtcdStates /\ local \in LocalStates /\ upsert \in [Upserts -> Handlers]
  /\ sinceOk \in Nat

\* A handler about to Put refreshed or was granted its lease `age' ago.
PutsInTime ==
  \A c \in Upserts :
    upsert[c].pc \in {"put", "put2"} =>
      upsert[c].lease \in Leases /\ etcd.left[upsert[c].lease] + upsert[c].age >= Ttl

\* The key's lease has what the last answer promised, less the time since.
KeyLasts ==
  sinceOk + CallSpan < Ttl =>
    etcd.owner \in Leases /\ etcd.left[etcd.owner] + CallSpan + sinceOk >= Ttl

LeaseInv == LeaseType /\ PutsInTime /\ KeyLasts

LEMMA MinOfTwo ==
  ASSUME NEW a \in Int, NEW b \in Int
  PROVE  Min({a, b}) \in {a, b} /\ Min({a, b}) <= a /\ Min({a, b}) <= b
  <1>1. \E x \in {a, b} : \A y \in {a, b} : x <= y
    BY SMTT(60), \A y \in {a, b} : y = a \/ y = b
  <1> QED BY Zenon, <1>1 DEF Min

LEMMA LeaseInit == MdsLeaseInit => LeaseInv
  <1> SUFFICES ASSUME MdsLeaseInit PROVE LeaseInv
    BY Zenon
  <1> USE MdsLeaseAssumption DEF MdsLeaseInit
  <1>1. LeaseType
    BY SMTT(60) DEF LeaseType, EtcdStates, LocalStates, Handlers, IdleUpsert, NoLease
  <1>2. PutsInTime /\ KeyLasts
    BY DEF PutsInTime, KeyLasts, IdleUpsert
  <1> QED BY Zenon, <1>1, <1>2 DEF LeaseInv

\* A lease that is no longer referred to does not matter to the key.
LEMMA OnlyReferredEffect ==
  ASSUME NEW e \in EtcdStates
  PROVE  /\ OnlyReferred(e) \in EtcdStates /\ OnlyReferred(e).owner = e.owner
         /\ \A l \in Leases :
              (l = e.owner \/ \E c \in Upserts : upsert'[c].lease = l) =>
                OnlyReferred(e).left[l] = e.left[l]
  <1> USE MdsLeaseAssumption
  <1> DEFINE left == [l \in Leases |-> IF l \in Referred(e.owner, local', upsert')
                                       THEN e.left[l] ELSE 0]
  <1>1. OnlyReferred(e) = [e EXCEPT !.left = left]
    BY Zenon DEF OnlyReferred
  <1>2. left \in [Leases -> 0..Ttl]
    BY DEF EtcdStates
  <1>3. ASSUME NEW l \in Leases, l = e.owner \/ \E c \in Upserts : upsert'[c].lease = l
        PROVE  left[l] = e.left[l]
    BY Zenon, <1>3 DEF Referred
  <1> HIDE DEF left
  <1> QED BY Zenon, <1>1, <1>2, <1>3 DEF EtcdStates

\* One handler ends or makes an etcd call that leaves etcd with e, where no
\* lease has less time than before and the key is under its old lease or
\* one that a Put may use.
Survives(e) == e.owner \in Leases /\ e.left[e.owner] + CallSpan >= Ttl

Kept(e) ==
  /\ e \in EtcdStates /\ \A l \in Leases : e.left[l] >= etcd.left[l]
  /\ e.owner = etcd.owner \/ Survives(e)

LEMMA HandlerStep ==
  ASSUME LeaseInv, NEW c \in Upserts, NEW u \in Handlers, NEW e, Kept(e),
         upsert' = [upsert EXCEPT ![c] = u],
         u.pc \in {"put", "put2"} => u.lease \in Leases /\ e.left[u.lease] + u.age >= Ttl,
         etcd' = e \/ etcd' = OnlyReferred(e),
         local' \in LocalStates,
         sinceOk' = sinceOk \/ (sinceOk' = 0 /\ Survives(e))
  PROVE  LeaseInv'
  <1> USE MdsLeaseAssumption DEF LeaseInv
  <1>1. /\ etcd' \in EtcdStates /\ etcd'.owner = e.owner
        /\ \A l \in Leases : (l = e.owner \/ \E d \in Upserts : upsert'[d].lease = l) =>
             etcd'.left[l] = e.left[l]
    BY Zenon, OnlyReferredEffect DEF Kept
  <1>2. /\ upsert'[c] = u /\ \A d \in Upserts \ {c} : upsert'[d] = upsert[d]
        /\ upsert' \in [Upserts -> Handlers]
    BY Zenon DEF LeaseType
  <1>3. LeaseType'
    BY SMTT(60), <1>1, <1>2 DEF LeaseType
  <1>4. ASSUME NEW d \in Upserts, upsert'[d].pc \in {"put", "put2"}
        PROVE  /\ upsert'[d].lease \in Leases
               /\ etcd'.left[upsert'[d].lease] + upsert'[d].age >= Ttl
    <2>1. CASE d = c
      BY Zenon, <1>1, <1>2, <1>4, <2>1
    <2>2. CASE d # c
      <3>1. PICK l \in Leases : l = upsert[d].lease /\ etcd.left[l] + upsert[d].age >= Ttl
        BY Zenon, <1>2, <1>4, <2>2 DEF PutsInTime
      <3>2. upsert'[d].lease = l /\ etcd'.left[l] = e.left[l] /\ e.left[l] >= etcd.left[l]
        BY Zenon, <1>1, <1>2, <2>2, <3>1 DEF Kept
      <3>3. PICK x \in Nat, y \in Nat, a \in Nat : x = etcd.left[l] /\ y = e.left[l] /\ a = upsert[d].age
        <4>1. upsert[d] \in Handlers /\ e \in EtcdStates /\ etcd \in EtcdStates
          BY Zenon DEF LeaseType, Kept
        <4> QED BY SMTT(60), <4>1 DEF EtcdStates, Handlers
      <3>4. y >= x /\ x + a >= Ttl /\ Ttl \in Nat
        BY Zenon, <3>1, <3>2, <3>3
      <3>5. y + a >= Ttl
        BY SMTT(60), <3>4
      <3> QED BY Zenon, <1>2, <2>2, <3>2, <3>3, <3>5
    <2> QED BY Zenon, <2>1, <2>2
  <1>5. KeyLasts'
    <2>1. \A l \in Leases : etcd.left[l] \in Nat /\ e.left[l] \in Nat
      BY SMTT(60) DEF Kept, LeaseType, EtcdStates
    <2>2. sinceOk \in Nat
      BY Zenon DEF LeaseType
    <2>3. CASE Survives(e)
      <3>1. etcd'.owner \in Leases /\ etcd'.left[etcd'.owner] = e.left[e.owner]
        <4>1. PICK o \in Leases : o = e.owner
          BY Zenon, <2>3 DEF Survives
        <4>2. etcd'.owner = o /\ etcd'.left[o] = e.left[o]
          BY Zenon, <1>1, <4>1
        <4> QED BY Zenon, <4>1, <4>2
      <3>2. PICK x \in Nat : x = e.left[e.owner] /\ x + CallSpan >= Ttl
        BY Zenon, <2>1, <2>3 DEF Survives
      <3>3. x + CallSpan + sinceOk' >= Ttl
        BY SMTT(60), <2>2, <3>2
      <3> QED BY Zenon, <3>1, <3>2, <3>3 DEF KeyLasts
    <2>4. CASE ~Survives(e)
      <3>1. e.owner = etcd.owner /\ sinceOk' = sinceOk
        BY Zenon, <2>4 DEF Kept
      <3>2. SUFFICES ASSUME sinceOk + CallSpan < Ttl
                     PROVE  /\ etcd.owner \in Leases
                            /\ etcd'.left[etcd.owner] + CallSpan + sinceOk >= Ttl
        BY Zenon, <1>1, <3>1 DEF KeyLasts
      <3>3. etcd.owner \in Leases /\ etcd.left[etcd.owner] + CallSpan + sinceOk >= Ttl
        BY Zenon, <3>2 DEF KeyLasts
      <3>4. etcd'.left[etcd.owner] >= etcd.left[etcd.owner] /\ etcd'.left[etcd.owner] \in Nat
        BY Zenon, <1>1, <2>1, <3>1, <3>3 DEF Kept
      <3>5. PICK x \in Nat, y \in Nat : x = etcd.left[etcd.owner] /\ y = etcd'.left[etcd.owner]
        BY Zenon, <2>1, <3>3, <3>4
      <3>6. y >= x /\ x + CallSpan + sinceOk >= Ttl
        BY Zenon, <3>3, <3>4, <3>5
      <3>7. y + CallSpan + sinceOk >= Ttl
        BY <2>2, <3>6
      <3> QED BY Zenon, <3>3, <3>5, <3>7
    <2> QED BY Zenon, <2>3, <2>4
  <1> QED BY Zenon, <1>3, <1>4, <1>5 DEF PutsInTime

\* The etcd calls keep the key's lease: a refresh, a grant, a Put in time.
LEMMA RefreshKeeps ==
  ASSUME LeaseInv, NEW l \in Leases, NEW e, e = [etcd EXCEPT !.left[l] = Ttl]
  PROVE  Kept(e) /\ e.left[l] = Ttl
  <1> USE MdsLeaseAssumption
  <1>1. etcd \in EtcdStates
    BY Zenon DEF LeaseInv, LeaseType
  <1>2. Ttl \in 0..Ttl /\ \A m \in Leases : etcd.left[m] \in 0..Ttl
    BY <1>1 DEF EtcdStates
  <1>3. e \in EtcdStates /\ e.owner = etcd.owner /\ e.left[l] = Ttl
    BY Zenon, <1>1, <1>2 DEF EtcdStates
  <1>4. \A m \in Leases \ {l} : e.left[m] = etcd.left[m]
    BY Zenon, <1>1 DEF EtcdStates
  <1>5. \A m \in Leases : e.left[m] >= etcd.left[m]
    BY <1>2, <1>3, <1>4
  <1> QED BY Zenon, <1>3, <1>5 DEF Kept

LEMMA NothingKeeps ==
  ASSUME LeaseInv
  PROVE  Kept(etcd)
  <1>1. etcd \in EtcdStates
    BY Zenon DEF LeaseInv, LeaseType
  <1>2. \A m \in Leases : etcd.left[m] >= etcd.left[m]
    BY <1>1, MdsLeaseAssumption DEF EtcdStates
  <1> QED BY Zenon, <1>1, <1>2 DEF Kept

LEMMA KeepAliveKeeps ==
  ASSUME LeaseInv, NEW l \in Leases \cup {NoLease}, LeaseKeepAlive(l)
  PROVE  Kept(etcd') /\ (Alive(l) => l \in Leases /\ etcd'.left[l] = Ttl)
  <1>1. CASE Alive(l)
    BY Zenon, <1>1, RefreshKeeps DEF LeaseKeepAlive, Alive
  <1>2. CASE ~Alive(l)
    BY Zenon, <1>2, NothingKeeps DEF LeaseKeepAlive
  <1> QED BY Zenon, <1>1, <1>2

LEMMA PutKeeps ==
  ASSUME LeaseInv, NEW c \in Upserts, upsert[c].pc \in {"put", "put2"}, EtcdPut(upsert[c].lease)
  PROVE  \E e : /\ Kept(e) /\ etcd' = OnlyReferred(e)
                /\ Alive(upsert[c].lease) => Survives(e)
  <1> USE MdsLeaseAssumption
  <1>1. etcd \in EtcdStates /\ upsert[c] \in Handlers
    BY Zenon DEF LeaseInv, LeaseType
  <1>2. PICK l \in Leases : l = upsert[c].lease /\ etcd.left[l] + upsert[c].age >= Ttl
    BY Zenon DEF LeaseInv, PutsInTime
  <1>3. CASE Alive(l)
    <2>1. PICK e : e = [etcd EXCEPT !.owner = l]
      BY Zenon
    <2>2. e \in EtcdStates /\ e.owner = l /\ e.left = etcd.left
      BY Zenon, <1>1, <2>1 DEF EtcdStates
    <2>3. PICK x \in Nat, a \in 0..CallSpan : x = etcd.left[l] /\ a = upsert[c].age
      <3>1. etcd.left[l] \in Nat
        BY <1>1 DEF EtcdStates
      <3>2. upsert[c].age \in 0..CallSpan
        BY Zenon, <1>1 DEF Handlers
      <3> QED BY Zenon, <3>1, <3>2
    <2>4. x + CallSpan >= Ttl
      <3>1. x + a >= Ttl
        BY Zenon, <1>2, <2>3
      <3> QED BY SMTT(60), <3>1
    <2>5. Survives(e)
      BY Zenon, <2>2, <2>3, <2>4 DEF Survives
    <2>6. \A m \in Leases : e.left[m] >= etcd.left[m]
      BY Zenon, <2>2, NothingKeeps DEF Kept
    <2>7. Kept(e)
      BY Zenon, <2>2, <2>5, <2>6 DEF Kept
    <2>8. etcd' = OnlyReferred(e)
      BY Zenon, <1>2, <1>3, <2>1 DEF EtcdPut
    <2> QED BY Zenon, <2>5, <2>7, <2>8
  <1>4. CASE ~Alive(l)
    BY Zenon, <1>2, <1>4, NothingKeeps DEF EtcdPut
  <1> QED BY Zenon, <1>3, <1>4

\* What a handler is after Go and after Finish.
LEMMA GoEffect ==
  ASSUME LeaseInv, NEW c \in Upserts, NEW pc \in {"grant", "put", "put2"},
         NEW l \in Leases \cup {NoLease}, Go(c, pc, l)
  PROVE  \E u \in Handlers :
           /\ upsert' = [upsert EXCEPT ![c] = u] /\ u.pc = pc /\ u.lease = l /\ u.age = 0
           /\ local' \in LocalStates /\ sinceOk' = sinceOk
  <1>1. upsert[c] \in Handlers /\ upsert \in [Upserts -> Handlers] /\ local \in LocalStates
    BY Zenon DEF LeaseInv, LeaseType
  <1>2. PICK u : u = [upsert[c] EXCEPT !.pc = pc, !.lease = l, !.age = 0]
    BY Zenon
  <1>3. u \in Handlers /\ u.pc = pc /\ u.lease = l /\ u.age = 0
    <2>1. 0 \in 0..CallSpan
      BY MdsLeaseAssumption
    <2> QED BY Zenon, <1>1, <1>2, <2>1 DEF Handlers
  <1>4. upsert' = [upsert EXCEPT ![c] = u] /\ UNCHANGED <<local, sinceOk>>
    BY Zenon, <1>1, <1>2 DEF Go
  <1> QED BY Zenon, <1>1, <1>3, <1>4

LEMMA FinishEffect ==
  ASSUME NEW c \in Upserts, NEW good \in BOOLEAN, Finish(c, good)
  PROVE  \E u \in Handlers :
           /\ upsert' = [upsert EXCEPT ![c] = u] /\ u.pc = "idle"
           /\ sinceOk' = sinceOk \/ (good /\ sinceOk' = 0)
  <1>1. IdleUpsert \in Handlers /\ IdleUpsert.pc = "idle"
    BY MdsLeaseAssumption DEF IdleUpsert, Handlers
  <1>2. upsert' = [upsert EXCEPT ![c] = IdleUpsert]
    BY Zenon DEF Finish
  <1>3. sinceOk' = sinceOk \/ (good /\ sinceOk' = 0)
    <2>1. CASE reg.req # c
      BY Zenon, <2>1 DEF Finish, AnswerTo
    <2>2. CASE reg.req = c
      <3>1. sinceOk' = IF good THEN 0 ELSE sinceOk
        BY Zenon, <2>2 DEF Finish, AnswerTo
      <3> QED BY Zenon, <3>1
    <2> QED BY Zenon, <2>1, <2>2
  <1> QED BY Zenon, <1>1, <1>2, <1>3

LEMMA FastPathStep ==
  ASSUME LeaseInv, NEW c \in Upserts, FastPath(c)
  PROVE  LeaseInv'
  <1> USE MdsLeaseAssumption
  <1>1. upsert[c].lease \in Leases \cup {NoLease} /\ local \in LocalStates
    BY Zenon DEF LeaseInv, LeaseType, Handlers
  <1>2. CASE /\ upsert[c].pc = "keepalive" /\ Alive(upsert[c].lease)
             /\ Go(c, "put", upsert[c].lease) /\ LeaseKeepAlive(upsert[c].lease)
    <2>1. Kept(etcd') /\ upsert[c].lease \in Leases /\ etcd'.left[upsert[c].lease] = Ttl
      BY Zenon, <1>1, <1>2, KeepAliveKeeps
    <2>2. PICK u \in Handlers :
            /\ upsert' = [upsert EXCEPT ![c] = u] /\ u.pc = "put" /\ u.lease = upsert[c].lease
            /\ u.age = 0 /\ local' \in LocalStates /\ sinceOk' = sinceOk
      <3>1. Go(c, "put", upsert[c].lease)
        BY Zenon, <1>2
      <3> QED BY ONLY SMTT(60), LeaseInv, <1>1, <3>1, GoEffect
    <2>3. u.lease \in Leases /\ etcd'.left[u.lease] + u.age >= Ttl
      BY <2>1, <2>2
    <2> QED BY Zenon, <2>1, <2>2, <2>3, HandlerStep
  <1>3. CASE /\ upsert[c].pc = "put" /\ Alive(upsert[c].lease)
             /\ Finish(c, TRUE) /\ UNCHANGED local /\ EtcdPut(upsert[c].lease)
    <2>1. PICK e : Kept(e) /\ etcd' = OnlyReferred(e) /\ Survives(e)
      BY Zenon, <1>3, PutKeeps
    <2>2. PICK u \in Handlers : /\ upsert' = [upsert EXCEPT ![c] = u] /\ u.pc = "idle"
                                /\ sinceOk' = sinceOk \/ sinceOk' = 0
      BY Zenon, <1>3, FinishEffect
    <2> QED BY ZenonT(60), <1>1, <1>3, <2>1, <2>2, HandlerStep
  <1>4. CASE Go(c, "grant", NoLease) /\ NoEtcdEffect
    <2>1. PICK u \in Handlers :
            /\ upsert' = [upsert EXCEPT ![c] = u] /\ u.pc = "grant"
            /\ local' \in LocalStates /\ sinceOk' = sinceOk
      <3>1. Go(c, "grant", NoLease) /\ NoLease \in Leases \cup {NoLease}
        BY Zenon, <1>4
      <3> QED BY ONLY LeaseInv, <3>1, GoEffect
    <2> QED BY Zenon, <1>4, <2>1, NothingKeeps, HandlerStep DEF NoEtcdEffect
  <1> QED BY Zenon, <1>2, <1>3, <1>4 DEF FastPath

LEMMA SlowPathStep ==
  ASSUME LeaseInv, NEW c \in Upserts, SlowPath(c)
  PROVE  LeaseInv'
  <1> USE MdsLeaseAssumption
  <1>1. local \in LocalStates /\ upsert[c] \in Handlers
    BY Zenon DEF LeaseInv, LeaseType
  <1>2. CASE /\ upsert[c].pc = "grant" /\ SpareLeases # {}
             /\ Go(c, "put2", FreshLease) /\ LeaseGrant(FreshLease)
    <2>1. PICK l \in Leases : l = FreshLease
      BY Zenon, <1>2 DEF FreshLease, SpareLeases
    <2>2. PICK e : e = [etcd EXCEPT !.left[l] = Ttl]
      BY Zenon
    <2>3. Kept(e) /\ e.left[l] = Ttl /\ etcd' = OnlyReferred(e)
      BY Zenon, <1>2, <2>1, <2>2, RefreshKeeps DEF LeaseGrant
    <2>4. PICK u \in Handlers :
            /\ upsert' = [upsert EXCEPT ![c] = u] /\ u.pc = "put2" /\ u.lease = l
            /\ u.age = 0 /\ local' \in LocalStates /\ sinceOk' = sinceOk
      BY SMTT(60), <1>2, <2>1, GoEffect
    <2>5. u.lease \in Leases /\ e.left[u.lease] + u.age >= Ttl
      BY <2>3, <2>4
    <2> QED BY Zenon, <2>3, <2>4, <2>5, HandlerStep
  <1>3. CASE /\ upsert[c].pc = "put2" /\ Alive(upsert[c].lease)
             /\ Finish(c, TRUE)
             /\ local' = [local EXCEPT ![upsert[c].mds] = [lease |-> upsert[c].lease, idle |-> 0]]
             /\ EtcdPut(upsert[c].lease)
    <2>1. PICK e : Kept(e) /\ etcd' = OnlyReferred(e) /\ Survives(e)
      BY Zenon, <1>3, PutKeeps
    <2>2. PICK u \in Handlers : /\ upsert' = [upsert EXCEPT ![c] = u] /\ u.pc = "idle"
                                /\ sinceOk' = sinceOk \/ sinceOk' = 0
      BY Zenon, <1>3, FinishEffect
    <2>3. local' \in LocalStates
      BY Zenon, <1>1, <1>3 DEF LocalStates, Handlers
    <2> QED BY ZenonT(60), <2>1, <2>2, <2>3, HandlerStep
  <1> QED BY Zenon, <1>2, <1>3 DEF SlowPath

LEMMA EtcdFailsStep ==
  ASSUME LeaseInv, NEW c \in Upserts, EtcdFails(c)
  PROVE  LeaseInv'
  <1>1. upsert[c].lease \in Leases \cup {NoLease} /\ local \in LocalStates
    BY Zenon DEF LeaseInv, LeaseType, Handlers
  <1>2. PICK u \in Handlers :
          /\ upsert' = [upsert EXCEPT ![c] = u] /\ u.pc \notin {"put", "put2"}
          /\ local' \in LocalStates /\ sinceOk' = sinceOk
    <2>1. CASE Go(c, "grant", NoLease)
      BY <2>1, GoEffect
    <2>2. CASE Finish(c, FALSE) /\ UNCHANGED local
      BY ZenonT(60), <1>1, <2>2, FinishEffect
    <2> QED BY Zenon, <2>1, <2>2 DEF EtcdFails
  <1>3. PICK e : Kept(e) /\ (etcd' = e \/ etcd' = OnlyReferred(e))
    <2>1. CASE NoEtcdEffect
      BY Zenon, <2>1, NothingKeeps DEF NoEtcdEffect
    <2>2. CASE upsert[c].pc \in {"put", "put2"} /\ EtcdPut(upsert[c].lease)
      BY Zenon, <2>2, PutKeeps
    <2>3. CASE LeaseKeepAlive(upsert[c].lease)
      BY Zenon, <1>1, <2>3, KeepAliveKeeps
    <2> QED BY Zenon, <2>1, <2>2, <2>3 DEF EtcdFails
  <1> QED BY Zenon, <1>2, <1>3, HandlerStep


\* A step of the registrar alone.
LEMMA RegistrarStep ==
  ASSUME LeaseInv, UNCHANGED <<etcd, local, upsert, sinceOk>>
  PROVE  LeaseInv'
  BY Zenon DEF LeaseInv, LeaseType, PutsInTime, KeyLasts

LEMMA SendOnceStep ==
  ASSUME LeaseInv, NEW c \in Upserts, SendOnce(c)
  PROVE  LeaseInv'
  <1>1. local \in LocalStates /\ upsert \in [Upserts -> Handlers]
    BY Zenon DEF LeaseInv, LeaseType
  <1>2. PICK ep \in 1..Len(Endpoints) : BeginUpsert(c, Endpoints[ep])
    BY Zenon DEF SendOnce
  <1>3. PICK m \in Mds : m = Endpoints[ep]
    BY Zenon DEF Mds
  <1>4. PICK e \in {local[m], PruneLocked(local[m])} :
          /\ local' = [local EXCEPT ![m] = [e EXCEPT !.idle = 0]]
          /\ upsert' = [upsert EXCEPT ![c] =
               [pc |-> IF e.lease = NoLease THEN "grant" ELSE "keepalive",
                mds |-> m, lease |-> e.lease, age |-> 0]]
    BY Zenon, <1>2, <1>3 DEF BeginUpsert
  <1>5. e \in [lease : Leases \cup {NoLease}, idle : Nat]
    BY Zenon, <1>1, <1>4 DEF LocalStates, PruneLocked
  <1>6. local' \in LocalStates
    BY Zenon, <1>1, <1>4, <1>5 DEF LocalStates
  <1>7. PICK u : u = [pc |-> IF e.lease = NoLease THEN "grant" ELSE "keepalive",
                      mds |-> m, lease |-> e.lease, age |-> 0]
    BY Zenon
  <1>8. u \in Handlers /\ u.pc \notin {"put", "put2"}
    <2>1. 0 \in 0..CallSpan
      BY MdsLeaseAssumption
    <2> QED BY Zenon, <1>5, <1>7, <2>1 DEF Handlers
  <1>9. UNCHANGED <<etcd, sinceOk>>
    BY Zenon DEF SendOnce
  <1> QED BY Zenon, <1>4, <1>6, <1>7, <1>8, <1>9, NothingKeeps, HandlerStep

LEMMA MdsRestartStep ==
  ASSUME LeaseInv, NEW m \in Mds, MdsRestart(m)
  PROVE  LeaseInv'
  <1> USE MdsLeaseAssumption
  <1>1. /\ local \in LocalStates /\ upsert \in [Upserts -> Handlers] /\ etcd \in EtcdStates
        /\ sinceOk \in Nat
    BY Zenon DEF LeaseInv, LeaseType
  <1>2. /\ local' = [local EXCEPT ![m] = [lease |-> NoLease, idle |-> 0]]
        /\ upsert' = [c \in Upserts |-> IF upsert[c].mds = m THEN IdleUpsert ELSE upsert[c]]
        /\ etcd' = OnlyReferred(etcd) /\ sinceOk' = sinceOk
    BY ZenonT(60) DEF MdsRestart, NoEtcdEffect
  <1>3. IdleUpsert \in Handlers /\ IdleUpsert.pc = "idle"
    BY SMTT(60) DEF IdleUpsert, Handlers
  <1>4. local' \in LocalStates /\ upsert' \in [Upserts -> Handlers]
    BY Zenon, <1>1, <1>2, <1>3 DEF LocalStates
  <1>5. /\ etcd' \in EtcdStates /\ etcd'.owner = etcd.owner
        /\ \A l \in Leases : (l = etcd.owner \/ \E c \in Upserts : upsert'[c].lease = l) =>
             etcd'.left[l] = etcd.left[l]
    BY Zenon, <1>1, <1>2, OnlyReferredEffect
  <1>6. PutsInTime'
    BY Zenon, <1>2, <1>3, <1>5 DEF LeaseInv, PutsInTime
  <1>7. KeyLasts'
    BY ZenonT(60), <1>2, <1>5 DEF LeaseInv, KeyLasts
  <1> QED BY Zenon, <1>1, <1>2, <1>4, <1>5, <1>6, <1>7 DEF LeaseInv, LeaseType

LEMMA MdsTickStep ==
  ASSUME LeaseInv, MdsTick
  PROVE  LeaseInv'
  <1> USE MdsLeaseAssumption
  <1>1. /\ local \in LocalStates /\ upsert \in [Upserts -> Handlers] /\ etcd \in EtcdStates
        /\ sinceOk \in Nat
    BY Zenon DEF LeaseInv, LeaseType
  <1>2. PICK left : left = [l \in Leases |-> Less(etcd.left[l])]
    BY Zenon
  <1>3. /\ left \in [Leases -> 0..Ttl]
        /\ \A l \in Leases : left[l] + 1 >= etcd.left[l]
    <2>1. etcd.left \in [Leases -> 0..Ttl] /\ Ttl \in Nat
      BY Zenon, <1>1 DEF EtcdStates, MdsLeaseAssumption
    <2>2. \A n \in 0..Ttl : Less(n) \in 0..Ttl /\ Less(n) + 1 >= n
      BY <2>1 DEF Less
    <2> QED BY Zenon, <1>2, <2>1, <2>2
  <1>4. PICK e : e = [owner |-> IF MemberListed /\ left[etcd.owner] > 0
                                THEN etcd.owner ELSE NoLease, left |-> left]
    BY Zenon
  <1>5. /\ e \in EtcdStates /\ e.left = left
        /\ MemberListed /\ left[etcd.owner] > 0 => e.owner = etcd.owner
    BY Zenon, <1>1, <1>3, <1>4 DEF EtcdStates
  <1>6. /\ etcd' \in EtcdStates /\ etcd'.owner = e.owner
        /\ \A l \in Leases : (l = e.owner \/ \E c \in Upserts : upsert'[c].lease = l) =>
             etcd'.left[l] = left[l]
    <2>1. etcd' = OnlyReferred(e)
      BY Zenon, <1>2, <1>4 DEF MdsTick
    <2> QED BY Zenon, <1>5, <2>1, OnlyReferredEffect
  <1>7. upsert' = [c \in Upserts |->
                     [upsert[c] EXCEPT !.age = IF upsert[c].pc = "idle" THEN 0 ELSE @ + 1]]
    BY Zenon DEF MdsTick
  <1>8. ASSUME NEW c \in Upserts
        PROVE  /\ upsert'[c] \in Handlers /\ upsert'[c].pc = upsert[c].pc
               /\ upsert'[c].lease = upsert[c].lease
               /\ upsert[c].pc # "idle" => upsert'[c].age = upsert[c].age + 1
    <2>1. upsert[c] \in Handlers
      BY Zenon, <1>1
    <2>2. PICK a : a = IF upsert[c].pc = "idle" THEN 0 ELSE upsert[c].age + 1
      BY Zenon
    <2>3. a \in 0..CallSpan
      <3>1. upsert[c].pc # "idle" => upsert[c].age < CallSpan
        BY Zenon DEF MdsTick
      <3>2. upsert[c].age \in 0..CallSpan
        BY Zenon, <2>1 DEF Handlers
      <3> QED BY <2>2, <3>1, <3>2
    <2>4. upsert'[c] = [upsert[c] EXCEPT !.age = a]
      BY Zenon, <1>7, <2>1, <2>2 DEF Handlers
    <2> QED BY Zenon, <2>1, <2>2, <2>3, <2>4 DEF Handlers
  <1>9. local' \in LocalStates
    <2>1. \A m \in Mds : Min({local[m].idle + 1, StaleTtls * Ttl + 1}) \in Nat
      <3>1. \A m \in Mds : local[m].idle + 1 \in Nat
        BY <1>1 DEF LocalStates
      <3>2. StaleTtls * Ttl + 1 \in Nat
        OBVIOUS
      <3>3. \A a, b \in Nat : a \in Int /\ b \in Int
        OBVIOUS
      <3> QED BY Zenon, <3>1, <3>2, <3>3, MinOfTwo
    <2>2. local' = [m \in Mds |-> [local[m] EXCEPT
            !.idle = IF local[m].lease = NoLease THEN 0
                     ELSE Min({local[m].idle + 1, StaleTtls * Ttl + 1})]]
      BY Zenon, <1>1 DEF MdsTick, LocalStates
    <2> QED BY Zenon, <1>1, <2>1, <2>2 DEF LocalStates
  <1>10. sinceOk' \in Nat /\ (sinceOk' + CallSpan < Ttl => sinceOk' = sinceOk + 1)
    <2>1. sinceOk' = Min({sinceOk + 1, Ttl})
      BY Zenon DEF MdsTick
    <2>2. sinceOk' \in {sinceOk + 1, Ttl}
      <3>1. sinceOk + 1 \in Int /\ Ttl \in Int
        BY <1>1
      <3> QED BY Zenon, <2>1, <3>1, MinOfTwo
    <2> QED BY <1>1, <2>2
  <1>11. LeaseType'
    <2>1. upsert' \in [Upserts -> Handlers]
      BY Zenon, <1>7, <1>8
    <2> QED BY Zenon, <1>6, <1>9, <1>10, <2>1 DEF LeaseType
  <1>12. ASSUME NEW c \in Upserts, upsert'[c].pc \in {"put", "put2"}
         PROVE  /\ upsert'[c].lease \in Leases
                /\ etcd'.left[upsert'[c].lease] + upsert'[c].age >= Ttl
    <2>1. PICK l \in Leases : l = upsert[c].lease /\ etcd.left[l] + upsert[c].age >= Ttl
      BY Zenon, <1>8, <1>12 DEF LeaseInv, PutsInTime
    <2>2. PICK x \in Nat, y \in Nat, a \in Nat :
            x = etcd.left[l] /\ y = left[l] /\ a = upsert[c].age
      BY SMTT(60), <1>1, <1>3 DEF EtcdStates, Handlers
    <2>3. y + 1 >= x /\ x + a >= Ttl
      BY Zenon, <1>3, <2>1, <2>2
    <2>4. y + (a + 1) >= Ttl
      BY SMTT(60), <2>3
    <2>5. upsert'[c].lease = l /\ upsert'[c].age = a + 1 /\ etcd'.left[l] = y
      BY Zenon, <1>6, <1>8, <1>12, <2>1, <2>2
    <2> QED BY Zenon, <2>4, <2>5
  <1>13. KeyLasts'
    <2>1. SUFFICES ASSUME sinceOk' + CallSpan < Ttl
                   PROVE  /\ etcd'.owner \in Leases
                          /\ etcd'.left[etcd'.owner] + CallSpan + sinceOk' >= Ttl
      BY Zenon DEF KeyLasts
    <2>2. sinceOk' = sinceOk + 1 /\ sinceOk + CallSpan < Ttl
      BY <1>1, <1>10, <2>1
    <2>3. PICK o \in Leases : o = etcd.owner /\ etcd.left[o] + CallSpan + sinceOk >= Ttl
      BY Zenon, <2>2 DEF LeaseInv, KeyLasts
    <2>4. PICK x \in Nat, y \in Nat : x = etcd.left[o] /\ y = left[o]
      BY <1>1, <1>3 DEF EtcdStates
    <2>5. y + 1 >= x /\ x + CallSpan + sinceOk >= Ttl
      BY Zenon, <1>3, <2>3, <2>4
    <2>6. y + CallSpan + (sinceOk + 1) >= Ttl /\ y > 0 /\ x > 0
      <3>1. sinceOk + 1 + CallSpan < Ttl
        BY Zenon, <2>1, <2>2
      <3> QED BY <1>1, <2>5, <3>1
    <2>7. MemberListed
      BY Zenon, <2>3, <2>4, <2>6 DEF MemberListed, Alive, NoLease
    <2>8. e.owner = o
      BY Zenon, <1>5, <2>3, <2>4, <2>6, <2>7
    <2>9. etcd'.owner = o /\ etcd'.left[o] = y
      BY Zenon, <1>6, <2>4, <2>8
    <2> QED BY Zenon, <2>2, <2>6, <2>9
  <1> QED BY Zenon, <1>11, <1>12, <1>13 DEF LeaseInv, PutsInTime

LEMMA LeaseNext ==
  ASSUME LeaseInv, [MdsLeaseNext]_mdsVars
  PROVE  LeaseInv'
  <1>1. ASSUME NEW c \in Upserts, SendOnce(c) PROVE LeaseInv'
    BY Zenon, <1>1, SendOnceStep
  <1>2. ASSUME NEW c \in Upserts, EtcdAnswers(c) PROVE LeaseInv'
    BY Zenon, <1>2, FastPathStep, SlowPathStep DEF EtcdAnswers
  <1>3. ASSUME NEW c \in Upserts, EtcdFails(c) PROVE LeaseInv'
    BY Zenon, <1>3, EtcdFailsStep
  <1>4. CASE \/ StartRegistrar \/ DialFails \/ MarkFirstRegistrationTimedOut \/ ReadTimesOut
             \/ UNCHANGED mdsVars
    BY Zenon, <1>4, RegistrarStep
       DEF StartRegistrar, DialFails, MarkFirstRegistrationTimedOut, ReadTimesOut, mdsVars
  <1>5. ASSUME NEW m \in Mds, MdsRestart(m) PROVE LeaseInv'
    BY Zenon, <1>5, MdsRestartStep
  <1>6. CASE MdsTick
    BY Zenon, <1>6, MdsTickStep
  <1> QED BY Zenon, <1>1, <1>2, <1>3, <1>4, <1>5, <1>6 DEF MdsLeaseNext

LEMMA KeyIsListed == LeaseInv => AnsweredMemberStays
  <1> SUFFICES ASSUME LeaseInv, sinceOk + CallSpan < Ttl PROVE MemberListed
    BY Zenon DEF AnsweredMemberStays
  <1> USE MdsLeaseAssumption
  <1>1. PICK o \in Leases : o = etcd.owner /\ etcd.left[o] + CallSpan + sinceOk >= Ttl
    BY Zenon DEF LeaseInv, KeyLasts
  <1>2. PICK x \in Nat : x = etcd.left[o]
    <2>1. etcd \in EtcdStates
      BY Zenon DEF LeaseInv, LeaseType
    <2> QED BY <2>1 DEF EtcdStates
  <1>3. sinceOk \in Nat /\ x + CallSpan + sinceOk >= Ttl
    BY Zenon, <1>1, <1>2 DEF LeaseInv, LeaseType
  <1>4. x > 0
    BY <1>3
  <1> QED BY Zenon, <1>1, <1>2, <1>4 DEF MemberListed, Alive, NoLease

(* Whichever MDS answered it and whatever abandoned handlers still write, a *)
(* node whose request got kOk stays listed for Ttl - CallSpan.             *)
THEOREM AnsweredMemberAlwaysStays == MdsLeaseSpec => []AnsweredMemberStays
  <1>1. LeaseInv /\ [MdsLeaseNext]_mdsVars => LeaseInv'
    BY Zenon, LeaseNext
  <1> QED BY <1>1, LeaseInit, KeyIsListed, PTL DEF MdsLeaseSpec

-----------------------------------------------------------------------------
(* TCP: the values of the variables. *)
TcpStages == {"closed", "backlog", "accepted", "loop", "read", "serve", "write", "left",
              "erased"}
SockRecs == [client : {"open", "closed"}, stage : TcpStages, up : Seq(Nat \ {0}),
             down : Seq(Nat), request : Nat, shut : BOOLEAN]
TcpRecs == [pc : {"idle", "acquire", "wait", "dial", "send", "recv"}, sock : Sockets \cup {0},
            reused : BOOLEAN, attempt : Nat, call : Nat, late : BOOLEAN]

PoolRecs(p) ==
  [sockets : SUBSET Sockets, creating : Int, streak : {p.streak}, backoff : {p.backoff}]

TcpType ==
  /\ sock \in [Sockets -> SockRecs] /\ tcp \in [TcpCallers -> TcpRecs]
  /\ pool \in PoolRecs(pool)
  /\ tcpCalls \in Nat /\ handlers \subseteq Sockets /\ connFds \subseteq Sockets
  /\ tcpAcceptor \in [pc : {"accept", "register", "ended"}, taken : Sockets \cup {0}]
  /\ tcpStopper \in {"idle", "join accept", "join handlers", "stopped"}
  /\ listening \in BOOLEAN

(* What is under way on a socket: nothing, or the one request or reply of   *)
(* call c.                                                                  *)
QuietSock(o) == o.up = <<>> /\ o.down = <<>> /\ o.request = 0
CarriesOnly(o, c) ==
  \/ QuietSock(o)
  \/ o.up = <<c>> /\ o.down = <<>> /\ o.request = 0
  \/ o.up = <<>> /\ o.down = <<>> /\ o.request = c
  \/ o.up = <<>> /\ o.down = <<c>> /\ o.request = 0

(* A caller has a socket to itself from the lease to the answer. *)
LeaseOk(t) ==
  LET o == tcp[t] IN
  /\ o.pc # "idle" => o.call # 0
  /\ o.pc \notin {"send", "recv"} => o.sock = 0
  /\ o.pc \in {"send", "recv"} => o.sock \in pool.sockets
  /\ o.pc = "send" => QuietSock(sock[o.sock])
  /\ o.pc = "recv" => CarriesOnly(sock[o.sock], o.call)
OnlyLease(t) ==
  tcp[t].sock # 0 => \A u \in TcpCallers \ {t} : tcp[u].sock # tcp[t].sock

(* A pooled socket is open, and quiet when nobody has it. *)
PooledOk(s) ==
  s \in pool.sockets => sock[s].client = "open" /\ (~Busy(s) => QuietSock(sock[s]))

(* The server's side of a connection. *)
ServedStages == {"loop", "read", "serve", "write", "left"}
StageOk(s) ==
  LET o == sock[s] IN
  /\ o.stage \in {"serve", "write"} <=> o.request # 0
  /\ o.stage = "backlog" => listening
  /\ o.stage = "accepted" <=> (tcpAcceptor.pc = "register" /\ tcpAcceptor.taken = s)
  /\ s \in connFds => o.stage \in ServedStages
  /\ o.stage \in ServedStages \cup {"erased"} => s \in handlers

StopperOk ==
  /\ listening <=> tcpStopper = "idle"
  /\ tcpAcceptor.pc = "register" => tcpAcceptor.taken \in Sockets
  /\ tcpAcceptor.pc = "ended" => ~listening
  /\ tcpStopper \in {"join handlers", "stopped"} => tcpAcceptor.pc = "ended"
  /\ tcpStopper = "stopped" => handlers = {}

PoolBound == Cardinality(pool.sockets) + pool.creating <= MaxConnections

TcpInv ==
  /\ TcpType /\ StopperOk /\ PoolBound
  /\ \A t \in TcpCallers : LeaseOk(t) /\ OnlyLease(t)
  /\ \A s \in Sockets : PooledOk(s) /\ StageOk(s)

-----------------------------------------------------------------------------
(* TCP: steps of the server. *)

(* What a step of the server does to a connection leaves the client's end   *)
(* alone and carries no other call's traffic.                               *)
ServerKeeps(o, n) ==
  /\ n.client = o.client
  /\ QuietSock(o) => QuietSock(n)
  /\ \A c \in Nat \ {0} : CarriesOnly(o, c) => CarriesOnly(n, c)

(* A new stage changes nothing that the client sees. *)
LEMMA StageKeeps ==
  ASSUME NEW o \in SockRecs, NEW g \in TcpStages, NEW n, n = [o EXCEPT !.stage = g]
  PROVE  n \in SockRecs /\ ServerKeeps(o, n) /\ n.request = o.request /\ n.stage = g
  BY Zenon DEF SockRecs, ServerKeeps, QuietSock, CarriesOnly

(* Handle reads a request: what was on its way up is being served. *)
LEMMA ReadKeeps ==
  ASSUME NEW o \in SockRecs, o.request = 0, o.up # <<>>,
         NEW n, n = [o EXCEPT !.stage = "serve", !.request = Head(o.up), !.up = Tail(@)]
  PROVE  n \in SockRecs /\ ServerKeeps(o, n) /\ n.request # 0 /\ n.stage = "serve"
<1>1. o.up \in Seq(Nat \ {0}) /\ Len(o.up) > 0
  BY DEF SockRecs
<1>2. Head(o.up) \in Nat \ {0} /\ Tail(o.up) \in Seq(Nat \ {0})
  BY <1>1
<1>3. n \in SockRecs /\ n.request = Head(o.up) /\ n.up = Tail(o.up) /\ n.down = o.down
      /\ n.client = o.client /\ n.stage = "serve"
  BY Zenon, <1>2 DEF SockRecs, TcpStages
<1>4. ASSUME NEW c \in Nat \ {0}, CarriesOnly(o, c)
      PROVE  CarriesOnly(n, c)
  <2>1. o.up = <<c>> /\ o.down = <<>>
    BY Zenon, <1>4 DEF CarriesOnly, QuietSock
  <2>2. Head(o.up) = c /\ Tail(o.up) = <<>>
    BY <2>1
  <2> QED
    BY Zenon, <1>3, <2>1, <2>2 DEF CarriesOnly
<1>5. ~QuietSock(o)
  BY Zenon DEF QuietSock
<1> QED
  BY Zenon, <1>2, <1>3, <1>4, <1>5 DEF ServerKeeps

(* Handle writes the reply to the request it served, or finds the           *)
(* connection broken.                                                       *)
LEMMA WriteKeeps ==
  ASSUME NEW o \in SockRecs, o.request # 0,
         NEW n, NEW b \in BOOLEAN,
         n = IF b THEN [o EXCEPT !.stage = "left", !.request = 0]
             ELSE [o EXCEPT !.stage = "loop", !.request = 0, !.down = Append(@, o.request)]
  PROVE  n \in SockRecs /\ ServerKeeps(o, n) /\ n.request = 0 /\ n.stage \in {"left", "loop"}
<1>1. ~QuietSock(o)
  BY Zenon DEF QuietSock
<1>2. CASE b
  <2>1. n \in SockRecs /\ n.request = 0 /\ n.up = o.up /\ n.down = o.down
        /\ n.client = o.client /\ n.stage = "left"
    BY Zenon, <1>2 DEF SockRecs, TcpStages
  <2> QED
    BY Zenon, <1>1, <2>1 DEF ServerKeeps, CarriesOnly, QuietSock
<1>3. CASE ~b
  <2>1. o.down \in Seq(Nat) /\ o.request \in Nat
    BY Zenon DEF SockRecs
  <2>2. Append(o.down, o.request) \in Seq(Nat)
    BY <2>1
  <2>3. n \in SockRecs /\ n.request = 0 /\ n.up = o.up /\ n.down = Append(o.down, o.request)
        /\ n.client = o.client /\ n.stage = "loop"
    BY Zenon, <1>3, <2>2 DEF SockRecs, TcpStages
  <2>4. ASSUME NEW c \in Nat \ {0}, CarriesOnly(o, c)
        PROVE  CarriesOnly(n, c)
    <3>1. o.up = <<>> /\ o.down = <<>> /\ o.request = c
      BY Zenon, <2>4 DEF CarriesOnly, QuietSock
    <3>2. n.down = <<c>>
      BY <2>3, <3>1
    <3> QED
      BY Zenon, <2>3, <3>1, <3>2 DEF CarriesOnly
  <2> QED
    BY Zenon, <1>1, <2>3, <2>4 DEF ServerKeeps
<1> QED
  BY Zenon, <1>2, <1>3

(* Closing the server's end drops what it did not read. *)
LEMMA CloseKeeps ==
  ASSUME NEW o \in SockRecs, NEW n,
         n = [NoSocket EXCEPT !.client = o.client, !.down = o.down]
  PROVE  n \in SockRecs /\ ServerKeeps(o, n) /\ n.request = 0 /\ n.stage = "closed"
<1>1. NoSocket \in SockRecs /\ NoSocket.request = 0 /\ NoSocket.up = <<>>
      /\ NoSocket.stage = "closed"
  BY DEF SockRecs, NoSocket, TcpStages
<1>2. n \in SockRecs /\ n.request = 0 /\ n.up = <<>> /\ n.down = o.down
      /\ n.client = o.client /\ n.stage = "closed"
  BY Zenon, <1>1 DEF SockRecs
<1> QED
  BY Zenon, <1>2 DEF ServerKeeps, CarriesOnly, QuietSock

(* What a step of the server leaves to the callers. *)
LEMMA ServerKeepsCallers ==
  ASSUME TcpInv, UNCHANGED <<pool, tcp>>,
         \A s \in Sockets : ServerKeeps(sock[s], sock'[s])
  PROVE  /\ \A t \in TcpCallers : LeaseOk(t)' /\ OnlyLease(t)'
         /\ \A s \in Sockets : PooledOk(s)'
         /\ PoolBound'
<1>1. ASSUME NEW t \in TcpCallers
      PROVE  LeaseOk(t)' /\ OnlyLease(t)'
  <2>1. LeaseOk(t) /\ OnlyLease(t)
    BY Zenon DEF TcpInv
  <2>2. tcp[t].call \in Nat /\ pool.sockets \subseteq Sockets
    BY Zenon DEF TcpInv, TcpType, TcpRecs, PoolRecs
  <2>3. OnlyLease(t)'
    BY Zenon, <2>1 DEF OnlyLease
  <2>4. LeaseOk(t)'
    BY SMTT(60), <2>1, <2>2 DEF LeaseOk, ServerKeeps
  <2> QED
    BY Zenon, <2>3, <2>4
<1>2. ASSUME NEW s \in Sockets
      PROVE  PooledOk(s)'
  BY Zenon DEF TcpInv, PooledOk, ServerKeeps, Busy
<1>3. PoolBound'
  BY Zenon DEF TcpInv, PoolBound
<1> QED
  BY Zenon, <1>1, <1>2, <1>3
(* A step of the server that keeps its own side right keeps everything. *)
LEMMA ServerStep ==
  ASSUME TcpInv, UNCHANGED connPoolVars,
         sock' \in [Sockets -> SockRecs],
         \A s \in Sockets : ServerKeeps(sock[s], sock'[s]) /\ StageOk(s)',
         StopperOk',
         handlers' \subseteq Sockets, connFds' \subseteq Sockets,
         tcpAcceptor' \in [pc : {"accept", "register", "ended"}, taken : Sockets \cup {0}],
         tcpStopper' \in {"idle", "join accept", "join handlers", "stopped"},
         listening' \in BOOLEAN
  PROVE  TcpInv'
<1>1. TcpType'
  BY Zenon DEF TcpInv, TcpType, connPoolVars
<1>2. /\ \A t \in TcpCallers : LeaseOk(t)' /\ OnlyLease(t)'
      /\ \A s \in Sockets : PooledOk(s)'
      /\ PoolBound'
  BY Zenon, ServerKeepsCallers DEF connPoolVars
<1> QED
  BY Zenon, <1>1, <1>2 DEF TcpInv

(* A connection's thread: its own socket moves on, and nothing else. *)
LEMMA ConnectionStep ==
  ASSUME TcpInv, NEW s \in Sockets, NEW n \in SockRecs,
         sock' = [sock EXCEPT ![s] = n],
         ServerKeeps(sock[s], n),
         sock[s].stage \in ServedStages \cup {"erased"},
         n.stage \in {"serve", "write"} <=> n.request # 0,
         n.stage \notin {"backlog", "accepted"},
         connFds' \subseteq connFds, s \in connFds' => n.stage \in ServedStages,
         UNCHANGED <<connPoolVars, listening, tcpAcceptor, tcpStopper, handlers>>
  PROVE  TcpInv'
<1>1. TcpType /\ StopperOk /\ \A r \in Sockets : StageOk(r)
  BY Zenon DEF TcpInv
<1>2. sock' \in [Sockets -> SockRecs] /\ sock'[s] = n
      /\ \A r \in Sockets \ {s} : sock'[r] = sock[r]
  BY Zenon, <1>1 DEF TcpType
<1>3. \A r \in Sockets : ServerKeeps(sock[r], sock'[r])
  BY Zenon, <1>2 DEF ServerKeeps
<1>4. StopperOk'
  BY Zenon, <1>1 DEF StopperOk
<1>5. ASSUME NEW r \in Sockets
      PROVE  StageOk(r)'
  <2>1. StageOk(r)
    BY Zenon, <1>1
  <2>2. CASE r = s
    BY Zenon, <1>2, <2>1, <2>2 DEF StageOk, ServedStages
  <2>3. CASE r # s
    BY Zenon, <1>2, <2>1, <2>3 DEF StageOk
  <2> QED
    BY Zenon, <2>2, <2>3
<1>6. handlers' \subseteq Sockets /\ connFds' \subseteq Sockets
      /\ tcpAcceptor' \in [pc : {"accept", "register", "ended"}, taken : Sockets \cup {0}]
      /\ tcpStopper' \in {"idle", "join accept", "join handlers", "stopped"}
      /\ listening' \in BOOLEAN
  BY Zenon, <1>1 DEF TcpType
<1> QED
  BY Zenon, <1>2, <1>3, <1>4, <1>5, <1>6, ServerStep

(* Handle, and the end of its thread. *)
LEMMA HandlerKeepsTcpInv ==
  ASSUME TcpInv, NEW s \in Sockets, TcpHandler(s), UNCHANGED connPoolVars
  PROVE  TcpInv'
<1> DEFINE o == sock[s]
<1>0. o \in SockRecs /\ sock \in [Sockets -> SockRecs] /\ StageOk(s)
  BY Zenon DEF TcpInv, TcpType
<1>1. CASE HandleLoop(s)
  <2>1. PICK g \in {"read", "left"} : sock' = [sock EXCEPT ![s].stage = g]
    BY Zenon, <1>1 DEF HandleLoop
  <2>2. PICK n : n = [o EXCEPT !.stage = g]
    BY Zenon
  <2>3. o.stage = "loop" /\ o.request = 0
    BY Zenon, <1>0, <1>1 DEF HandleLoop, StageOk
  <2>4. n \in SockRecs /\ ServerKeeps(o, n) /\ n.request = 0 /\ n.stage = g
    <3>1. g \in TcpStages
      BY Zenon DEF TcpStages
    <3> QED
      BY <1>0, <2>2, <2>3, <3>1, StageKeeps
  <2>5. sock' = [sock EXCEPT ![s] = n]
    BY Zenon, <2>1, <2>2
  <2>6. UNCHANGED <<listening, tcpAcceptor, tcpStopper, handlers, connFds>>
    BY Zenon, <1>1 DEF HandleLoop
  <2> QED
    BY Zenon, <2>3, <2>4, <2>5, <2>6, ConnectionStep DEF ServedStages
<1>2. CASE ReadRequest(s)
  <2>1. o.stage = "read" /\ o.request = 0
    BY Zenon, <1>0, <1>2 DEF ReadRequest, StageOk
  <2>2. UNCHANGED <<listening, tcpAcceptor, tcpStopper, handlers, connFds>>
    BY Zenon, <1>2 DEF ReadRequest
  <2>3. CASE sock' = [sock EXCEPT ![s].stage = "left"]
    <3>1. PICK n : n = [o EXCEPT !.stage = "left"]
      BY Zenon
    <3>2. n \in SockRecs /\ ServerKeeps(o, n) /\ n.request = 0 /\ n.stage = "left"
      BY <1>0, <2>1, <3>1, StageKeeps DEF TcpStages
    <3>3. sock' = [sock EXCEPT ![s] = n]
      BY Zenon, <2>3, <3>1
    <3> QED
      BY Zenon, <2>1, <2>2, <3>2, <3>3, ConnectionStep DEF ServedStages
  <2>4. CASE /\ o.up # <<>>
             /\ sock' = [sock EXCEPT ![s].stage = "serve", ![s].request = Head(sock[s].up),
                                     ![s].up = Tail(@)]
    <3>1. PICK n : n = [o EXCEPT !.stage = "serve", !.request = Head(o.up), !.up = Tail(@)]
      BY Zenon
    <3>2. n \in SockRecs /\ ServerKeeps(o, n) /\ n.request # 0 /\ n.stage = "serve"
      BY Zenon, <1>0, <2>1, <2>4, <3>1, ReadKeeps
    <3>3. sock' = [sock EXCEPT ![s] = n]
      BY Zenon, <1>0, <2>4, <3>1
    <3> QED
      BY Zenon, <2>1, <2>2, <3>2, <3>3, ConnectionStep DEF ServedStages
  <2> QED
    BY Zenon, <1>2, <2>3, <2>4 DEF ReadRequest
<1>3. CASE ProcessTcpRequest(s)
  <2>1. o.stage = "serve" /\ o.request # 0
    BY Zenon, <1>0, <1>3 DEF ProcessTcpRequest, StageOk
  <2>2. PICK n : n = [o EXCEPT !.stage = "write"]
    BY Zenon
  <2>3. n \in SockRecs /\ ServerKeeps(o, n) /\ n.request # 0 /\ n.stage = "write"
    BY <1>0, <2>1, <2>2, StageKeeps DEF TcpStages
  <2>4. sock' = [sock EXCEPT ![s] = n]
        /\ UNCHANGED <<listening, tcpAcceptor, tcpStopper, handlers, connFds>>
    BY Zenon, <1>3, <2>2 DEF ProcessTcpRequest
  <2> QED
    BY Zenon, <2>1, <2>3, <2>4, ConnectionStep DEF ServedStages
<1>4. CASE WriteReply(s)
  <2>1. o.stage = "write" /\ o.request # 0
    BY Zenon, <1>0, <1>4 DEF WriteReply, StageOk
  <2>2. PICK b \in BOOLEAN : b <=> (o.client = "closed" \/ o.shut)
    BY Zenon
  <2>3. PICK n : n = IF b THEN [o EXCEPT !.stage = "left", !.request = 0]
                     ELSE [o EXCEPT !.stage = "loop", !.request = 0,
                                    !.down = Append(@, o.request)]
    BY Zenon
  <2>4. n \in SockRecs /\ ServerKeeps(o, n) /\ n.request = 0 /\ n.stage \in {"left", "loop"}
    BY Zenon, <1>0, <2>1, <2>3, WriteKeeps
  <2>5. sock' = [sock EXCEPT ![s] = n]
    BY Zenon, <1>0, <1>4, <2>2, <2>3 DEF WriteReply
  <2>6. UNCHANGED <<listening, tcpAcceptor, tcpStopper, handlers, connFds>>
    BY Zenon, <1>4 DEF WriteReply
  <2> QED
    BY Zenon, <2>1, <2>4, <2>5, <2>6, ConnectionStep DEF ServedStages
<1>5. CASE EraseFd(s)
  <2>1. o.stage = "left" /\ o.request = 0
    BY Zenon, <1>0, <1>5 DEF EraseFd, StageOk
  <2>2. PICK n : n = [o EXCEPT !.stage = "erased"]
    BY Zenon
  <2>3. n \in SockRecs /\ ServerKeeps(o, n) /\ n.request = 0 /\ n.stage = "erased"
    BY <1>0, <2>1, <2>2, StageKeeps DEF TcpStages
  <2>4. sock' = [sock EXCEPT ![s] = n] /\ connFds' = connFds \ {s}
        /\ UNCHANGED <<listening, tcpAcceptor, tcpStopper, handlers>>
    BY Zenon, <1>5, <2>2 DEF EraseFd
  <2> QED
    BY Zenon, <2>1, <2>3, <2>4, ConnectionStep DEF ServedStages
<1>6. CASE CloseFd(s)
  <2>1. o.stage = "erased" /\ s \notin connFds
    BY Zenon, <1>0, <1>6 DEF CloseFd, StageOk, ServedStages
  <2>2. PICK n : n = [NoSocket EXCEPT !.client = o.client, !.down = o.down]
    BY Zenon
  <2>3. n \in SockRecs /\ ServerKeeps(o, n) /\ n.request = 0 /\ n.stage = "closed"
    BY Zenon, <1>0, <2>2, CloseKeeps
  <2>4. sock' = [sock EXCEPT ![s] = n]
        /\ UNCHANGED <<listening, tcpAcceptor, tcpStopper, handlers, connFds>>
    BY Zenon, <1>6, <2>2 DEF CloseFd, ServerCloses
  <2> QED
    BY Zenon, <2>1, <2>3, <2>4, ConnectionStep DEF ServedStages
<1> QED
  BY Zenon, <1>1, <1>2, <1>3, <1>4, <1>5, <1>6 DEF TcpHandler

(* AcceptLoop: accept. *)
LEMMA AcceptKeepsTcpInv ==
  ASSUME TcpInv, NEW s \in Sockets, AcceptSocket(s), UNCHANGED connPoolVars
  PROVE  TcpInv'
<1> DEFINE o == sock[s]
<1>1. TcpType /\ StopperOk /\ \A r \in Sockets : StageOk(r)
  BY Zenon DEF TcpInv
<1>2. PICK n : n = [o EXCEPT !.stage = "accepted"]
  BY Zenon
<1>3. o \in SockRecs /\ o.stage = "backlog" /\ o.request = 0
  BY Zenon, <1>1 DEF TcpType, AcceptSocket, StageOk
<1>4. n \in SockRecs /\ ServerKeeps(o, n) /\ n.request = 0 /\ n.stage = "accepted"
  BY <1>2, <1>3, StageKeeps DEF TcpStages
<1>5. sock' = [sock EXCEPT ![s] = n]
  BY Zenon, <1>2 DEF AcceptSocket
<1>6. sock' \in [Sockets -> SockRecs] /\ sock'[s] = n
      /\ \A r \in Sockets \ {s} : sock'[r] = sock[r]
  BY Zenon, <1>1, <1>4, <1>5 DEF TcpType
<1>7. \A r \in Sockets : ServerKeeps(sock[r], sock'[r])
  BY Zenon, <1>4, <1>6 DEF ServerKeeps
<1>8. tcpAcceptor' = [pc |-> "register", taken |-> s] /\ tcpAcceptor.pc = "accept" /\ listening
      /\ UNCHANGED <<listening, tcpStopper, handlers, connFds>>
  BY Zenon DEF AcceptSocket
<1>9. StopperOk'
  BY Zenon, <1>1, <1>8 DEF StopperOk
<1>10. ASSUME NEW r \in Sockets
       PROVE  StageOk(r)'
  <2>1. StageOk(r)
    BY Zenon, <1>1
  <2>2. CASE r = s
    BY Zenon, <1>3, <1>4, <1>6, <1>8, <2>1, <2>2 DEF StageOk, ServedStages
  <2>3. CASE r # s
    BY Zenon, <1>6, <1>8, <2>1, <2>3 DEF StageOk
  <2> QED
    BY Zenon, <2>2, <2>3
<1>11. handlers' \subseteq Sockets /\ connFds' \subseteq Sockets
       /\ tcpAcceptor' \in [pc : {"accept", "register", "ended"}, taken : Sockets \cup {0}]
       /\ tcpStopper' \in {"idle", "join accept", "join handlers", "stopped"}
       /\ listening' \in BOOLEAN
  BY Zenon, <1>1, <1>8 DEF TcpType
<1> QED
  BY Zenon, <1>6, <1>7, <1>9, <1>10, <1>11, ServerStep

(* AcceptLoop: the connection gets a thread, or is closed again. *)
LEMMA RegisterKeepsTcpInv ==
  ASSUME TcpInv, RegisterSocket, UNCHANGED connPoolVars
  PROVE  TcpInv'
<1>1. TcpType /\ StopperOk /\ \A r \in Sockets : StageOk(r)
  BY Zenon DEF TcpInv
<1>2. PICK s \in Sockets : s = tcpAcceptor.taken
  BY Zenon, <1>1 DEF StopperOk, RegisterSocket
<1> DEFINE o == sock[s]
<1>3. tcpAcceptor.pc = "register" /\ UNCHANGED <<listening, tcpStopper>>
  BY Zenon DEF RegisterSocket
<1>4. o \in SockRecs /\ o.stage = "accepted" /\ o.request = 0 /\ s \notin connFds
  BY Zenon, <1>1, <1>2, <1>3 DEF TcpType, StageOk, ServedStages
<1>5. PICK n : \/ /\ n = [NoSocket EXCEPT !.client = o.client, !.down = o.down]
                  /\ sock' = [sock EXCEPT ![s] = n] /\ connFds' = connFds
                  /\ handlers' \in {handlers, Unfinished}
               \/ /\ n = [o EXCEPT !.stage = "loop"]
                  /\ sock' = [sock EXCEPT ![s] = n] /\ connFds' = connFds \cup {s}
                  /\ handlers' = Unfinished \cup {s}
  <2>1. CASE ~listening
    <3>1. sock' = [sock EXCEPT ![s] = [NoSocket EXCEPT !.client = o.client, !.down = o.down]]
          /\ connFds' = connFds /\ handlers' = handlers
      BY Zenon, <1>2, <2>1 DEF RegisterSocket, ServerCloses
    <3> QED
      BY Zenon, <3>1
  <2>2. CASE listening /\ Cardinality(Unfinished) >= ServerCap
    <3>1. sock' = [sock EXCEPT ![s] = [NoSocket EXCEPT !.client = o.client, !.down = o.down]]
          /\ connFds' = connFds
      BY Zenon, <1>2, <2>2 DEF RegisterSocket, ServerCloses
    <3>2. handlers' = Unfinished
      BY Zenon, <2>2 DEF RegisterSocket
    <3> QED
      BY Zenon, <3>1, <3>2
  <2>3. CASE listening /\ ~(Cardinality(Unfinished) >= ServerCap)
    <3>1. sock' = [sock EXCEPT ![s].stage = "loop"] /\ connFds' = connFds \cup {s}
      BY Zenon, <1>2, <2>3 DEF RegisterSocket
    <3>2. handlers' = Unfinished \cup {s}
      BY Zenon, <1>2, <2>3 DEF RegisterSocket
    <3> QED
      BY Zenon, <3>1, <3>2
  <2> QED
    BY Zenon, <2>1, <2>2, <2>3
<1>6. /\ n \in SockRecs /\ ServerKeeps(o, n) /\ n.request = 0
      /\ \/ n.stage = "closed" /\ connFds' = connFds
         \/ n.stage = "loop" /\ connFds' = connFds \cup {s} /\ s \in handlers'
  <2>1. CASE n = [NoSocket EXCEPT !.client = o.client, !.down = o.down] /\ connFds' = connFds
    BY Zenon, <1>4, <2>1, CloseKeeps
  <2>2. CASE /\ n = [o EXCEPT !.stage = "loop"]
             /\ connFds' = connFds \cup {s} /\ s \in handlers'
    <3>1. "loop" \in TcpStages
      BY Zenon DEF TcpStages
    <3> QED
      BY <1>4, <2>2, <3>1, StageKeeps
  <2> QED
    BY Zenon, <1>5, <2>1, <2>2
<1>7. sock' \in [Sockets -> SockRecs] /\ sock'[s] = n
      /\ \A r \in Sockets \ {s} : sock'[r] = sock[r]
  BY Zenon, <1>1, <1>5, <1>6 DEF TcpType
<1>8. \A r \in Sockets : ServerKeeps(sock[r], sock'[r])
  BY Zenon, <1>6, <1>7 DEF ServerKeeps
<1>9. /\ \A r \in handlers : sock[r].stage # "closed" => r \in handlers'
      /\ handlers' \subseteq handlers \cup {s}
  BY Zenon, <1>5 DEF Unfinished
<1>10. PICK pc \in {"accept", "ended"} :
         tcpAcceptor' = [pc |-> pc, taken |-> 0] /\ (pc = "accept" <=> listening)
  BY Zenon DEF RegisterSocket, Accepting
<1>11. StopperOk'
  BY Zenon, <1>1, <1>3, <1>10 DEF StopperOk
<1>12. ASSUME NEW r \in Sockets
       PROVE  StageOk(r)'
  <2>1. StageOk(r)
    BY Zenon, <1>1
  <2>2. CASE r = s
    BY Zenon, <1>3, <1>4, <1>6, <1>7, <1>10, <2>2 DEF StageOk, ServedStages
  <2>3. CASE r # s
    BY Zenon, <1>2, <1>3, <1>6, <1>7, <1>9, <1>10, <2>1, <2>3 DEF StageOk, ServedStages
  <2> QED
    BY Zenon, <2>2, <2>3
<1>13. handlers' \subseteq Sockets /\ connFds' \subseteq Sockets
  BY Zenon, <1>1, <1>6, <1>9 DEF TcpType
<1>14. tcpAcceptor' \in [pc : {"accept", "register", "ended"}, taken : Sockets \cup {0}]
  BY Zenon, <1>10
<1>15. tcpStopper' \in {"idle", "join accept", "join handlers", "stopped"}
       /\ listening' \in BOOLEAN
  BY Zenon, <1>1, <1>3 DEF TcpType
<1> QED
  BY Zenon, <1>7, <1>8, <1>11, <1>12, <1>13, <1>14, <1>15, ServerStep

(* AcceptLoop ends once the listener is shut down. *)
LEMMA AcceptEndsKeepsTcpInv ==
  ASSUME TcpInv, AcceptEnds, UNCHANGED connPoolVars
  PROVE  TcpInv'
<1>1. TcpType /\ StopperOk /\ \A r \in Sockets : StageOk(r)
  BY Zenon DEF TcpInv
<1>2. ~listening /\ tcpAcceptor.pc = "accept"
      /\ UNCHANGED <<sock, listening, tcpStopper, handlers, connFds>>
  BY Zenon DEF AcceptEnds
<1>3. tcpAcceptor' \in [pc : {"accept", "register", "ended"}, taken : Sockets \cup {0}]
      /\ tcpAcceptor'.pc = "ended"
  BY Zenon, <1>1 DEF AcceptEnds, TcpType
<1>4. StopperOk'
  BY Zenon, <1>1, <1>2, <1>3 DEF StopperOk
<1>5. \A r \in Sockets : StageOk(r)'
  BY Zenon, <1>1, <1>2, <1>3 DEF StageOk
<1>6. \A r \in Sockets : ServerKeeps(sock[r], sock'[r])
  BY Zenon, <1>2 DEF ServerKeeps
<1>7. sock' \in [Sockets -> SockRecs] /\ handlers' \subseteq Sockets /\ connFds' \subseteq Sockets
      /\ tcpStopper' \in {"idle", "join accept", "join handlers", "stopped"}
      /\ listening' \in BOOLEAN
  BY Zenon, <1>1, <1>2 DEF TcpType
<1> QED
  BY Zenon, <1>3, <1>4, <1>5, <1>6, <1>7, ServerStep

(* Stop shuts the listener down and resets its backlog. *)
LEMMA StopListeningKeepsTcpInv ==
  ASSUME TcpInv, StopListening, UNCHANGED connPoolVars
  PROVE  TcpInv'
<1>1. TcpType /\ StopperOk /\ \A r \in Sockets : StageOk(r)
  BY Zenon DEF TcpInv
<1>2. listening /\ listening' = FALSE /\ tcpStopper' = "join accept"
      /\ UNCHANGED <<tcpAcceptor, handlers, connFds>>
  BY Zenon DEF StopListening
<1>3. ASSUME NEW r \in Sockets
      PROVE  sock'[r] \in SockRecs /\ ServerKeeps(sock[r], sock'[r]) /\ StageOk(r)'
  <2>1. sock[r] \in SockRecs /\ StageOk(r)
    BY Zenon, <1>1 DEF TcpType
  <2>2. PICK o : o = sock[r]
    BY Zenon
  <2>3. sock'[r] = IF o.stage = "backlog" THEN [o EXCEPT !.stage = "closed", !.up = <<>>] ELSE o
    BY Zenon, <2>2 DEF StopListening
  <2>4. CASE o.stage = "backlog"
    <3>1. PICK n : n = [o EXCEPT !.stage = "closed", !.up = <<>>]
      BY Zenon
    <3> o \in SockRecs
      BY Zenon, <2>1, <2>2
    <3>2. n \in SockRecs /\ n.stage = "closed" /\ n.up = <<>> /\ n.down = o.down
          /\ n.request = o.request /\ n.client = o.client
      <4>0. <<>> \in Seq(Nat \ {0})
        OBVIOUS
      <4>1. PICK e \in Seq(Nat \ {0}) : e = <<>>
        BY Zenon, <4>0
      <4>2. n = [o EXCEPT !.stage = "closed", !.up = e]
        BY Zenon, <3>1, <4>1
      <4> QED
        BY Zenon, <4>1, <4>2 DEF SockRecs, TcpStages
    <3>3. ServerKeeps(o, n)
      BY Zenon, <3>2 DEF ServerKeeps, CarriesOnly, QuietSock
    <3>4. StageOk(r)'
      BY Zenon, <1>2, <2>1, <2>2, <2>3, <2>4, <3>1, <3>2 DEF StageOk, ServedStages
    <3> QED
      BY Zenon, <2>2, <2>3, <2>4, <3>1, <3>2, <3>3, <3>4
  <2>5. CASE o.stage # "backlog"
    <3>1. sock'[r] = sock[r]
      BY Zenon, <2>2, <2>3, <2>5
    <3>2. ServerKeeps(sock[r], sock'[r])
      BY Zenon, <3>1 DEF ServerKeeps
    <3>3. StageOk(r)'
      BY Zenon, <1>2, <2>1, <2>2, <2>5, <3>1 DEF StageOk
    <3> QED
      BY Zenon, <2>1, <3>1, <3>2, <3>3
  <2> QED
    BY Zenon, <2>4, <2>5
<1>4. StopperOk'
  BY Zenon, <1>1, <1>2 DEF StopperOk
<1>5. sock' \in [Sockets -> SockRecs]
  <2>1. sock' = [r \in Sockets |-> sock'[r]]
    BY Zenon DEF StopListening
  <2> QED
    BY Zenon, <1>3, <2>1
<1>6. handlers' \subseteq Sockets /\ connFds' \subseteq Sockets
      /\ tcpAcceptor' \in [pc : {"accept", "register", "ended"}, taken : Sockets \cup {0}]
      /\ tcpStopper' \in {"idle", "join accept", "join handlers", "stopped"}
      /\ listening' \in BOOLEAN
  BY Zenon, <1>1, <1>2 DEF TcpType
<1> QED
  BY ZenonT(60), <1>3, <1>4, <1>5, <1>6, ServerStep

(* Stop, the accept loop joined, wakes the reads of the handlers. *)
LEMMA ShutKeepsTcpInv ==
  ASSUME TcpInv, ShutConnections, UNCHANGED connPoolVars
  PROVE  TcpInv'
<1>1. TcpType /\ StopperOk /\ \A r \in Sockets : StageOk(r)
  BY Zenon DEF TcpInv
<1>2. tcpStopper = "join accept" /\ tcpAcceptor.pc = "ended" /\ tcpStopper' = "join handlers"
      /\ UNCHANGED <<listening, tcpAcceptor, handlers, connFds>>
  BY Zenon DEF ShutConnections
<1>3. ASSUME NEW r \in Sockets
      PROVE  sock'[r] \in SockRecs /\ ServerKeeps(sock[r], sock'[r]) /\ StageOk(r)'
  <2>1. sock[r] \in SockRecs /\ StageOk(r)
    BY Zenon, <1>1 DEF TcpType
  <2>2. PICK o : o = sock[r]
    BY Zenon
  <2>3. sock'[r] = IF r \in connFds THEN [o EXCEPT !.shut = TRUE] ELSE o
    BY Zenon, <2>2 DEF ShutConnections
  <2>4. PICK n : n = sock'[r]
    BY Zenon
  <2>5. n \in SockRecs /\ n.stage = o.stage /\ n.up = o.up /\ n.down = o.down
        /\ n.request = o.request /\ n.client = o.client
    <3>1. o \in SockRecs /\ n = IF r \in connFds THEN [o EXCEPT !.shut = TRUE] ELSE o
      BY Zenon, <2>1, <2>2, <2>3, <2>4
    <3> QED
      BY Zenon, <3>1 DEF SockRecs
  <2>6. ServerKeeps(o, n)
    BY Zenon, <2>5 DEF ServerKeeps, CarriesOnly, QuietSock
  <2>7. StageOk(r)'
    BY Zenon, <1>2, <2>1, <2>2, <2>4, <2>5 DEF StageOk
  <2> QED
    BY Zenon, <2>2, <2>4, <2>5, <2>6, <2>7
<1>4. StopperOk'
  BY Zenon, <1>1, <1>2 DEF StopperOk
<1>5. sock' \in [Sockets -> SockRecs]
  <2>1. sock' = [r \in Sockets |-> sock'[r]]
    BY Zenon DEF ShutConnections
  <2> QED
    BY Zenon, <1>3, <2>1
<1>6. handlers' \subseteq Sockets /\ connFds' \subseteq Sockets
      /\ tcpAcceptor' \in [pc : {"accept", "register", "ended"}, taken : Sockets \cup {0}]
      /\ tcpStopper' \in {"idle", "join accept", "join handlers", "stopped"}
      /\ listening' \in BOOLEAN
  BY Zenon, <1>1, <1>2 DEF TcpType
<1> QED
  BY Zenon, <1>3, <1>4, <1>5, <1>6, ServerStep

(* Stop returns once every handler has been joined. *)
LEMMA JoinKeepsTcpInv ==
  ASSUME TcpInv, JoinHandlers, UNCHANGED connPoolVars
  PROVE  TcpInv'
<1>1. TcpType /\ StopperOk /\ \A r \in Sockets : StageOk(r)
  BY Zenon DEF TcpInv
<1>2. /\ tcpStopper = "join handlers" /\ \A s \in handlers : sock[s].stage = "closed"
      /\ handlers' = {} /\ tcpStopper' = "stopped"
      /\ UNCHANGED <<sock, listening, tcpAcceptor, connFds>>
  BY Zenon DEF JoinHandlers
<1>3. StopperOk'
  BY Zenon, <1>1, <1>2 DEF StopperOk
<1>4. ASSUME NEW r \in Sockets
      PROVE  StageOk(r)'
  BY Zenon, <1>1, <1>2 DEF StageOk, ServedStages
<1>5. \A r \in Sockets : ServerKeeps(sock[r], sock'[r])
  BY Zenon, <1>2 DEF ServerKeeps
<1>6. sock' \in [Sockets -> SockRecs] /\ handlers' \subseteq Sockets /\ connFds' \subseteq Sockets
      /\ tcpAcceptor' \in [pc : {"accept", "register", "ended"}, taken : Sockets \cup {0}]
      /\ tcpStopper' \in {"idle", "join accept", "join handlers", "stopped"}
      /\ listening' \in BOOLEAN
  BY Zenon, <1>1, <1>2 DEF TcpType
<1> QED
  BY Zenon, <1>3, <1>4, <1>5, <1>6, ServerStep

(* The next process listens on the same port. *)
LEMMA StartListeningKeepsTcpInv ==
  ASSUME TcpInv, StartListening, UNCHANGED connPoolVars
  PROVE  TcpInv'
<1>1. TcpType /\ StopperOk /\ \A r \in Sockets : StageOk(r)
  BY Zenon DEF TcpInv
<1>2. /\ tcpStopper = "stopped" /\ listening' = TRUE /\ tcpStopper' = "idle"
      /\ tcpAcceptor' = [pc |-> "accept", taken |-> 0]
      /\ UNCHANGED <<sock, handlers, connFds>>
  BY Zenon DEF StartListening, Accepting
<1>3. tcpAcceptor.pc = "ended"
  BY Zenon, <1>1, <1>2 DEF StopperOk
<1>4. StopperOk'
  BY Zenon, <1>2 DEF StopperOk
<1>5. ASSUME NEW r \in Sockets
      PROVE  StageOk(r)'
  BY Zenon, <1>1, <1>2, <1>3 DEF StageOk
<1>6. \A r \in Sockets : ServerKeeps(sock[r], sock'[r])
  BY Zenon, <1>2 DEF ServerKeeps
<1>7. sock' \in [Sockets -> SockRecs] /\ handlers' \subseteq Sockets /\ connFds' \subseteq Sockets
      /\ tcpAcceptor' \in [pc : {"accept", "register", "ended"}, taken : Sockets \cup {0}]
      /\ tcpStopper' \in {"idle", "join accept", "join handlers", "stopped"}
      /\ listening' \in BOOLEAN
  BY Zenon, <1>1, <1>2 DEF TcpType
<1> QED
  BY Zenon, <1>4, <1>5, <1>6, <1>7, ServerStep

(* Every step of the server. *)
LEMMA ServerKeepsTcpInv ==
  ASSUME TcpInv, TcpServerNext, UNCHANGED connPoolVars
  PROVE  TcpInv'
  BY Zenon, AcceptKeepsTcpInv, HandlerKeepsTcpInv, RegisterKeepsTcpInv, AcceptEndsKeepsTcpInv,
     StopListeningKeepsTcpInv, ShutKeepsTcpInv, JoinKeepsTcpInv, StartListeningKeepsTcpInv
     DEF TcpServerNext

-----------------------------------------------------------------------------
(* TCP: steps of the callers. *)

(* A caller that at most woke up. *)
SameCaller(o, n) ==
  /\ n.sock = o.sock /\ n.call = o.call
  /\ n.pc = o.pc \/ (o.pc = "wait" /\ n.pc = "acquire")

(* A caller without a socket. *)
Unleased(n) ==
  n.sock = 0 /\ n.pc \notin {"send", "recv"} /\ (n.pc # "idle" => n.call # 0)

(* notify_all makes waiters look at the pool again and does nothing else. *)
LEMMA WokenIs ==
  ASSUME NEW ops \in [TcpCallers -> TcpRecs]
  PROVE  /\ Woken(ops) \in [TcpCallers -> TcpRecs]
         /\ \A u \in TcpCallers : SameCaller(ops[u], Woken(ops)[u])
<1>1. ASSUME NEW u \in TcpCallers
      PROVE  Woken(ops)[u] \in TcpRecs /\ SameCaller(ops[u], Woken(ops)[u])
  <2>1. PICK o \in TcpRecs : o = ops[u]
    BY Zenon
  <2>2. Woken(ops)[u] = IF o.pc = "wait" THEN [o EXCEPT !.pc = "acquire"] ELSE o
    BY Zenon, <2>1 DEF Woken
  <2>3. PICK n : n = Woken(ops)[u]
    BY Zenon
  <2>4. n \in TcpRecs /\ SameCaller(o, n)
    BY Zenon, <2>2, <2>3 DEF TcpRecs, SameCaller
  <2> QED
    BY Zenon, <2>1, <2>3, <2>4
<1>2. Woken(ops) = [u \in TcpCallers |-> Woken(ops)[u]]
  BY Zenon DEF Woken
<1> QED
  BY Zenon, <1>1, <1>2

(* The server's side is not affected by what callers do to their ends. *)
LEMMA ClientKeepsStages ==
  ASSUME TcpInv, UNCHANGED <<listening, tcpAcceptor, tcpStopper, handlers, connFds>>,
         \A s \in Sockets : sock'[s].stage = sock[s].stage /\ sock'[s].request = sock[s].request
  PROVE  StopperOk' /\ \A s \in Sockets : StageOk(s)'
<1>1. StopperOk'
  BY Zenon DEF TcpInv, StopperOk
<1>2. ASSUME NEW s \in Sockets
      PROVE  StageOk(s)'
  <2>1. StageOk(s)
    BY Zenon DEF TcpInv
  <2> QED
    BY Zenon, <2>1 DEF StageOk
<1> QED
  BY Zenon, <1>1, <1>2

(* A caller that keeps its socket and its traffic keeps what it relies on. *)
LEMMA LeaseKeeps ==
  ASSUME TcpInv, NEW u \in TcpCallers, SameCaller(tcp[u], tcp'[u]),
         tcp[u].sock # 0 => /\ tcp[u].sock \in pool'.sockets
                            /\ sock'[tcp[u].sock] = sock[tcp[u].sock]
  PROVE  LeaseOk(u)'
<1>1. LeaseOk(u)
  BY Zenon DEF TcpInv
<1>2. pool.sockets \subseteq Sockets /\ 0 \notin Sockets
  BY ZenonT(60), TcpAssumption DEF TcpInv, TcpType, PoolRecs
<1>3. CASE tcp[u].pc \in {"send", "recv"}
  <2>1. tcp[u].sock \in pool.sockets /\ tcp[u].sock # 0
    BY Zenon, <1>1, <1>2, <1>3 DEF LeaseOk
  <2>2. tcp'[u].pc = tcp[u].pc /\ tcp'[u].sock = tcp[u].sock /\ tcp'[u].call = tcp[u].call
    BY Zenon, <1>3 DEF SameCaller
  <2>3. tcp[u].sock \in pool'.sockets /\ sock'[tcp[u].sock] = sock[tcp[u].sock]
    BY Zenon, <2>1
  <2> QED
    BY Zenon, <1>1, <1>3, <2>2, <2>3 DEF LeaseOk
<1>4. CASE tcp[u].pc \notin {"send", "recv"}
  BY Zenon, <1>1, <1>4 DEF LeaseOk, SameCaller
<1> QED
  BY Zenon, <1>3, <1>4

(* One caller moves; the others keep their sockets, and those their         *)
(* traffic.                                                                 *)
LEMMA CallersKeep ==
  ASSUME TcpInv, NEW t, t \in TcpCallers => LeaseOk(t)',
         \A u \in TcpCallers \ {t} :
            /\ SameCaller(tcp[u], tcp'[u])
            /\ tcp[u].sock # 0 => /\ tcp[u].sock \in pool'.sockets
                                  /\ sock'[tcp[u].sock] = sock[tcp[u].sock]
                                  /\ t \in TcpCallers => tcp'[t].sock # tcp[u].sock
  PROVE  \A u \in TcpCallers : LeaseOk(u)' /\ OnlyLease(u)'
<1>1. ASSUME NEW u \in TcpCallers \ {t}
      PROVE  LeaseOk(u)'
  BY Zenon, LeaseKeeps
<1>2. ASSUME NEW u \in TcpCallers, tcp'[u].sock # 0, NEW v \in TcpCallers \ {u}
      PROVE  tcp'[v].sock # tcp'[u].sock
  <2>1. CASE u = t
    <3>1. tcp'[v].sock = tcp[v].sock
      BY Zenon, <2>1 DEF SameCaller
    <3> QED
      BY Zenon, <1>2, <2>1, <3>1
  <2>2. CASE v = t
    <3>1. tcp'[u].sock = tcp[u].sock
      BY Zenon, <2>2 DEF SameCaller
    <3> QED
      BY Zenon, <1>2, <2>2, <3>1
  <2>3. CASE u # t /\ v # t
    <3>1. tcp'[u].sock = tcp[u].sock /\ tcp'[v].sock = tcp[v].sock
      BY Zenon, <2>3 DEF SameCaller
    <3> QED
      BY Zenon, <1>2, <2>3, <3>1 DEF TcpInv, OnlyLease
  <2> QED
    BY Zenon, <2>1, <2>2, <2>3
<1> QED
  BY Zenon, <1>1, <1>2 DEF OnlyLease

(* What a caller's socket is: pooled. *)
LEMMA LeasedIsPooled ==
  ASSUME TcpInv, NEW u \in TcpCallers, tcp[u].sock # 0
  PROVE  tcp[u].sock \in pool.sockets /\ tcp[u].pc \in {"send", "recv"}
<1>1. LeaseOk(u)
  BY Zenon DEF TcpInv
<1> QED
  BY Zenon, <1>1 DEF LeaseOk

(* Closing the client's end of some sockets. *)
LEMMA ClosedByClientIs ==
  ASSUME sock \in [Sockets -> SockRecs], NEW R
  PROVE  /\ ClosedByClient(R) \in [Sockets -> SockRecs]
         /\ \A s \in Sockets : /\ ClosedByClient(R)[s].stage = sock[s].stage
                               /\ ClosedByClient(R)[s].request = sock[s].request
                               /\ s \notin R => ClosedByClient(R)[s] = sock[s]
<1>1. ASSUME NEW s \in Sockets
      PROVE  /\ ClosedByClient(R)[s] \in SockRecs
             /\ ClosedByClient(R)[s].stage = sock[s].stage
             /\ ClosedByClient(R)[s].request = sock[s].request
             /\ s \notin R => ClosedByClient(R)[s] = sock[s]
  <2>1. PICK o \in SockRecs : o = sock[s]
    BY Zenon
  <2>2. <<>> \in Seq(Nat)
    OBVIOUS
  <2>3. PICK e \in Seq(Nat) : e = <<>>
    BY Zenon, <2>2
  <2>4. PICK n : n = ClosedByClient(R)[s]
    BY Zenon
  <2>5. n = IF s \in R THEN [o EXCEPT !.client = "closed", !.down = e] ELSE o
    BY Zenon, <2>1, <2>3, <2>4 DEF ClosedByClient
  <2>6. n \in SockRecs /\ n.stage = o.stage /\ n.request = o.request /\ (s \notin R => n = o)
    BY Zenon, <2>5 DEF SockRecs
  <2> QED
    BY Zenon, <2>1, <2>4, <2>6
<1>2. ClosedByClient(R) = [s \in Sockets |-> ClosedByClient(R)[s]]
  BY Zenon DEF ClosedByClient
<1> QED
  BY Zenon, <1>1, <1>2

(* A step of the client that closes the sockets of R and in which caller t  *)
(* at most leases an idle one or gives its own up.                          *)
LEMMA ClientStep ==
  ASSUME TcpInv, NEW t, NEW R \in SUBSET pool.sockets,
         sock' = ClosedByClient(R), tcp' \in [TcpCallers -> TcpRecs], tcpCalls' \in Nat,
         pool' \in PoolRecs(pool'), pool'.sockets = pool.sockets \ R, PoolBound',
         UNCHANGED <<listening, tcpAcceptor, tcpStopper, handlers, connFds>>,
         \A u \in TcpCallers \ {t} : SameCaller(tcp[u], tcp'[u]) /\ tcp[u].sock \notin R,
         t \in TcpCallers =>
            \/ SameCaller(tcp[t], tcp'[t]) /\ tcp[t].sock \notin R
            \/ Unleased(tcp'[t]) /\ tcp[t].sock \in R \cup {0}
            \/ /\ tcp'[t].pc = "send" /\ tcp[t].sock = 0
               /\ tcp'[t].sock \in Idles \ R /\ tcp'[t].call # 0
  PROVE  TcpInv'
<1>1. sock \in [Sockets -> SockRecs] /\ pool.sockets \subseteq Sockets /\ 0 \notin Sockets
  BY ZenonT(60), TcpAssumption DEF TcpInv, TcpType, PoolRecs
<1>2. /\ sock' \in [Sockets -> SockRecs]
      /\ \A s \in Sockets : /\ sock'[s].stage = sock[s].stage
                            /\ sock'[s].request = sock[s].request
                            /\ s \notin R => sock'[s] = sock[s]
  BY Zenon, <1>1, ClosedByClientIs
<1>3. TcpType'
  BY ZenonT(60), <1>2 DEF TcpInv, TcpType
<1>4. StopperOk' /\ \A s \in Sockets : StageOk(s)'
  BY Zenon, <1>2, ClientKeepsStages
<1>5. ASSUME NEW u \in TcpCallers, tcp[u].sock # 0, tcp[u].sock \notin R
      PROVE  tcp[u].sock \in pool'.sockets /\ sock'[tcp[u].sock] = sock[tcp[u].sock]
  BY Zenon, <1>1, <1>2, <1>5, LeasedIsPooled
<1>6. ASSUME t \in TcpCallers
      PROVE  LeaseOk(t)'
  <2>1. CASE SameCaller(tcp[t], tcp'[t]) /\ tcp[t].sock \notin R
    BY Zenon, <1>5, <1>6, <2>1, LeaseKeeps
  <2>2. CASE Unleased(tcp'[t])
    BY Zenon, <2>2 DEF Unleased, LeaseOk
  <2>3. CASE /\ tcp'[t].pc = "send" /\ tcp[t].sock = 0
             /\ tcp'[t].sock \in Idles \ R /\ tcp'[t].call # 0
    <3>1. PICK s : s = tcp'[t].sock
      BY Zenon
    <3>2. s \in pool.sockets /\ ~Busy(s) /\ s \notin R
      BY Zenon, <2>3, <3>1 DEF Idles
    <3>3. PooledOk(s)
      BY ZenonT(60), <1>1, <3>2 DEF TcpInv
    <3>4. QuietSock(sock'[s]) /\ s \in pool'.sockets
      BY Zenon, <1>1, <1>2, <3>2, <3>3 DEF PooledOk
    <3> QED
      BY Zenon, <2>3, <3>1, <3>4 DEF LeaseOk
  <2> QED
    BY Zenon, <1>6, <2>1, <2>2, <2>3
<1>7. ASSUME NEW u \in TcpCallers \ {t}, tcp[u].sock # 0, t \in TcpCallers
      PROVE  tcp'[t].sock # tcp[u].sock
  <2>1. OnlyLease(u)
    BY Zenon DEF TcpInv
  <2>2. CASE SameCaller(tcp[t], tcp'[t])
    BY Zenon, <1>7, <2>1, <2>2 DEF OnlyLease, SameCaller
  <2>3. CASE Unleased(tcp'[t])
    BY Zenon, <1>7, <2>3 DEF Unleased
  <2>4. CASE tcp'[t].sock \in Idles \ R
    BY Zenon, <1>7, <2>4 DEF Idles, Busy
  <2> QED
    BY Zenon, <1>7, <2>2, <2>3, <2>4
<1>8. \A u \in TcpCallers : LeaseOk(u)' /\ OnlyLease(u)'
  BY ZenonT(60), <1>5, <1>6, <1>7, CallersKeep
<1>9. ASSUME NEW s \in Sockets
      PROVE  PooledOk(s)'
  <2> SUFFICES ASSUME s \in pool.sockets \ R
               PROVE  sock'[s].client = "open" /\ (~Busy(s)' => QuietSock(sock'[s]))
    BY Zenon DEF PooledOk
  <2>1. sock'[s] = sock[s] /\ PooledOk(s) /\ s # 0
    BY ZenonT(60), <1>1, <1>2 DEF TcpInv
  <2>2. ASSUME NEW u \in TcpCallers, tcp[u].sock = s
        PROVE  Busy(s)'
    <3>1. tcp'[u].sock = s
      BY Zenon, <2>1, <2>2 DEF SameCaller
    <3> QED
      BY Zenon, <3>1 DEF Busy
  <2> QED
    BY Zenon, <2>1, <2>2 DEF PooledOk, Busy
<1> QED
  BY Zenon, <1>3, <1>4, <1>8, <1>9 DEF TcpInv

(* The caller's record changes, and waiters may wake. *)
LEMMA WokenAfter ==
  ASSUME tcp \in [TcpCallers -> TcpRecs], NEW t \in TcpCallers, NEW n \in TcpRecs,
         tcp' \in {[tcp EXCEPT ![t] = n], Woken([tcp EXCEPT ![t] = n])}
  PROVE  /\ tcp' \in [TcpCallers -> TcpRecs]
         /\ \A u \in TcpCallers \ {t} : SameCaller(tcp[u], tcp'[u])
         /\ SameCaller(n, tcp'[t])
<1>1. PICK ops : ops = [tcp EXCEPT ![t] = n]
  BY Zenon
<1>2. ops \in [TcpCallers -> TcpRecs] /\ ops[t] = n
      /\ \A u \in TcpCallers \ {t} : ops[u] = tcp[u]
  BY Zenon, <1>1
<1>3. tcp' \in [TcpCallers -> TcpRecs] /\ \A u \in TcpCallers : SameCaller(ops[u], tcp'[u])
  <2>1. CASE tcp' = ops
    BY Zenon, <1>2, <2>1 DEF SameCaller
  <2>2. CASE tcp' = Woken(ops)
    BY Zenon, <1>2, <2>2, WokenIs
  <2> QED
    BY Zenon, <1>1, <2>1, <2>2
<1> QED
  BY Zenon, <1>2, <1>3

(* No socket is closed. *)
LEMMA NoneClosed ==
  ASSUME sock \in [Sockets -> SockRecs]
  PROVE  sock = ClosedByClient({})
  BY Zenon DEF ClosedByClient

(* The pool does not grow. *)
LEMMA ShrinkBound ==
  ASSUME TcpInv, NEW R, pool'.sockets = pool.sockets \ R, pool'.creating \in Int,
         pool'.creating <= pool.creating
  PROVE  PoolBound'
<1>1. PICK a : a = pool.sockets
  BY Zenon
<1>2. a \subseteq Sockets /\ IsFiniteSet(Sockets) /\ pool.creating \in Int /\ MaxConnections \in Nat
  BY Zenon, <1>1, TcpAssumption DEF TcpInv, TcpType, PoolRecs
<1>3. IsFiniteSet(a)
  BY Zenon, <1>2, FS_Subset
<1>4. a \ R \subseteq a
  BY Zenon
<1>5. Cardinality(a \ R) <= Cardinality(a) /\ IsFiniteSet(a \ R)
  BY Zenon, <1>3, <1>4, FS_Subset
<1>6. Cardinality(a) \in Nat /\ Cardinality(a \ R) \in Nat
  BY Zenon, <1>3, <1>5, FS_CardinalityType
<1>7. Cardinality(a) + pool.creating <= MaxConnections
  BY Zenon, <1>1 DEF TcpInv, PoolBound
<1> QED
  BY SMTT(60), <1>1, <1>2, <1>5, <1>6, <1>7 DEF PoolBound

LEMMA IdleIsUnleased == IdleTcp \in TcpRecs /\ Unleased(IdleTcp)
  BY Zenon DEF IdleTcp, TcpRecs, Unleased

(* A call begins. *)
LEMMA RoundTripKeepsTcpInv ==
  ASSUME TcpInv, NEW t \in TcpCallers, RoundTrip(t)
  PROVE  TcpInv'
<1>1. TcpType
  BY Zenon DEF TcpInv
<1>a. tcpCalls \in Nat
  BY Zenon, <1>1 DEF TcpType
<1>2. PICK c \in Nat \ {0} : c = tcpCalls + 1
  BY <1>a
<1>3. PICK n : n = [IdleTcp EXCEPT !.pc = "acquire", !.attempt = 1, !.call = c]
  BY Zenon
<1>4. n \in TcpRecs /\ n.pc = "acquire" /\ n.call = c /\ n.call # 0 /\ n.sock = 0
  BY Zenon, <1>3 DEF IdleTcp, TcpRecs
<1>5. tcp' = [tcp EXCEPT ![t] = n]
  BY Zenon, <1>2, <1>3 DEF RoundTrip
<1>6. /\ tcp' \in [TcpCallers -> TcpRecs]
      /\ \A u \in TcpCallers \ {t} : SameCaller(tcp[u], tcp'[u])
      /\ tcp'[t] = n
  BY Zenon, <1>1, <1>4, <1>5 DEF TcpType, SameCaller
<1>7. tcp[t].sock = 0
  <2>1. LeaseOk(t)
    BY Zenon DEF TcpInv
  <2> QED
    BY Zenon, <2>1 DEF LeaseOk, RoundTrip
<1>8. Unleased(tcp'[t])
  BY Zenon, <1>4, <1>6 DEF Unleased
<1>9. sock' = ClosedByClient({})
  BY Zenon, <1>1, NoneClosed DEF RoundTrip, tcpServerVars, TcpType
<1>10. pool' = pool /\ UNCHANGED <<listening, tcpAcceptor, tcpStopper, handlers, connFds>>
       /\ tcpCalls' \in Nat
  <2>1. tcpCalls' = c /\ pool' = pool
        /\ UNCHANGED <<listening, tcpAcceptor, tcpStopper, handlers, connFds>>
    BY Zenon, <1>2 DEF RoundTrip, tcpServerVars
  <2> QED
    BY Zenon, <2>1
<1>11. pool' \in PoolRecs(pool') /\ pool'.sockets = pool.sockets \ {} /\ PoolBound'
  BY Zenon, <1>1, <1>10 DEF TcpType, TcpInv, PoolBound
<1> QED
  BY Zenon, <1>6, <1>7, <1>8, <1>9, <1>10, <1>11, ClientStep

(* A waiting call reaches its deadline. *)
LEMMA AcquireTimesOutKeepsTcpInv ==
  ASSUME TcpInv, NEW t \in TcpCallers, AcquireTimesOut(t)
  PROVE  TcpInv'
<1>1. TcpType /\ LeaseOk(t)
  BY Zenon DEF TcpInv
<1>2. PICK o \in TcpRecs : o = tcp[t]
  BY Zenon, <1>1 DEF TcpType
<1>3. PICK n : n = [o EXCEPT !.pc = "acquire", !.late = TRUE]
  BY Zenon
<1>4. n \in TcpRecs /\ n.pc = "acquire" /\ n.call = o.call /\ n.sock = o.sock
  BY Zenon, <1>3 DEF TcpRecs
<1>5. tcp' = [tcp EXCEPT ![t] = n] /\ o.pc = "wait"
  BY Zenon, <1>1, <1>2, <1>3 DEF AcquireTimesOut, TcpType
<1>6. /\ tcp' \in [TcpCallers -> TcpRecs]
      /\ \A u \in TcpCallers \ {t} : SameCaller(tcp[u], tcp'[u])
      /\ tcp'[t] = n
  BY Zenon, <1>1, <1>4, <1>5 DEF TcpType, SameCaller
<1>7. SameCaller(tcp[t], tcp'[t])
  BY Zenon, <1>2, <1>4, <1>5, <1>6 DEF SameCaller
<1>8. sock' = ClosedByClient({})
  BY Zenon, <1>1, NoneClosed DEF AcquireTimesOut, tcpServerVars, TcpType
<1>9. pool' = pool /\ UNCHANGED <<listening, tcpAcceptor, tcpStopper, handlers, connFds>>
      /\ tcpCalls' \in Nat
  BY Zenon, <1>1 DEF AcquireTimesOut, tcpServerVars, TcpType
<1>10. pool' \in PoolRecs(pool') /\ pool'.sockets = pool.sockets \ {} /\ PoolBound'
  BY Zenon, <1>1, <1>9 DEF TcpType, TcpInv, PoolBound
<1> QED
  BY Zenon, <1>6, <1>7, <1>8, <1>9, <1>10, ClientStep

(* A dial fails: backoff, and everybody looks again. *)
LEMMA BackoffIs ==
  ASSUME pool \in PoolRecs(pool)
  PROVE  /\ ApplyBackoff \in PoolRecs(ApplyBackoff)
         /\ ApplyBackoff.sockets = pool.sockets /\ ApplyBackoff.creating = pool.creating
<1>1. PICK a : a = Min({pool.streak + 1, BackoffMax})
  BY Zenon
<1>2. PICK b : b = Min({BackoffBase * 2 ^ pool.streak, BackoffMax})
  BY Zenon
<1>3. ApplyBackoff = [pool EXCEPT !.streak = a, !.backoff = b]
  BY Zenon, <1>1, <1>2 DEF ApplyBackoff, PoolRecs
<1>4. PICK n : n = ApplyBackoff
  BY Zenon
<1>5. n \in PoolRecs(n) /\ n.sockets = pool.sockets /\ n.creating = pool.creating
  BY ZenonT(60), <1>3, <1>4 DEF PoolRecs
<1> QED
  BY Zenon, <1>4, <1>5

LEMMA ConnectFailsKeepsTcpInv ==
  ASSUME TcpInv, NEW t \in TcpCallers, ConnectFails(t)
  PROVE  TcpInv'
<1>1. TcpType /\ LeaseOk(t)
  BY Zenon DEF TcpInv
<1>2. PICK o \in TcpRecs : o = tcp[t]
  BY Zenon, <1>1 DEF TcpType
<1>3. PICK n : n = IF pool.sockets = {} THEN IdleTcp ELSE [o EXCEPT !.pc = "acquire"]
  BY Zenon
<1>4. o.pc = "dial" /\ o.sock = 0 /\ o.call # 0
  BY Zenon, <1>1, <1>2 DEF ConnectFails, LeaseOk
<1>5. n \in TcpRecs /\ Unleased(n)
  BY Zenon, <1>3, <1>4, IdleIsUnleased DEF TcpRecs, Unleased
<1>6. tcp' = Woken([tcp EXCEPT ![t] = n])
  BY Zenon, <1>1, <1>2, <1>3 DEF ConnectFails, TcpType
<1>7. /\ tcp' \in [TcpCallers -> TcpRecs]
      /\ \A u \in TcpCallers \ {t} : SameCaller(tcp[u], tcp'[u])
      /\ SameCaller(n, tcp'[t])
  BY ZenonT(60), <1>1, <1>5, <1>6, WokenAfter DEF TcpType
<1>8. Unleased(tcp'[t])
  BY Zenon, <1>5, <1>7 DEF Unleased, SameCaller
<1>9. PICK q : q = ApplyBackoff
  BY Zenon
<1>10. q \in PoolRecs(q) /\ q.sockets = pool.sockets /\ q.creating = pool.creating
  BY Zenon, <1>1, <1>9, BackoffIs DEF TcpType
<1>11. pool' = [q EXCEPT !.creating = @ - 1]
  BY Zenon, <1>9 DEF ConnectFails
<1>12. pool' \in PoolRecs(pool') /\ pool'.sockets = pool.sockets
       /\ pool'.creating \in Int /\ pool'.creating <= pool.creating
  BY <1>10, <1>11 DEF PoolRecs
<1>13. PoolBound' /\ pool'.sockets = pool.sockets \ {}
  BY ZenonT(60), <1>12, ShrinkBound
<1>14. sock' = ClosedByClient({})
  BY Zenon, <1>1, NoneClosed DEF ConnectFails, TcpType
<1>15. UNCHANGED <<listening, tcpAcceptor, tcpStopper, handlers, connFds>> /\ tcpCalls' \in Nat
  BY ZenonT(60), <1>1 DEF ConnectFails, TcpType
<1> QED
  BY Zenon, <1>2, <1>4, <1>7, <1>8, <1>12, <1>13, <1>14, <1>15, ClientStep

(* Acquire: idle sockets are retired, then the caller leases one, dials,    *)
(* waits or gives up.                                                       *)
LEMMA AcquireKeepsTcpInv ==
  ASSUME TcpInv, NEW t \in TcpCallers, NEW R, Acquire(t, R)
  PROVE  TcpInv'
<1>1. TcpType /\ LeaseOk(t)
  BY Zenon DEF TcpInv
<1>2. PICK o \in TcpRecs : o = tcp[t]
  BY Zenon, <1>1 DEF TcpType
<1>3. o.pc = "acquire" /\ o.sock = 0 /\ o.call # 0
  BY Zenon, <1>1, <1>2 DEF Acquire, LeaseOk
<1>4. R \subseteq Idles
  BY Zenon DEF Acquire, RetireIdle
<1>5. R \in SUBSET pool.sockets /\ \A u \in TcpCallers : tcp[u].sock \notin R
  BY Zenon, <1>4 DEF Idles, Busy
<1>6. /\ sock' = ClosedByClient(R)
      /\ UNCHANGED <<listening, tcpAcceptor, tcpStopper, handlers, connFds>>
      /\ tcpCalls' \in Nat
  BY Zenon, <1>1 DEF Acquire, TcpType
<1>7. pool \in PoolRecs(pool)
  BY ZenonT(60), <1>1 DEF TcpType
<1>8. \/ pool' = [pool EXCEPT !.sockets = pool.sockets \ R]
      \/ /\ pool' = [pool EXCEPT !.sockets = pool.sockets \ R, !.creating = @ + 1]
         /\ Cardinality(pool.sockets \ R) + pool.creating < MaxConnections
  BY Zenon DEF Acquire
<1>9. pool' \in PoolRecs(pool') /\ pool'.sockets = pool.sockets \ R
  <2>1. PICK a \in SUBSET Sockets : a = pool.sockets \ R
    BY Zenon, <1>7 DEF PoolRecs
  <2>2. CASE pool' = [pool EXCEPT !.sockets = pool.sockets \ R]
    <3>1. pool' = [pool EXCEPT !.sockets = a]
      BY Zenon, <2>1, <2>2
    <3> QED
      BY Zenon, <1>7, <2>1, <3>1 DEF PoolRecs
  <2>3. CASE pool' = [pool EXCEPT !.sockets = pool.sockets \ R, !.creating = @ + 1]
    <3>1. PICK c \in Int : c = pool.creating + 1
      BY <1>7 DEF PoolRecs
    <3>2. pool' = [pool EXCEPT !.sockets = a, !.creating = c]
      BY Zenon, <2>1, <2>3, <3>1
    <3> QED
      BY Zenon, <1>7, <2>1, <3>2 DEF PoolRecs
  <2> QED
    BY Zenon, <1>8, <2>2, <2>3
<1>10. PoolBound'
  <2>1. pool.creating \in Int
    BY Zenon, <1>7 DEF PoolRecs
  <2>2. CASE pool' = [pool EXCEPT !.sockets = pool.sockets \ R]
    <3>1. pool'.creating = pool.creating
      BY Zenon, <1>7, <2>2 DEF PoolRecs
    <3> QED
      BY SMTT(60), <1>9, <2>1, <3>1, ShrinkBound
  <2>3. CASE /\ pool' = [pool EXCEPT !.sockets = pool.sockets \ R, !.creating = @ + 1]
             /\ Cardinality(pool.sockets \ R) + pool.creating < MaxConnections
    <3>1. pool'.creating = pool.creating + 1
      BY Zenon, <1>7, <2>3 DEF PoolRecs
    <3>2. PICK a : a = pool.sockets \ R
      BY ZenonT(60)
    <3>3. a \subseteq Sockets /\ IsFiniteSet(Sockets) /\ MaxConnections \in Nat
      BY Zenon, <1>7, <3>2, TcpAssumption DEF PoolRecs
    <3>4. Cardinality(a) \in Nat
      BY Zenon, <3>3, FS_Subset, FS_CardinalityType
    <3>5. pool'.sockets = a /\ Cardinality(a) + pool.creating < MaxConnections
      BY Zenon, <1>9, <2>3, <3>2
    <3> QED
      BY SMTT(60), <2>1, <3>1, <3>3, <3>4, <3>5 DEF PoolBound
  <2> QED
    BY Zenon, <1>8, <2>2, <2>3
<1>11. PICK n : /\ tcp' = [tcp EXCEPT ![t] = n]
                /\ \/ \E s \in Idles \ R :
                         n = [o EXCEPT !.pc = "send", !.sock = s, !.reused = TRUE, !.late = FALSE]
                   \/ n = IdleTcp
                   \/ \E pc \in {"dial", "wait"} : n = [o EXCEPT !.pc = pc]
  <2>1. CASE \E s \in Idles \ R :
                tcp' = [tcp EXCEPT ![t].pc = "send", ![t].sock = s, ![t].reused = TRUE,
                                   ![t].late = FALSE]
    <3>1. PICK s \in Idles \ R :
             tcp' = [tcp EXCEPT ![t].pc = "send", ![t].sock = s, ![t].reused = TRUE,
                                ![t].late = FALSE]
      BY Zenon, <2>1
    <3>2. tcp' = [tcp EXCEPT ![t] = [o EXCEPT !.pc = "send", !.sock = s, !.reused = TRUE,
                                              !.late = FALSE]]
      BY ZenonT(60), <1>1, <1>2, <3>1 DEF TcpType
    <3> QED
      BY ZenonT(60), <3>2
  <2>2. CASE tcp' = [tcp EXCEPT ![t] = IdleTcp]
    BY ZenonT(60), <2>2
  <2>3. CASE \E pc \in {"dial", "wait"} : tcp' = [tcp EXCEPT ![t].pc = pc]
    <3>1. PICK pc \in {"dial", "wait"} : tcp' = [tcp EXCEPT ![t].pc = pc]
      BY Zenon, <2>3
    <3>2. tcp' = [tcp EXCEPT ![t] = [o EXCEPT !.pc = pc]]
      BY Zenon, <1>2, <3>1
    <3> QED
      BY Zenon, <3>2
  <2> QED
    BY Zenon, <2>1, <2>2, <2>3 DEF Acquire
<1>12. /\ n \in TcpRecs
       /\ Unleased(n) \/ (n.pc = "send" /\ n.sock \in Idles \ R /\ n.call # 0)
  <2>1. Idles \subseteq Sockets
    BY Zenon, <1>7 DEF Idles, PoolRecs
  <2>2. CASE \E s \in Idles \ R :
                n = [o EXCEPT !.pc = "send", !.sock = s, !.reused = TRUE, !.late = FALSE]
    <3>1. PICK s \in Idles \ R :
             n = [o EXCEPT !.pc = "send", !.sock = s, !.reused = TRUE, !.late = FALSE]
      BY Zenon, <2>2
    <3>2. s \in Sockets
      BY Zenon, <2>1
    <3>3. n \in TcpRecs /\ n.pc = "send" /\ n.sock = s /\ n.call = o.call
      BY Zenon, <3>1, <3>2 DEF TcpRecs
    <3> QED
      BY Zenon, <1>3, <3>3
  <2>3. CASE n = IdleTcp
    BY Zenon, <2>3, IdleIsUnleased
  <2>4. CASE \E pc \in {"dial", "wait"} : n = [o EXCEPT !.pc = pc]
    <3>1. n \in TcpRecs /\ n.pc \in {"dial", "wait"} /\ n.sock = o.sock /\ n.call = o.call
      BY Zenon, <2>4 DEF TcpRecs
    <3> QED
      BY Zenon, <1>3, <3>1 DEF Unleased
  <2> QED
    BY Zenon, <1>11, <2>2, <2>3, <2>4
<1>13. /\ tcp' \in [TcpCallers -> TcpRecs]
       /\ \A u \in TcpCallers \ {t} : SameCaller(tcp[u], tcp'[u])
       /\ tcp'[t] = n
  BY ZenonT(60), <1>1, <1>11, <1>12 DEF TcpType, SameCaller
<1>14. \/ Unleased(tcp'[t]) /\ tcp[t].sock \in R \cup {0}
       \/ /\ tcp'[t].pc = "send" /\ tcp[t].sock = 0
          /\ tcp'[t].sock \in Idles \ R /\ tcp'[t].call # 0
  BY Zenon, <1>2, <1>3, <1>12, <1>13
<1> QED
  BY Zenon, <1>5, <1>6, <1>9, <1>10, <1>13, <1>14, ClientStep

(* An exchange fails: the socket is closed, whatever was under way on it. *)
LEMMA CompleteFailedKeepsTcpInv ==
  ASSUME TcpInv, NEW t \in TcpCallers, CompleteFailed(t)
  PROVE  TcpInv'
<1>1. TcpType /\ LeaseOk(t) /\ OnlyLease(t)
  BY Zenon DEF TcpInv
<1>2. PICK o \in TcpRecs : o = tcp[t]
  BY Zenon, <1>1 DEF TcpType
<1>3. PICK s : s = o.sock
  BY Zenon
<1>4. o.pc = "recv" /\ s \in pool.sockets /\ o.call # 0
  BY Zenon, <1>1, <1>2, <1>3 DEF CompleteFailed, LeaseOk
<1>5. pool \in PoolRecs(pool) /\ s \in Sockets /\ s # 0
  BY Zenon, <1>1, <1>4, TcpAssumption DEF TcpType, PoolRecs
<1>6. PICK n : n = IF o.reused /\ o.attempt = 1
                   THEN [o EXCEPT !.pc = "acquire", !.sock = 0, !.attempt = 2] ELSE IdleTcp
  BY Zenon
<1>7. n \in TcpRecs /\ Unleased(n)
  <2>1. CASE n = IdleTcp
    BY Zenon, <2>1, IdleIsUnleased
  <2>2. CASE n = [o EXCEPT !.pc = "acquire", !.sock = 0, !.attempt = 2]
    <3>1. n \in TcpRecs /\ n.pc = "acquire" /\ n.sock = 0 /\ n.call = o.call
      BY Zenon, <2>2 DEF TcpRecs
    <3> QED
      BY Zenon, <1>4, <3>1 DEF Unleased
  <2> QED
    BY Zenon, <1>6, <2>1, <2>2
<1>8. RetriedOrFailed(t) = [tcp EXCEPT ![t] = n]
  BY Zenon, <1>1, <1>2, <1>6 DEF RetriedOrFailed, TcpType
<1>9. tcp' = Woken([tcp EXCEPT ![t] = n])
  BY Zenon, <1>8 DEF CompleteFailed
<1>10. /\ tcp' \in [TcpCallers -> TcpRecs]
       /\ \A u \in TcpCallers \ {t} : SameCaller(tcp[u], tcp'[u])
       /\ SameCaller(n, tcp'[t])
  BY Zenon, <1>1, <1>7, <1>9, WokenAfter DEF TcpType
<1>11. Unleased(tcp'[t])
  BY Zenon, <1>7, <1>10 DEF Unleased, SameCaller
<1>12. PICK q : q = IF o.reused THEN pool ELSE ApplyBackoff
  BY Zenon
<1>13. q \in PoolRecs(q) /\ q.sockets = pool.sockets /\ q.creating = pool.creating
  BY Zenon, <1>5, <1>12, BackoffIs
<1>14. pool' = [q EXCEPT !.sockets = pool.sockets \ {s}]
  BY Zenon, <1>2, <1>3, <1>12, <1>13 DEF CompleteFailed
<1>15. pool' \in PoolRecs(pool') /\ pool'.sockets = pool.sockets \ {s}
       /\ pool'.creating \in Int /\ pool'.creating <= pool.creating
  BY <1>5, <1>13, <1>14 DEF PoolRecs
<1>16. PoolBound'
  BY Zenon, <1>15, ShrinkBound
<1>17. \A u \in TcpCallers \ {t} : tcp[u].sock \notin {s}
  BY Zenon, <1>1, <1>2, <1>3, <1>5 DEF OnlyLease
<1>18. /\ sock' = ClosedByClient({s})
       /\ UNCHANGED <<listening, tcpAcceptor, tcpStopper, handlers, connFds>>
       /\ tcpCalls' \in Nat
  BY Zenon, <1>1, <1>2, <1>3 DEF CompleteFailed, TcpType
<1>19. {s} \in SUBSET pool.sockets /\ tcp[t].sock \in {s} \cup {0}
  BY Zenon, <1>2, <1>3, <1>4
<1> QED
  BY Zenon, <1>10, <1>11, <1>15, <1>16, <1>17, <1>18, <1>19, ClientStep

(* Time passes. *)
LEMMA TickKeepsTcpInv ==
  ASSUME TcpInv, TcpTick
  PROVE  TcpInv'
<1>1. TcpType
  BY Zenon DEF TcpInv
<1>2. /\ tcp' \in [TcpCallers -> TcpRecs]
      /\ \A u \in TcpCallers : SameCaller(tcp[u], tcp'[u])
  <2>1. CASE tcp' = tcp
    BY Zenon, <1>1, <2>1 DEF TcpType, SameCaller
  <2>2. CASE tcp' = Woken(tcp)
    BY Zenon, <1>1, <2>2, WokenIs DEF TcpType
  <2> QED
    BY Zenon, <2>1, <2>2 DEF TcpTick
<1>3. PICK b : pool' = [pool EXCEPT !.backoff = b]
  BY Zenon DEF TcpTick
<1>4. pool' \in PoolRecs(pool') /\ pool'.sockets = pool.sockets \ {}
      /\ pool'.creating \in Int /\ pool'.creating <= pool.creating
  <2>1. pool' \in PoolRecs(pool') /\ pool'.sockets = pool.sockets
        /\ pool'.creating = pool.creating /\ pool.creating \in Int
    BY Zenon, <1>1, <1>3 DEF TcpType, PoolRecs
  <2> QED
    BY <2>1
<1>5. PoolBound'
  BY Zenon, <1>4, ShrinkBound
<1>6. \A u \in TcpCallers : tcp[u].sock \notin {}
  BY Zenon
<1>7. /\ sock' = ClosedByClient({})
      /\ UNCHANGED <<listening, tcpAcceptor, tcpStopper, handlers, connFds>>
      /\ tcpCalls' \in Nat
  BY Zenon, <1>1, NoneClosed DEF TcpTick, tcpServerVars, TcpType
<1> QED
  BY Zenon, <1>2, <1>4, <1>5, <1>6, <1>7, ClientStep

(* A dial succeeds: the new socket is the caller's alone, and quiet. *)
LEMMA DialKeepsTcpInv ==
  ASSUME TcpInv, NEW t \in TcpCallers, NEW s \in Sockets, DialSucceeds(t, s)
  PROVE  TcpInv'
<1>1. TcpType /\ StopperOk /\ LeaseOk(t) /\ PooledOk(s) /\ StageOk(s)
  BY Zenon DEF TcpInv
<1>2. PICK o \in TcpRecs : o = tcp[t]
  BY Zenon, <1>1 DEF TcpType
<1>3. o.pc = "dial" /\ o.call # 0 /\ o.sock = 0
  BY Zenon, <1>1, <1>2 DEF DialSucceeds, LeaseOk
<1>4. s \notin handlers /\ sock[s].client = "closed" /\ sock[s].stage = "closed" /\ listening
  BY Zenon DEF DialSucceeds, FreshSockets
<1>5. s \notin pool.sockets /\ s # 0
  BY Zenon, <1>1, <1>4, TcpAssumption DEF PooledOk
<1>6. PICK n : n = [NoSocket EXCEPT !.client = "open", !.stage = "backlog"]
  BY Zenon
<1>7. n \in SockRecs /\ QuietSock(n) /\ n.client = "open" /\ n.stage = "backlog" /\ n.request = 0
  <2>1. NoSocket \in SockRecs /\ QuietSock(NoSocket) /\ NoSocket.request = 0
    BY DEF NoSocket, SockRecs, QuietSock, TcpStages
  <2> QED
    BY ZenonT(60), <1>6, <2>1 DEF SockRecs, QuietSock, TcpStages
<1>8. /\ sock' \in [Sockets -> SockRecs] /\ sock'[s] = n
      /\ \A r \in Sockets \ {s} : sock'[r] = sock[r]
  <2>1. sock' = [sock EXCEPT ![s] = n]
    BY Zenon, <1>6 DEF DialSucceeds
  <2> QED
    BY Zenon, <1>1, <1>7, <2>1 DEF TcpType
<1>9. PICK m : m = [o EXCEPT !.pc = "send", !.sock = s, !.reused = FALSE, !.late = FALSE]
  BY Zenon
<1>10. m \in TcpRecs /\ m.pc = "send" /\ m.sock = s /\ m.call = o.call
  BY Zenon, <1>9 DEF TcpRecs
<1>11. tcp' = Woken([tcp EXCEPT ![t] = m])
  BY Zenon, <1>1, <1>2, <1>9 DEF DialSucceeds, TcpType
<1>12. /\ tcp' \in [TcpCallers -> TcpRecs]
       /\ \A u \in TcpCallers \ {t} : SameCaller(tcp[u], tcp'[u])
       /\ SameCaller(m, tcp'[t])
  BY ZenonT(60), <1>1, <1>10, <1>11, WokenAfter DEF TcpType
<1>13. tcp'[t].pc = "send" /\ tcp'[t].sock = s /\ tcp'[t].call # 0
  BY Zenon, <1>3, <1>10, <1>12 DEF SameCaller
<1>14. pool.sockets \subseteq Sockets /\ pool.creating \in Int
  BY Zenon, <1>1 DEF TcpType, PoolRecs
<1>15. pool' = [sockets |-> pool.sockets \cup {s}, creating |-> pool.creating - 1,
                streak |-> 0, backoff |-> 0]
  BY Zenon DEF DialSucceeds
<1>16. pool' \in PoolRecs(pool') /\ pool'.sockets = pool.sockets \cup {s}
       /\ pool'.creating = pool.creating - 1
  BY <1>14, <1>15 DEF PoolRecs
<1>17. UNCHANGED <<listening, tcpAcceptor, tcpStopper, handlers, connFds, tcpCalls>>
  BY Zenon DEF DialSucceeds
<1>18. TcpType'
  BY Zenon, <1>1, <1>8, <1>12, <1>16, <1>17 DEF TcpType
<1>19. StopperOk'
  BY Zenon, <1>1, <1>17 DEF StopperOk
<1>20. ASSUME NEW r \in Sockets
       PROVE  StageOk(r)'
  <2>1. StageOk(r)
    BY Zenon DEF TcpInv
  <2>2. CASE r = s
    BY Zenon, <1>1, <1>4, <1>7, <1>8, <1>17, <2>2 DEF StageOk, ServedStages
  <2>3. CASE r # s
    BY ZenonT(60), <1>8, <1>17, <2>1, <2>3 DEF StageOk
  <2> QED
    BY Zenon, <2>2, <2>3
<1>21. PoolBound'
  <2>1. PICK a : a = pool.sockets
    BY Zenon
  <2>2. IsFiniteSet(a) /\ MaxConnections \in Nat
    BY Zenon, <1>14, <2>1, TcpAssumption, FS_Subset
  <2>3. Cardinality(a \cup {s}) = Cardinality(a) + 1 /\ Cardinality(a) \in Nat
    BY Zenon, <1>5, <2>1, <2>2, FS_AddElement, FS_CardinalityType
  <2>4. Cardinality(a) + pool.creating <= MaxConnections
    BY Zenon, <2>1 DEF TcpInv, PoolBound
  <2>5. Cardinality(pool'.sockets) = Cardinality(a) + 1
    BY Zenon, <1>16, <2>1, <2>3
  <2> QED
    BY SMTT(60), <1>14, <1>16, <2>2, <2>3, <2>4, <2>5 DEF PoolBound
<1>22. LeaseOk(t)'
  BY Zenon, <1>7, <1>8, <1>13, <1>16 DEF LeaseOk
<1>23. ASSUME NEW u \in TcpCallers \ {t}, tcp[u].sock # 0
       PROVE  /\ tcp[u].sock \in pool'.sockets
              /\ sock'[tcp[u].sock] = sock[tcp[u].sock]
              /\ tcp'[t].sock # tcp[u].sock
  <2>1. tcp[u].sock \in pool.sockets
    BY Zenon, <1>23, LeasedIsPooled
  <2> QED
    BY Zenon, <1>5, <1>8, <1>13, <1>14, <1>16, <2>1
<1>24. \A u \in TcpCallers : LeaseOk(u)' /\ OnlyLease(u)'
  BY Zenon, <1>12, <1>22, <1>23, CallersKeep
<1>25. ASSUME NEW r \in Sockets
       PROVE  PooledOk(r)'
  <2>1. CASE r = s
    BY Zenon, <1>7, <1>8, <2>1 DEF PooledOk
  <2>2. CASE r # s
    <3>1. PooledOk(r) /\ sock'[r] = sock[r]
      BY Zenon, <1>8, <2>2 DEF TcpInv
    <3>2. r \in pool'.sockets => r \in pool.sockets
      BY Zenon, <1>16, <2>2
    <3>3. Busy(r) /\ r \in pool.sockets => Busy(r)'
      <4> SUFFICES ASSUME NEW u \in TcpCallers, tcp[u].sock = r, r \in pool.sockets
                   PROVE  Busy(r)'
        BY Zenon DEF Busy
      <4>1. r # 0
        BY Zenon, <1>14, TcpAssumption
      <4>2. u # t
        BY Zenon, <1>2, <1>3, <4>1
      <4> QED
        BY Zenon, <1>12, <4>2 DEF Busy, SameCaller
    <3> QED
      BY Zenon, <3>1, <3>2, <3>3 DEF PooledOk
  <2> QED
    BY Zenon, <2>1, <2>2
<1> QED
  BY Zenon, <1>18, <1>19, <1>20, <1>21, <1>24, <1>25 DEF TcpInv

(* A socket that one caller holds changes: the step of that caller. *)
LEMMA HolderStep ==
  ASSUME TcpInv, NEW t \in TcpCallers, NEW s, s = tcp[t].sock, s # 0, NEW n \in SockRecs,
         sock' = [sock EXCEPT ![s] = n],
         n.client = sock[s].client, n.stage = sock[s].stage, n.request = sock[s].request,
         tcp' \in [TcpCallers -> TcpRecs],
         \A u \in TcpCallers \ {t} : SameCaller(tcp[u], tcp'[u]),
         tcp'[t].sock \in {0, s}, LeaseOk(t)', tcp'[t].sock = 0 => QuietSock(n),
         pool' \in PoolRecs(pool'), pool'.sockets = pool.sockets, pool'.creating = pool.creating,
         UNCHANGED <<listening, tcpAcceptor, tcpStopper, handlers, connFds, tcpCalls>>
  PROVE  TcpInv'
<1>1. TcpType /\ OnlyLease(t) /\ PoolBound
  BY Zenon DEF TcpInv
<1>2. s \in pool.sockets /\ pool.sockets \subseteq Sockets
  BY Zenon, <1>1, LeasedIsPooled DEF TcpType, PoolRecs
<1>3. /\ sock' \in [Sockets -> SockRecs] /\ sock'[s] = n
      /\ \A r \in Sockets \ {s} : sock'[r] = sock[r]
  BY Zenon, <1>1, <1>2 DEF TcpType
<1>4. TcpType'
  BY ZenonT(60), <1>1, <1>3 DEF TcpType
<1>5. StopperOk' /\ \A r \in Sockets : StageOk(r)'
  BY Zenon, <1>3, ClientKeepsStages
<1>6. PoolBound'
  BY Zenon, <1>1 DEF PoolBound
<1>7. \A u \in TcpCallers \ {t} : tcp[u].sock # s
  BY Zenon, <1>1 DEF OnlyLease
<1>8. ASSUME NEW u \in TcpCallers \ {t}, tcp[u].sock # 0
      PROVE  /\ tcp[u].sock \in pool'.sockets
             /\ sock'[tcp[u].sock] = sock[tcp[u].sock]
             /\ tcp'[t].sock # tcp[u].sock
  <2>1. tcp[u].sock \in pool.sockets /\ tcp[u].sock # s
    BY Zenon, <1>7, <1>8, LeasedIsPooled
  <2> QED
    BY Zenon, <1>2, <1>3, <1>8, <2>1
<1>9. \A u \in TcpCallers : LeaseOk(u)' /\ OnlyLease(u)'
  BY ZenonT(60), <1>8, CallersKeep
<1>10. ASSUME NEW r \in Sockets
       PROVE  PooledOk(r)'
  <2>1. PooledOk(r)
    BY Zenon DEF TcpInv
  <2>2. CASE r = s
    <3>1. sock'[s].client = "open"
      BY Zenon, <1>2, <1>3, <2>1, <2>2 DEF PooledOk
    <3>2. tcp'[t].sock = s => Busy(s)'
      BY Zenon DEF Busy
    <3>3. Busy(s)' \/ QuietSock(sock'[s])
      BY Zenon, <1>3, <3>2
    <3> QED
      BY Zenon, <2>2, <3>1, <3>3 DEF PooledOk
  <2>3. CASE r # s
    <3>1. sock'[r] = sock[r]
      BY Zenon, <1>3, <2>3
    <3>2. ASSUME NEW u \in TcpCallers, tcp[u].sock = r
          PROVE  Busy(r)'
      <4>1. u # t
        BY Zenon, <2>3, <3>2
      <4> QED
        BY Zenon, <3>2, <4>1 DEF Busy, SameCaller
    <3> QED
      BY Zenon, <2>1, <3>1, <3>2 DEF PooledOk, Busy
  <2> QED
    BY ZenonT(60), <2>2, <2>3
<1> QED
  BY Zenon, <1>4, <1>5, <1>6, <1>9, <1>10 DEF TcpInv

(* OneShot sends the request. *)
LEMMA SendKeepsTcpInv ==
  ASSUME TcpInv, NEW t \in TcpCallers, SendRequest(t)
  PROVE  TcpInv'
<1>1. TcpType /\ LeaseOk(t)
  BY Zenon DEF TcpInv
<1>2. PICK o \in TcpRecs : o = tcp[t]
  BY Zenon, <1>1 DEF TcpType
<1>3. PICK s : s = o.sock
  BY Zenon
<1>4. o.pc = "send" /\ s \in pool.sockets /\ QuietSock(sock[s]) /\ o.call \in Nat \ {0}
  <2>1. o.call \in Nat
    BY Zenon DEF TcpRecs
  <2> QED
    BY Zenon, <1>1, <1>2, <1>3, <2>1 DEF SendRequest, LeaseOk
<1>5. s \in Sockets /\ s # 0 /\ pool \in PoolRecs(pool)
  BY Zenon, <1>1, <1>4, TcpAssumption DEF TcpType, PoolRecs
<1>6. PICK p \in SockRecs : p = sock[s]
  BY Zenon, <1>1, <1>5 DEF TcpType
<1>7. PICK e \in Seq(Nat \ {0}) : e = Append(<<>>, o.call) /\ e = <<o.call>>
  <2>1. <<o.call>> \in Seq(Nat \ {0}) /\ Append(<<>>, o.call) = <<o.call>>
    BY <1>4
  <2> QED
    BY Zenon, <2>1
<1>8. PICK n : n = IF p.stage = "closed" THEN p ELSE [p EXCEPT !.up = e]
  BY Zenon
<1>9. /\ n \in SockRecs /\ n.client = p.client /\ n.stage = p.stage /\ n.request = p.request
      /\ n.down = p.down /\ (n.up = p.up \/ n.up = e)
  BY ZenonT(60), <1>8 DEF SockRecs
<1>10. CarriesOnly(n, o.call)
  <2>1. p.up = <<>> /\ p.down = <<>> /\ p.request = 0
    BY Zenon, <1>4, <1>6 DEF QuietSock
  <2> QED
    BY Zenon, <1>7, <1>9, <2>1 DEF CarriesOnly, QuietSock
<1>11. sock' = [sock EXCEPT ![s] = n]
  <2>1. p.up = <<>>
    BY Zenon, <1>4, <1>6 DEF QuietSock
  <2>2. CASE p.stage = "closed"
    <3>1. sock' = sock
      BY Zenon, <1>2, <1>3, <1>6, <2>2 DEF SendRequest
    <3> QED
      BY Zenon, <1>1, <1>5, <1>6, <1>8, <2>2, <3>1 DEF TcpType
  <2>3. CASE p.stage # "closed"
    <3>1. sock' = [sock EXCEPT ![s].up = Append(@, o.call)]
      BY Zenon, <1>2, <1>3, <1>6, <2>3 DEF SendRequest
    <3> QED
      BY ZenonT(60), <1>1, <1>5, <1>6, <1>7, <1>8, <2>1, <2>3, <3>1 DEF TcpType
  <2> QED
    BY Zenon, <2>2, <2>3
<1>12. PICK m : m = [o EXCEPT !.pc = "recv"]
  BY Zenon
<1>13. m \in TcpRecs /\ m.pc = "recv" /\ m.sock = s /\ m.call = o.call
  BY Zenon, <1>3, <1>12 DEF TcpRecs
<1>14. /\ tcp' \in [TcpCallers -> TcpRecs]
       /\ \A u \in TcpCallers \ {t} : SameCaller(tcp[u], tcp'[u])
       /\ tcp'[t] = m
  <2>1. tcp' = [tcp EXCEPT ![t] = m]
    BY Zenon, <1>2, <1>12 DEF SendRequest
  <2> QED
    BY Zenon, <1>1, <1>13, <2>1 DEF TcpType, SameCaller
<1>15. pool' = pool
       /\ UNCHANGED <<listening, tcpAcceptor, tcpStopper, handlers, connFds, tcpCalls>>
  BY Zenon DEF SendRequest
<1>16. sock'[s] = n
  BY ZenonT(60), <1>1, <1>5, <1>11 DEF TcpType
<1>17. LeaseOk(t)'
  BY Zenon, <1>4, <1>10, <1>13, <1>14, <1>15, <1>16 DEF LeaseOk
<1>18. tcp'[t].sock = s
  BY Zenon, <1>13, <1>14
<1>19. s = tcp[t].sock /\ n.client = sock[s].client /\ n.stage = sock[s].stage
       /\ n.request = sock[s].request
  BY Zenon, <1>2, <1>3, <1>6, <1>9
<1> QED
  BY ZenonT(60), <1>5, <1>9, <1>11, <1>14, <1>15, <1>17, <1>18, <1>19, HolderStep

(* The answer arrives: it was the only thing on the socket, which is quiet  *)
(* when it goes back to the pool.                                           *)
LEMMA HealthyKeepsTcpInv ==
  ASSUME TcpInv, NEW t \in TcpCallers, CompleteHealthy(t)
  PROVE  TcpInv'
<1>1. TcpType /\ LeaseOk(t)
  BY Zenon DEF TcpInv
<1>2. PICK o \in TcpRecs : o = tcp[t]
  BY Zenon, <1>1 DEF TcpType
<1>3. PICK s : s = o.sock
  BY Zenon
<1>4. o.pc = "recv" /\ s \in pool.sockets /\ CarriesOnly(sock[s], o.call) /\ sock[s].down # <<>>
  BY Zenon, <1>1, <1>2, <1>3 DEF CompleteHealthy, LeaseOk
<1>5. s \in Sockets /\ s # 0 /\ pool \in PoolRecs(pool)
  BY ZenonT(60), <1>1, <1>4, TcpAssumption DEF TcpType, PoolRecs
<1>6. PICK p \in SockRecs : p = sock[s]
  BY Zenon, <1>1, <1>5 DEF TcpType
<1>7. p.up = <<>> /\ p.down = <<o.call>> /\ p.request = 0
  BY Zenon, <1>4, <1>6 DEF CarriesOnly, QuietSock
<1>8. PICK e \in Seq(Nat) : e = Tail(p.down) /\ e = <<>>
  <2>1. Tail(<<o.call>>) = <<>> /\ <<>> \in Seq(Nat)
    OBVIOUS
  <2> QED
    BY Zenon, <1>7, <2>1
<1>9. PICK n : n = [p EXCEPT !.down = e]
  BY Zenon
<1>10. /\ n \in SockRecs /\ n.client = p.client /\ n.stage = p.stage /\ n.request = p.request
       /\ QuietSock(n)
  BY Zenon, <1>7, <1>8, <1>9 DEF SockRecs, QuietSock
<1>11. sock' = [sock EXCEPT ![s] = n]
  BY ZenonT(60), <1>1, <1>2, <1>3, <1>5, <1>6, <1>8, <1>9 DEF CompleteHealthy, TcpType
<1>12. tcp' = Woken([tcp EXCEPT ![t] = IdleTcp])
  BY Zenon DEF CompleteHealthy
<1>13. /\ tcp' \in [TcpCallers -> TcpRecs]
       /\ \A u \in TcpCallers \ {t} : SameCaller(tcp[u], tcp'[u])
       /\ SameCaller(IdleTcp, tcp'[t])
  BY ZenonT(60), <1>1, <1>12, IdleIsUnleased, WokenAfter DEF TcpType
<1>14. Unleased(tcp'[t])
  BY Zenon, <1>13, IdleIsUnleased DEF Unleased, SameCaller
<1>15. LeaseOk(t)' /\ tcp'[t].sock = 0
  BY Zenon, <1>14 DEF LeaseOk, Unleased
<1>16. pool' = [pool EXCEPT !.streak = 0, !.backoff = 0]
       /\ UNCHANGED <<listening, tcpAcceptor, tcpStopper, handlers, connFds, tcpCalls>>
  BY Zenon DEF CompleteHealthy
<1>17. pool' \in PoolRecs(pool') /\ pool'.sockets = pool.sockets /\ pool'.creating = pool.creating
  BY ZenonT(60), <1>5, <1>16 DEF PoolRecs
<1>18. s = tcp[t].sock /\ n.client = sock[s].client /\ n.stage = sock[s].stage
       /\ n.request = sock[s].request
  BY Zenon, <1>2, <1>3, <1>6, <1>10
<1> QED
  BY ZenonT(60), <1>5, <1>10, <1>11, <1>13, <1>15, <1>16, <1>17, <1>18, HolderStep

-----------------------------------------------------------------------------
(* TCP: the theorem. *)

(* The first state: no socket, no call, a listening server. *)
LEMMA TcpStarts == TcpInit => TcpInv
<1> SUFFICES ASSUME TcpInit PROVE TcpInv
  BY Zenon
<1>1. /\ sock = [s \in Sockets |-> NoSocket] /\ tcp = [t \in TcpCallers |-> IdleTcp]
      /\ pool = [sockets |-> {}, creating |-> 0, streak |-> 0, backoff |-> 0]
      /\ tcpCalls = 0 /\ handlers = {} /\ connFds = {} /\ listening = TRUE
      /\ tcpAcceptor = [pc |-> "accept", taken |-> 0] /\ tcpStopper = "idle"
  BY Zenon DEF TcpInit, TcpServerInit, Accepting
<1>2. NoSocket \in SockRecs /\ NoSocket.stage = "closed" /\ NoSocket.request = 0
  BY SMTT(60) DEF NoSocket, SockRecs, TcpStages
<1>3. TcpType
  <2>1. pool \in PoolRecs(pool)
    BY SMTT(60), <1>1 DEF PoolRecs
  <2>2. sock \in [Sockets -> SockRecs] /\ tcp \in [TcpCallers -> TcpRecs]
    BY Zenon, <1>1, <1>2, IdleIsUnleased
  <2> QED
    BY Zenon, <1>1, <2>1, <2>2 DEF TcpType
<1>4. StopperOk
  BY Zenon, <1>1 DEF StopperOk
<1>5. PoolBound
  <2>1. pool.sockets = {} /\ pool.creating = 0
    BY Zenon, <1>1
  <2> QED
    BY SMTT(60), <2>1, FS_EmptySet, TcpAssumption DEF PoolBound
<1>6. \A t \in TcpCallers : LeaseOk(t) /\ OnlyLease(t)
  BY Zenon, <1>1, IdleIsUnleased DEF LeaseOk, OnlyLease, Unleased
<1>7. \A s \in Sockets : PooledOk(s) /\ StageOk(s)
  BY Zenon, <1>1, <1>2 DEF PooledOk, StageOk, ServedStages
<1> QED
  BY Zenon, <1>3, <1>4, <1>5, <1>6, <1>7 DEF TcpInv

(* Every step keeps the invariant. *)
LEMMA TcpSteps == TcpInv /\ [TcpNext]_tcpVars => TcpInv'
<1> SUFFICES ASSUME TcpInv, [TcpNext]_tcpVars PROVE TcpInv'
  BY Zenon
<1>1. CASE TcpServerNext /\ UNCHANGED connPoolVars
  BY Zenon, <1>1, ServerKeepsTcpInv
<1>2. ASSUME NEW t \in TcpCallers, RoundTrip(t) \/ TcpCaller(t)
      PROVE  TcpInv'
  BY ZenonT(60), <1>2, RoundTripKeepsTcpInv, AcquireKeepsTcpInv, AcquireTimesOutKeepsTcpInv,
     ConnectFailsKeepsTcpInv, DialKeepsTcpInv, SendKeepsTcpInv, HealthyKeepsTcpInv,
     CompleteFailedKeepsTcpInv DEF TcpCaller
<1>3. CASE TcpTick
  BY Zenon, <1>3, TickKeepsTcpInv
<1>4. CASE UNCHANGED tcpVars
  <2>1. UNCHANGED <<sock, listening, tcpAcceptor, tcpStopper, handlers, connFds, pool, tcp,
                    tcpCalls>>
    BY Zenon, <1>4 DEF tcpVars, tcpServerVars
  <2>2. TcpType /\ StopperOk /\ (\A s \in Sockets : StageOk(s))
    BY Zenon DEF TcpInv
  <2>3. /\ sock' \in [Sockets -> SockRecs] /\ handlers' \subseteq Sockets
        /\ connFds' \subseteq Sockets
        /\ tcpAcceptor' \in [pc : {"accept", "register", "ended"}, taken : Sockets \cup {0}]
        /\ tcpStopper' \in {"idle", "join accept", "join handlers", "stopped"}
        /\ listening' \in BOOLEAN
    BY Zenon, <2>1, <2>2 DEF TcpType
  <2>4. StopperOk' /\ \A s \in Sockets : StageOk(s)'
    BY Zenon, <2>1, ClientKeepsStages
  <2>5. \A s \in Sockets : ServerKeeps(sock[s], sock'[s])
    BY Zenon, <2>1 DEF ServerKeeps
  <2>6. UNCHANGED connPoolVars
    BY Zenon, <1>4 DEF tcpVars, connPoolVars
  <2> QED
    BY ZenonT(60), <2>3, <2>4, <2>5, <2>6, ServerStep
<1> QED
  BY Zenon, <1>1, <1>2, <1>3, <1>4 DEF TcpNext

(* The invariant gives both properties. *)
LEMMA TcpInvGives == TcpInv => AnswersAreOwn /\ StoppedIsDrained
<1> SUFFICES ASSUME TcpInv PROVE AnswersAreOwn /\ StoppedIsDrained
  BY Zenon
<1>1. AnswersAreOwn
  <2>1. ASSUME NEW t \in TcpCallers, tcp[t].pc = "recv"
        PROVE  /\ \A i \in DOMAIN sock[tcp[t].sock].down :
                     sock[tcp[t].sock].down[i] = tcp[t].call
               /\ \A u \in TcpCallers \ {t} : tcp[u].sock # tcp[t].sock
    <3>1. LeaseOk(t) /\ OnlyLease(t)
      BY Zenon DEF TcpInv
    <3>2. PICK p : p = sock[tcp[t].sock]
      BY Zenon
    <3>3. CarriesOnly(p, tcp[t].call) /\ tcp[t].sock \in pool.sockets
      BY Zenon, <2>1, <3>1, <3>2 DEF LeaseOk
    <3>4. tcp[t].sock # 0
      BY ZenonT(60), <3>3, TcpAssumption DEF TcpInv, TcpType, PoolRecs
    <3>5. p.down = <<>> \/ p.down = <<tcp[t].call>>
      BY Zenon, <3>3 DEF CarriesOnly, QuietSock
    <3>6. \A i \in DOMAIN p.down : p.down[i] = tcp[t].call
      BY SMTT(60), <3>5
    <3> QED
      BY Zenon, <3>1, <3>2, <3>4, <3>6 DEF OnlyLease
  <2> QED
    BY Zenon, <2>1 DEF AnswersAreOwn, TcpInv, PoolBound
<1>2. StoppedIsDrained
  <2> SUFFICES ASSUME tcpStopper = "stopped"
               PROVE  /\ handlers = {} /\ connFds = {}
                      /\ \A s \in Sockets : sock[s].stage = "closed"
    BY Zenon DEF StoppedIsDrained
  <2>1. handlers = {} /\ ~listening /\ tcpAcceptor.pc = "ended" /\ connFds \subseteq Sockets
    BY Zenon DEF TcpInv, StopperOk, TcpType
  <2>2. ASSUME NEW s \in Sockets
        PROVE  sock[s].stage = "closed" /\ s \notin connFds
    <3>1. StageOk(s) /\ sock[s] \in SockRecs
      BY Zenon DEF TcpInv, TcpType
    <3>2. sock[s].stage \in TcpStages
      BY Zenon, <3>1 DEF SockRecs
    <3> QED
      BY Zenon, <2>1, <3>1, <3>2 DEF StageOk, ServedStages, TcpStages
  <2> QED
    BY Zenon, <2>1, <2>2
<1> QED
  BY Zenon, <1>1, <1>2

(* The TCP transport never mixes answers up, and Stop drains: whatever      *)
(* timeouts, dead pooled sockets, retries and restarts of the server come   *)
(* in between, a caller that waits for an answer has its socket to itself   *)
(* and finds nothing on it but the answer to its own call (OneShot and      *)
(* Complete close every socket whose exchange failed); sockets and dials    *)
(* stay within the pool's maximum; and when KvNodeServer's Stop has         *)
(* returned no handler thread, registered descriptor or open connection is  *)
(* left.                                                                    *)
THEOREM AnswersAreNeverMixedUp == TcpSpec => [](AnswersAreOwn /\ StoppedIsDrained)
<1>1. TcpSpec => []TcpInv
  BY TcpStarts, TcpSteps, PTL DEF TcpSpec
<1> QED
  BY <1>1, TcpInvGives, PTL

=============================================================================
