---------------------------- MODULE ServerProofs ----------------------------
(***************************************************************************)
(* Proofs about the threads that serve on a cache node, for every value of *)
(* the constants.  RdmaServer: when Stop has returned every Serve thread is*)
(* joined and the receive memory is back, and while it runs some thread    *)
(* can run.  ReadCoalescer: the reads that concurrent requests for one     *)
(* object share, for any threads, keys and depth of their rings.           *)
(***************************************************************************)
EXTENDS RdmaServer, ReadCoalescer, FiniteSetTheorems, TLAPS

-----------------------------------------------------------------------------
(* The values of the variables. *)
Places == {"none", "boot", "lease", "leaseWait", "open", "register", "busy", "stage",
           "stageWait", "wait", "unwind", "done", "joined"}

Thread == [at : Places, lease : 0..2, reclaim : BOOLEAN, woken : BOOLEAN]

ServerType ==
    /\ running \in BOOLEAN
    /\ acceptor \in {"accept", "exited"}
    /\ stopper \in {"none", "accept", "join", "stopped"}
    /\ conns \in SUBSET SConns /\ liveEps \in SUBSET SConns
    /\ serve \in [SConns -> Thread]
    /\ poolFree \in Nat /\ requests \in Nat

(* Stop clears running_ first, then waits for the acceptor, then for the      *)
(* threads: they are joined once it has returned. *)
StopInOrder ==
    /\ running <=> stopper = "none"
    /\ acceptor = "exited" => ~running
    /\ stopper \in {"join", "stopped"} => acceptor = "exited"
    /\ stopper = "stopped" => conns = {}

(* conns_ holds exactly the threads that were started and not yet joined. *)
ConnsAreThreads == \A c \in SConns : c \in conns <=> serve[c].at \notin {"none", "joined"}

(* The leases a thread holds where it is. *)
LeasesOf(at) ==
    IF at \in {"open", "register", "stage", "stageWait", "wait"} THEN {1}
    ELSE IF at \in {"busy", "unwind"} THEN {1, 2} ELSE {0}

(* A thread in the serve loop is known to Stop, or has been woken. *)
Serving == {"busy", "stage", "stageWait", "wait"}

ThreadIsSound(c) ==
    /\ serve[c].lease \in LeasesOf(serve[c].at)
    /\ c \in liveEps => serve[c].at \in {"busy", "stage", "stageWait", "wait", "unwind"}
    /\ serve[c].reclaim => serve[c].at \in {"wait", "unwind"}
    /\ serve[c].at \in Serving => c \in liveEps \/ serve[c].woken
    /\ serve[c].at = "wait" /\ stopper \in {"join", "stopped"} => serve[c].woken

(* The units of receive memory that connections hold; with the free ones they *)
(* are the pool. *)
Held(s) == { p \in SConns \X {1, 2} : p[2] <= s[p[1]].lease }
MemoryIsExact == poolFree + Cardinality(Held(serve)) = PoolUnits

ServerInv ==
    /\ ServerType
    /\ StopInOrder
    /\ ConnsAreThreads
    /\ \A c \in SConns : ThreadIsSound(c)
    /\ MemoryIsExact

-----------------------------------------------------------------------------
(* The units held are those of the other connections and those of c. *)
LEMMA HeldSplits ==
    ASSUME RdmaServerAssumption, NEW s \in [SConns -> Thread], NEW c \in SConns,
           NEW R, R = { p \in Held(s) : p[1] # c }
    PROVE  /\ Cardinality(R) \in Nat
           /\ Cardinality(Held(s)) = Cardinality(R) + s[c].lease
<1>1. PICK one, two : one = <<c, 1>> /\ two = <<c, 2>>  BY Zenon
<1>2. IsFiniteSet(R)
  <2>1. {1, 2} = 1..2 /\ 1 \in Int /\ 2 \in Int  OBVIOUS
  <2>2. IsFiniteSet({1, 2})  BY ONLY Zenon, <2>1, FS_Interval
  <2>3. IsFiniteSet(SConns \X {1, 2})  BY Zenon, <2>2, FS_Product DEF RdmaServerAssumption
  <2>4. R \in SUBSET (SConns \X {1, 2})  BY Zenon DEF Held
  <2> QED  BY ONLY Zenon, <2>3, <2>4, FS_Subset
<1>3. Cardinality(R) \in Nat  BY Zenon, <1>2, FS_CardinalityType
<1>4. one \notin R /\ two \notin R \cup {one}  BY <1>1
<1>5. PICK H : H = Held(s)  BY Zenon
<1>6. PICK n \in 0..2 : n = s[c].lease  BY Zenon DEF Thread
<1>7. \A p \in H : p \in R \/ (p = one /\ 1 <= n) \/ (p = two /\ 2 <= n)
  <2> TAKE p \in H
  <2>1. p \in SConns \X {1, 2} /\ p[2] <= s[p[1]].lease  BY Zenon, <1>5 DEF Held
  <2>2. PICK d \in SConns, i \in {1, 2} : p = <<d, i>>  BY <2>1
  <2>3. CASE d = c
    <3>1. i <= n  BY Zenon, <1>6, <2>1, <2>2, <2>3
    <3> QED  BY Zenon, <1>1, <2>2, <2>3, <3>1
  <2>4. CASE d # c  BY Zenon, <1>5, <2>2, <2>4
  <2> QED  BY Zenon, <2>3, <2>4
<1>8. /\ R \subseteq H
      /\ 1 <= n => one \in H
      /\ 2 <= n => two \in H
  <2>1. R \subseteq H  BY Zenon, <1>5
  <2>2. one \in SConns \X {1, 2} /\ one[1] = c /\ one[2] = 1  BY Zenon, <1>1
  <2>3. two \in SConns \X {1, 2} /\ two[1] = c /\ two[2] = 2  BY Zenon, <1>1
  <2> QED  BY Zenon, <1>5, <1>6, <2>1, <2>2, <2>3 DEF Held
<1>9. CASE n = 0
  <2>1. H = R  BY <1>7, <1>8, <1>9
  <2> QED  BY <1>3, <1>5, <1>6, <1>9, <2>1
<1>10. CASE n = 1
  <2>1. H = R \cup {one}  BY <1>7, <1>8, <1>10
  <2>2. Cardinality(H) = Cardinality(R) + 1
    BY ONLY Zenon, <1>2, <1>4, <2>1, FS_AddElement
  <2> QED  BY Zenon, <1>3, <1>5, <1>6, <1>10, <2>2
<1>11. CASE n = 2
  <2>1. PICK Q : Q = R \cup {one}  BY Zenon
  <2>2. H = Q \cup {two}  BY <1>7, <1>8, <1>11, <2>1
  <2>3. IsFiniteSet(Q) /\ Cardinality(Q) = Cardinality(R) + 1
    BY ONLY Zenon, <1>2, <1>4, <2>1, FS_AddElement
  <2>4. Cardinality(H) = Cardinality(Q) + 1
    BY ONLY Zenon, <1>4, <2>1, <2>2, <2>3, FS_AddElement
  <2> QED  BY <1>3, <1>5, <1>6, <1>11, <2>3, <2>4
<1> QED  BY <1>9, <1>10, <1>11

(* A change of one connection's leases changes the units held by as much. *)
LEMMA HeldFollows ==
    ASSUME RdmaServerAssumption,
           NEW s \in [SConns -> Thread], NEW t \in [SConns -> Thread], NEW c \in SConns,
           \A d \in SConns \ {c} : t[d].lease = s[d].lease
    PROVE  /\ Cardinality(Held(s)) \in Nat /\ Cardinality(Held(t)) \in Nat
           /\ Cardinality(Held(t)) + s[c].lease = Cardinality(Held(s)) + t[c].lease
<1>1. PICK R : R = { p \in Held(s) : p[1] # c }  BY Zenon
<1>2. R = { p \in Held(t) : p[1] # c }
  <2>1. \A p \in SConns \X {1, 2} : p[1] # c => (p \in Held(s) <=> p \in Held(t))
    BY Zenon DEF Held
  <2>2. Held(s) \subseteq SConns \X {1, 2} /\ Held(t) \subseteq SConns \X {1, 2}
    BY Zenon DEF Held
  <2> QED  BY Zenon, <1>1, <2>1, <2>2
<1>3. Cardinality(R) \in Nat /\ Cardinality(Held(s)) = Cardinality(R) + s[c].lease
  BY Zenon, <1>1, HeldSplits
<1>4. Cardinality(Held(t)) = Cardinality(R) + t[c].lease
  BY Zenon, <1>2, HeldSplits
<1>5. s[c].lease \in Nat /\ t[c].lease \in Nat  BY DEF Thread
<1>6. PICK n \in Nat : n = Cardinality(R)  BY Zenon, <1>3
<1> QED  BY <1>3, <1>4, <1>5, <1>6

(* Steps that leave every lease alone leave the units held alone. *)
LEMMA HeldStays ==
    ASSUME NEW s, NEW t, \A c \in SConns : t[c].lease = s[c].lease
    PROVE  Held(t) = Held(s)
  BY Zenon DEF Held

-----------------------------------------------------------------------------
(* A step of the Serve thread of c: it goes on to record r, takes or returns   *)
(* memory, and enters or leaves live_eps_, and nothing else changes. *)
LEMMA ThreadStep ==
    ASSUME RdmaServerAssumption, ServerInv, NEW c \in SConns, NEW r \in Thread,
           serve' = [serve EXCEPT ![c] = r],
           UNCHANGED <<running, acceptor, stopper, conns>>,
           c \in conns, r.at \notin {"none", "joined"},
           poolFree' \in Nat, requests' \in Nat,
           poolFree' + r.lease = poolFree + serve[c].lease,
           liveEps' \in SUBSET SConns, liveEps' \ {c} = liveEps \ {c},
           r.lease \in LeasesOf(r.at),
           c \in liveEps' => r.at \in {"busy", "stage", "stageWait", "wait", "unwind"},
           r.reclaim => r.at \in {"wait", "unwind"},
           r.at \in Serving => c \in liveEps' \/ r.woken,
           r.at = "wait" /\ stopper \in {"join", "stopped"} => r.woken
    PROVE  ServerInv'
<1>1. ServerType  BY Zenon DEF ServerInv
<1>2. ServerType'  BY Zenon, <1>1 DEF ServerType
<1>3. serve'[c] = r /\ \A d \in SConns \ {c} : serve'[d] = serve[d]
  BY Zenon, <1>1 DEF ServerType
<1>4. StopInOrder'  BY Zenon DEF ServerInv, StopInOrder
<1>5. ConnsAreThreads'  BY Zenon, <1>3 DEF ServerInv, ConnsAreThreads
<1>6. \A d \in SConns : ThreadIsSound(d)'
  <2> TAKE d \in SConns
  <2>1. CASE d = c  BY Zenon, <1>3, <2>1 DEF ThreadIsSound
  <2>2. CASE d # c
    <3>1. serve'[d] = serve[d]  BY Zenon, <1>3, <2>2
    <3>2. d \in liveEps' <=> d \in liveEps  BY Zenon, <2>2
    <3>3. ThreadIsSound(d)  BY Zenon DEF ServerInv
    <3> QED  BY Zenon, <3>1, <3>2, <3>3 DEF ThreadIsSound
  <2> QED  BY Zenon, <2>1, <2>2
<1>7. MemoryIsExact'
  <2>1. serve \in [SConns -> Thread] /\ serve' \in [SConns -> Thread]
    BY Zenon, <1>1, <1>2 DEF ServerType
  <2>2. /\ Cardinality(Held(serve)) \in Nat /\ Cardinality(Held(serve')) \in Nat
        /\ Cardinality(Held(serve')) + serve[c].lease = Cardinality(Held(serve)) + r.lease
    BY ZenonT(60), <1>3, <2>1, HeldFollows
  <2>3. PICK old \in Nat, new \in Nat :
          old = Cardinality(Held(serve)) /\ new = Cardinality(Held(serve'))
    BY Zenon, <2>2
  <2>4. PICK a \in Nat, b \in Nat : a = serve[c].lease /\ b = r.lease
    BY <2>1 DEF Thread
  <2>5. poolFree \in Nat /\ PoolUnits \in Nat /\ poolFree + old = PoolUnits
    BY Zenon, <1>1, <2>3 DEF ServerType, ServerInv, MemoryIsExact, RdmaServerAssumption
  <2>6. poolFree' + new = PoolUnits  BY <2>2, <2>3, <2>4, <2>5
  <2> QED  BY Zenon, <2>3, <2>6 DEF MemoryIsExact
<1> QED  BY Zenon, <1>2, <1>4, <1>5, <1>6, <1>7 DEF ServerInv

(* What the invariant says of one thread. *)
LEMMA ThreadFacts ==
    ASSUME ServerInv, NEW c \in SConns
    PROVE  /\ serve[c] \in Thread /\ serve[c].lease \in LeasesOf(serve[c].at)
           /\ c \in liveEps => serve[c].at \in {"busy", "stage", "stageWait", "wait", "unwind"}
           /\ serve[c].reclaim => serve[c].at \in {"wait", "unwind"}
           /\ serve[c].at \in Serving => c \in liveEps \/ serve[c].woken
           /\ serve[c].at = "wait" /\ stopper \in {"join", "stopped"} => serve[c].woken
           /\ c \in conns <=> serve[c].at \notin {"none", "joined"}
           /\ poolFree \in Nat /\ requests \in Nat
           /\ liveEps \in SUBSET SConns
           /\ running <=> stopper = "none"
  BY Zenon DEF ServerInv, ServerType, ConnsAreThreads, StopInOrder, ThreadIsSound

(* Moves that touch no lease, flag or list: the thread only goes on. *)
LEMMA GotoStep ==
    ASSUME RdmaServerAssumption, ServerInv, NEW c \in SConns, NEW at \in Places,
           Goto(c, at), UNCHANGED <<running, acceptor, stopper, conns, liveEps, poolFree>>,
           requests' \in Nat, serve[c].at \notin {"none", "joined"},
           at \notin {"none", "joined", "wait"}, serve[c].lease \in LeasesOf(at),
           c \in liveEps => at \in {"busy", "stage", "stageWait", "unwind"},
           serve[c].reclaim => at = "unwind",
           at \in Serving => c \in liveEps \/ serve[c].woken
    PROVE  ServerInv'
<1>1. PICK r : r = [serve[c] EXCEPT !.at = at]  BY Zenon
<1>2. serve[c] \in Thread /\ c \in conns /\ poolFree \in Nat /\ liveEps \in SUBSET SConns
  BY Zenon, ThreadFacts
<1>3. /\ r \in Thread /\ r.at = at /\ r.lease = serve[c].lease
      /\ r.reclaim = serve[c].reclaim /\ r.woken = serve[c].woken
  BY Zenon, <1>1, <1>2 DEF Thread
<1>4. serve' = [serve EXCEPT ![c] = r]
  BY Zenon, <1>1 DEF Goto
<1> QED  BY Zenon, <1>2, <1>3, <1>4, ThreadStep

LEMMA BootstrapStep ==
    ASSUME RdmaServerAssumption, ServerInv, NEW c \in SConns, Bootstrap(c)
    PROVE  ServerInv'
<1>1. /\ serve[c].at = "boot" /\ serve[c].lease \in {0} /\ c \notin liveEps
      /\ ~serve[c].reclaim /\ requests' \in Nat
  BY Zenon, ThreadFacts DEF Bootstrap, LeasesOf
<1>2. \A at \in {"lease", "done"} : Goto(c, at) => ServerInv'
  BY Zenon, <1>1, GotoStep DEF Bootstrap, LeasesOf, Places, Serving
<1> QED  BY Zenon, <1>2 DEF Bootstrap

LEMMA AllocateFailsStep ==
    ASSUME RdmaServerAssumption, ServerInv, NEW c \in SConns, AllocateFails(c)
    PROVE  ServerInv'
<1>1. requests' \in Nat /\ ~serve[c].reclaim  BY Zenon, ThreadFacts DEF AllocateFails
<1>2. CASE serve[c].at \in {"lease", "leaseWait"}
  <2>1. serve[c].lease \in {0} /\ c \notin liveEps  BY Zenon, <1>2, ThreadFacts DEF LeasesOf
  <2>2. Goto(c, "done")  BY Zenon, <1>2 DEF AllocateFails
  <2> QED  BY Zenon, <1>1, <1>2, <2>1, <2>2, GotoStep
           DEF AllocateFails, LeasesOf, Places, Serving
<1>3. CASE serve[c].at \in {"stage", "stageWait"}
  <2>1. serve[c].lease \in {1} /\ (c \in liveEps \/ serve[c].woken)
    BY Zenon, <1>3, ThreadFacts DEF LeasesOf, Serving
  <2>2. Goto(c, "busy")  BY Zenon, <1>3 DEF AllocateFails
  <2> QED  BY Zenon, <1>1, <1>3, <2>1, <2>2, GotoStep
           DEF AllocateFails, LeasesOf, Places, Serving
<1> QED  BY Zenon, <1>2, <1>3 DEF AllocateFails

LEMMA OpenEndpointStep ==
    ASSUME RdmaServerAssumption, ServerInv, NEW c \in SConns, OpenEndpoint(c)
    PROVE  ServerInv'
<1>1. /\ serve[c].at = "open" /\ serve[c].lease \in {1} /\ c \notin liveEps
      /\ ~serve[c].reclaim /\ requests' \in Nat
  BY Zenon, ThreadFacts DEF OpenEndpoint, LeasesOf
<1>2. \A at \in {"register", "unwind"} : Goto(c, at) => ServerInv'
  BY Zenon, <1>1, GotoStep DEF OpenEndpoint, LeasesOf, Places, Serving
<1> QED  BY Zenon, <1>2 DEF OpenEndpoint

LEMMA NeedStagingStep ==
    ASSUME RdmaServerAssumption, ServerInv, NEW c \in SConns, NeedStaging(c)
    PROVE  ServerInv'
<1>1. requests' \in Nat /\ ~serve[c].reclaim /\ (c \in liveEps \/ serve[c].woken)
  BY ThreadFacts DEF NeedStaging, Serving
<1> QED  BY Zenon, <1>1, GotoStep DEF NeedStaging, LeasesOf, Places, Serving

LEMMA LeaveLoopStep ==
    ASSUME RdmaServerAssumption, ServerInv, NEW c \in SConns, LeaveLoop(c)
    PROVE  ServerInv'
<1>1. requests' \in Nat  BY ThreadFacts DEF LeaveLoop
<1>2. serve[c].at \in {"wait", "busy"} /\ Goto(c, "unwind")  BY Zenon DEF LeaveLoop
<1>3. serve[c].lease \in {1, 2}  BY Zenon, <1>2, ThreadFacts DEF LeasesOf
<1> QED  BY Zenon, <1>1, <1>2, <1>3, GotoStep DEF LeaveLoop, LeasesOf, Places, Serving

(* The thread takes a lease: the unit moves from the pool to it. *)
LEMMA AllocateReceiveStep ==
    ASSUME RdmaServerAssumption, ServerInv, NEW c \in SConns, AllocateReceive(c)
    PROVE  ServerInv'
<1>1. PICK at \in {"open", "busy"} :
        at = IF serve[c].at \in {"lease", "leaseWait"} THEN "open" ELSE "busy"
  BY Zenon
<1>2. PICK r : r = [serve[c] EXCEPT !.at = at, !.lease = @ + 1]  BY Zenon
<1>3. /\ serve[c] \in Thread /\ c \in conns /\ poolFree \in Nat /\ requests' \in Nat
      /\ ~serve[c].reclaim /\ liveEps \in SUBSET SConns
      /\ (serve[c].at \in Serving => c \in liveEps \/ serve[c].woken)
  BY Zenon, ThreadFacts DEF AllocateReceive
<1>4. TakeLease(c, at) /\ UNCHANGED <<running, acceptor, stopper, conns, liveEps, requests>>
  BY Zenon, <1>1 DEF AllocateReceive
<1>5. serve[c].at \in {"lease", "stage", "leaseWait", "stageWait"}  BY Zenon DEF AllocateReceive
<1>6. IF at = "open" THEN serve[c].lease = 0 /\ c \notin liveEps
      ELSE serve[c].lease = 1 /\ serve[c].at \in {"stage", "stageWait"}
  BY Zenon, <1>1, <1>5, ThreadFacts DEF LeasesOf
<1>7. /\ r \in Thread /\ r.at = at /\ r.lease = serve[c].lease + 1
      /\ r.reclaim = serve[c].reclaim /\ r.woken = serve[c].woken
      /\ r.lease \in {1, 2} /\ (at = "open" => r.lease = 1)
  <2>1. PICK n \in {0, 1} : n = serve[c].lease  BY Zenon, <1>6
  <2>2. n + 1 \in 0..2 /\ n + 1 \in {1, 2}  OBVIOUS
  <2>3. r = [serve[c] EXCEPT !.at = at, !.lease = n + 1]  BY Zenon, <1>2, <2>1
  <2>4. serve[c] \in Thread /\ at \in Places  BY Zenon, <1>3 DEF Places
  <2>5. /\ r \in Thread /\ r.at = at /\ r.lease = n + 1
        /\ r.reclaim = serve[c].reclaim /\ r.woken = serve[c].woken
    BY Zenon, <2>2, <2>3, <2>4 DEF Thread
  <2> QED  BY <1>6, <2>1, <2>2, <2>5
<1>8. serve' = [serve EXCEPT ![c] = r]  BY Zenon, <1>2, <1>4 DEF TakeLease
<1>9. poolFree' \in Nat /\ poolFree' + r.lease = poolFree + serve[c].lease
  <2>1. poolFree > 0 /\ poolFree' = poolFree - 1  BY Zenon, <1>4 DEF TakeLease
  <2>2. PICK n \in Nat : n = serve[c].lease  BY <1>3 DEF Thread
  <2> QED  BY <1>3, <1>7, <2>1, <2>2
<1>10. r.lease \in LeasesOf(r.at)  BY Zenon, <1>1, <1>7 DEF LeasesOf
<1> QED  BY Zenon, <1>1, <1>3, <1>4, <1>6, <1>7, <1>8, <1>9, <1>10, ThreadStep DEF Serving

(* The thread registers under conn_mu_: Stop sees it, or it sees running_ clear. *)
LEMMA RegisterServeStep ==
    ASSUME RdmaServerAssumption, ServerInv, NEW c \in SConns, RegisterServe(c)
    PROVE  ServerInv'
<1>1. /\ serve[c] \in Thread /\ c \in conns /\ poolFree \in Nat /\ requests' \in Nat
      /\ ~serve[c].reclaim /\ liveEps \in SUBSET SConns /\ serve[c].at = "register"
      /\ c \notin liveEps
  BY Zenon, ThreadFacts DEF RegisterServe
<1>2. serve[c].lease \in {1}  BY Zenon, <1>1, ThreadFacts DEF LeasesOf
<1>3. CASE running
  <2>1. PICK r : r = [serve[c] EXCEPT !.at = "busy"]  BY Zenon
  <2>2. /\ r \in Thread /\ r.at = "busy" /\ r.lease = serve[c].lease
        /\ r.reclaim = serve[c].reclaim
    BY Zenon, <1>1, <2>1 DEF Thread, Places
  <2>3. /\ serve' = [serve EXCEPT ![c] = r] /\ liveEps' = liveEps \cup {c}
        /\ UNCHANGED <<running, acceptor, stopper, conns, poolFree>>
    BY Zenon, <1>3, <2>1 DEF RegisterServe, Goto
  <2>4. liveEps' \in SUBSET SConns /\ liveEps' \ {c} = liveEps \ {c}  BY Zenon, <1>1, <2>3
  <2>5. r.lease \in LeasesOf(r.at)  BY Zenon, <1>2, <2>2 DEF LeasesOf
  <2> QED  BY Zenon, <1>1, <2>2, <2>3, <2>4, <2>5, ThreadStep
<1>4. CASE ~running
  <2>1. Goto(c, "unwind") /\ UNCHANGED <<running, acceptor, stopper, conns, liveEps, poolFree>>
    BY Zenon, <1>4 DEF RegisterServe
  <2> QED  BY Zenon, <1>1, <1>2, <2>1, GotoStep DEF LeasesOf, Places, Serving
<1> QED  BY Zenon, <1>3, <1>4

LEMMA CompleteStep ==
    ASSUME RdmaServerAssumption, ServerInv, NEW c \in SConns, Complete(c)
    PROVE  ServerInv'
<1>1. /\ serve[c] \in Thread /\ c \in conns /\ poolFree \in Nat /\ requests' \in Nat
      /\ liveEps \in SUBSET SConns /\ serve[c].at = "wait"
      /\ (c \in liveEps \/ serve[c].woken)
  BY ThreadFacts DEF Complete, Serving
<1>2. serve[c].lease \in {1}  BY Zenon, <1>1, ThreadFacts DEF LeasesOf
<1>3. PICK r : r = [serve[c] EXCEPT !.at = "busy", !.reclaim = FALSE]  BY Zenon
<1>4. r \in Thread /\ r.at = "busy" /\ r.lease = serve[c].lease /\ ~r.reclaim
      /\ r.woken = serve[c].woken
  BY Zenon, <1>1, <1>3 DEF Thread, Places
<1>5. /\ serve' = [serve EXCEPT ![c] = r]
      /\ UNCHANGED <<running, acceptor, stopper, conns, liveEps, poolFree>>
  BY Zenon, <1>3 DEF Complete
<1>6. r.lease \in LeasesOf(r.at)  BY Zenon, <1>2, <1>4 DEF LeasesOf
<1> QED  BY Zenon, <1>1, <1>4, <1>5, <1>6, ThreadStep DEF Serving

(* The staging range, if any, goes back, and the thread waits: only while      *)
(* running_ is set, and then it is in live_eps_. *)
LEMMA WaitCompStep ==
    ASSUME RdmaServerAssumption, ServerInv, NEW c \in SConns, WaitComp(c)
    PROVE  ServerInv'
<1>1. /\ serve[c] \in Thread /\ c \in conns /\ poolFree \in Nat /\ requests' \in Nat
      /\ liveEps \in SUBSET SConns /\ serve[c].at = "busy" /\ stopper = "none"
      /\ (c \in liveEps \/ serve[c].woken)
  BY Zenon, ThreadFacts DEF WaitComp, Serving
<1>2. PICK n \in {1, 2} : n = serve[c].lease  BY Zenon, <1>1, ThreadFacts DEF LeasesOf
<1>3. PICK quiet \in BOOLEAN :
        serve' = [serve EXCEPT ![c].at = "wait", ![c].reclaim = quiet, ![c].lease = 1]
  BY Zenon DEF WaitComp
<1>4. PICK r : r = [serve[c] EXCEPT !.at = "wait", !.reclaim = quiet, !.lease = 1]  BY Zenon
<1>5. /\ r \in Thread /\ r.at = "wait" /\ r.lease = 1 /\ r.reclaim = quiet
      /\ r.woken = serve[c].woken
  <2>1. 1 \in 0..2 /\ "wait" \in Places  BY DEF Places
  <2> QED  BY Zenon, <1>1, <1>4, <2>1 DEF Thread
<1>6. serve' = [serve EXCEPT ![c] = r]  BY Zenon, <1>3, <1>4
<1>7. poolFree' \in Nat /\ poolFree' + r.lease = poolFree + serve[c].lease
  BY <1>1, <1>2, <1>5 DEF WaitComp
<1>8. r.lease \in LeasesOf(r.at)  BY Zenon, <1>5 DEF LeasesOf
<1>9. UNCHANGED <<running, acceptor, stopper, conns, liveEps>>  BY Zenon DEF WaitComp
<1> QED  BY Zenon, <1>1, <1>5, <1>6, <1>7, <1>8, <1>9, ThreadStep

LEMMA UnwindStep ==
    ASSUME RdmaServerAssumption, ServerInv, NEW c \in SConns, Unwind(c)
    PROVE  ServerInv'
<1>1. /\ serve[c] \in Thread /\ c \in conns /\ poolFree \in Nat /\ requests' \in Nat
      /\ liveEps \in SUBSET SConns /\ serve[c].at = "unwind"
  BY Zenon, ThreadFacts DEF Unwind
<1>2. PICK n \in Nat : n = serve[c].lease  BY <1>1 DEF Thread
<1>3. PICK r : r = [NoThread EXCEPT !.at = "done"]  BY Zenon
<1>4. r \in Thread /\ r.at = "done" /\ r.lease = 0 /\ ~r.reclaim
  <2>1. 0 \in 0..2 /\ "done" \in Places  BY DEF Places
  <2>2. r = [at |-> "done", lease |-> 0, reclaim |-> FALSE, woken |-> FALSE]
    BY Zenon, <1>3 DEF NoThread
  <2> QED  BY Zenon, <2>1, <2>2 DEF Thread
<1>5. /\ serve' = [serve EXCEPT ![c] = r] /\ liveEps' = liveEps \ {c}
      /\ UNCHANGED <<running, acceptor, stopper, conns>>
  BY Zenon, <1>3 DEF Unwind
<1>6. poolFree' \in Nat /\ poolFree' + r.lease = poolFree + serve[c].lease
  BY <1>1, <1>2, <1>4 DEF Unwind
<1>7. liveEps' \in SUBSET SConns /\ liveEps' \ {c} = liveEps \ {c} /\ c \notin liveEps'
  BY Zenon, <1>1, <1>5
<1>8. r.lease \in LeasesOf(r.at)  BY Zenon, <1>4 DEF LeasesOf
<1> QED  BY Zenon, <1>1, <1>4, <1>5, <1>6, <1>7, <1>8, ThreadStep DEF Serving

-----------------------------------------------------------------------------
(* The steps that change several threads at once leave every lease alone. *)
LEMMA MemoryStays ==
    ASSUME ServerInv, poolFree' = poolFree,
           \A c \in SConns : serve'[c].lease = serve[c].lease
    PROVE  MemoryIsExact'
<1>1. Held(serve') = Held(serve)  BY Zenon, HeldStays
<1> QED  BY Zenon, <1>1 DEF ServerInv, MemoryIsExact

(* A claimed connection leaves live_eps_, but it has been woken. *)
LEMMA EvictUnderPressureStep ==
    ASSUME RdmaServerAssumption, ServerInv, NEW c \in SConns, EvictUnderPressure(c)
    PROVE  ServerInv'
<1>1. PICK v \in liveEps :
        /\ serve[v].reclaim
        /\ liveEps' = liveEps \ {v}
        /\ serve' = [serve EXCEPT ![v] = Claimed(v),
              ![c].at = IF @ \in {"lease", "leaseWait"} THEN "leaseWait" ELSE "stageWait"]
  BY Zenon DEF EvictUnderPressure
<1>2. /\ serve[c].at \in {"lease", "stage", "leaseWait", "stageWait"}
      /\ UNCHANGED <<running, acceptor, stopper, conns, poolFree, requests>>
  BY Zenon DEF EvictUnderPressure
<1>3. ServerType /\ serve \in [SConns -> Thread] /\ v \in SConns
  BY Zenon, <1>1 DEF ServerInv, ServerType
<1>4. serve[v].at \in {"wait", "unwind"}  BY Zenon, <1>1, <1>3, ThreadFacts
<1>5. v # c  BY Zenon, <1>2, <1>4
<1>6. PICK at \in {"leaseWait", "stageWait"} :
        at = IF serve[c].at \in {"lease", "leaseWait"} THEN "leaseWait" ELSE "stageWait"
  BY Zenon
<1>7. /\ serve' = [[serve EXCEPT ![v] = Claimed(v)] EXCEPT ![c].at = at]
      /\ at \in Places
  BY Zenon, <1>1, <1>3, <1>5, <1>6 DEF Places
<1>8. /\ serve'[v] = [serve[v] EXCEPT !.woken = TRUE]
      /\ serve'[c] = [serve[c] EXCEPT !.at = at]
      /\ \A d \in SConns \ {v, c} : serve'[d] = serve[d]
      /\ DOMAIN serve' = SConns
  BY Zenon, <1>3, <1>5, <1>7 DEF Claimed
<1>9. /\ serve'[v] \in Thread /\ serve'[v].at = serve[v].at /\ serve'[v].woken = TRUE
      /\ serve'[v].lease = serve[v].lease /\ serve'[v].reclaim = serve[v].reclaim
  <2>1. PICK r \in Thread : r = serve[v]  BY Zenon, <1>3
  <2>2. serve'[v] = [r EXCEPT !.woken = TRUE]  BY Zenon, <1>8, <2>1
  <2> QED  BY Zenon, <2>1, <2>2 DEF Thread
<1>10. /\ serve'[c] \in Thread /\ serve'[c].at = at /\ serve'[c].woken = serve[c].woken
       /\ serve'[c].lease = serve[c].lease /\ serve'[c].reclaim = serve[c].reclaim
  BY <1>3, <1>7, <1>8 DEF Thread
<1>11. serve' \in [SConns -> Thread]
  <2>1. \A d \in SConns : serve'[d] \in Thread  BY Zenon, <1>3, <1>8, <1>9, <1>10
  <2>2. serve' = [d \in SConns |-> serve'[d]]
    <3>1. PICK f \in [SConns -> Thread] : f = [serve EXCEPT ![v] = Claimed(v)]
      <4>1. Claimed(v) \in Thread  BY Zenon, <1>8, <1>9 DEF Claimed
      <4> QED  BY Zenon, <1>3, <4>1
    <3>2. serve' = [f EXCEPT ![c].at = at]  BY Zenon, <1>7, <3>1
    <3> QED  BY Zenon, <3>2
  <2> QED  BY Zenon, <2>1, <2>2
<1>12. ServerType'  BY Zenon, <1>1, <1>2, <1>3, <1>11 DEF ServerType
<1>13. StopInOrder'  BY Zenon, <1>2 DEF ServerInv, StopInOrder
<1>14. ConnsAreThreads'
  BY ZenonT(60), <1>2, <1>4, <1>6, <1>8, <1>9, <1>10 DEF ServerInv, ConnsAreThreads
<1>15. \A d \in SConns : ThreadIsSound(d)'
  <2> TAKE d \in SConns
  <2>1. ThreadIsSound(d)  BY Zenon DEF ServerInv
  <2>2. CASE d = v  BY Zenon, <1>1, <1>2, <1>4, <1>9, <2>1, <2>2 DEF ThreadIsSound
  <2>3. CASE d = c
    <3>1. d \in liveEps' <=> d \in liveEps  BY Zenon, <1>1, <1>5, <2>3
    <3> QED  BY Zenon, <1>2, <1>6, <1>10, <2>1, <2>3, <3>1 DEF ThreadIsSound, LeasesOf, Serving
  <2>4. CASE d \notin {v, c}
    <3>1. serve'[d] = serve[d] /\ (d \in liveEps' <=> d \in liveEps)  BY Zenon, <1>1, <1>8, <2>4
    <3> QED  BY Zenon, <1>2, <2>1, <3>1 DEF ThreadIsSound
  <2> QED  BY Zenon, <2>2, <2>3, <2>4
<1>16. MemoryIsExact'  BY Zenon, <1>2, <1>8, <1>9, <1>10, MemoryStays
<1> QED  BY Zenon, <1>12, <1>13, <1>14, <1>15, <1>16 DEF ServerInv

(* A connection is accepted while running_ is set; the finished threads are    *)
(* joined on the way. *)
LEMMA AcceptConnStep ==
    ASSUME RdmaServerAssumption, ServerInv, NEW c \in SConns, AcceptConn(c)
    PROVE  ServerInv'
<1>1. /\ serve[c].at = "none"
      /\ UNCHANGED <<running, stopper, liveEps, poolFree, requests>>
  BY Zenon DEF AcceptConn
<1>2. ServerType /\ serve \in [SConns -> Thread] /\ StopInOrder
  BY Zenon DEF ServerInv, ServerType
<1>3. CASE ~running
  <2>1. acceptor' = "exited" /\ UNCHANGED <<conns, serve>>  BY Zenon, <1>3 DEF AcceptConn
  <2>2. ServerType'  BY Zenon, <1>1, <1>2, <2>1 DEF ServerType
  <2>3. StopInOrder'  BY Zenon, <1>1, <1>2, <1>3, <2>1 DEF StopInOrder
  <2>4. ConnsAreThreads'  BY Zenon, <2>1 DEF ServerInv, ConnsAreThreads
  <2>5. \A d \in SConns : ThreadIsSound(d)'  BY Zenon, <1>1, <2>1 DEF ServerInv, ThreadIsSound
  <2>6. MemoryIsExact'  BY Zenon, <1>1, <2>1 DEF ServerInv, MemoryIsExact
  <2> QED  BY Zenon, <2>2, <2>3, <2>4, <2>5, <2>6 DEF ServerInv
<1>4. CASE running
  <2>1. /\ conns' = ReapDoneLocked(conns) \cup {c} /\ UNCHANGED acceptor
        /\ serve' = [d \in SConns |->
             IF d = c THEN [NoThread EXCEPT !.at = "boot"]
             ELSE IF serve[d].at = "done" /\ d \in conns
             THEN [serve[d] EXCEPT !.at = "joined"] ELSE serve[d]]
    BY Zenon, <1>4 DEF AcceptConn
  <2>2. serve'[c] = [at |-> "boot", lease |-> 0, reclaim |-> FALSE, woken |-> FALSE]
    BY Zenon, <2>1 DEF NoThread
  <2>3. serve'[c] \in Thread
    <3>1. 0 \in 0..2 /\ "boot" \in Places  BY DEF Places
    <3> QED  BY <2>2, <3>1 DEF Thread
  <2>4. \A d \in SConns \ {c} :
          /\ serve'[d] \in Thread /\ serve'[d].lease = serve[d].lease
          /\ serve'[d].reclaim = serve[d].reclaim /\ serve'[d].woken = serve[d].woken
          /\ serve'[d].at = IF serve[d].at = "done" THEN "joined" ELSE serve[d].at
    <3> TAKE d \in SConns \ {c}
    <3>1. serve[d] \in Thread /\ (serve[d].at = "done" => d \in conns) /\ "joined" \in Places
      BY Zenon, <1>2, ThreadFacts DEF Places
    <3>2. CASE serve[d].at = "done"
      <4>1. serve'[d] = [serve[d] EXCEPT !.at = "joined"]  BY Zenon, <2>1, <3>1, <3>2
      <4> QED  BY Zenon, <3>1, <3>2, <4>1 DEF Thread
    <3>3. CASE serve[d].at # "done"
      <4>1. serve'[d] = serve[d]  BY Zenon, <2>1, <3>3
      <4> QED  BY Zenon, <3>1, <3>3, <4>1
    <3> QED  BY Zenon, <3>2, <3>3
  <2>5. ServerType'
    <3>1. \A d \in SConns : serve'[d] \in Thread  BY Zenon, <2>3, <2>4
    <3>2. serve' \in [SConns -> Thread]  BY Zenon, <2>1, <3>1
    <3>3. conns' \in SUBSET SConns  BY Zenon, <1>2, <2>1 DEF ServerType, ReapDoneLocked
    <3> QED  BY Zenon, <1>1, <1>2, <2>1, <3>2, <3>3 DEF ServerType
  <2>6. StopInOrder'  BY Zenon, <1>1, <1>2, <1>4, <2>1 DEF StopInOrder
  <2>7. ConnsAreThreads'
    <3> SUFFICES ASSUME NEW d \in SConns
                 PROVE  d \in conns' <=> serve'[d].at \notin {"none", "joined"}
      BY Zenon DEF ConnsAreThreads
    <3>1. CASE d = c  BY Zenon, <2>1, <2>2, <3>1
    <3>2. CASE d # c
      <4>1. d \in conns <=> serve[d].at \notin {"none", "joined"}  BY Zenon, ThreadFacts
      <4>2. d \in conns' <=> d \in conns /\ serve[d].at # "done"
        BY Zenon, <2>1, <3>2 DEF ReapDoneLocked
      <4> QED  BY Zenon, <2>4, <3>2, <4>1, <4>2
    <3> QED  BY Zenon, <3>1, <3>2
  <2>8. \A d \in SConns : ThreadIsSound(d)'
    <3> TAKE d \in SConns
    <3>1. ThreadIsSound(d)  BY Zenon DEF ServerInv
    <3>2. CASE d = c
      BY SMTT(60), <1>1, <2>2, <3>1, <3>2 DEF ThreadIsSound, LeasesOf, Serving
    <3>3. CASE d # c
      BY Zenon, <1>1, <2>4, <3>1, <3>3 DEF ThreadIsSound, LeasesOf, Serving
    <3> QED  BY Zenon, <3>2, <3>3
  <2>9. MemoryIsExact'
    <3>1. serve[c].lease = 0  BY Zenon, <1>1, ThreadFacts DEF LeasesOf
    <3> QED  BY SMTT(60), <1>1, <2>2, <2>4, <3>1, MemoryStays
  <2> QED  BY Zenon, <2>5, <2>6, <2>7, <2>8, <2>9 DEF ServerInv
<1> QED  BY Zenon, <1>3, <1>4

LEMMA AcceptFailsStep ==
    ASSUME ServerInv, AcceptFails
    PROVE  ServerInv'
<1>1. /\ ~running /\ acceptor' = "exited"
      /\ UNCHANGED <<running, stopper, conns, serve, liveEps, poolFree, requests>>
  BY Zenon DEF AcceptFails
<1>2. ServerType'  BY Zenon, <1>1 DEF ServerInv, ServerType
<1>3. StopInOrder'  BY Zenon, <1>1 DEF ServerInv, StopInOrder
<1>4. ConnsAreThreads'  BY Zenon, <1>1 DEF ServerInv, ConnsAreThreads
<1>5. \A d \in SConns : ThreadIsSound(d)'  BY Zenon, <1>1 DEF ServerInv, ThreadIsSound
<1>6. MemoryIsExact'  BY Zenon, <1>1 DEF ServerInv, MemoryIsExact
<1> QED  BY Zenon, <1>2, <1>3, <1>4, <1>5, <1>6 DEF ServerInv

LEMMA StopBeginsStep ==
    ASSUME ServerInv, StopBegins
    PROVE  ServerInv'
<1>1. /\ stopper = "none" /\ stopper' = "accept" /\ running' = FALSE
      /\ UNCHANGED <<acceptor, conns, serve, liveEps, poolFree, requests>>
  BY Zenon DEF StopBegins
<1>2. ServerType'  BY Zenon, <1>1 DEF ServerInv, ServerType
<1>3. StopInOrder'  BY Zenon, <1>1 DEF ServerInv, StopInOrder
<1>4. ConnsAreThreads'  BY Zenon, <1>1 DEF ServerInv, ConnsAreThreads
<1>5. \A d \in SConns : ThreadIsSound(d)'  BY Zenon, <1>1 DEF ServerInv, ThreadIsSound
<1>6. MemoryIsExact'  BY Zenon, <1>1 DEF ServerInv, MemoryIsExact
<1> QED  BY Zenon, <1>2, <1>3, <1>4, <1>5, <1>6 DEF ServerInv

(* Whoever waits is in live_eps_, and is woken now, or had been claimed. *)
LEMMA StopWakesStep ==
    ASSUME ServerInv, StopWakes
    PROVE  ServerInv'
<1>1. /\ stopper = "accept" /\ acceptor = "exited" /\ stopper' = "join"
      /\ serve' = [c \in SConns |-> IF c \in liveEps
                   THEN [serve[c] EXCEPT !.woken = TRUE] ELSE serve[c]]
      /\ UNCHANGED <<running, acceptor, conns, liveEps, poolFree, requests>>
  BY Zenon DEF StopWakes
<1>2. ServerType /\ serve \in [SConns -> Thread] /\ StopInOrder
  BY Zenon DEF ServerInv, ServerType
<1>3. \A d \in SConns :
        /\ serve'[d] \in Thread /\ serve'[d].lease = serve[d].lease
        /\ serve'[d].reclaim = serve[d].reclaim /\ serve'[d].at = serve[d].at
        /\ serve'[d].woken <=> serve[d].woken \/ d \in liveEps
  <2> TAKE d \in SConns
  <2>1. CASE d \in liveEps
    <3>1. serve'[d] = [serve[d] EXCEPT !.woken = TRUE]  BY Zenon, <1>1, <2>1
    <3> QED  BY Zenon, <1>2, <2>1, <3>1 DEF Thread
  <2>2. CASE d \notin liveEps
    <3>1. serve'[d] = serve[d]  BY Zenon, <1>1, <2>2
    <3> QED  BY Zenon, <1>2, <2>2, <3>1 DEF Thread
  <2> QED  BY Zenon, <2>1, <2>2
<1>4. ServerType'
  <2>1. serve' \in [SConns -> Thread]  BY Zenon, <1>1, <1>3
  <2> QED  BY Zenon, <1>1, <1>2, <2>1 DEF ServerType
<1>5. StopInOrder'  BY Zenon, <1>1, <1>2 DEF StopInOrder
<1>6. ConnsAreThreads'  BY Zenon, <1>1, <1>3 DEF ServerInv, ConnsAreThreads
<1>7. \A d \in SConns : ThreadIsSound(d)'
  <2> TAKE d \in SConns
  <2>1. ThreadIsSound(d)  BY Zenon DEF ServerInv
  <2> QED  BY Zenon, <1>1, <1>3, <2>1 DEF ThreadIsSound, Serving
<1>8. MemoryIsExact'  BY Zenon, <1>1, <1>3, MemoryStays
<1> QED  BY Zenon, <1>4, <1>5, <1>6, <1>7, <1>8 DEF ServerInv

LEMMA StopJoinsStep ==
    ASSUME ServerInv, StopJoins
    PROVE  ServerInv'
<1>1. /\ stopper = "join" /\ stopper' = "stopped" /\ conns' = {}
      /\ \A c \in conns : serve[c].at = "done"
      /\ serve' = [c \in SConns |-> IF c \in conns
                   THEN [serve[c] EXCEPT !.at = "joined"] ELSE serve[c]]
      /\ UNCHANGED <<running, acceptor, liveEps, poolFree, requests>>
  BY Zenon DEF StopJoins
<1>2. ServerType /\ serve \in [SConns -> Thread] /\ StopInOrder
  BY Zenon DEF ServerInv, ServerType
<1>3. \A d \in SConns :
        /\ serve'[d] \in Thread /\ serve'[d].lease = serve[d].lease
        /\ serve'[d].reclaim = serve[d].reclaim /\ serve'[d].woken = serve[d].woken
        /\ serve'[d].at = IF serve[d].at = "done" THEN "joined" ELSE serve[d].at
        /\ serve'[d].at \in {"none", "joined"}
  <2> TAKE d \in SConns
  <2>1. CASE d \in conns
    <3>1. serve'[d] = [serve[d] EXCEPT !.at = "joined"] /\ serve[d].at = "done"
      BY Zenon, <1>1, <2>1
    <3>2. "joined" \in Places  BY Zenon DEF Places
    <3> QED  BY Zenon, <1>2, <3>1, <3>2 DEF Thread
  <2>2. CASE d \notin conns
    <3>1. serve'[d] = serve[d]  BY Zenon, <1>1, <2>2
    <3>2. serve[d].at \in {"none", "joined"}  BY Zenon, <2>2, ThreadFacts
    <3> QED  BY Zenon, <1>2, <3>1, <3>2
  <2> QED  BY Zenon, <2>1, <2>2
<1>4. ServerType'
  <2>1. serve' \in [SConns -> Thread]  BY Zenon, <1>1, <1>3
  <2> QED  BY Zenon, <1>1, <1>2, <2>1 DEF ServerType
<1>5. StopInOrder'  BY Zenon, <1>1, <1>2 DEF StopInOrder
<1>6. ConnsAreThreads'  BY Zenon, <1>1, <1>3 DEF ConnsAreThreads
<1>7. \A d \in SConns : ThreadIsSound(d)'
  <2> TAKE d \in SConns
  <2>1. ThreadIsSound(d)  BY Zenon DEF ServerInv
  <2> QED  BY Zenon, <1>1, <1>3, <2>1 DEF ThreadIsSound, LeasesOf, Serving
<1>8. MemoryIsExact'  BY Zenon, <1>1, <1>3, MemoryStays
<1> QED  BY Zenon, <1>4, <1>5, <1>6, <1>7, <1>8 DEF ServerInv

LEMMA ServerInitially ==
    ASSUME RdmaServerAssumption, RdmaServerInit
    PROVE  ServerInv
<1>1. /\ running = TRUE /\ acceptor = "accept" /\ stopper = "none"
      /\ conns = {} /\ liveEps = {} /\ poolFree = PoolUnits /\ requests = 0
      /\ serve = [c \in SConns |-> NoThread]
  BY Zenon DEF RdmaServerInit
<1>2. NoThread \in Thread
  <2>1. 0 \in 0..2 /\ "none" \in Places  BY DEF Places
  <2> QED  BY Zenon, <2>1 DEF Thread, NoThread
<1>3. \A c \in SConns : serve[c] = NoThread  BY Zenon, <1>1
<1>4. ServerType  BY Zenon, <1>1, <1>2 DEF ServerType, RdmaServerAssumption
<1>5. StopInOrder  BY Zenon, <1>1 DEF StopInOrder
<1>6. ConnsAreThreads  BY Zenon, <1>1, <1>3 DEF ConnsAreThreads, NoThread
<1>7. \A c \in SConns : ThreadIsSound(c)
  BY Zenon, <1>1, <1>3 DEF ThreadIsSound, NoThread, LeasesOf, Serving
<1>8. MemoryIsExact
  <2>1. \A p \in SConns \X {1, 2} : ~(p[2] <= serve[p[1]].lease)
    <3> TAKE p \in SConns \X {1, 2}
    <3>1. p[1] \in SConns /\ p[2] \in {1, 2}  BY Zenon
    <3>2. serve[p[1]].lease = 0  BY <1>3, <3>1 DEF NoThread
    <3> QED  BY <3>1, <3>2
  <2>2. Held(serve) = {}  BY Zenon, <2>1 DEF Held
  <2> QED  BY <1>1, <2>2, FS_EmptySet DEF MemoryIsExact, RdmaServerAssumption
<1> QED  BY Zenon, <1>4, <1>5, <1>6, <1>7, <1>8 DEF ServerInv

LEMMA ServerKeeps ==
    ASSUME RdmaServerAssumption, ServerInv, [RdmaServerNext]_serverVars
    PROVE  ServerInv'
<1>1. CASE UNCHANGED serverVars
  BY Zenon, <1>1 DEF serverVars, ServerInv, ServerType, StopInOrder, ConnsAreThreads,
     ThreadIsSound, MemoryIsExact
<1>2. CASE RdmaServerNext
  <2>1. ASSUME NEW c \in SConns,
               \/ AcceptConn(c) \/ ServeStep(c) \/ EvictUnderPressure(c)
               \/ Complete(c) \/ NeedStaging(c) \/ LeaveLoop(c)
        PROVE  ServerInv'
    BY Zenon, <2>1, AcceptConnStep, EvictUnderPressureStep, CompleteStep, NeedStagingStep,
       LeaveLoopStep, BootstrapStep, AllocateReceiveStep, AllocateFailsStep,
       OpenEndpointStep, RegisterServeStep, WaitCompStep, UnwindStep DEF ServeStep
  <2>2. CASE AcceptFails \/ StopBegins \/ StopWakes \/ StopJoins
    BY Zenon, <2>2, AcceptFailsStep, StopBeginsStep, StopWakesStep, StopJoinsStep
  <2> QED  BY Zenon, <1>2, <2>1, <2>2 DEF RdmaServerNext
<1> QED  BY Zenon, <1>1, <1>2

(* Once Stop has returned every lease is zero, so all memory is free; before,   *)
(* a thread that is not finished can run, since none sleeps unwoken. *)
LEMMA ServerInvImplies ==
    ASSUME RdmaServerAssumption, ServerInv
    PROVE  StopDrains
<1>1. StopLeavesNothing
  <2> SUFFICES ASSUME stopper = "stopped"
               PROVE  /\ \A c \in SConns : serve[c].at \in {"none", "joined"}
                      /\ poolFree = PoolUnits /\ liveEps = {}
    BY Zenon DEF StopLeavesNothing
  <2>1. conns = {}  BY Zenon DEF ServerInv, StopInOrder
  <2>2. \A c \in SConns : serve[c].at \in {"none", "joined"}  BY Zenon, <2>1, ThreadFacts
  <2>3. \A c \in SConns : serve[c].lease \in {0} /\ c \notin liveEps
    BY Zenon, <2>2, ThreadFacts DEF LeasesOf
  <2>4. liveEps = {}  BY Zenon, <2>3 DEF ServerInv, ServerType
  <2>5. \A p \in SConns \X {1, 2} : ~(p[2] <= serve[p[1]].lease)
    <3> TAKE p \in SConns \X {1, 2}
    <3>1. p[1] \in SConns /\ p[2] \in {1, 2}  BY Zenon
    <3>2. serve[p[1]].lease = 0  BY Zenon, <2>3, <3>1
    <3> QED  BY <3>1, <3>2
  <2>6. Held(serve) = {}  BY Zenon, <2>5 DEF Held
  <2>7. poolFree = PoolUnits
    BY <2>6, FS_EmptySet DEF ServerInv, ServerType, MemoryIsExact, RdmaServerAssumption
  <2> QED  BY Zenon, <2>2, <2>4, <2>7
<1>2. StopReturns
  <2> SUFFICES ASSUME stopper \notin {"none", "stopped"},
                      ~(acceptor = "accept" /\ ~running),
                      ~(stopper = "accept" /\ acceptor = "exited"),
                      ~(stopper = "join" /\ \A c \in conns : serve[c].at = "done")
               PROVE  \E c \in SConns : ThreadCanRun(c)
    BY Zenon DEF StopReturns
  <2>0. stopper = "join"  BY Zenon DEF ServerInv, ServerType, StopInOrder
  <2> PICK d \in conns : serve[d].at # "done"  BY Zenon, <2>0
  <2>1. stopper = "join" /\ d \in SConns  BY Zenon, <2>0 DEF ServerInv, ServerType
  <2>2. serve[d].at \in Places \ {"none", "joined", "done"}
    BY Zenon, <2>1, ThreadFacts DEF Thread
  <2>3. CASE serve[d].at \notin {"lease", "stage"}
    <3>1. serve[d].at = "wait" => serve[d].woken  BY Zenon, <2>1, ThreadFacts
    <3> QED  BY Zenon, <2>1, <2>2, <2>3, <3>1 DEF ThreadCanRun, Places
  <2>4. CASE serve[d].at \in {"lease", "stage"} /\ \A v \in liveEps : ~serve[v].reclaim
    BY Zenon, <2>1, <2>4 DEF ThreadCanRun
  <2>5. ASSUME NEW v \in liveEps, serve[v].reclaim
        PROVE  \E c \in SConns : ThreadCanRun(c)
    <3>1. v \in SConns  BY Zenon DEF ServerInv, ServerType
    <3>2. serve[v].at = "unwind" \/ (serve[v].at = "wait" /\ serve[v].woken)
      BY Zenon, <2>1, <2>5, <3>1, ThreadFacts
    <3> QED  BY Zenon, <3>1, <3>2 DEF ThreadCanRun
  <2> QED  BY Zenon, <2>3, <2>4, <2>5
<1> QED  BY Zenon, <1>1, <1>2 DEF StopDrains

(* RdmaServer::Stop returns and leaves nothing behind, for any number of        *)
(* connections and any pool: in every state of every behaviour, if Stop has     *)
(* returned then every Serve thread is joined and every receive lease is back,  *)
(* and if it is under way then some thread can run, whatever connections are    *)
(* accepted, registered or evicted beside it (rdma_server.cc Serve, Stop). *)
THEOREM StopAlwaysDrains == RdmaServerSpec => []StopDrains
<1>1. RdmaServerInit => ServerInv  BY Zenon, RdmaServerAssumption, ServerInitially
<1>2. ServerInv /\ [RdmaServerNext]_serverVars => ServerInv'
  BY Zenon, RdmaServerAssumption, ServerKeeps
<1>3. ServerInv => StopDrains  BY Zenon, RdmaServerAssumption, ServerInvImplies
<1> QED  BY <1>1, <1>2, <1>3, PTL DEF RdmaServerSpec

-----------------------------------------------------------------------------
(* The read path: the values of the variables. *)
RingSlotIds == 1 .. RingDepth
AsyncPlaces == {"complete", "copy", "fill", "end"}
SyncPlaces == {"lead", "erase", "finish"}
GuestPlaces == {"await", "count", "follow", "own"}
FreePlaces == {"published", "joinable", "lease"}
ReaderPlaces == {"idle", "register"} \cup AsyncPlaces \cup SyncPlaces \cup GuestPlaces
                  \cup FreePlaces
FlightRecs == [key : FKeys \cup {"none"}, leader : RReaders \cup {"none"}, pub : BOOLEAN,
               done : BOOLEAN, ok : BOOLEAN, data : {NoData, Torn, Whole}, copiers : Nat]
ReadRecs == [id : FlightIds \cup {0}, key : FKeys \cup {"none"}, direct : BOOLEAN]
ReaderRecs == [pc : ReaderPlaces, key : FKeys \cup {"none"}, id : FlightIds \cup {0},
               force : BOOLEAN, slot : RingSlotIds \cup {0}, got : {NoData, Whole},
               later : FKeys \cup {"none"}]

CoalesceType ==
  /\ map \in [FKeys -> FlightIds \cup {0}] /\ flight \in [FlightIds -> FlightRecs]
  /\ ring \in [RReaders -> [RingSlotIds -> ReadRecs]] /\ reader \in [RReaders -> ReaderRecs]
  /\ ram \in [FKeys -> {NoData, Whole}] /\ reads \in [RReaders -> Seq(FKeys)]

(* The data of a flight agrees with where the thread that completes it is. *)
DataFits(f, o) ==
  /\ o.pc \in {"complete", "copy"} => f.data = NoData
  /\ o.pc = "fill" => o.got = Whole
  /\ o.pc = "end" => f.data # Torn
  /\ o.pc \in {"erase", "finish"} => (o.got = Whole => f.data = Whole)

(* A read in a ring leads its flight; the flight is not done, and its data  *)
(* is touched only by the thread itself while it completes it.              *)
SlotLeads(t, s) ==
  LET f == ring[t][s].id IN
  f # 0 =>
    /\ flight[f].leader = t /\ ~flight[f].done
    /\ \A z \in RingSlotIds : ring[t][z].id = f => z = s
    /\ IF reader[t].pc \in AsyncPlaces /\ reader[t].id = f
       THEN reader[t].slot = s ELSE flight[f].data = NoData

(* What a thread's place says of the flight it refers to. *)
PlaceFits(t) ==
  LET o == reader[t] IN
  /\ o.pc \in AsyncPlaces => /\ o.id # 0 /\ o.slot # 0 /\ ring[t][o.slot].id = o.id
                             /\ DataFits(flight[o.id], o)
  /\ o.pc \in SyncPlaces => /\ o.id # 0 /\ o.id \notin InRing(t)
                            /\ flight[o.id].leader = t /\ ~flight[o.id].done
                            /\ flight[o.id].key = o.key /\ DataFits(flight[o.id], o)
  /\ o.pc \in GuestPlaces => o.id # 0 /\ o.id \notin InRing(t)
  /\ o.pc \in FreePlaces \cup {"idle", "register"} => o.id = 0
  /\ o.pc \in FreePlaces \cup {"await"} => FreeSlots(t) # {}
  /\ o.pc = "register" => o.slot # 0 /\ ring[t][o.slot].id = 0
  /\ o.pc \notin AsyncPlaces \cup {"idle"} => o.key \in FKeys

(* A flight in map_ is led by a read in a ring that has not been taken out  *)
(* of map_, or by a thread inside Read.                                     *)
EntryLeads(k) ==
  LET f == map[k] t == flight[f].leader IN
  f # 0 =>
    /\ t \in RReaders /\ flight[f].key = k /\ ~flight[f].done
    /\ \/ /\ f \in InRing(t)
          /\ reader[t].pc \in AsyncPlaces /\ reader[t].id = f => reader[t].pc = "complete"
       \/ reader[t].id = f /\ reader[t].pc \in {"lead", "erase"}

(* The data of a flight that is done is whole. *)
DoneIsWhole(f) == flight[f].done /\ flight[f].ok => flight[f].data # Torn

CoalesceInv ==
  /\ CoalesceType
  /\ \A t \in RReaders : PlaceFits(t) /\ \A s \in RingSlotIds : SlotLeads(t, s)
  /\ \A k \in FKeys : EntryLeads(k)
  /\ \A f \in FlightIds : DoneIsWhole(f)

-----------------------------------------------------------------------------
(* What the operators on the threads do. *)

(* Thread t is now n; no other thread moved. *)
Moves(t, n) == reader' = [reader EXCEPT ![t] = n]

LEMMA IdleIsReader == IdleReader \in ReaderRecs /\ IdleReader.id = 0 /\ IdleReader.pc = "idle"
  BY Zenon DEF IdleReader, ReaderRecs, ReaderPlaces

LEMMA ToEffect ==
  ASSUME CoalesceType, NEW t \in RReaders, NEW pc \in ReaderPlaces
  PROVE  \E n \in ReaderRecs : /\ To(t, pc) = [reader EXCEPT ![t] = n]
            /\ n.pc = pc /\ n.key = reader[t].key /\ n.id = reader[t].id
            /\ n.slot = reader[t].slot /\ n.got = reader[t].got
  <1>1. reader[t] \in ReaderRecs
    BY Zenon DEF CoalesceType
  <1>2. [reader[t] EXCEPT !.pc = pc] \in ReaderRecs
    BY Zenon, <1>1 DEF ReaderRecs
  <1> WITNESS [reader[t] EXCEPT !.pc = pc] \in ReaderRecs
  <1> QED BY Zenon, <1>1 DEF To, ReaderRecs, CoalesceType

LEMMA AnswerEffect ==
  ASSUME CoalesceType, NEW t \in RReaders, NEW v \in {NoData, Whole}
  PROVE  \E n \in ReaderRecs : /\ Answer(t, v) = [reader EXCEPT ![t] = n]
            /\ n.pc = "idle" /\ n.id = 0
  <1>1. v # Torn /\ reader[t].later \in FKeys \cup {"none"}
    BY Zenon DEF CoalesceType, ReaderRecs, NoData, Whole, Torn
  <1>2. PICK n : n = [IdleReader EXCEPT !.got = IF v = Torn THEN v ELSE NoData,
                                        !.later = reader[t].later]
    BY Zenon
  <1>3. n \in ReaderRecs /\ n.pc = "idle" /\ n.id = 0
    BY Zenon, <1>1, <1>2, IdleIsReader DEF ReaderRecs
  <1> QED BY Zenon, <1>2, <1>3 DEF Answer

LEMMA PutOffEffect ==
  ASSUME CoalesceType, NEW t \in RReaders
  PROVE  \E n \in ReaderRecs : /\ PutOff(t) = [reader EXCEPT ![t] = n]
            /\ n.pc = "idle" /\ n.id = 0
  <1>1. reader[t].key \in FKeys \cup {"none"}
    BY Zenon DEF CoalesceType, ReaderRecs
  <1>2. PICK n : n = [IdleReader EXCEPT !.later = reader[t].key]
    BY Zenon
  <1>3. n \in ReaderRecs /\ n.pc = "idle" /\ n.id = 0
    BY Zenon, <1>1, <1>2, IdleIsReader DEF ReaderRecs
  <1> QED BY Zenon, <1>2, <1>3 DEF PutOff

LEMMA IndependentEffect ==
  ASSUME CoalesceType, NEW t \in RReaders
  PROVE  \E n \in ReaderRecs : /\ Independent(t) = [reader EXCEPT ![t] = n]
            /\ n.pc = "lease" /\ n.id = 0 /\ n.key = reader[t].key
  <1>1. PICK o \in ReaderRecs : o = reader[t]
    BY Zenon DEF CoalesceType
  <1>2. PICK n : n = [[[o EXCEPT !.pc = "lease"] EXCEPT !.force = TRUE] EXCEPT !.id = 0]
    BY Zenon
  <1>3. n \in ReaderRecs /\ n.pc = "lease" /\ n.id = 0 /\ n.key = reader[t].key
    BY Zenon, <1>1, <1>2 DEF ReaderRecs, ReaderPlaces, FreePlaces
  <1>4. Independent(t) = [reader EXCEPT ![t] = n]
    BY ZenonT(60), <1>1, <1>2 DEF Independent, CoalesceType
  <1> QED BY Zenon, <1>3, <1>4

(* The flights after a reference to f was dropped: f may be free again.    *)
LEMMA ReleasedEffect ==
  ASSUME CoalesceType, NEW fs \in [FlightIds -> FlightRecs], NEW t \in RReaders,
         NEW f \in FlightIds
  PROVE  /\ Released(fs, t, f) \in [FlightIds -> FlightRecs]
         /\ \A g \in FlightIds \ {f} : Released(fs, t, f)[g] = fs[g]
         /\ \/ Released(fs, t, f)[f] = fs[f]
            \/ /\ Released(fs, t, f)[f] = NoFlight /\ \A k \in FKeys : map[k] # f
               /\ \A u \in RReaders \ {t} : f \notin InRing(u) /\ reader[u].id # f
  <1>1. PICK others : others = {map[k] : k \in FKeys}
              \union UNION {InRing(u) \union {reader[u].id} : u \in RReaders \ {t}}
    BY Zenon
  <1>2. Released(fs, t, f) = IF f = 0 \/ f \in others THEN fs ELSE [fs EXCEPT ![f] = NoFlight]
    BY Zenon, <1>1 DEF Released
  <1>3. NoFlight \in FlightRecs
    BY Zenon DEF NoFlight, FlightRecs
  <1>4. f # 0
    BY DEF FlightIds
  <1>5. CASE f \in others
    BY Zenon, <1>2, <1>5
  <1>6. CASE f \notin others
    <2>1. Released(fs, t, f) = [fs EXCEPT ![f] = NoFlight]
      BY Zenon, <1>2, <1>4, <1>6
    <2>2. /\ \A k \in FKeys : map[k] # f
          /\ \A u \in RReaders \ {t} : f \notin InRing(u) /\ reader[u].id # f
      BY <1>1, <1>6
    <2> QED BY Zenon, <1>3, <2>1, <2>2
  <1> QED BY Zenon, <1>5, <1>6

-----------------------------------------------------------------------------
(* What a step of one thread leaves to the others. *)

(* The flights thread u leads. *)
Led(u) == InRing(u) \cup (IF reader[u].pc \in SyncPlaces THEN {reader[u].id} ELSE {})

(* What a leader knows of its flight stays. *)
SameLead(f) == /\ flight'[f].leader = flight[f].leader /\ flight'[f].done = flight[f].done
               /\ flight'[f].key = flight[f].key /\ flight'[f].data = flight[f].data
               /\ flight'[f].ok = flight[f].ok

LEMMA LedBy ==
  ASSUME CoalesceInv, NEW u \in RReaders, NEW f \in FlightIds, f \in Led(u)
  PROVE  flight[f].leader = u /\ ~flight[f].done
  <1>1. f # 0
    BY DEF FlightIds
  <1>2. CASE f \in InRing(u)
    <2>1. PICK s \in RingSlotIds : ring[u][s].id = f
      BY Zenon, <1>2 DEF InRing, RingSlotIds
    <2>2. SlotLeads(u, s)
      BY Zenon DEF CoalesceInv
    <2> QED BY Zenon, <1>1, <2>1, <2>2 DEF SlotLeads
  <1>3. CASE reader[u].pc \in SyncPlaces /\ reader[u].id = f
    <2>1. PlaceFits(u)
      BY Zenon DEF CoalesceInv
    <2> QED BY Zenon, <1>3, <2>1 DEF PlaceFits
  <1> QED BY Zenon, <1>2, <1>3 DEF Led

LEMMA OtherFits ==
  ASSUME CoalesceInv, NEW u \in RReaders, reader'[u] = reader[u], ring'[u] = ring[u],
         \A f \in FlightIds : f \in Led(u) => SameLead(f)
  PROVE  PlaceFits(u)' /\ \A s \in RingSlotIds : SlotLeads(u, s)'
  <1>1. reader[u] \in ReaderRecs /\ ring[u] \in [RingSlotIds -> ReadRecs]
    BY Zenon DEF CoalesceInv, CoalesceType
  <1>2. InRing(u)' = InRing(u) /\ FreeSlots(u)' = FreeSlots(u)
    BY Zenon DEF InRing, FreeSlots
  <1>3. PlaceFits(u)'
    <2>1. PlaceFits(u)
      BY Zenon DEF CoalesceInv
    <2>2. PICK o \in ReaderRecs : o = reader[u] /\ o = reader'[u]
      BY Zenon, <1>1
    <2>3. ASSUME o.pc \in AsyncPlaces
          PROVE  /\ o.id # 0 /\ o.slot # 0 /\ ring'[u][o.slot].id = o.id
                 /\ DataFits(flight'[o.id], o)
      <3>1. /\ o.id # 0 /\ o.slot # 0 /\ ring[u][o.slot].id = o.id
            /\ DataFits(flight[o.id], o)
        BY Zenon, <2>1, <2>2, <2>3 DEF PlaceFits
      <3>2. o.slot \in RingSlotIds /\ o.id \in FlightIds
        BY Zenon, <3>1 DEF ReaderRecs
      <3>3. o.id \in Led(u)
        BY Zenon, <3>1, <3>2 DEF Led, InRing, RingSlotIds
      <3> QED BY Zenon, <3>1, <3>2, <3>3 DEF SameLead, DataFits
    <2>4. ASSUME o.pc \in SyncPlaces
          PROVE  /\ o.id # 0 /\ o.id \notin InRing(u)
                 /\ flight'[o.id].leader = u /\ ~flight'[o.id].done
                 /\ flight'[o.id].key = o.key /\ DataFits(flight'[o.id], o)
      <3>1. /\ o.id # 0 /\ o.id \notin InRing(u)
            /\ flight[o.id].leader = u /\ ~flight[o.id].done
            /\ flight[o.id].key = o.key /\ DataFits(flight[o.id], o)
        BY ZenonT(60), <2>1, <2>2, <2>4 DEF PlaceFits
      <3>2. o.id \in FlightIds
        BY Zenon, <3>1 DEF ReaderRecs
      <3>3. o.id \in Led(u)
        BY Zenon, <2>2, <2>4 DEF Led
      <3> QED BY Zenon, <3>1, <3>2, <3>3 DEF SameLead, DataFits
    <2> QED BY ZenonT(60), <1>2, <2>1, <2>2, <2>3, <2>4 DEF PlaceFits
  <1>4. ASSUME NEW s \in RingSlotIds PROVE SlotLeads(u, s)'
    <2>1. PICK f \in FlightIds \cup {0} : f = ring[u][s].id
      BY Zenon, <1>1 DEF ReadRecs
    <2>2. CASE f = 0
      BY Zenon, <2>1, <2>2 DEF SlotLeads
    <2>3. CASE f \in FlightIds
      <3>1. f \in Led(u)
        BY Zenon, <2>1 DEF Led, InRing, RingSlotIds
      <3>2. SlotLeads(u, s)
        BY Zenon DEF CoalesceInv
      <3> QED BY SMTT(60), <2>1, <2>3, <3>1, <3>2 DEF SlotLeads, SameLead
    <2> QED BY Zenon, <2>2, <2>3
  <1> QED BY Zenon, <1>3, <1>4

LEMMA OtherEntry ==
  ASSUME CoalesceInv, NEW k \in FKeys, map'[k] = map[k], NEW u \in RReaders,
         map[k] # 0 => flight[map[k]].leader = u /\ SameLead(map[k]),
         reader'[u] = reader[u], ring'[u] = ring[u]
  PROVE  EntryLeads(k)'
  <1>1. EntryLeads(k) /\ InRing(u)' = InRing(u)
    BY ZenonT(60) DEF CoalesceInv, InRing
  <1> QED BY ZenonT(60), <1>1 DEF EntryLeads, SameLead

LEMMA FlightThreadStep ==
  ASSUME CoalesceInv, CoalesceType', NEW t \in RReaders, NEW C \in SUBSET FlightIds,
         \A u \in RReaders \ {t} : reader'[u] = reader[u] /\ ring'[u] = ring[u],
         \A f \in FlightIds \ C : SameLead(f),
         \A f \in C : DoneIsWhole(f)' /\ \A u \in RReaders \ {t} : f \notin Led(u),
         PlaceFits(t)', \A s \in RingSlotIds : SlotLeads(t, s)',
         \A k \in FKeys : \/ EntryLeads(k)'
                          \/ map'[k] = map[k] /\ map[k] \notin C /\ flight[map[k]].leader # t
  PROVE  CoalesceInv'
  <1>1. ASSUME NEW u \in RReaders PROVE PlaceFits(u)' /\ \A s \in RingSlotIds : SlotLeads(u, s)'
    <2>1. CASE u # t
      <3>1. \A f \in FlightIds : f \in Led(u) => SameLead(f)
        BY Zenon, <2>1
      <3> QED BY Zenon, <2>1, <3>1, OtherFits
    <2> QED BY Zenon, <2>1
  <1>2. ASSUME NEW k \in FKeys PROVE EntryLeads(k)'
    <2>1. CASE map'[k] = map[k] /\ map[k] \notin C /\ flight[map[k]].leader # t
      <3>1. CASE map[k] = 0
        BY Zenon, <2>1, <3>1 DEF EntryLeads
      <3>2. CASE map[k] # 0
        <4>1. PICK u \in RReaders \ {t} : u = flight[map[k]].leader
          BY Zenon, <2>1, <3>2 DEF CoalesceInv, EntryLeads
        <4>2. map[k] \in FlightIds \ C
          BY Zenon, <2>1, <3>2 DEF CoalesceInv, CoalesceType
        <4> QED BY ZenonT(60), <2>1, <4>1, <4>2, OtherEntry
      <3> QED BY Zenon, <3>1, <3>2
    <2> QED BY Zenon, <2>1
  <1>3. ASSUME NEW f \in FlightIds PROVE DoneIsWhole(f)'
    <2>1. CASE f \notin C
      BY SMTT(60), <2>1 DEF CoalesceInv, DoneIsWhole, SameLead
    <2> QED BY Zenon, <2>1
  <1> QED BY ZenonT(60), <1>1, <1>2, <1>3 DEF CoalesceInv

(* A thread that leads nothing itself moves, and keeps what is in its ring. *)
LEMMA QuietMove ==
  ASSUME CoalesceInv, CoalesceType', NEW t \in RReaders, NEW C \in SUBSET FlightIds,
         map' = map, \A u \in RReaders \ {t} : reader'[u] = reader[u] /\ ring'[u] = ring[u],
         \A s \in RingSlotIds : ring'[t][s].id = ring[t][s].id,
         reader[t].pc \notin AsyncPlaces \cup SyncPlaces,
         reader'[t].pc \notin AsyncPlaces \cup SyncPlaces,
         \A f \in FlightIds \ C : SameLead(f),
         \A f \in C : /\ DoneIsWhole(f)' /\ \A u \in RReaders : f \notin Led(u)
                      /\ \A k \in FKeys : map[k] # f,
         PlaceFits(t)'
  PROVE  CoalesceInv'
  <1>1. InRing(t)' = InRing(t)
    BY ZenonT(60) DEF InRing, RingSlotIds
  <1>2. ASSUME NEW s \in RingSlotIds PROVE SlotLeads(t, s)'
    <2>1. SlotLeads(t, s) /\ ring[t][s].id \in FlightIds \cup {0}
      BY DEF CoalesceInv, CoalesceType, ReadRecs
    <2>2. ring[t][s].id # 0 => ring[t][s].id \notin C
      BY ZenonT(60), <2>1 DEF Led, InRing, RingSlotIds
    <2> QED BY SMTT(60), <2>1, <2>2 DEF SlotLeads, SameLead
  <1>3. ASSUME NEW k \in FKeys, flight[map[k]].leader = t PROVE EntryLeads(k)'
    <2>1. EntryLeads(k) /\ map[k] \in FlightIds \cup {0}
      BY ZenonT(60) DEF CoalesceInv, CoalesceType
    <2>2. map[k] # 0 => SameLead(map[k])
      BY ZenonT(60), <2>1
    <2> QED BY ZenonT(60), <1>1, <1>3, <2>1, <2>2 DEF EntryLeads, SameLead, SyncPlaces
  <1>4. \A k \in FKeys : \/ EntryLeads(k)'
                         \/ map'[k] = map[k] /\ map[k] \notin C /\ flight[map[k]].leader # t
    BY Zenon, <1>3
  <1> QED BY ZenonT(60), <1>2, <1>4, FlightThreadStep

-----------------------------------------------------------------------------
(* The steps of a thread that leads no flight it completes. *)

(* Nothing but the thread itself moves. *)
LEMMA OnlyMoves ==
  ASSUME CoalesceInv, NEW t \in RReaders, NEW n \in ReaderRecs, Moves(t, n),
         map' = map, flight' = flight, ring' = ring,
         ram' \in [FKeys -> {NoData, Whole}], reads' \in [RReaders -> Seq(FKeys)],
         reader[t].pc \notin AsyncPlaces \cup SyncPlaces,
         n.pc \notin AsyncPlaces \cup SyncPlaces,
         n.pc \in GuestPlaces => n.id # 0 /\ n.id \notin InRing(t),
         n.pc \in FreePlaces \cup {"idle"} => n.id = 0,
         n.pc \in FreePlaces \cup {"await"} => FreeSlots(t) # {},
         n.pc # "register", n.pc # "idle" => n.key \in FKeys
  PROVE  CoalesceInv'
  <1>1. reader' \in [RReaders -> ReaderRecs] /\ reader'[t] = n
        /\ \A u \in RReaders \ {t} : reader'[u] = reader[u]
    BY Zenon DEF CoalesceInv, CoalesceType, Moves
  <1>2. CoalesceType'
    BY Zenon, <1>1 DEF CoalesceInv, CoalesceType
  <1>3. InRing(t)' = InRing(t) /\ FreeSlots(t)' = FreeSlots(t)
    BY Zenon DEF InRing, FreeSlots
  <1>4. PlaceFits(t)'
    BY ZenonT(60), <1>1, <1>3 DEF PlaceFits
  <1>5. PICK C \in SUBSET FlightIds : C = {}
    BY ZenonT(60)
  <1>7. /\ \A f \in FlightIds \ C : SameLead(f)
        /\ \A f \in C : /\ DoneIsWhole(f)' /\ \A u \in RReaders : f \notin Led(u)
                        /\ \A k \in FKeys : map[k] # f
    BY Zenon, <1>5 DEF SameLead
  <1>6. /\ \A u \in RReaders \ {t} : reader'[u] = reader[u] /\ ring'[u] = ring[u]
        /\ \A s \in RingSlotIds : ring'[t][s].id = ring[t][s].id
        /\ reader'[t].pc \notin AsyncPlaces \cup SyncPlaces
    BY Zenon, <1>1
  <1> QED BY ZenonT(60), <1>2, <1>4, <1>6, <1>7, QuietMove

LEMMA PrepareReadStep ==
  ASSUME CoalesceInv, NEW t \in RReaders, PrepareRead(t)
  PROVE  CoalesceInv'
  <1>1. CoalesceType /\ reads \in [RReaders -> Seq(FKeys)] /\ ram \in [FKeys -> {NoData, Whole}]
    BY Zenon DEF CoalesceInv, CoalesceType
  <1>2. PICK k \in FKeys : k = Head(reads[t])
    BY <1>1 DEF PrepareRead
  <1>3. /\ ram' = ram /\ map' = map /\ flight' = flight /\ ring' = ring
        /\ reader[t].pc = "idle" /\ FreeSlots(t) # {}
    BY Zenon DEF PrepareRead
  <1>5. reads' \in [RReaders -> Seq(FKeys)]
    <2>1. reads[t] \in Seq(FKeys) /\ reads[t] # <<>> /\ reads' = [reads EXCEPT ![t] = Tail(@)]
      BY Zenon, <1>1 DEF PrepareRead
    <2>2. Tail(reads[t]) \in Seq(FKeys)
      BY <2>1
    <2> QED BY Zenon, <1>1, <2>1, <2>2
  <1>6. \E n \in ReaderRecs : /\ Moves(t, n) /\ n.pc \in {"idle", "published"} /\ n.id = 0
                              /\ n.pc = "published" => n.key \in FKeys
    <2>1. CASE ram[k] # NoData
      <3>1. reader' = Answer(t, ram[k])
        BY Zenon, <1>2, <2>1 DEF PrepareRead
      <3> QED BY <1>1, <3>1, AnswerEffect DEF Moves
    <2>2. CASE ram[k] = NoData
      <3>1. PICK n : n = [IdleReader EXCEPT !.pc = "published", !.key = k]
        BY Zenon
      <3>2. n \in ReaderRecs /\ n.pc = "published" /\ n.id = 0 /\ n.key = k
        BY Zenon, <3>1, IdleIsReader DEF ReaderRecs, ReaderPlaces, FreePlaces
      <3>3. reader' = [reader EXCEPT ![t] = n]
        BY Zenon, <1>2, <2>2, <3>1 DEF PrepareRead
      <3> QED BY Zenon, <3>2, <3>3 DEF Moves
    <2> QED BY Zenon, <2>1, <2>2
  <1> QED BY Zenon, <1>1, <1>3, <1>5, <1>6, OnlyMoves
          DEF AsyncPlaces, SyncPlaces, GuestPlaces, FreePlaces

LEMMA WaitForPublishedStep ==
  ASSUME CoalesceInv, NEW t \in RReaders, WaitForPublished(t)
  PROVE  CoalesceInv'
  <1>1. CoalesceType /\ PlaceFits(t) /\ reader[t].pc = "published"
        /\ \A s \in RingSlotIds : SlotLeads(t, s)
    BY Zenon DEF CoalesceInv, WaitForPublished
  <1>2. reader[t].id = 0 /\ FreeSlots(t) # {} /\ reader[t].key \in FKeys
    BY Zenon, <1>1 DEF PlaceFits, FreePlaces
  <1>3. PICK o \in ReaderRecs : o = reader[t]
    BY Zenon, <1>1 DEF CoalesceType
  <1>4. PICK f : f = map[o.key]
    BY Zenon
  <1>5. /\ map' = map /\ flight' = flight /\ ring' = ring /\ ram' = ram /\ reads' = reads
        /\ reader' = CASE f = 0 \/ ~flight[f].pub -> To(t, "joinable")
                       [] f # 0 /\ flight[f].pub /\ flight[f].leader = t ->
                            [reader EXCEPT ![t].pc = "lease", ![t].force = TRUE]
                       [] OTHER -> [reader EXCEPT ![t].pc = "await", ![t].id = f]
    BY Zenon, <1>3, <1>4 DEF WaitForPublished, JoinOrBypass
  <1>6. CASE f = 0 \/ ~flight[f].pub
    <2>1. reader' = To(t, "joinable") /\ "joinable" \in ReaderPlaces
      BY Zenon, <1>5, <1>6 DEF ReaderPlaces, FreePlaces
    <2>2. PICK n \in ReaderRecs : /\ Moves(t, n) /\ n.pc = "joinable" /\ n.id = 0
                                /\ n.key \in FKeys
      BY <1>1, <1>2, <2>1, ToEffect DEF Moves
    <2> QED BY Zenon, <1>1, <1>2, <1>5, <2>2, OnlyMoves
            DEF AsyncPlaces, SyncPlaces, GuestPlaces, FreePlaces, CoalesceType
  <1>7. CASE f # 0 /\ flight[f].pub /\ flight[f].leader = t
    <2>1. reader' = [reader EXCEPT ![t].pc = "lease", ![t].force = TRUE]
      BY Zenon, <1>5, <1>7
    <2>2. PICK n : n = [[o EXCEPT !.pc = "lease"] EXCEPT !.force = TRUE]
      BY Zenon
    <2>3. n \in ReaderRecs /\ n.pc = "lease" /\ n.id = 0 /\ n.key = o.key
      BY Zenon, <1>2, <1>3, <2>2 DEF ReaderRecs, ReaderPlaces, FreePlaces
    <2>4. Moves(t, n)
      BY Zenon, <1>1, <1>3, <2>1, <2>2 DEF Moves, CoalesceType
    <2> QED BY Zenon, <1>1, <1>2, <1>3, <1>5, <2>3, <2>4, OnlyMoves
            DEF AsyncPlaces, SyncPlaces, GuestPlaces, FreePlaces, CoalesceType
  <1>8. CASE f # 0 /\ flight[f].pub /\ flight[f].leader # t
    <2>1. reader' = [reader EXCEPT ![t].pc = "await", ![t].id = f]
      BY Zenon, <1>5, <1>8
    <2>2. PICK n : n = [[o EXCEPT !.pc = "await"] EXCEPT !.id = f]
      BY Zenon
    <2>3. f \in FlightIds
      BY Zenon, <1>1, <1>2, <1>3, <1>4, <1>8 DEF CoalesceType
    <2>4. n \in ReaderRecs /\ n.pc = "await" /\ n.id = f /\ n.key = o.key
      BY Zenon, <1>3, <2>2, <2>3 DEF ReaderRecs, ReaderPlaces, GuestPlaces
    <2>5. Moves(t, n)
      BY ZenonT(60), <1>1, <1>3, <2>1, <2>2 DEF Moves, CoalesceType
    <2>6. f \notin InRing(t)
      BY SMTT(60), <1>1, <1>8 DEF InRing, SlotLeads, RingSlotIds
    <2> QED BY Zenon, <1>1, <1>2, <1>3, <1>5, <1>8, <2>4, <2>5, <2>6, OnlyMoves
            DEF AsyncPlaces, SyncPlaces, GuestPlaces, FreePlaces, CoalesceType
  <1> QED BY Zenon, <1>6, <1>7, <1>8

LEMMA AwaitTimesOutStep ==
  ASSUME CoalesceInv, NEW t \in RReaders, AwaitTimesOut(t)
  PROVE  CoalesceInv'
  <1>1. /\ CoalesceType /\ PlaceFits(t) /\ reader[t].pc = "await"
        /\ map' = map /\ flight' = flight /\ ring' = ring /\ ram' = ram /\ reads' = reads
        /\ reader' = Independent(t)
    BY Zenon DEF CoalesceInv, AwaitTimesOut
  <1>2. FreeSlots(t) # {} /\ reader[t].key \in FKeys
    BY Zenon, <1>1 DEF AsyncPlaces, PlaceFits
  <1>3. PICK n \in ReaderRecs : /\ Moves(t, n) /\ n.pc = "lease" /\ n.id = 0
                                /\ n.key = reader[t].key
    BY Zenon, <1>1, IndependentEffect DEF Moves
  <1> QED BY Zenon, <1>1, <1>2, <1>3, OnlyMoves
          DEF AsyncPlaces, SyncPlaces, GuestPlaces, FreePlaces, CoalesceType

LEMMA InFlightStep ==
  ASSUME CoalesceInv, NEW t \in RReaders, InFlight(t)
  PROVE  CoalesceInv'
  <1>1. /\ CoalesceType /\ PlaceFits(t) /\ reader[t].pc = "joinable"
        /\ map' = map /\ flight' = flight /\ ring' = ring /\ ram' = ram /\ reads' = reads
        /\ reader' = IF map[reader[t].key] # 0 THEN PutOff(t) ELSE To(t, "lease")
    BY Zenon DEF CoalesceInv, InFlight
  <1>2. FreeSlots(t) # {} /\ reader[t].key \in FKeys /\ reader[t].id = 0
    BY Zenon, <1>1 DEF PlaceFits, FreePlaces
  <1>3. "lease" \in ReaderPlaces
    BY Zenon DEF ReaderPlaces, FreePlaces
  <1>4. \E n \in ReaderRecs : /\ Moves(t, n) /\ n.pc \in {"idle", "lease"} /\ n.id = 0
                              /\ n.pc = "lease" => n.key \in FKeys
    <2>1. CASE map[reader[t].key] # 0
      BY ZenonT(60), <1>1, <2>1, PutOffEffect DEF Moves
    <2>2. CASE map[reader[t].key] = 0
      BY SMTT(60), <1>1, <1>2, <1>3, <2>2, ToEffect DEF Moves
    <2> QED BY Zenon, <2>1, <2>2
  <1> QED BY ZenonT(60), <1>1, <1>2, <1>4, OnlyMoves
          DEF AsyncPlaces, SyncPlaces, GuestPlaces, FreePlaces, CoalesceType

(* The follower is a guest before and after. *)
LEMMA FollowerTimesOutStep ==
  ASSUME CoalesceInv, NEW t \in RReaders, FollowerTimesOut(t)
  PROVE  CoalesceInv'
  <1>1. /\ CoalesceType /\ PlaceFits(t) /\ reader[t].pc = "follow"
        /\ map' = map /\ flight' = flight /\ ring' = ring /\ ram' = ram /\ reads' = reads
        /\ reader' = To(t, "own") /\ "own" \in ReaderPlaces
    BY Zenon DEF CoalesceInv, FollowerTimesOut, ReaderPlaces, GuestPlaces
  <1>2. reader[t].key \in FKeys /\ reader[t].id # 0 /\ reader[t].id \notin InRing(t)
    BY Zenon, <1>1 DEF AsyncPlaces, PlaceFits, GuestPlaces
  <1>3. PICK n \in ReaderRecs : /\ Moves(t, n) /\ n.pc = "own" /\ n.id = reader[t].id
                                /\ n.key = reader[t].key
    BY SMTT(60), <1>1, ToEffect DEF Moves
  <1> QED BY ZenonT(60), <1>1, <1>2, <1>3, OnlyMoves
          DEF AsyncPlaces, SyncPlaces, GuestPlaces, FreePlaces, CoalesceType

LEMMA EvictDurableStep ==
  ASSUME CoalesceInv, NEW k \in FKeys, EvictDurable(k)
  PROVE  CoalesceInv'
  <1>1. /\ CoalesceType /\ ram' = [ram EXCEPT ![k] = NoData] /\ map' = map
        /\ flight' = flight /\ ring' = ring /\ reader' = reader /\ reads' = reads
    BY Zenon DEF CoalesceInv, EvictDurable
  <1>2. CoalesceType'
    BY Zenon, <1>1 DEF CoalesceType
  <1>3. \A t \in RReaders : InRing(t)' = InRing(t) /\ FreeSlots(t)' = FreeSlots(t)
    BY Zenon, <1>1 DEF InRing, FreeSlots
  <1>4. \A t \in RReaders : PlaceFits(t)'
    BY <1>1, <1>3 DEF CoalesceInv, PlaceFits
  <1>5. \A t \in RReaders, s \in RingSlotIds : SlotLeads(t, s)'
    BY <1>1, <1>3 DEF CoalesceInv, SlotLeads
  <1>6. \A j \in FKeys : EntryLeads(j)'
    BY <1>1, <1>3 DEF CoalesceInv, EntryLeads
  <1>7. \A f \in FlightIds : DoneIsWhole(f)'
    BY Zenon, <1>1 DEF CoalesceInv, DoneIsWhole
  <1> QED BY Zenon, <1>2, <1>4, <1>5, <1>6, <1>7 DEF CoalesceInv

(* A guest drops its reference; the flight may go. *)
LEMMA GuestLeaves ==
  ASSUME CoalesceInv, NEW t \in RReaders, reader[t].pc \in GuestPlaces,
         NEW n \in ReaderRecs, Moves(t, n), n.id = 0, n.pc = "idle" \/ n.pc = "lease",
         n.pc = "lease" => FreeSlots(t) # {} /\ n.key \in FKeys,
         flight' = Released(flight, t, reader[t].id), map' = map, ring' = ring,
         ram' \in [FKeys -> {NoData, Whole}], reads' = reads
  PROVE  CoalesceInv'
  <1>1. CoalesceType /\ PlaceFits(t)
    BY Zenon DEF CoalesceInv
  <1>2. PICK f \in FlightIds : f = reader[t].id /\ f \notin InRing(t)
    BY Zenon, <1>1 DEF PlaceFits, CoalesceType, ReaderRecs
  <1>3. reader' \in [RReaders -> ReaderRecs] /\ reader'[t] = n
        /\ \A u \in RReaders \ {t} : reader'[u] = reader[u]
    BY Zenon, <1>1 DEF CoalesceType, Moves
  <1>4. /\ flight' \in [FlightIds -> FlightRecs]
        /\ \A g \in FlightIds \ {f} : flight'[g] = flight[g]
        /\ \/ flight'[f] = flight[f]
           \/ /\ flight'[f] = NoFlight /\ \A k \in FKeys : map[k] # f
              /\ \A u \in RReaders \ {t} : f \notin InRing(u) /\ reader[u].id # f
    <2>1. flight' = Released(flight, t, f) /\ flight \in [FlightIds -> FlightRecs]
      BY Zenon, <1>1, <1>2 DEF CoalesceType
    <2>2. /\ Released(flight, t, f) \in [FlightIds -> FlightRecs]
          /\ \A g \in FlightIds \ {f} : Released(flight, t, f)[g] = flight[g]
          /\ \/ Released(flight, t, f)[f] = flight[f]
             \/ /\ Released(flight, t, f)[f] = NoFlight /\ \A k \in FKeys : map[k] # f
                /\ \A u \in RReaders \ {t} : f \notin InRing(u) /\ reader[u].id # f
      BY SMTT(60), <1>1, <2>1, ReleasedEffect
    <2> QED BY Zenon, <2>1, <2>2
  <1>5. CoalesceType'
    BY Zenon, <1>1, <1>3, <1>4 DEF CoalesceType
  <1>6. InRing(t)' = InRing(t) /\ FreeSlots(t)' = FreeSlots(t)
    BY Zenon DEF InRing, FreeSlots
  <1>7. PlaceFits(t)'
    BY ZenonT(60), <1>3, <1>6 DEF PlaceFits, AsyncPlaces, SyncPlaces, GuestPlaces, FreePlaces
  <1>8. PICK C \in SUBSET FlightIds : C = IF flight'[f] = flight[f] THEN {} ELSE {f}
    BY ZenonT(60), <1>2
  <1>9. \A g \in FlightIds \ C : SameLead(g)
    BY Zenon, <1>4, <1>8 DEF SameLead
  <1>10. reader[t].pc \notin AsyncPlaces \cup SyncPlaces
    BY Zenon DEF AsyncPlaces, SyncPlaces, GuestPlaces
  <1>11. ASSUME NEW g \in C
         PROVE  /\ DoneIsWhole(g)' /\ \A u \in RReaders : g \notin Led(u)
                /\ \A k \in FKeys : map[k] # g
    <2>1. g = f /\ flight'[f] = NoFlight /\ \A k \in FKeys : map[k] # f
      BY Zenon, <1>4, <1>8
    <2>2. DoneIsWhole(g)'
      BY SMTT(60), <2>1 DEF DoneIsWhole, NoFlight
    <2>3. ASSUME NEW u \in RReaders PROVE g \notin Led(u)
      BY ZenonT(60), <1>2, <1>4, <1>8, <1>10, <2>1 DEF Led
    <2> QED BY Zenon, <2>1, <2>2, <2>3
  <1>12. /\ \A u \in RReaders \ {t} : reader'[u] = reader[u] /\ ring'[u] = ring[u]
         /\ \A s \in RingSlotIds : ring'[t][s].id = ring[t][s].id
         /\ reader'[t].pc \notin AsyncPlaces \cup SyncPlaces
    BY ZenonT(60), <1>3 DEF AsyncPlaces, SyncPlaces
  <1> QED BY Zenon, <1>5, <1>7, <1>9, <1>10, <1>11, <1>12, QuietMove

LEMMA AwaitEndsStep ==
  ASSUME CoalesceInv, NEW t \in RReaders, AwaitEnds(t)
  PROVE  CoalesceInv'
  <1>1. /\ CoalesceType /\ PlaceFits(t) /\ reader[t].pc = "await"
        /\ map' = map /\ ring' = ring /\ ram' = ram /\ reads' = reads
        /\ flight' = Released(flight, t, reader[t].id)
    BY ZenonT(60) DEF CoalesceInv, AwaitEnds
  <1>2. FreeSlots(t) # {} /\ reader[t].key \in FKeys /\ reader[t].pc \in GuestPlaces
    BY Zenon, <1>1 DEF AsyncPlaces, PlaceFits, GuestPlaces
  <1>3. ram[reader[t].key] \in {NoData, Whole} /\ ram' \in [FKeys -> {NoData, Whole}]
    BY Zenon, <1>1, <1>2 DEF CoalesceType
  <1>4. \E n \in ReaderRecs : /\ Moves(t, n) /\ n.pc \in {"idle", "lease"} /\ n.id = 0
                              /\ n.pc = "lease" => n.key \in FKeys
    <2>1. CASE reader' = Answer(t, ram[reader[t].key])
      BY ZenonT(60), <1>1, <1>3, <2>1, AnswerEffect DEF Moves
    <2>2. CASE reader' = Independent(t)
      BY Zenon, <1>1, <1>2, <2>2, IndependentEffect DEF Moves
    <2> QED BY Zenon, <2>1, <2>2 DEF AwaitEnds
  <1> QED BY Zenon, <1>1, <1>2, <1>3, <1>4, GuestLeaves

LEMMA FollowerCopiesStep ==
  ASSUME CoalesceInv, NEW t \in RReaders, FollowerCopies(t)
  PROVE  CoalesceInv'
  <1>1. /\ CoalesceType /\ PlaceFits(t) /\ reader[t].pc = "follow"
        /\ map' = map /\ ring' = ring /\ reads' = reads
    BY Zenon DEF CoalesceInv, FollowerCopies
  <1>2. /\ reader[t].key \in FKeys /\ reader[t].id # 0 /\ reader[t].id \notin InRing(t)
        /\ reader[t].pc \in GuestPlaces
    BY Zenon, <1>1 DEF AsyncPlaces, PlaceFits, GuestPlaces
  <1>3. PICK f \in FlightIds : f = reader[t].id
    BY Zenon, <1>1, <1>2 DEF CoalesceType, ReaderRecs
  <1>4. CASE flight[f].ok /\ flight[f].data # NoData
    <2>1. flight[f].data = Whole
      BY Zenon, <1>1, <1>3, <1>4
      DEF CoalesceInv, DoneIsWhole, CoalesceType, FlightRecs, FollowerCopies
    <2>2. /\ ram' = [ram EXCEPT ![reader[t].key] = Whole] /\ reader' = Answer(t, Whole)
          /\ flight' = Released(flight, t, reader[t].id)
      BY Zenon, <1>3, <1>4, <2>1 DEF FollowerCopies
    <2>3. PICK n \in ReaderRecs : Moves(t, n) /\ n.pc = "idle" /\ n.id = 0
      BY Zenon, <1>1, <2>2, AnswerEffect DEF Moves
    <2>4. ram' \in [FKeys -> {NoData, Whole}]
      BY Zenon, <1>1, <2>2 DEF CoalesceType
    <2> QED BY ZenonT(60), <1>1, <1>2, <2>2, <2>3, <2>4, GuestLeaves
  <1>5. CASE ~(flight[f].ok /\ flight[f].data # NoData)
    <2>1. ram' = ram /\ flight' = flight /\ reader' = To(t, "own") /\ "own" \in ReaderPlaces
      BY Zenon, <1>3, <1>5 DEF FollowerCopies, ReaderPlaces, GuestPlaces
    <2>2. PICK n \in ReaderRecs : /\ Moves(t, n) /\ n.pc = "own" /\ n.id = reader[t].id
                                  /\ n.key = reader[t].key
      BY SMTT(60), <1>1, <2>1, ToEffect DEF Moves
    <2> QED BY Zenon, <1>1, <1>2, <2>1, <2>2, OnlyMoves
            DEF AsyncPlaces, SyncPlaces, GuestPlaces, FreePlaces, CoalesceType
  <1> QED BY Zenon, <1>4, <1>5

LEMMA OwnFillStep ==
  ASSUME CoalesceInv, NEW t \in RReaders, NEW ok \in BOOLEAN, OwnFill(t, ok)
  PROVE  CoalesceInv'
  <1>1. /\ CoalesceType /\ reader[t].pc = "own" /\ map' = map /\ ring' = ring
        /\ reads' = reads /\ flight' = Released(flight, t, reader[t].id)
        /\ reader' = Answer(t, NoData) /\ reader[t].pc \in GuestPlaces
    BY Zenon DEF CoalesceInv, OwnFill, GuestPlaces
  <1>2. ram' \in [FKeys -> {NoData, Whole}]
    BY Zenon, <1>1 DEF CoalesceType, OwnFill
  <1>3. PICK n \in ReaderRecs : Moves(t, n) /\ n.pc = "idle" /\ n.id = 0
    BY Zenon, <1>1, AnswerEffect DEF Moves
  <1> QED BY Zenon, <1>1, <1>2, <1>3, GuestLeaves

(* A follower counts itself: of the flight nothing else changes. *)
LEMMA FollowStep ==
  ASSUME CoalesceInv, NEW t \in RReaders, Follow(t)
  PROVE  CoalesceInv'
  <1>1. /\ CoalesceType /\ PlaceFits(t) /\ reader[t].pc = "count" /\ map' = map
        /\ ring' = ring /\ ram' = ram /\ reads' = reads /\ reader' = To(t, "follow")
        /\ "follow" \in ReaderPlaces
    BY Zenon DEF CoalesceInv, Follow, ReaderPlaces, GuestPlaces
  <1>2. /\ reader[t].key \in FKeys /\ reader[t].id # 0 /\ reader[t].id \notin InRing(t)
    BY Zenon, <1>1 DEF AsyncPlaces, PlaceFits, GuestPlaces
  <1>3. PICK f \in FlightIds : f = reader[t].id
    BY Zenon, <1>1, <1>2 DEF CoalesceType, ReaderRecs
  <1>4. PICK n \in ReaderRecs : /\ Moves(t, n) /\ n.pc = "follow" /\ n.id = reader[t].id
                                /\ n.key = reader[t].key
    BY SMTT(60), <1>1, ToEffect DEF Moves
  <1>16. flight[f] \in FlightRecs /\ flight[f].copiers + 1 \in Nat
    BY <1>1 DEF CoalesceType, FlightRecs
  <1>5. PICK v : v = [flight[f] EXCEPT !.copiers = flight[f].copiers + 1]
    BY Zenon
  <1>6. /\ v \in FlightRecs /\ v.leader = flight[f].leader /\ v.done = flight[f].done
        /\ v.key = flight[f].key /\ v.data = flight[f].data /\ v.ok = flight[f].ok
    BY Zenon, <1>5, <1>16 DEF FlightRecs
  <1>7. flight' = [flight EXCEPT ![f] = v]
    BY Zenon, <1>1, <1>3, <1>5 DEF Follow, CoalesceType
  <1>8. flight' \in [FlightIds -> FlightRecs] /\ \A g \in FlightIds : SameLead(g)
    BY Zenon, <1>1, <1>6, <1>7 DEF CoalesceType, SameLead
  <1>9. reader' \in [RReaders -> ReaderRecs] /\ reader'[t] = n
        /\ \A u \in RReaders \ {t} : reader'[u] = reader[u]
    BY Zenon, <1>1, <1>4 DEF CoalesceType, Moves
  <1>10. CoalesceType'
    BY Zenon, <1>1, <1>8, <1>9 DEF CoalesceType
  <1>11. InRing(t)' = InRing(t)
    BY Zenon, <1>1 DEF InRing
  <1>12. PlaceFits(t)'
    BY Zenon, <1>2, <1>4, <1>9, <1>11
    DEF PlaceFits, AsyncPlaces, SyncPlaces, GuestPlaces, FreePlaces
  <1>13. PICK C \in SUBSET FlightIds : C = {}
    BY Zenon
  <1>14. /\ \A g \in FlightIds \ C : SameLead(g)
         /\ \A g \in C : /\ DoneIsWhole(g)' /\ \A u \in RReaders : g \notin Led(u)
                         /\ \A k \in FKeys : map[k] # g
    BY Zenon, <1>8, <1>13
  <1>15. /\ \A u \in RReaders \ {t} : reader'[u] = reader[u] /\ ring'[u] = ring[u]
         /\ \A s \in RingSlotIds : ring'[t][s].id = ring[t][s].id
         /\ reader[t].pc \notin AsyncPlaces \cup SyncPlaces
         /\ reader'[t].pc \notin AsyncPlaces \cup SyncPlaces
    BY Zenon, <1>1, <1>4, <1>9 DEF AsyncPlaces, SyncPlaces
  <1> QED BY Zenon, <1>1, <1>10, <1>12, <1>14, <1>15, QuietMove

-----------------------------------------------------------------------------
(* The steps of the thread that completes a flight. *)

(* A flight has one leader. *)
LEMMA LedApart ==
  ASSUME CoalesceInv, NEW t \in RReaders, NEW u \in RReaders \ {t}, NEW f \in FlightIds,
         f \in Led(t)
  PROVE  f \notin Led(u)
  BY Zenon, LedBy

LEMMA LeaderLeads ==
  ASSUME CoalesceInv, NEW t \in RReaders, reader[t].pc \in AsyncPlaces \cup SyncPlaces
  PROVE  /\ reader[t].id \in FlightIds /\ reader[t].id \in Led(t)
         /\ reader[t].pc \in AsyncPlaces =>
              /\ reader[t].slot \in RingSlotIds /\ ring[t][reader[t].slot].id = reader[t].id
              /\ reader[t].id \in InRing(t)
              /\ \A z \in RingSlotIds : ring[t][z].id = reader[t].id => z = reader[t].slot
         /\ reader[t].pc \in SyncPlaces => reader[t].id \notin InRing(t)
  <1>1. PlaceFits(t) /\ reader[t] \in ReaderRecs
    BY Zenon DEF CoalesceInv, CoalesceType
  <1>2. reader[t].id \in FlightIds
    BY Zenon, <1>1 DEF PlaceFits, ReaderRecs
  <1>3. CASE reader[t].pc \in AsyncPlaces
    <2>1. reader[t].slot \in RingSlotIds /\ ring[t][reader[t].slot].id = reader[t].id
      BY ZenonT(60), <1>1, <1>3 DEF PlaceFits, ReaderRecs
    <2>2. reader[t].id \in InRing(t)
      BY Zenon, <2>1 DEF InRing, RingSlotIds
    <2>3. SlotLeads(t, reader[t].slot) /\ reader[t].id # 0
      BY ZenonT(60), <1>1, <1>3, <2>1 DEF CoalesceInv, PlaceFits
    <2> QED BY Zenon, <1>2, <1>3, <2>1, <2>2, <2>3 DEF Led, SlotLeads, AsyncPlaces, SyncPlaces
  <1>4. CASE reader[t].pc \in SyncPlaces
    BY ZenonT(60), <1>1, <1>2, <1>4 DEF PlaceFits, Led, AsyncPlaces, SyncPlaces
  <1> QED BY Zenon, <1>3, <1>4

(* It goes on, and changes the data of its flight alone. *)
LEMMA LeaderMoves ==
  ASSUME CoalesceInv, NEW t \in RReaders, NEW n \in ReaderRecs, Moves(t, n),
         \/ reader[t].pc \in AsyncPlaces /\ n.pc \in AsyncPlaces
         \/ reader[t].pc \in SyncPlaces /\ n.pc \in SyncPlaces,
         n.id = reader[t].id, n.slot = reader[t].slot, n.key = reader[t].key,
         ring' = ring, ram' = ram, reads' = reads,
         NEW v \in FlightRecs, flight' = [flight EXCEPT ![n.id] = v],
         v.leader = flight[n.id].leader, v.done = flight[n.id].done,
         v.key = flight[n.id].key, v.ok = flight[n.id].ok, DataFits(v, n),
         map' \in [FKeys -> FlightIds \cup {0}],
         \A k \in FKeys : map'[k] = map[k] \/ map'[k] = 0,
         \A k \in FKeys : map'[k] = n.id => n.pc \in {"complete", "lead", "erase"}
  PROVE  CoalesceInv'
  <1>1. CoalesceType /\ PlaceFits(t) /\ \A s \in RingSlotIds : SlotLeads(t, s)
    BY ZenonT(60) DEF CoalesceInv
  <1>2. PICK f \in FlightIds : f = reader[t].id /\ f = n.id /\ f \in Led(t) /\ f # 0
    <2>1. reader[t].id \in FlightIds /\ reader[t].id \in Led(t)
      BY Zenon, LeaderLeads
    <2>2. 0 \notin FlightIds
      BY DEF FlightIds
    <2> QED BY Zenon, <2>1, <2>2
  <1>3. /\ flight[f].leader = t /\ ~flight[f].done
        /\ \A u \in RReaders \ {t} : f \notin Led(u)
    BY Zenon, <1>2, LedBy, LedApart
  <1>4. /\ flight' \in [FlightIds -> FlightRecs] /\ flight'[f] = v
        /\ \A g \in FlightIds \ {f} : flight'[g] = flight[g]
    BY Zenon, <1>1, <1>2 DEF CoalesceType
  <1>5. reader' \in [RReaders -> ReaderRecs] /\ reader'[t] = n
        /\ \A u \in RReaders \ {t} : reader'[u] = reader[u]
    BY Zenon, <1>1 DEF CoalesceType, Moves
  <1>6. CoalesceType'
    BY Zenon, <1>1, <1>4, <1>5 DEF CoalesceType
  <1>7. InRing(t)' = InRing(t)
    BY ZenonT(60) DEF InRing
  <1>8. \A g \in FlightIds \ {f} : SameLead(g)
    BY ZenonT(60), <1>4 DEF SameLead
  <1>9. DoneIsWhole(f)'
    BY ZenonT(60), <1>2, <1>3, <1>4 DEF DoneIsWhole
  <1>10. PlaceFits(t)'
    BY ZenonT(60), <1>1, <1>2, <1>4, <1>5, <1>7
       DEF PlaceFits, AsyncPlaces, SyncPlaces, GuestPlaces, FreePlaces
  <1>11. ASSUME NEW s \in RingSlotIds PROVE SlotLeads(t, s)'
    <2>1. PICK g \in FlightIds \cup {0} : g = ring[t][s].id
      BY Zenon, <1>1 DEF CoalesceType, ReadRecs
    <2>2. CASE g = 0
      BY Zenon, <2>1, <2>2 DEF SlotLeads
    <2>3. CASE g = f
      <3>1. reader[t].pc \in AsyncPlaces /\ n.pc \in AsyncPlaces /\ reader[t].slot = s
        <4>1. f \in InRing(t)
          BY Zenon, <2>1, <2>3 DEF InRing, RingSlotIds
        <4>2. reader[t].pc \notin SyncPlaces
          BY ZenonT(60), <1>2, <4>1, LeaderLeads
        <4>3. reader[t].pc \in AsyncPlaces /\ n.pc \in AsyncPlaces
          BY Zenon, <4>2
        <4>4. \A z \in RingSlotIds : ring[t][z].id = reader[t].id => z = reader[t].slot
          BY ZenonT(60), <4>3, LeaderLeads
        <4> QED BY ZenonT(60), <1>2, <2>1, <2>3, <4>3, <4>4
      <3>2. SlotLeads(t, s)
        BY Zenon, <1>1
      <3> QED BY ZenonT(60), <1>2, <1>3, <1>4, <1>5, <2>1, <2>3, <3>1, <3>2 DEF SlotLeads
    <2>4. CASE g \in FlightIds \ {f}
      <3>1. SlotLeads(t, s) /\ SameLead(g)
        BY ZenonT(60), <1>1, <1>8, <2>4
      <3> QED BY ZenonT(60), <1>2, <1>5, <2>1, <2>4, <3>1 DEF SlotLeads, SameLead
    <2> QED BY ZenonT(60), <2>2, <2>3, <2>4
  <1>12. ASSUME NEW k \in FKeys
         PROVE  \/ EntryLeads(k)'
                \/ map'[k] = map[k] /\ map[k] \notin {f} /\ flight[map[k]].leader # t
    <2>1. EntryLeads(k) /\ map[k] \in FlightIds \cup {0}
      BY Zenon, <1>1 DEF CoalesceInv, CoalesceType
    <2>2. CASE map'[k] = 0
      BY ZenonT(60), <2>2 DEF EntryLeads
    <2>3. CASE map'[k] = f /\ f = map[k]
      <3>1. n.pc \in {"complete", "lead", "erase"} /\ flight[f].key = k
        BY Zenon, <1>2, <2>1, <2>3 DEF EntryLeads
      <3>2. n.pc \in AsyncPlaces => f \in InRing(t)
        BY ZenonT(60), <1>2, LeaderLeads DEF AsyncPlaces, SyncPlaces
      <3> QED BY ZenonT(60), <1>2, <1>3, <1>4, <1>5, <1>7, <2>3, <3>1, <3>2
              DEF EntryLeads, AsyncPlaces, SyncPlaces
    <2>4. CASE map'[k] = map[k] /\ map[k] \in FlightIds \ {f} /\ flight[map[k]].leader = t
      <3>1. SameLead(map[k])
        BY Zenon, <1>8, <2>4
      <3> QED BY ZenonT(60), <1>2, <1>5, <1>7, <2>1, <2>4, <3>1 DEF EntryLeads, SameLead
    <2> QED BY ZenonT(60), <2>1, <2>2, <2>3, <2>4
  <1>13. \A u \in RReaders \ {t} : reader'[u] = reader[u] /\ ring'[u] = ring[u]
    BY Zenon, <1>5
  <1>14. PICK C \in SUBSET FlightIds : C = {f}
    BY ZenonT(60)
  <1> QED BY ZenonT(60), <1>3, <1>6, <1>8, <1>9, <1>10, <1>11, <1>12, <1>13, <1>14, FlightThreadStep

LEMMA EraseStep ==
  ASSUME CoalesceInv, NEW t \in RReaders, Erase(t)
  PROVE  CoalesceInv'
  <1>1. /\ CoalesceType /\ PlaceFits(t) /\ reader[t].pc = "complete" /\ reader' = To(t, "copy")
        /\ flight' = flight /\ ring' = ring /\ ram' = ram /\ reads' = reads
        /\ "copy" \in ReaderPlaces /\ reader[t].pc \in AsyncPlaces
    BY Zenon DEF CoalesceInv, Erase, ReaderPlaces, AsyncPlaces
  <1>2. PICK f \in FlightIds : f = reader[t].id /\ f \in Led(t)
    BY ZenonT(60), <1>1, LeaderLeads
  <1>3. map' = [map EXCEPT ![flight[f].key] = IF @ = f THEN 0 ELSE @]
    BY Zenon, <1>2 DEF Erase
  <1>4. /\ map' \in [FKeys -> FlightIds \cup {0}]
        /\ \A k \in FKeys : map'[k] = map[k] \/ map'[k] = 0
    BY Zenon, <1>1, <1>3 DEF CoalesceType
  <1>5. ASSUME NEW k \in FKeys PROVE map'[k] # f
    <2>1. f # 0 /\ EntryLeads(k)
      BY SMTT(60) DEF CoalesceInv, FlightIds
    <2>2. map[k] = f => flight[f].key = k
      BY Zenon, <2>1 DEF EntryLeads
    <2> QED BY Zenon, <1>1, <1>3, <2>1, <2>2 DEF CoalesceType
  <1>6. PICK n \in ReaderRecs :
          /\ Moves(t, n) /\ n.pc = "copy" /\ n.key = reader[t].key /\ n.id = f
          /\ n.slot = reader[t].slot /\ n.got = reader[t].got
    BY SMTT(60), <1>1, <1>2, ToEffect DEF Moves
  <1>7. PICK v \in FlightRecs : v = flight[f]
    BY Zenon, <1>1 DEF CoalesceType
  <1>8. flight' = [flight EXCEPT ![n.id] = v]
    BY Zenon, <1>1, <1>6, <1>7 DEF CoalesceType
  <1>9. DataFits(v, n)
    BY ZenonT(60), <1>1, <1>2, <1>6, <1>7 DEF PlaceFits, DataFits, AsyncPlaces
  <1>10. n.pc \in AsyncPlaces
    BY Zenon, <1>6 DEF AsyncPlaces
  <1>11. /\ n.id = reader[t].id /\ v.leader = flight[n.id].leader
         /\ v.done = flight[n.id].done /\ v.key = flight[n.id].key /\ v.ok = flight[n.id].ok
         /\ \A k \in FKeys : map'[k] = n.id => n.pc \in {"complete", "lead", "erase"}
    BY Zenon, <1>2, <1>5, <1>6, <1>7
  <1> QED BY Zenon, <1>1, <1>4, <1>6, <1>8, <1>9, <1>10, <1>11, LeaderMoves

LEMMA AllocateStep ==
  ASSUME CoalesceInv, NEW t \in RReaders, Allocate(t)
  PROVE  CoalesceInv'
  <1>1. /\ CoalesceType /\ PlaceFits(t) /\ reader[t].pc = "copy" /\ map' = map
        /\ ring' = ring /\ ram' = ram /\ reads' = reads
        /\ {"fill", "end"} \subseteq ReaderPlaces /\ reader[t].pc \in AsyncPlaces
    BY Zenon DEF CoalesceInv, Allocate, ReaderPlaces, AsyncPlaces
  <1>2. PICK f \in FlightIds : f = reader[t].id /\ f \in Led(t) /\ f # 0
    BY SMTT(60), <1>1, LeaderLeads DEF FlightIds
  <1>3. PICK o \in FlightRecs : o = flight[f] /\ o.data = NoData /\ o.leader = t
    <2>1. flight[f].data = NoData
      BY Zenon, <1>1, <1>2 DEF PlaceFits, DataFits
    <2> QED BY <1>1, <1>2, <2>1, LedBy DEF CoalesceType
  <1>4. PICK n \in ReaderRecs, v \in FlightRecs :
          /\ Moves(t, n) /\ n.pc \in AsyncPlaces /\ n.key = reader[t].key /\ n.id = f
          /\ n.slot = reader[t].slot /\ flight' = [flight EXCEPT ![f] = v] /\ DataFits(v, n)
          /\ v.leader = o.leader /\ v.done = o.done /\ v.key = o.key /\ v.ok = o.ok
    <2>1. CASE Allocates(t)
      <3>1. flight' = [flight EXCEPT ![f].data = Torn] /\ reader' = To(t, "fill")
        BY Zenon, <1>2, <2>1 DEF Allocate
      <3>2. PICK m \in ReaderRecs :
              /\ Moves(t, m) /\ m.pc = "fill" /\ m.key = reader[t].key /\ m.id = f
              /\ m.slot = reader[t].slot /\ m.got = reader[t].got
        BY SMTT(60), <1>1, <1>2, <3>1, ToEffect DEF Moves
      <3>3. m.got = Whole
        BY Zenon, <2>1, <3>2 DEF Allocates, ReaderRecs
      <3>4. PICK w : w = [o EXCEPT !.data = Torn]
        BY Zenon
      <3>5. /\ w \in FlightRecs /\ w.leader = o.leader /\ w.done = o.done /\ w.key = o.key
            /\ w.ok = o.ok
        BY Zenon, <3>4 DEF FlightRecs
      <3>6. flight' = [flight EXCEPT ![f] = w]
        BY Zenon, <1>1, <1>3, <3>1, <3>4 DEF CoalesceType
      <3>7. DataFits(w, m) /\ m.pc \in AsyncPlaces
        BY Zenon, <3>2, <3>3 DEF DataFits, AsyncPlaces
      <3> QED BY Zenon, <3>2, <3>5, <3>6, <3>7
    <2>2. CASE ~Allocates(t)
      <3>1. flight' = flight /\ reader' = To(t, "end")
        BY Zenon, <2>2 DEF Allocate
      <3>2. PICK m \in ReaderRecs :
              /\ Moves(t, m) /\ m.pc = "end" /\ m.key = reader[t].key /\ m.id = f
              /\ m.slot = reader[t].slot
        BY SMTT(60), <1>1, <1>2, <3>1, ToEffect DEF Moves
      <3>3. flight' = [flight EXCEPT ![f] = o]
        BY Zenon, <1>1, <1>3, <3>1 DEF CoalesceType
      <3>4. DataFits(o, m) /\ m.pc \in AsyncPlaces
        BY ZenonT(60), <1>3, <3>2 DEF DataFits, AsyncPlaces, NoData, Torn
      <3> QED BY Zenon, <3>2, <3>3, <3>4
    <2> QED BY ZenonT(60), <2>1, <2>2
  <1>5. ASSUME NEW k \in FKeys PROVE map[k] # f
    <2>1. EntryLeads(k)
      BY Zenon DEF CoalesceInv
    <2> QED BY Zenon, <1>1, <1>2, <1>3, <2>1 DEF EntryLeads
  <1>6. map' \in [FKeys -> FlightIds \cup {0}] /\ \A k \in FKeys : map'[k] = map[k]
    BY Zenon, <1>1 DEF CoalesceType
  <1>7. /\ n.id = reader[t].id /\ v.leader = flight[n.id].leader
        /\ v.done = flight[n.id].done /\ v.key = flight[n.id].key /\ v.ok = flight[n.id].ok
        /\ flight' = [flight EXCEPT ![n.id] = v]
        /\ \A k \in FKeys : map'[k] = n.id => n.pc \in {"complete", "lead", "erase"}
    BY Zenon, <1>2, <1>3, <1>4, <1>5, <1>6
  <1> QED BY Zenon, <1>1, <1>4, <1>6, <1>7, LeaderMoves

(* A thread past its erase is no longer in map_. *)
LEMMA ErasedIsGone ==
  ASSUME CoalesceInv, NEW t \in RReaders, reader[t].pc \in {"copy", "fill", "end", "finish"}
  PROVE  \A k \in FKeys : map[k] # reader[t].id
  <1>1. /\ reader[t].pc \in AsyncPlaces \cup SyncPlaces /\ reader[t].id \in FlightIds
        /\ flight[reader[t].id].leader = t /\ reader[t].id # 0
        /\ reader[t].pc = "finish" => reader[t].id \notin InRing(t)
    <2>1. reader[t].pc = "finish" => reader[t].pc \in SyncPlaces
      BY Zenon DEF AsyncPlaces, SyncPlaces
    <2>2. reader[t].pc \in AsyncPlaces \cup SyncPlaces
      BY Zenon DEF AsyncPlaces, SyncPlaces
    <2>3. reader[t].id \in FlightIds /\ reader[t].id \in Led(t)
      BY Zenon, <2>2, LeaderLeads
    <2> QED BY SMTT(60), <2>1, <2>2, <2>3, LeaderLeads, LedBy DEF FlightIds
  <1> TAKE k \in FKeys
  <1>2. EntryLeads(k)
    BY Zenon DEF CoalesceInv
  <1> QED BY Zenon, <1>1, <1>2 DEF EntryLeads, AsyncPlaces, SyncPlaces

LEMMA FillStep ==
  ASSUME CoalesceInv, NEW t \in RReaders, Fill(t)
  PROVE  CoalesceInv'
  <1>1. /\ CoalesceType /\ PlaceFits(t) /\ reader[t].pc = "fill" /\ map' = map
        /\ ring' = ring /\ ram' = ram /\ reads' = reads /\ reader' = To(t, "end")
        /\ "end" \in ReaderPlaces /\ reader[t].pc \in AsyncPlaces
    BY Zenon DEF CoalesceInv, Fill, ReaderPlaces, AsyncPlaces
  <1>2. PICK f \in FlightIds : f = reader[t].id
    BY Zenon, <1>1, LeaderLeads
  <1>3. PICK o \in FlightRecs : o = flight[f]
    BY Zenon, <1>1 DEF CoalesceType
  <1>4. reader[t].got = Whole
    BY Zenon, <1>1, <1>2 DEF PlaceFits, DataFits, AsyncPlaces
  <1>5. PICK n \in ReaderRecs :
          /\ Moves(t, n) /\ n.pc = "end" /\ n.key = reader[t].key /\ n.id = f
          /\ n.slot = reader[t].slot
    BY SMTT(60), <1>1, <1>2, ToEffect DEF Moves
  <1>6. PICK v : v = [o EXCEPT !.data = Whole]
    BY Zenon
  <1>7. /\ v \in FlightRecs /\ v.leader = o.leader /\ v.done = o.done /\ v.key = o.key
        /\ v.ok = o.ok /\ v.data = Whole
    BY Zenon, <1>6 DEF FlightRecs
  <1>8. flight' = [flight EXCEPT ![f] = v]
    BY Zenon, <1>1, <1>2, <1>3, <1>4, <1>6 DEF CoalesceType, Fill
  <1>9. DataFits(v, n) /\ n.pc \in AsyncPlaces
    BY Zenon, <1>5, <1>7 DEF DataFits, AsyncPlaces, Whole, Torn
  <1>10. map' \in [FKeys -> FlightIds \cup {0}] /\ \A k \in FKeys : map'[k] = map[k]
    BY Zenon, <1>1 DEF CoalesceType
  <1>11. /\ n.id = reader[t].id /\ v.leader = flight[n.id].leader
         /\ v.done = flight[n.id].done /\ v.key = flight[n.id].key /\ v.ok = flight[n.id].ok
         /\ flight' = [flight EXCEPT ![n.id] = v]
         /\ \A k \in FKeys : map'[k] = n.id => n.pc \in {"complete", "lead", "erase"}
    BY Zenon, <1>1, <1>2, <1>3, <1>5, <1>7, <1>8, <1>10, ErasedIsGone
  <1> QED BY ZenonT(60), <1>1, <1>5, <1>7, <1>9, <1>10, <1>11, LeaderMoves

LEMMA LeaderFillStep ==
  ASSUME CoalesceInv, NEW t \in RReaders, NEW ok \in BOOLEAN, LeaderFill(t, ok)
  PROVE  CoalesceInv'
  <1>1. /\ CoalesceType /\ PlaceFits(t) /\ reader[t].pc = "lead" /\ map' = map
        /\ ring' = ring /\ ram' = ram /\ reads' = reads
        /\ "erase" \in ReaderPlaces /\ reader[t].pc \in SyncPlaces
    BY Zenon DEF CoalesceInv, LeaderFill, ReaderPlaces, SyncPlaces
  <1>2. PICK f \in FlightIds : f = reader[t].id
    BY Zenon, <1>1, LeaderLeads
  <1>3. PICK o \in FlightRecs, r \in ReaderRecs : o = flight[f] /\ r = reader[t]
    BY Zenon, <1>1 DEF CoalesceType
  <1>4. PICK d \in {Whole, Torn}, g \in {NoData, Whole} :
          /\ g = Whole => d = Whole
          /\ flight' = [flight EXCEPT ![f].data = d]
          /\ reader' = [reader EXCEPT ![t].pc = "erase", ![t].got = g]
    <2>1. CASE ok
      <3>1. /\ flight' = [flight EXCEPT ![f].data = Whole]
            /\ reader' = [reader EXCEPT ![t].pc = "erase", ![t].got = Whole]
        BY Zenon, <1>2, <2>1 DEF LeaderFill
      <3> QED BY Zenon, <3>1
    <2>2. CASE ~ok
      <3>1. /\ flight' = [flight EXCEPT ![f].data = Torn]
            /\ reader' = [reader EXCEPT ![t].pc = "erase", ![t].got = NoData]
        BY Zenon, <1>2, <2>2 DEF LeaderFill
      <3>2. NoData # Whole
        BY Zenon DEF NoData, Whole
      <3> QED BY Zenon, <3>1, <3>2
    <2> QED BY Zenon, <2>1, <2>2
  <1>5. PICK n : n = [[r EXCEPT !.pc = "erase"] EXCEPT !.got = g]
    BY Zenon
  <1>6. /\ n \in ReaderRecs /\ n.pc = "erase" /\ n.key = r.key /\ n.id = f
        /\ n.slot = r.slot /\ n.got = g
    BY Zenon, <1>1, <1>2, <1>3, <1>5 DEF ReaderRecs
  <1>7. Moves(t, n)
    BY Zenon, <1>1, <1>3, <1>4, <1>5 DEF Moves, CoalesceType
  <1>8. PICK v : v = [o EXCEPT !.data = d]
    BY Zenon
  <1>9. /\ v \in FlightRecs /\ v.leader = o.leader /\ v.done = o.done /\ v.key = o.key
        /\ v.ok = o.ok /\ v.data = d
    BY Zenon, <1>8 DEF FlightRecs
  <1>10. flight' = [flight EXCEPT ![f] = v]
    BY Zenon, <1>1, <1>3, <1>4, <1>8 DEF CoalesceType
  <1>11. DataFits(v, n) /\ n.pc \in SyncPlaces
    BY Zenon, <1>4, <1>6, <1>9 DEF DataFits, SyncPlaces
  <1>12. map' \in [FKeys -> FlightIds \cup {0}] /\ \A k \in FKeys : map'[k] = map[k]
    BY Zenon, <1>1 DEF CoalesceType
  <1>13. /\ n.id = reader[t].id /\ n.slot = reader[t].slot /\ n.key = reader[t].key
         /\ v.leader = flight[n.id].leader
         /\ v.done = flight[n.id].done /\ v.key = flight[n.id].key /\ v.ok = flight[n.id].ok
         /\ flight' = [flight EXCEPT ![n.id] = v]
         /\ \A k \in FKeys : map'[k] = n.id => n.pc \in {"complete", "lead", "erase"}
    BY Zenon, <1>2, <1>3, <1>6, <1>9, <1>10
  <1> QED BY ZenonT(60), <1>1, <1>6, <1>7, <1>9, <1>11, <1>12, <1>13, LeaderMoves

LEMMA LeaderEraseStep ==
  ASSUME CoalesceInv, NEW t \in RReaders, LeaderErase(t)
  PROVE  CoalesceInv'
  <1>1. /\ CoalesceType /\ PlaceFits(t) /\ reader[t].pc = "erase" /\ reader' = To(t, "finish")
        /\ flight' = flight /\ ring' = ring /\ ram' = ram /\ reads' = reads
        /\ "finish" \in ReaderPlaces /\ reader[t].pc \in SyncPlaces
    BY ZenonT(60) DEF CoalesceInv, LeaderErase, ReaderPlaces, SyncPlaces
  <1>2. PICK f \in FlightIds : f = reader[t].id /\ f # 0
    BY SMTT(60), <1>1, LeaderLeads DEF FlightIds
  <1>3. flight[f].key = reader[t].key /\ DataFits(flight[f], reader[t])
    BY ZenonT(60), <1>1, <1>2 DEF PlaceFits
  <1>4. map' = [map EXCEPT ![reader[t].key] = IF @ = f THEN 0 ELSE @]
    BY Zenon, <1>2 DEF LeaderErase
  <1>5. /\ map' \in [FKeys -> FlightIds \cup {0}]
        /\ \A k \in FKeys : map'[k] = map[k] \/ map'[k] = 0
    BY ZenonT(60), <1>1, <1>4 DEF CoalesceType
  <1>6. ASSUME NEW k \in FKeys PROVE map'[k] # f
    <2>1. EntryLeads(k)
      BY Zenon DEF CoalesceInv
    <2>2. map[k] = f => reader[t].key = k
      BY Zenon, <1>2, <1>3, <2>1 DEF EntryLeads
    <2> QED BY Zenon, <1>1, <1>2, <1>4, <2>2 DEF CoalesceType
  <1>7. PICK n \in ReaderRecs :
          /\ Moves(t, n) /\ n.pc = "finish" /\ n.key = reader[t].key /\ n.id = f
          /\ n.slot = reader[t].slot /\ n.got = reader[t].got
    BY SMTT(60), <1>1, <1>2, ToEffect DEF Moves
  <1>8. PICK v \in FlightRecs : v = flight[f]
    BY Zenon, <1>1 DEF CoalesceType
  <1>9. flight' = [flight EXCEPT ![n.id] = v]
    BY Zenon, <1>1, <1>7, <1>8 DEF CoalesceType
  <1>10. DataFits(v, n) /\ n.pc \in SyncPlaces
    BY ZenonT(60), <1>1, <1>3, <1>7, <1>8 DEF DataFits, SyncPlaces
  <1>11. /\ n.id = reader[t].id /\ v.leader = flight[n.id].leader
         /\ v.done = flight[n.id].done /\ v.key = flight[n.id].key /\ v.ok = flight[n.id].ok
         /\ \A k \in FKeys : map'[k] = n.id => n.pc \in {"complete", "lead", "erase"}
    BY Zenon, <1>2, <1>6, <1>7, <1>8
  <1> QED BY ZenonT(60), <1>1, <1>5, <1>7, <1>9, <1>10, <1>11, LeaderMoves

(* A thread ends the flight f it leads and is idle. *)
LEMMA LeaderEnds ==
  ASSUME CoalesceInv, CoalesceType', NEW t \in RReaders, NEW f \in FlightIds, f \in Led(t),
         reader[t].pc \in AsyncPlaces \cup SyncPlaces => reader[t].id = f,
         reader'[t].pc = "idle", reader'[t].id = 0,
         \A u \in RReaders \ {t} : reader'[u] = reader[u] /\ ring'[u] = ring[u],
         \A z \in RingSlotIds :
            ring'[t][z].id = IF ring[t][z].id = f THEN 0 ELSE ring[t][z].id,
         \A g \in FlightIds \ {f} : SameLead(g), DoneIsWhole(f)',
         \A k \in FKeys : map'[k] = IF map[k] = f THEN 0 ELSE map[k]
  PROVE  CoalesceInv'
  <1>1. \A u \in RReaders \ {t} : f \notin Led(u)
    BY ZenonT(60), LedApart
  <1>2. PlaceFits(t)'
    BY ZenonT(60) DEF PlaceFits, AsyncPlaces, SyncPlaces, GuestPlaces, FreePlaces
  <1>3. ASSUME NEW s \in RingSlotIds PROVE SlotLeads(t, s)'
    <2>1. PICK g \in FlightIds \cup {0} : g = ring'[t][s].id
      BY ZenonT(60) DEF CoalesceType, ReadRecs
    <2>2. CASE g = 0
      BY Zenon, <2>1, <2>2 DEF SlotLeads
    <2>3. CASE g \in FlightIds /\ g # 0
      <3>1. g # f /\ g = ring[t][s].id
        BY ZenonT(60), <2>1, <2>3
      <3>2. SlotLeads(t, s) /\ SameLead(g)
        BY ZenonT(60), <2>3, <3>1 DEF CoalesceInv
      <3>3. /\ flight[g].leader = t /\ ~flight[g].done /\ flight[g].data = NoData
            /\ \A z \in RingSlotIds : ring[t][z].id = g => z = s
        BY ZenonT(60), <2>3, <3>1, <3>2 DEF SlotLeads
      <3>4. \A z \in RingSlotIds : ring'[t][z].id = g => z = s
        BY ZenonT(60), <2>3, <3>3
      <3> QED BY ZenonT(60), <2>1, <3>2, <3>3, <3>4 DEF SlotLeads, SameLead, AsyncPlaces
    <2> QED BY ZenonT(60), <2>2, <2>3
  <1>4. ASSUME NEW k \in FKeys
        PROVE  \/ EntryLeads(k)'
               \/ map'[k] = map[k] /\ map[k] \notin {f} /\ flight[map[k]].leader # t
    <2>1. EntryLeads(k) /\ map[k] \in FlightIds \cup {0}
      BY Zenon DEF CoalesceInv, CoalesceType
    <2>2. CASE map[k] = f \/ map[k] = 0
      <3>1. map'[k] = 0
        BY Zenon, <2>2
      <3> QED BY Zenon, <3>1 DEF EntryLeads
    <2>3. CASE map[k] \in FlightIds \ {f, 0} /\ flight[map[k]].leader = t
      <3>1. map'[k] = map[k] /\ SameLead(map[k]) /\ flight[map[k]].key = k
            /\ ~flight[map[k]].done
        BY ZenonT(60), <2>1, <2>3 DEF EntryLeads
      <3>2. map[k] \in InRing(t)
        BY Zenon, <2>1, <2>3 DEF EntryLeads, SyncPlaces
      <3>3. PICK z \in RingSlotIds : ring[t][z].id = map[k]
        BY ZenonT(60), <3>2 DEF InRing, RingSlotIds
      <3>4. ring'[t][z].id = map[k]
        BY ZenonT(60), <2>3, <3>3
      <3>5. map[k] \in InRing(t)'
        BY ZenonT(60), <3>4 DEF InRing, RingSlotIds
      <3> QED BY ZenonT(60), <2>3, <3>1, <3>5 DEF EntryLeads, SameLead, AsyncPlaces
    <2> QED BY Zenon, <2>1, <2>2, <2>3
  <1>5. PICK C \in SUBSET FlightIds : C = {f}
    BY Zenon
  <1> QED BY ZenonT(60), <1>1, <1>2, <1>3, <1>4, <1>5, FlightThreadStep

LEMMA EndFlightStep ==
  ASSUME CoalesceInv, NEW t \in RReaders, EndFlight(t)
  PROVE  CoalesceInv'
  <1>1. /\ CoalesceType /\ PlaceFits(t) /\ reader[t].pc = "end" /\ map' = map /\ reads' = reads
        /\ reader[t].pc \in AsyncPlaces
    BY Zenon DEF CoalesceInv, EndFlight, AsyncPlaces
  <1>2. PICK f \in FlightIds : f = reader[t].id /\ f \in Led(t)
    BY Zenon, <1>1, LeaderLeads
  <1>3. PICK s \in RingSlotIds :
          /\ s = reader[t].slot /\ ring[t][s].id = f
          /\ \A z \in RingSlotIds : ring[t][z].id = f => z = s
    BY SMTT(60), <1>1, <1>2, LeaderLeads
  <1>4. PICK g \in {NoData, Whole} : g = reader[t].got
    BY Zenon, <1>1 DEF CoalesceType, ReaderRecs
  <1>5. PICK w : w = [flight EXCEPT ![f].done = TRUE, ![f].ok = g # NoData]
    BY Zenon
  <1>6. /\ w \in [FlightIds -> FlightRecs] /\ w[f].data = flight[f].data
        /\ \A h \in FlightIds \ {f} : w[h] = flight[h]
    <2>1. PICK o \in FlightRecs : o = flight[f]
      BY Zenon, <1>1 DEF CoalesceType
    <2>2. PICK b \in BOOLEAN : b = (g # NoData)
      BY Zenon
    <2>3. PICK v : v = [[o EXCEPT !.done = TRUE] EXCEPT !.ok = b]
      BY Zenon
    <2>4. v \in FlightRecs /\ v.data = o.data
      BY Zenon, <2>3 DEF FlightRecs
    <2>5. w = [flight EXCEPT ![f] = v]
      BY ZenonT(60), <1>1, <1>5, <2>1, <2>2, <2>3 DEF CoalesceType
    <2> QED BY Zenon, <1>1, <2>1, <2>4, <2>5 DEF CoalesceType
  <1>7. /\ flight' = Released(w, t, f) /\ reader' = Answer(t, g)
        /\ ring' = [ring EXCEPT ![t][s] = NoRead]
        /\ ram' = IF g # NoData /\ ~flight[f].pub THEN [ram EXCEPT ![reader[t].key] = g] ELSE ram
    BY Zenon, <1>2, <1>3, <1>4, <1>5 DEF EndFlight
  <1>8. /\ Released(w, t, f) \in [FlightIds -> FlightRecs]
        /\ \A h \in FlightIds \ {f} : Released(w, t, f)[h] = w[h]
        /\ Released(w, t, f)[f] = w[f] \/ Released(w, t, f)[f] = NoFlight
    BY SMTT(60), <1>1, <1>6, ReleasedEffect
  <1>9. /\ flight' \in [FlightIds -> FlightRecs]
        /\ \A h \in FlightIds \ {f} : flight'[h] = flight[h]
        /\ flight'[f] = w[f] \/ flight'[f] = NoFlight
    BY Zenon, <1>6, <1>7, <1>8
  <1>10. PICK n \in ReaderRecs : Moves(t, n) /\ n.pc = "idle" /\ n.id = 0
    BY Zenon, <1>1, <1>7, AnswerEffect DEF Moves
  <1>11. reader' \in [RReaders -> ReaderRecs] /\ reader'[t] = n
         /\ \A u \in RReaders \ {t} : reader'[u] = reader[u]
    BY Zenon, <1>1, <1>10 DEF CoalesceType, Moves
  <1>12. NoRead \in ReadRecs /\ NoRead.id = 0
    BY Zenon DEF NoRead, ReadRecs
  <1>13. /\ ring' \in [RReaders -> [RingSlotIds -> ReadRecs]]
         /\ \A u \in RReaders \ {t} : ring'[u] = ring[u]
         /\ ring'[t][s] = NoRead /\ \A z \in RingSlotIds \ {s} : ring'[t][z] = ring[t][z]
    BY Zenon, <1>1, <1>7, <1>12 DEF CoalesceType
  <1>14. ram' \in [FKeys -> {NoData, Whole}]
    BY Zenon, <1>1, <1>7 DEF CoalesceType
  <1>15. CoalesceType'
    BY Zenon, <1>1, <1>9, <1>11, <1>13, <1>14 DEF CoalesceType
  <1>16. DoneIsWhole(f)'
    <2>1. flight[f].data # Torn
      BY Zenon, <1>1, <1>2 DEF PlaceFits, DataFits
    <2>2. CASE flight'[f] = w[f]
      BY Zenon, <1>6, <2>1, <2>2 DEF DoneIsWhole
    <2>3. CASE flight'[f] = NoFlight
      BY <2>3 DEF DoneIsWhole, NoFlight
    <2> QED BY Zenon, <1>9, <2>2, <2>3
  <1>17. \A h \in FlightIds \ {f} : SameLead(h)
    BY Zenon, <1>9 DEF SameLead
  <1>18. \A z \in RingSlotIds : ring'[t][z].id = IF ring[t][z].id = f THEN 0 ELSE ring[t][z].id
    BY Zenon, <1>3, <1>12, <1>13
  <1>19. \A k \in FKeys : map'[k] = IF map[k] = f THEN 0 ELSE map[k]
    BY Zenon, <1>1, <1>2, ErasedIsGone
  <1>20. /\ reader[t].pc \in AsyncPlaces \cup SyncPlaces => reader[t].id = f
         /\ reader'[t].pc = "idle" /\ reader'[t].id = 0
         /\ \A u \in RReaders \ {t} : reader'[u] = reader[u] /\ ring'[u] = ring[u]
    BY Zenon, <1>2, <1>10, <1>11, <1>13
  <1> QED BY ZenonT(60), <1>2, <1>15, <1>16, <1>17, <1>18, <1>19, <1>20, LeaderEnds

LEMMA LeaderDoneStep ==
  ASSUME CoalesceInv, NEW t \in RReaders, LeaderDone(t)
  PROVE  CoalesceInv'
  <1>1. /\ CoalesceType /\ PlaceFits(t) /\ reader[t].pc = "finish" /\ map' = map
        /\ reads' = reads /\ ring' = ring /\ reader[t].pc \in SyncPlaces
    BY Zenon DEF CoalesceInv, LeaderDone, SyncPlaces
  <1>2. PICK f \in FlightIds : f = reader[t].id /\ f \in Led(t)
    BY Zenon, <1>1, LeaderLeads
  <1>3. f \notin InRing(t)
    BY Zenon, <1>1, <1>2 DEF PlaceFits
  <1>4. PICK g \in {NoData, Whole} : g = reader[t].got
    BY Zenon, <1>1 DEF CoalesceType, ReaderRecs
  <1>5. PICK w : w = [flight EXCEPT ![f].done = TRUE, ![f].ok = g # NoData]
    BY Zenon
  <1>6. /\ w \in [FlightIds -> FlightRecs] /\ w[f].data = flight[f].data
        /\ w[f].ok => g = Whole
        /\ \A h \in FlightIds \ {f} : w[h] = flight[h]
    <2>1. PICK o \in FlightRecs : o = flight[f]
      BY Zenon, <1>1 DEF CoalesceType
    <2>2. PICK b \in BOOLEAN : b = (g # NoData)
      BY Zenon
    <2>3. PICK v : v = [[o EXCEPT !.done = TRUE] EXCEPT !.ok = b]
      BY Zenon
    <2>4. v \in FlightRecs /\ v.data = o.data /\ v.ok = b
      BY Zenon, <2>3 DEF FlightRecs
    <2>5. w = [flight EXCEPT ![f] = v]
      BY Zenon, <1>1, <1>5, <2>1, <2>2, <2>3 DEF CoalesceType
    <2>6. b => g = Whole
      BY ZenonT(60), <2>2
    <2> QED BY Zenon, <1>1, <2>1, <2>4, <2>5, <2>6 DEF CoalesceType
  <1>7. /\ flight' = Released(w, t, f) /\ reader' = Answer(t, g)
        /\ ram' = IF g # NoData THEN [ram EXCEPT ![reader[t].key] = g] ELSE ram
    BY Zenon, <1>2, <1>4, <1>5 DEF LeaderDone
  <1>8. /\ Released(w, t, f) \in [FlightIds -> FlightRecs]
        /\ \A h \in FlightIds \ {f} : Released(w, t, f)[h] = w[h]
        /\ Released(w, t, f)[f] = w[f] \/ Released(w, t, f)[f] = NoFlight
    <2>1. CoalesceType /\ w \in [FlightIds -> FlightRecs]
      BY Zenon, <1>1, <1>6
    <2> QED BY <2>1, ReleasedEffect
  <1>9. /\ flight' \in [FlightIds -> FlightRecs]
        /\ \A h \in FlightIds \ {f} : flight'[h] = flight[h]
        /\ flight'[f] = w[f] \/ flight'[f] = NoFlight
    BY Zenon, <1>6, <1>7, <1>8
  <1>10. PICK n \in ReaderRecs : Moves(t, n) /\ n.pc = "idle" /\ n.id = 0
    BY Zenon, <1>1, <1>7, AnswerEffect DEF Moves
  <1>11. reader' \in [RReaders -> ReaderRecs] /\ reader'[t] = n
         /\ \A u \in RReaders \ {t} : reader'[u] = reader[u]
    BY Zenon, <1>1, <1>10 DEF CoalesceType, Moves
  <1>12. ram' \in [FKeys -> {NoData, Whole}]
    BY ZenonT(60), <1>1, <1>7 DEF CoalesceType
  <1>13. CoalesceType'
    BY Zenon, <1>1, <1>9, <1>11, <1>12 DEF CoalesceType
  <1>14. DoneIsWhole(f)'
    <2>1. g = Whole => flight[f].data = Whole
      BY ZenonT(60), <1>1, <1>2, <1>4 DEF PlaceFits, DataFits
    <2>2. w[f].ok => w[f].data # Torn
      BY Zenon, <1>6, <2>1 DEF Whole, Torn
    <2> QED BY SMTT(60), <1>9, <2>2 DEF DoneIsWhole, NoFlight
  <1>15. \A h \in FlightIds \ {f} : SameLead(h)
    BY Zenon, <1>9 DEF SameLead
  <1>16. \A z \in RingSlotIds : ring'[t][z].id = IF ring[t][z].id = f THEN 0 ELSE ring[t][z].id
    BY Zenon, <1>1, <1>3 DEF InRing, RingSlotIds
  <1>17. \A k \in FKeys : map'[k] = IF map[k] = f THEN 0 ELSE map[k]
    BY Zenon, <1>1, <1>2, ErasedIsGone
  <1>18. /\ reader[t].pc \in AsyncPlaces \cup SyncPlaces => reader[t].id = f
         /\ reader'[t].pc = "idle" /\ reader'[t].id = 0
         /\ \A u \in RReaders \ {t} : reader'[u] = reader[u] /\ ring'[u] = ring[u]
    BY Zenon, <1>1, <1>2, <1>10, <1>11
  <1> QED BY ZenonT(60), <1>2, <1>13, <1>14, <1>15, <1>16, <1>17, <1>18, LeaderEnds

(* A read leaves its slot without a flight. *)
LEMMA SlotEmptied ==
  ASSUME CoalesceInv, NEW t \in RReaders, NEW s \in RingSlotIds, ring[t][s].id = 0,
         ring' = [ring EXCEPT ![t][s] = NoRead], NEW n \in ReaderRecs, reader'[t] = n,
         reader' \in [RReaders -> ReaderRecs], n.pc = "idle", n.id = 0,
         \A u \in RReaders \ {t} : reader'[u] = reader[u],
         map' = map, flight' = flight, reads' = reads,
         ram' \in [FKeys -> {NoData, Whole}], reader[t].pc \in {"idle", "register"}
  PROVE  CoalesceInv'
  <1>1. NoRead \in ReadRecs /\ NoRead.id = 0
    BY Zenon DEF NoRead, ReadRecs
  <1>2. /\ ring' \in [RReaders -> [RingSlotIds -> ReadRecs]]
        /\ \A u \in RReaders \ {t} : ring'[u] = ring[u]
        /\ \A z \in RingSlotIds : ring'[t][z].id = ring[t][z].id
    BY Zenon, <1>1 DEF CoalesceInv, CoalesceType
  <1>3. CoalesceType'
    BY Zenon, <1>2 DEF CoalesceInv, CoalesceType
  <1>4. PICK C \in SUBSET FlightIds : C = {}
    BY ZenonT(60)
  <1>5. /\ \A f \in FlightIds \ C : SameLead(f)
        /\ \A f \in C : /\ DoneIsWhole(f)' /\ \A u \in RReaders : f \notin Led(u)
                        /\ \A k \in FKeys : map[k] # f
    BY Zenon, <1>4 DEF SameLead
  <1>6. PlaceFits(t)'
    BY Zenon DEF PlaceFits, AsyncPlaces, SyncPlaces, GuestPlaces, FreePlaces
  <1>7. /\ reader[t].pc \notin AsyncPlaces \cup SyncPlaces
        /\ reader'[t].pc \notin AsyncPlaces \cup SyncPlaces
        /\ \A u \in RReaders \ {t} : reader'[u] = reader[u] /\ ring'[u] = ring[u]
    BY Zenon, <1>2 DEF AsyncPlaces, SyncPlaces
  <1> QED BY ZenonT(60), <1>2, <1>3, <1>5, <1>6, <1>7, QuietMove

LEMMA AbortStep ==
  ASSUME CoalesceInv, NEW t \in RReaders, NEW s \in RingSlotIds, Abort(t, s)
  PROVE  CoalesceInv'
  <1>1. /\ CoalesceType /\ reader[t].pc = "idle" /\ reader' = reader /\ ram' = ram
        /\ reads' = reads /\ ring' = [ring EXCEPT ![t][s] = NoRead] /\ reader[t].id = 0
    BY Zenon DEF CoalesceInv, Abort, PlaceFits
  <1>2. PICK f \in FlightIds \cup {0} : f = ring[t][s].id
    BY Zenon, <1>1 DEF CoalesceType, ReadRecs
  <1>3. /\ map' = [k \in FKeys |-> IF f # 0 /\ map[k] = f THEN 0 ELSE map[k]]
        /\ flight' = IF f = 0 THEN flight
                     ELSE IF \E u \in RReaders : reader[u].id = f
                       THEN [flight EXCEPT ![f].done = TRUE]
                       ELSE [flight EXCEPT ![f] = NoFlight]
    BY Zenon, <1>2 DEF Abort
  <1>4. CASE f = 0
    <2>1. map' = map /\ flight' = flight
      BY Zenon, <1>1, <1>3, <1>4 DEF CoalesceType
    <2>2. /\ reader'[t] = reader[t] /\ reader[t] \in ReaderRecs
          /\ reader' \in [RReaders -> ReaderRecs] /\ ram' \in [FKeys -> {NoData, Whole}]
          /\ \A u \in RReaders \ {t} : reader'[u] = reader[u]
      BY Zenon, <1>1 DEF CoalesceType
    <2> QED BY Zenon, <1>1, <1>2, <1>4, <2>1, <2>2, SlotEmptied
  <1>5. CASE f # 0
    <2>1. /\ f \in FlightIds /\ f \in Led(t)
      BY Zenon, <1>2, <1>5 DEF Led, InRing, RingSlotIds
    <2>2. SlotLeads(t, s)
      BY Zenon DEF CoalesceInv
    <2>3. flight[f].data = NoData /\ \A z \in RingSlotIds : ring[t][z].id = f => z = s
      BY Zenon, <1>1, <1>2, <1>5, <2>2 DEF SlotLeads, AsyncPlaces
    <2>4. NoFlight \in FlightRecs /\ ~NoFlight.done
      BY Zenon DEF NoFlight, FlightRecs
    <2>5. flight[f] \in FlightRecs /\ [flight[f] EXCEPT !.done = TRUE] \in FlightRecs
          /\ [flight[f] EXCEPT !.done = TRUE].data = flight[f].data
      BY ZenonT(60), <1>1, <2>1 DEF CoalesceType, FlightRecs
    <2>6. /\ flight' \in [FlightIds -> FlightRecs]
          /\ \A h \in FlightIds \ {f} : flight'[h] = flight[h]
          /\ ~flight'[f].done \/ flight'[f].data = flight[f].data
      <3>1. CASE flight' = [flight EXCEPT ![f].done = TRUE]
        BY Zenon, <1>1, <2>1, <2>5, <3>1 DEF CoalesceType
      <3>2. CASE flight' = [flight EXCEPT ![f] = NoFlight]
        BY Zenon, <1>1, <2>1, <2>4, <3>2 DEF CoalesceType
      <3> QED BY Zenon, <1>3, <1>5, <3>1, <3>2
    <2>7. DoneIsWhole(f)'
      BY Zenon, <2>3, <2>6 DEF DoneIsWhole, NoData, Torn
    <2>8. \A h \in FlightIds \ {f} : SameLead(h)
      BY Zenon, <2>6 DEF SameLead
    <2>9. NoRead \in ReadRecs /\ NoRead.id = 0
      BY Zenon DEF NoRead, ReadRecs
    <2>10. /\ ring' \in [RReaders -> [RingSlotIds -> ReadRecs]]
           /\ \A u \in RReaders \ {t} : ring'[u] = ring[u]
           /\ ring'[t][s] = NoRead /\ \A z \in RingSlotIds \ {s} : ring'[t][z] = ring[t][z]
      BY Zenon, <1>1, <2>9 DEF CoalesceType
    <2>11. \A z \in RingSlotIds : ring'[t][z].id = IF ring[t][z].id = f THEN 0 ELSE ring[t][z].id
      BY Zenon, <1>2, <2>3, <2>9, <2>10
    <2>12. /\ map' \in [FKeys -> FlightIds \cup {0}]
           /\ \A k \in FKeys : map'[k] = IF map[k] = f THEN 0 ELSE map[k]
      BY Zenon, <1>1, <1>3, <1>5 DEF CoalesceType
    <2>13. CoalesceType'
      BY Zenon, <1>1, <2>6, <2>10, <2>12 DEF CoalesceType
    <2>14. /\ reader[t].pc \in AsyncPlaces \cup SyncPlaces => reader[t].id = f
           /\ reader'[t].pc = "idle" /\ reader'[t].id = 0
           /\ \A u \in RReaders \ {t} : reader'[u] = reader[u] /\ ring'[u] = ring[u]
      BY Zenon, <1>1, <2>10 DEF AsyncPlaces, SyncPlaces
    <2> QED BY ZenonT(60), <2>1, <2>7, <2>8, <2>11, <2>12, <2>13, <2>14, LeaderEnds
  <1> QED BY Zenon, <1>4, <1>5

LEMMA ReapStep ==
  ASSUME CoalesceInv, NEW t \in RReaders, NEW s \in RingSlotIds, NEW ok \in BOOLEAN,
         Reap(t, s, ok)
  PROVE  CoalesceInv'
  <1>1. /\ CoalesceType /\ reader[t].pc = "idle" /\ reader[t].id = 0 /\ map' = map
        /\ flight' = flight /\ reads' = reads
    BY Zenon DEF CoalesceInv, Reap, PlaceFits
  <1>2. PICK r \in ReadRecs : r = ring[t][s]
    BY Zenon, <1>1 DEF CoalesceType
  <1>3. PICK v \in {NoData, Whole} : v = IF ok THEN Whole ELSE NoData
    BY Zenon
  <1>4. /\ ram' = IF ok /\ r.direct THEN [ram EXCEPT ![r.key] = Whole] ELSE ram
        /\ reader' = IF r.id = 0
                       THEN Answer(t, v)
                       ELSE [reader EXCEPT ![t].pc = "complete", ![t].id = r.id,
                                ![t].slot = s, ![t].key = r.key, ![t].got = v]
        /\ ring' = IF r.id = 0 THEN [ring EXCEPT ![t][s] = NoRead] ELSE ring
    BY Zenon, <1>2, <1>3 DEF Reap
  <1>5. ram' \in [FKeys -> {NoData, Whole}]
    BY Zenon, <1>1, <1>4 DEF CoalesceType
  <1>6. CASE r.id = 0
    <2>1. PICK n \in ReaderRecs : Moves(t, n) /\ n.pc = "idle" /\ n.id = 0
      BY Zenon, <1>1, <1>4, <1>6, AnswerEffect DEF Moves
    <2>2. reader' \in [RReaders -> ReaderRecs] /\ reader'[t] = n
          /\ \A u \in RReaders \ {t} : reader'[u] = reader[u]
      BY Zenon, <1>1, <2>1 DEF CoalesceType, Moves
    <2> QED BY Zenon, <1>1, <1>2, <1>4, <1>5, <1>6, <2>1, <2>2, SlotEmptied
  <1>7. CASE r.id # 0
    <2>1. PICK o \in ReaderRecs : o = reader[t]
      BY Zenon, <1>1 DEF CoalesceType
    <2>2. PICK n : n = [[[[[o EXCEPT !.pc = "complete"] EXCEPT !.id = r.id]
                            EXCEPT !.slot = s] EXCEPT !.key = r.key] EXCEPT !.got = v]
      BY Zenon
    <2>3. /\ n \in ReaderRecs /\ n.pc = "complete" /\ n.id = r.id /\ n.slot = s
      BY Zenon, <2>2 DEF ReaderRecs, ReadRecs, ReaderPlaces, AsyncPlaces
    <2>4. reader' = [reader EXCEPT ![t] = n] /\ ring' = ring
      BY Zenon, <1>1, <1>4, <1>7, <2>1, <2>2 DEF CoalesceType
    <2>5. reader' \in [RReaders -> ReaderRecs] /\ reader'[t] = n
          /\ \A u \in RReaders \ {t} : reader'[u] = reader[u] /\ ring'[u] = ring[u]
      BY Zenon, <1>1, <2>3, <2>4 DEF CoalesceType
    <2>6. CoalesceType'
      BY Zenon, <1>1, <1>5, <2>4, <2>5 DEF CoalesceType
    <2>7. SlotLeads(t, s) /\ r.id \in FlightIds /\ s # 0
      BY SMTT(60), <1>7 DEF CoalesceInv, ReadRecs, RingSlotIds
    <2>8. flight[r.id].data = NoData /\ \A z \in RingSlotIds : ring[t][z].id = r.id => z = s
      BY Zenon, <1>1, <1>2, <1>7, <2>7 DEF SlotLeads, AsyncPlaces
    <2>9. PlaceFits(t)'
      BY ZenonT(60), <1>1, <1>2, <1>7, <2>3, <2>4, <2>5, <2>7, <2>8
         DEF PlaceFits, DataFits, AsyncPlaces, SyncPlaces, GuestPlaces, FreePlaces
    <2>10. ASSUME NEW z \in RingSlotIds PROVE SlotLeads(t, z)'
      <3>1. SlotLeads(t, z) /\ reader[t].pc \notin AsyncPlaces
        BY ZenonT(60), <1>1 DEF CoalesceInv, AsyncPlaces
      <3>2. reader'[t].id = ring[t][z].id => z = s
        BY ZenonT(60), <1>2, <2>3, <2>5, <2>8
      <3> QED BY ZenonT(60), <1>1, <2>3, <2>4, <2>5, <3>1, <3>2 DEF SlotLeads
    <2>11. ASSUME NEW k \in FKeys, flight[map[k]].leader = t PROVE EntryLeads(k)'
      <3>1. EntryLeads(k) /\ InRing(t)' = InRing(t)
        BY Zenon, <2>4 DEF CoalesceInv, InRing
      <3> QED BY ZenonT(60), <1>1, <2>3, <2>5, <2>11, <3>1 DEF EntryLeads
    <2>12. PICK C \in SUBSET FlightIds : C = {}
      BY ZenonT(60)
    <2>13. /\ \A f \in FlightIds \ C : SameLead(f)
           /\ \A f \in C : DoneIsWhole(f)' /\ \A u \in RReaders \ {t} : f \notin Led(u)
           /\ \A k \in FKeys :
                \/ EntryLeads(k)'
                \/ map'[k] = map[k] /\ map[k] \notin C /\ flight[map[k]].leader # t
      BY Zenon, <1>1, <2>11, <2>12 DEF SameLead
    <2> QED BY ZenonT(60), <2>5, <2>6, <2>9, <2>10, <2>13, FlightThreadStep
  <1> QED BY Zenon, <1>6, <1>7

-----------------------------------------------------------------------------
(* A thread takes a slot of its ring, and the id of a new flight.           *)

(* A set of natural numbers that is not empty has a least element. *)
LEMMA LeastExists ==
  ASSUME NEW T \in SUBSET Nat, T # {}
  PROVE  \E x \in T : \A y \in T : x <= y
  <1>1. PICK R : R = OpToRel(<, Nat)
    BY Zenon
  <1>2. R = {ss \in Nat \X Nat : ss[1] < ss[2]}
    BY Zenon, <1>1 DEF OpToRel
  <1>3. IsWellFoundedOn(R, Nat)
    BY Zenon, <1>1, NatLessThanWellFounded
  <1>4. PICK x \in T : \A y \in T : ~(<<y, x>> \in R)
    BY Zenon, <1>3, WFMin
  <1>5. \A y \in T : x <= y
    <2> TAKE y \in T
    <2>1. <<y, x>> \in Nat \X Nat /\ <<y, x>> \notin R
      BY Zenon, <1>4
    <2> QED BY <1>2, <2>1
  <1> QED BY Zenon, <1>5

LEMMA MinIsIn ==
  ASSUME NEW T \in SUBSET Nat, T # {}
  PROVE  Min(T) \in T
  BY ZenonT(60), LeastExists DEF Min

LEMMA LeaseStep ==
  ASSUME CoalesceInv, NEW t \in RReaders, Lease(t)
  PROVE  CoalesceInv'
  <1>1. /\ CoalesceType /\ PlaceFits(t) /\ reader[t].pc = "lease" /\ map' = map
        /\ flight' = flight /\ ram' = ram /\ reads' = reads
    BY Zenon DEF CoalesceInv, Lease
  <1>2. FreeSlots(t) # {} /\ reader[t].id = 0 /\ reader[t].key \in FKeys
    BY ZenonT(60), <1>1 DEF PlaceFits, FreePlaces, AsyncPlaces
  <1>3. Min(FreeSlots(t)) \in FreeSlots(t)
    <2>1. FreeSlots(t) \in SUBSET Nat
      BY SMTT(60) DEF FreeSlots
    <2> QED BY Zenon, <1>2, <2>1, MinIsIn
  <1>4. PICK s \in RingSlotIds : s = Min(FreeSlots(t)) /\ ring[t][s] = NoRead
    BY Zenon, <1>3 DEF FreeSlots, RingSlotIds
  <1>5. PICK direct \in BOOLEAN :
          /\ ring' = [ring EXCEPT ![t][s] = [id |-> 0, key |-> reader[t].key, direct |-> direct]]
          /\ reader' = [reader EXCEPT ![t].pc = "register", ![t].slot = s]
    BY Zenon, <1>4 DEF Lease
  <1>6. PICK r : r = [id |-> 0, key |-> reader[t].key, direct |-> direct]
    BY Zenon
  <1>7. r \in ReadRecs /\ r.id = 0 /\ NoRead.id = 0
    BY Zenon, <1>2, <1>6 DEF ReadRecs, NoRead
  <1>8. /\ ring' \in [RReaders -> [RingSlotIds -> ReadRecs]]
        /\ \A u \in RReaders \ {t} : ring'[u] = ring[u]
        /\ ring'[t][s].id = 0
        /\ \A z \in RingSlotIds : ring'[t][z].id = ring[t][z].id
    BY Zenon, <1>1, <1>4, <1>5, <1>6, <1>7 DEF CoalesceType
  <1>9. PICK o \in ReaderRecs : o = reader[t]
    BY Zenon, <1>1 DEF CoalesceType
  <1>10. PICK n : n = [[o EXCEPT !.pc = "register"] EXCEPT !.slot = s]
    BY Zenon
  <1>11. n \in ReaderRecs /\ n.pc = "register" /\ n.slot = s /\ n.id = o.id /\ n.key = o.key
    BY ZenonT(60), <1>10 DEF ReaderRecs, ReaderPlaces
  <1>12. /\ reader' \in [RReaders -> ReaderRecs] /\ reader'[t] = n
         /\ \A u \in RReaders \ {t} : reader'[u] = reader[u]
    BY Zenon, <1>1, <1>5, <1>9, <1>10, <1>11 DEF CoalesceType
  <1>13. CoalesceType'
    BY Zenon, <1>1, <1>8, <1>12 DEF CoalesceType
  <1>14. PlaceFits(t)'
    <2>1. s # 0
      BY DEF RingSlotIds
    <2> QED BY ZenonT(60), <1>2, <1>8, <1>9, <1>11, <1>12, <2>1
            DEF PlaceFits, AsyncPlaces, SyncPlaces, GuestPlaces, FreePlaces
  <1>15. PICK C \in SUBSET FlightIds : C = {}
    BY ZenonT(60)
  <1>16. /\ \A f \in FlightIds \ C : SameLead(f)
         /\ \A f \in C : /\ DoneIsWhole(f)' /\ \A u \in RReaders : f \notin Led(u)
                         /\ \A k \in FKeys : map[k] # f
    BY ZenonT(60), <1>1, <1>15 DEF SameLead
  <1>17. /\ reader[t].pc \notin AsyncPlaces \cup SyncPlaces
         /\ reader'[t].pc \notin AsyncPlaces \cup SyncPlaces
         /\ \A u \in RReaders \ {t} : reader'[u] = reader[u] /\ ring'[u] = ring[u]
    BY Zenon, <1>1, <1>8, <1>11, <1>12 DEF AsyncPlaces, SyncPlaces
  <1> QED BY ZenonT(60), <1>1, <1>8, <1>13, <1>14, <1>16, <1>17, QuietMove

(* A thread that refers to no flight finds a free id: every id that is not  *)
(* free is that of a ring's slot or of another thread.                      *)
LEMMA FreshIsFree ==
  ASSUME CoalesceInv, NEW t \in RReaders, reader[t].id = 0
  PROVE  FreshFlight \in FlightIds \ Referred
  <1>1. PICK cells : cells = (RReaders \X (0 .. RingDepth)) \ {<<t, 0>>}
    BY Zenon
  <1>2. PICK m \in Nat : m = Cardinality(RReaders) * (RingDepth + 1)
    <2>1. PICK a \in Nat, b \in Nat : a = Cardinality(RReaders) /\ b = RingDepth + 1
      <3>1. Cardinality(RReaders) \in Nat /\ RingDepth + 1 \in Nat
        BY FS_CardinalityType, CoalescerAssumption
      <3> QED BY ZenonT(60), <3>1
    <2>2. a * b \in Nat
      BY SMTT(60)
    <2>3. Cardinality(RReaders) * (RingDepth + 1) \in Nat
      BY Zenon, <2>1, <2>2, CoalescerAssumption
    <2> QED BY Zenon, <2>3
  <1>3. IsFiniteSet(cells) /\ Cardinality(cells) = m - 1
    <2>1. IsFiniteSet(RReaders) /\ RingDepth \in Nat
      BY Zenon, CoalescerAssumption
    <2>2. IsFiniteSet(0 .. RingDepth) /\ Cardinality(0 .. RingDepth) = RingDepth + 1
      <3>1. 0 \in Int /\ RingDepth \in Int
        BY <2>1
      <3>2. /\ IsFiniteSet(0 .. RingDepth)
            /\ Cardinality(0 .. RingDepth) = IF 0 > RingDepth THEN 0 ELSE RingDepth - 0 + 1
        BY Zenon, <3>1, FS_Interval
      <3> QED BY <2>1, <3>2
    <2>3. /\ IsFiniteSet(RReaders \X (0 .. RingDepth))
          /\ Cardinality(RReaders \X (0 .. RingDepth)) = m
      BY SMTT(60), <1>2, <2>1, <2>2, FS_Product
    <2>4. <<t, 0>> \in RReaders \X (0 .. RingDepth)
      BY SMTT(60), <2>1
    <2> QED BY ZenonT(60), <1>1, <2>3, <2>4, FS_RemoveElement
  <1>4. FlightIds = 1 .. m /\ IsFiniteSet(FlightIds) /\ Cardinality(FlightIds) = m
    BY SMTT(60), <1>2, FS_Interval DEF FlightIds
  <1>5. ASSUME NEW f \in FlightIds, f \in Referred
        PROVE  \E c \in cells : f = IF c[2] = 0 THEN reader[c[1]].id ELSE ring[c[1]][c[2]].id
    <2>1. f # 0
      BY DEF FlightIds
    <2>2. ASSUME NEW u \in RReaders, reader[u].id = f
          PROVE  \E c \in cells : f = IF c[2] = 0 THEN reader[c[1]].id ELSE ring[c[1]][c[2]].id
      <3>1. <<u, 0>> \in cells
        BY SMTT(60), <1>1, <2>1, <2>2, CoalescerAssumption
      <3> QED BY Zenon, <2>2, <3>1
    <2>3. ASSUME NEW u \in RReaders, f \in InRing(u)
          PROVE  \E c \in cells : f = IF c[2] = 0 THEN reader[c[1]].id ELSE ring[c[1]][c[2]].id
      <3>1. PICK s \in 1 .. RingDepth : ring[u][s].id = f
        BY Zenon, <2>3 DEF InRing
      <3>2. <<u, s>> \in cells /\ s # 0
        BY SMTT(60), <1>1, CoalescerAssumption
      <3> QED BY Zenon, <3>1, <3>2
    <2>4. ASSUME NEW k \in FKeys, map[k] = f
          PROVE  \E u \in RReaders : reader[u].id = f \/ f \in InRing(u)
      BY Zenon, <2>1, <2>4 DEF CoalesceInv, EntryLeads
    <2> QED BY Zenon, <1>5, <2>2, <2>3, <2>4 DEF Referred
  <1>6. FlightIds \ Referred # {}
    <2> SUFFICES ASSUME FlightIds \subseteq Referred PROVE FALSE
      BY Zenon
    <2>1. PICK h : h = [f \in FlightIds |-> CHOOSE c \in cells :
                         f = IF c[2] = 0 THEN reader[c[1]].id ELSE ring[c[1]][c[2]].id]
      BY Zenon
    <2>2. \A f \in FlightIds : /\ h[f] \in cells
             /\ f = IF h[f][2] = 0 THEN reader[h[f][1]].id ELSE ring[h[f][1]][h[f][2]].id
      BY Zenon, <1>5, <2>1
    <2>3. h \in [FlightIds -> cells]
      BY Zenon, <2>1, <2>2
    <2>4. Cardinality(cells) < Cardinality(FlightIds)
      BY SMTT(60), <1>2, <1>3, <1>4
    <2>5. PICK x \in FlightIds, y \in FlightIds : x # y /\ h[x] = h[y]
      BY SMTT(60), <1>3, <1>4, <2>3, <2>4, FS_PigeonHole
    <2> QED BY SMTT(60), <2>2, <2>5
  <1>7. FlightIds \ Referred \in SUBSET Nat
    BY SMTT(60), <1>4
  <1> QED BY Zenon, <1>6, <1>7, MinIsIn DEF FreshFlight

(* What a new flight leaves to everyone. *)
LEMMA NewFlight ==
  ASSUME CoalesceInv, CoalesceType', NEW t \in RReaders, NEW k \in FKeys, NEW f \in FlightIds,
         f \notin Referred, map' = [map EXCEPT ![k] = f], EntryLeads(k)', DoneIsWhole(f)',
         \A g \in FlightIds \ {f} : flight'[g] = flight[g],
         \A u \in RReaders \ {t} : reader'[u] = reader[u] /\ ring'[u] = ring[u],
         PlaceFits(t)', \A z \in RingSlotIds : SlotLeads(t, z)',
         InRing(t) \ {0} \subseteq InRing(t)', reader[t].id = 0,
         reader'[t].pc \notin AsyncPlaces
  PROVE  CoalesceInv'
  <1>1. \A u \in RReaders : f \notin Led(u)
    BY Zenon DEF Led, Referred
  <1>2. ASSUME NEW j \in FKeys
        PROVE  \/ EntryLeads(j)'
               \/ map'[j] = map[j] /\ map[j] \notin {f} /\ flight[map[j]].leader # t
    <2>1. CASE j = k
      BY Zenon, <2>1
    <2>2. CASE j # k
      <3>1. map'[j] = map[j] /\ map[j] # f /\ map[j] \in FlightIds \cup {0} /\ EntryLeads(j)
        BY SMTT(60), <2>2 DEF CoalesceInv, CoalesceType, Referred
      <3>2. CASE map[j] = 0
        BY ZenonT(60), <3>1, <3>2 DEF EntryLeads
      <3>3. CASE map[j] # 0 /\ flight[map[j]].leader = t
        <4>1. flight'[map[j]] = flight[map[j]]
          BY ZenonT(60), <3>1, <3>3
        <4>2. map[j] \in InRing(t)
          BY ZenonT(60), <3>1, <3>3 DEF EntryLeads
        <4>3. map[j] \in InRing(t)'
          BY ZenonT(60), <3>3, <4>2
        <4> QED BY ZenonT(60), <3>1, <3>3, <4>1, <4>3 DEF EntryLeads
      <3> QED BY Zenon, <3>1, <3>2, <3>3
    <2> QED BY ZenonT(60), <2>1, <2>2
  <1>3. PICK C \in SUBSET FlightIds : C = {f}
    BY Zenon
  <1>4. /\ \A g \in FlightIds \ C : SameLead(g)
        /\ \A g \in C : DoneIsWhole(g)' /\ \A u \in RReaders \ {t} : g \notin Led(u)
        /\ \A j \in FKeys :
             \/ EntryLeads(j)'
             \/ map'[j] = map[j] /\ map[j] \notin C /\ flight[map[j]].leader # t
    BY Zenon, <1>1, <1>2, <1>3 DEF SameLead
  <1> QED BY Zenon, <1>4, FlightThreadStep

LEMMA RegisterStep ==
  ASSUME CoalesceInv, NEW t \in RReaders, Register(t)
  PROVE  CoalesceInv'
  <1>1. /\ CoalesceType /\ PlaceFits(t) /\ reader[t].pc = "register" /\ ram' = ram
        /\ reads' = reads
    BY Zenon DEF CoalesceInv, Register
  <1>2. reader[t].id = 0 /\ reader[t].slot # 0 /\ ring[t][reader[t].slot].id = 0
    BY ZenonT(60), <1>1 DEF PlaceFits
  <1>3. PICK k \in FKeys : k = reader[t].key
    BY Zenon, <1>1 DEF PlaceFits, AsyncPlaces
  <1>4. PICK s \in RingSlotIds : s = reader[t].slot /\ ring[t][s].id = 0
    BY Zenon, <1>1, <1>2 DEF CoalesceType, ReaderRecs
  <1>5. ram' \in [FKeys -> {NoData, Whole}] /\ reads' \in [RReaders -> Seq(FKeys)]
    BY Zenon, <1>1 DEF CoalesceType
  <1>6. CASE /\ reader' = [reader EXCEPT ![t] = IdleReader]
             /\ map' = map /\ flight' = flight /\ ring' = ring
    BY Zenon, <1>1, <1>5, <1>6, IdleIsReader, OnlyMoves
       DEF Moves, AsyncPlaces, SyncPlaces, GuestPlaces, FreePlaces
  <1>7. CASE /\ ring' = [ring EXCEPT ![t][s] = NoRead] /\ reader' = PutOff(t)
             /\ map' = map /\ flight' = flight
    <2>1. PICK n \in ReaderRecs : Moves(t, n) /\ n.pc = "idle" /\ n.id = 0
      BY Zenon, <1>1, <1>7, PutOffEffect DEF Moves
    <2>2. reader' \in [RReaders -> ReaderRecs] /\ reader'[t] = n
          /\ \A u \in RReaders \ {t} : reader'[u] = reader[u]
      BY Zenon, <1>1, <2>1 DEF CoalesceType, Moves
    <2> QED BY Zenon, <1>1, <1>4, <1>5, <1>7, <2>1, <2>2, SlotEmptied
  <1>8. CASE /\ TryRegisterAsync(t, k, FreshFlight, ring[t][s].direct)
             /\ ring' = [ring EXCEPT ![t][s].id = FreshFlight]
             /\ reader' = [reader EXCEPT ![t] = IdleReader]
    <2>1. PICK f \in FlightIds : f = FreshFlight /\ f \notin Referred /\ f # 0
      BY SMTT(60), <1>2, FreshIsFree DEF FlightIds
    <2>2. PICK b \in BOOLEAN : b = ring[t][s].direct
      BY <1>1 DEF CoalesceType, ReadRecs
    <2>3. PICK w : w = [[[NoFlight EXCEPT !.key = k] EXCEPT !.leader = t] EXCEPT !.pub = b]
      BY Zenon
    <2>4. /\ w \in FlightRecs /\ w.key = k /\ w.leader = t /\ ~w.done /\ w.data = NoData
      BY Zenon, <2>3 DEF FlightRecs, NoFlight
    <2>5. flight' = [flight EXCEPT ![f] = w] /\ map' = [map EXCEPT ![k] = f]
      <3>1. w = [NoFlight EXCEPT !.key = k, !.leader = t, !.pub = b]
        BY Zenon, <2>3 DEF NoFlight
      <3> QED BY Zenon, <1>8, <2>1, <2>2, <3>1 DEF TryRegisterAsync
    <2>6. /\ flight' \in [FlightIds -> FlightRecs] /\ flight'[f] = w
          /\ \A g \in FlightIds \ {f} : flight'[g] = flight[g]
          /\ map' \in [FKeys -> FlightIds \cup {0}] /\ map'[k] = f
      BY Zenon, <1>1, <2>4, <2>5 DEF CoalesceType
    <2>7. PICK r \in ReadRecs : r = [ring[t][s] EXCEPT !.id = f] /\ r.id = f
      <3>1. PICK q \in ReadRecs : q = ring[t][s]
        BY Zenon, <1>1 DEF CoalesceType
      <3>2. [q EXCEPT !.id = f] \in ReadRecs /\ [q EXCEPT !.id = f].id = f
        BY Zenon DEF ReadRecs
      <3> QED BY Zenon, <3>1, <3>2
    <2>8. ring' = [ring EXCEPT ![t][s] = r]
      BY Zenon, <1>1, <1>8, <2>1, <2>7 DEF CoalesceType
    <2>9. /\ ring' \in [RReaders -> [RingSlotIds -> ReadRecs]] /\ ring'[t][s].id = f
          /\ \A u \in RReaders \ {t} : ring'[u] = ring[u]
          /\ \A z \in RingSlotIds \ {s} : ring'[t][z] = ring[t][z]
      BY Zenon, <1>1, <2>7, <2>8 DEF CoalesceType
    <2>10. /\ reader' \in [RReaders -> ReaderRecs] /\ reader'[t] = IdleReader
           /\ \A u \in RReaders \ {t} : reader'[u] = reader[u]
      BY Zenon, <1>1, <1>8, IdleIsReader DEF CoalesceType
    <2>11. CoalesceType'
      BY Zenon, <1>1, <2>6, <2>9, <2>10 DEF CoalesceType
    <2>12. f \notin InRing(t) /\ InRing(t) \ {0} \subseteq InRing(t)' /\ f \in InRing(t)'
      BY SMTT(60), <1>4, <2>1, <2>9 DEF InRing, Referred, RingSlotIds
    <2>13. EntryLeads(k)' /\ DoneIsWhole(f)' /\ PlaceFits(t)' /\ reader'[t].pc \notin AsyncPlaces
      BY ZenonT(60), <2>4, <2>6, <2>10, <2>12, IdleIsReader
      DEF EntryLeads, DoneIsWhole, PlaceFits,
         AsyncPlaces, SyncPlaces, GuestPlaces, FreePlaces
    <2>14. ASSUME NEW z \in RingSlotIds PROVE SlotLeads(t, z)'
      <3>1. ring[t][z].id # f /\ ring[t][z].id \in FlightIds \cup {0} /\ SlotLeads(t, z)
        <4>1. ring[t][z].id # f
          BY Zenon, <2>12 DEF InRing, RingSlotIds
        <4>2. ring[t][z] \in ReadRecs
          BY Zenon, <1>1 DEF CoalesceType
        <4> QED BY Zenon, <4>1, <4>2 DEF CoalesceInv, ReadRecs
      <3>2. CASE z = s
        <4>1. \A y \in RingSlotIds : ring'[t][y].id = f => y = s
          BY Zenon, <2>9, <2>12 DEF InRing, RingSlotIds
        <4> QED BY ZenonT(60), <2>4, <2>6, <2>9, <2>13, <3>2, <4>1 DEF SlotLeads
      <3>3. CASE z # s /\ ring[t][z].id # 0
        <4>1. ring'[t][z] = ring[t][z] /\ flight'[ring[t][z].id] = flight[ring[t][z].id]
          BY ZenonT(60), <2>6, <2>9, <3>1, <3>3
        <4>2. flight[ring[t][z].id].data = NoData
          BY ZenonT(60), <1>1, <3>1, <3>3 DEF SlotLeads, AsyncPlaces
        <4>3. \A y \in RingSlotIds : ring'[t][y].id = ring[t][z].id => y = z
          BY ZenonT(60), <2>9, <3>1, <3>3 DEF SlotLeads
        <4> QED BY ZenonT(60), <2>13, <3>1, <3>3, <4>1, <4>2, <4>3 DEF SlotLeads
      <3>4. CASE z # s /\ ring[t][z].id = 0
        BY Zenon, <2>9, <3>4 DEF SlotLeads
      <3> QED BY Zenon, <3>2, <3>3, <3>4
    <2>15. \A u \in RReaders \ {t} : reader'[u] = reader[u] /\ ring'[u] = ring[u]
      BY ZenonT(60), <2>9, <2>10
    <2> QED BY ZenonT(60), <1>2, <2>1, <2>5, <2>6, <2>11, <2>12, <2>13, <2>14, <2>15, NewFlight
  <1> QED BY ZenonT(60), <1>3, <1>4, <1>6, <1>7, <1>8 DEF Register

LEMMA ReadFlightStep ==
  ASSUME CoalesceInv, NEW t \in RReaders, ReadFlight(t)
  PROVE  CoalesceInv'
  <1>1. /\ CoalesceType /\ PlaceFits(t) /\ reader[t].pc = "idle" /\ reader[t].id = 0
        /\ ring' = ring /\ ram' = ram /\ reads' = reads
        /\ \A z \in RingSlotIds : ring[t][z] = NoRead
    BY Zenon DEF CoalesceInv, ReadFlight, PlaceFits, RingSlotIds
  <1>2. PICK k \in FKeys : k = reader[t].later
    <2>1. reader[t].later # "none" /\ reader[t] \in ReaderRecs
      BY Zenon, <1>1 DEF ReadFlight, CoalesceType
    <2> QED BY Zenon, <2>1 DEF ReaderRecs
  <1>3. ram' \in [FKeys -> {NoData, Whole}] /\ reads' \in [RReaders -> Seq(FKeys)]
    BY Zenon, <1>1 DEF CoalesceType
  <1>4. NoRead.id = 0 /\ \A g \in InRing(t) : g = 0
    <2>1. NoRead.id = 0
      BY Zenon DEF NoRead
    <2> QED BY Zenon, <1>1, <2>1 DEF InRing, RingSlotIds
  <1>5. CASE /\ reader' = [reader EXCEPT ![t] = IdleReader]
             /\ map' = map /\ flight' = flight
    BY ZenonT(60), <1>1, <1>3, <1>5, IdleIsReader, OnlyMoves
       DEF Moves, AsyncPlaces, SyncPlaces, GuestPlaces, FreePlaces
  <1>6. CASE /\ map' = [map EXCEPT ![k] = FreshFlight]
             /\ flight' = [flight EXCEPT ![FreshFlight] =
                   [NoFlight EXCEPT !.key = k, !.leader = t, !.data = Torn]]
             /\ reader' = [reader EXCEPT ![t] =
                   [[IdleReader EXCEPT !.key = k] EXCEPT !.pc = "lead", !.id = FreshFlight]]
    <2>1. PICK f \in FlightIds : f = FreshFlight /\ f \notin Referred /\ f # 0
      BY SMTT(60), <1>1, FreshIsFree DEF FlightIds
    <2>2. PICK w : w = [NoFlight EXCEPT !.key = k, !.leader = t, !.data = Torn]
      BY Zenon
    <2>3. /\ w \in FlightRecs /\ w.key = k /\ w.leader = t /\ ~w.done
      <3>1. w = [[[NoFlight EXCEPT !.key = k] EXCEPT !.leader = t] EXCEPT !.data = Torn]
        BY Zenon, <2>2 DEF NoFlight
      <3> QED BY Zenon, <3>1 DEF FlightRecs, NoFlight
    <2>4. PICK n : n = [[IdleReader EXCEPT !.key = k] EXCEPT !.pc = "lead", !.id = f]
      BY Zenon
    <2>5. n \in ReaderRecs /\ n.pc = "lead" /\ n.id = f /\ n.key = k
      <3>1. n = [[[IdleReader EXCEPT !.key = k] EXCEPT !.pc = "lead"] EXCEPT !.id = f]
        BY Zenon, <2>4 DEF IdleReader
      <3> QED BY ZenonT(60), <3>1, IdleIsReader DEF ReaderRecs, ReaderPlaces, SyncPlaces
    <2>6. /\ map' = [map EXCEPT ![k] = f] /\ flight' = [flight EXCEPT ![f] = w]
          /\ reader' = [reader EXCEPT ![t] = n]
      BY ZenonT(60), <1>6, <2>1, <2>2, <2>4
    <2>7. /\ flight' \in [FlightIds -> FlightRecs] /\ flight'[f] = w
          /\ \A g \in FlightIds \ {f} : flight'[g] = flight[g]
          /\ map' \in [FKeys -> FlightIds \cup {0}] /\ map'[k] = f
      BY Zenon, <1>1, <2>3, <2>6 DEF CoalesceType
    <2>8. /\ reader' \in [RReaders -> ReaderRecs] /\ reader'[t] = n
          /\ \A u \in RReaders \ {t} : reader'[u] = reader[u] /\ ring'[u] = ring[u]
      BY Zenon, <1>1, <2>5, <2>6 DEF CoalesceType
    <2>9. CoalesceType'
      BY Zenon, <1>1, <2>7, <2>8 DEF CoalesceType
    <2>10. InRing(t)' = InRing(t) /\ f \notin InRing(t)'
      BY SMTT(60), <1>1, <2>1 DEF InRing, Referred
    <2>11. EntryLeads(k)' /\ DoneIsWhole(f)' /\ reader'[t].pc \notin AsyncPlaces
      BY ZenonT(60), <2>3, <2>5, <2>7, <2>8 DEF EntryLeads, DoneIsWhole, AsyncPlaces
    <2>12. PlaceFits(t)'
      BY ZenonT(60), <2>1, <2>3, <2>5, <2>7, <2>8, <2>10
         DEF PlaceFits, DataFits, AsyncPlaces, SyncPlaces, GuestPlaces, FreePlaces
    <2>13. \A z \in RingSlotIds : SlotLeads(t, z)'
      BY ZenonT(60), <1>1, <1>4 DEF SlotLeads
    <2>14. InRing(t) \ {0} \subseteq InRing(t)'
      BY Zenon, <2>10
    <2> QED BY ZenonT(60), <1>1, <2>1, <2>6, <2>7, <2>8, <2>9, <2>11, <2>12, <2>13, <2>14, NewFlight
  <1>7. CASE /\ map[k] # 0 /\ map' = map /\ flight' = flight
             /\ reader' = [reader EXCEPT ![t] = [[IdleReader EXCEPT !.key = k]
                   EXCEPT !.id = map[k],
                          !.pc = IF flight[map[k]].leader = t THEN "own" ELSE "count"]]
    <2>1. PICK g \in FlightIds : g = map[k] /\ g # 0
      BY Zenon, <1>1, <1>7 DEF CoalesceType
    <2>2. PICK p \in {"own", "count"} : p = IF flight[map[k]].leader = t THEN "own" ELSE "count"
      BY Zenon
    <2>3. PICK n : n = [[IdleReader EXCEPT !.key = k] EXCEPT !.id = g, !.pc = p]
      BY Zenon
    <2>4. n \in ReaderRecs /\ n.pc = p /\ n.id = g /\ n.key = k
      <3>1. n = [[[IdleReader EXCEPT !.key = k] EXCEPT !.id = g] EXCEPT !.pc = p]
        BY Zenon, <2>3 DEF IdleReader
      <3> QED BY Zenon, <3>1, IdleIsReader DEF ReaderRecs, ReaderPlaces, GuestPlaces
    <2>5. Moves(t, n)
      BY Zenon, <1>7, <2>1, <2>2, <2>3 DEF Moves
    <2>6. /\ reader[t].pc \notin AsyncPlaces \cup SyncPlaces
          /\ n.pc \notin AsyncPlaces \cup SyncPlaces /\ n.id # 0 /\ n.id \notin InRing(t)
          /\ n.pc \notin FreePlaces \cup {"idle", "await", "register"} /\ n.key \in FKeys
      BY Zenon, <1>1, <1>4, <2>1, <2>4 DEF AsyncPlaces, SyncPlaces, FreePlaces
    <2> QED BY Zenon, <1>1, <1>3, <1>7, <2>4, <2>5, <2>6, OnlyMoves
  <1> QED BY ZenonT(60), <1>2, <1>5, <1>6, <1>7 DEF ReadFlight

-----------------------------------------------------------------------------
LEMMA CoalesceInitially == ReadCoalescerInit => CoalesceInv
  <1> SUFFICES ASSUME ReadCoalescerInit PROVE CoalesceInv
    BY Zenon
  <1>1. NoFlight \in FlightRecs /\ NoRead \in ReadRecs /\ NoRead.id = 0 /\ ~NoFlight.done
    BY Zenon DEF NoFlight, FlightRecs, NoRead, ReadRecs
  <1>2. CoalesceType
    <2>1. reads \in [RReaders -> Seq(FKeys)]
      BY Zenon, CoalescerAssumption DEF ReadCoalescerInit
    <2> QED BY Zenon, <1>1, <2>1, IdleIsReader DEF ReadCoalescerInit, CoalesceType, RingSlotIds
  <1>3. \A t \in RReaders : PlaceFits(t)
    BY ZenonT(60), IdleIsReader
    DEF ReadCoalescerInit, PlaceFits, AsyncPlaces, SyncPlaces, GuestPlaces,
                        FreePlaces
  <1>4. \A t \in RReaders, s \in RingSlotIds : SlotLeads(t, s)
    BY Zenon, <1>1 DEF ReadCoalescerInit, SlotLeads, RingSlotIds
  <1>5. /\ \A k \in FKeys : EntryLeads(k)
        /\ \A f \in FlightIds : DoneIsWhole(f)
    BY Zenon, <1>1 DEF ReadCoalescerInit, EntryLeads, DoneIsWhole
  <1> QED BY Zenon, <1>2, <1>3, <1>4, <1>5 DEF CoalesceInv

LEMMA CoalesceStutters == CoalesceInv /\ UNCHANGED coalesceVars => CoalesceInv'
  <1> SUFFICES ASSUME CoalesceInv, UNCHANGED coalesceVars PROVE CoalesceInv'
    BY Zenon
  <1>1. /\ map' = map /\ flight' = flight /\ ring' = ring /\ reader' = reader
        /\ ram' = ram /\ reads' = reads
    BY Zenon DEF coalesceVars
  <1>2. \A t \in RReaders : InRing(t)' = InRing(t) /\ FreeSlots(t)' = FreeSlots(t)
    BY Zenon, <1>1 DEF InRing, FreeSlots
  <1>3. CoalesceType'
    BY Zenon, <1>1 DEF CoalesceInv, CoalesceType
  <1>4. /\ \A t \in RReaders : PlaceFits(t)'
        /\ \A t \in RReaders, s \in RingSlotIds : SlotLeads(t, s)'
    <2>1. \A t \in RReaders : PlaceFits(t)'
      BY SMTT(60), <1>1, <1>2 DEF CoalesceInv, PlaceFits
    <2>2. \A t \in RReaders, s \in RingSlotIds : SlotLeads(t, s)'
      BY <1>1, <1>2 DEF CoalesceInv, SlotLeads
    <2> QED BY Zenon, <2>1, <2>2
  <1>5. \A k \in FKeys : EntryLeads(k)'
    BY ZenonT(60), <1>1, <1>2 DEF CoalesceInv, EntryLeads
  <1>6. \A f \in FlightIds : DoneIsWhole(f)'
    BY Zenon, <1>1 DEF CoalesceInv, DoneIsWhole
  <1> QED BY Zenon, <1>3, <1>4, <1>5, <1>6 DEF CoalesceInv

LEMMA CoalesceSteps == CoalesceInv /\ [ReadCoalescerNext]_coalesceVars => CoalesceInv'
  <1> SUFFICES ASSUME CoalesceInv, [ReadCoalescerNext]_coalesceVars PROVE CoalesceInv'
    BY Zenon
  <1>1. CASE UNCHANGED coalesceVars
    BY Zenon, <1>1, CoalesceStutters
  <1>2. ASSUME NEW t \in RReaders, PrepareRead(t) PROVE CoalesceInv'
    BY Zenon, <1>2, PrepareReadStep
  <1>3. ASSUME NEW t \in RReaders, ReaderTurn(t) PROVE CoalesceInv'
    <2>1. CASE WaitForPublished(t) \/ AwaitEnds(t) \/ AwaitTimesOut(t) \/ InFlight(t)
      BY Zenon, <2>1, WaitForPublishedStep, AwaitEndsStep, AwaitTimesOutStep, InFlightStep
    <2>2. CASE Lease(t) \/ Register(t) \/ Erase(t) \/ Allocate(t) \/ Fill(t)
      BY Zenon, <2>2, LeaseStep, RegisterStep, EraseStep, AllocateStep, FillStep
    <2>3. CASE EndFlight(t) \/ ReadFlight(t) \/ LeaderErase(t) \/ LeaderDone(t)
      BY Zenon, <2>3, EndFlightStep, ReadFlightStep, LeaderEraseStep, LeaderDoneStep
    <2>4. CASE Follow(t) \/ FollowerCopies(t) \/ FollowerTimesOut(t)
      BY Zenon, <2>4, FollowStep, FollowerCopiesStep, FollowerTimesOutStep
    <2>5. ASSUME NEW ok \in BOOLEAN, LeaderFill(t, ok) \/ OwnFill(t, ok) PROVE CoalesceInv'
      BY Zenon, <2>5, LeaderFillStep, OwnFillStep
    <2> QED BY Zenon, <1>3, <2>1, <2>2, <2>3, <2>4, <2>5 DEF ReaderTurn
  <1>4. ASSUME NEW t \in RReaders, ReapTurn(t) PROVE CoalesceInv'
    BY Zenon, <1>4, ReapStep DEF ReapTurn, RingSlotIds
  <1>5. ASSUME NEW t \in RReaders, NEW s \in 1 .. RingDepth, Abort(t, s) PROVE CoalesceInv'
    BY Zenon, <1>5, AbortStep DEF RingSlotIds
  <1>6. ASSUME NEW k \in FKeys, EvictDurable(k) PROVE CoalesceInv'
    BY Zenon, <1>6, EvictDurableStep
  <1> QED BY Zenon, <1>1, <1>2, <1>3, <1>4, <1>5, <1>6 DEF ReadCoalescerNext

(***************************************************************************)
(* The shared reads of kv_node_server.cc, for any threads, keys and depth  *)
(* of ring: no answer and no promoted entry is ever a buffer between its   *)
(* allocation and its fill, and every flight in map_ has a leader that     *)
(* still holds it and has not ended it, whatever timeouts, aborts and      *)
(* evictions happen in between.                                            *)
(***************************************************************************)
THEOREM SharedReadsAreSound == ReadCoalescerSpec => []FlightsAreSound
  <1>1. CoalesceInv => FlightsAreSound
    <2> SUFFICES ASSUME CoalesceInv PROVE FlightsAreSound
      BY Zenon
    <2>1. /\ \A t \in RReaders : reader[t].got # Torn
          /\ \A k \in FKeys : ram[k] # Torn
      BY ZenonT(60) DEF CoalesceInv, CoalesceType, ReaderRecs, NoData, Whole, Torn
    <2>2. ASSUME NEW k \in FKeys, map[k] # 0
          PROVE  /\ ~flight[map[k]].done
                 /\ map[k] \in InRing(flight[map[k]].leader)
                                 \union {reader[flight[map[k]].leader].id}
      BY Zenon, <2>2 DEF CoalesceInv, EntryLeads
    <2> QED BY Zenon, <2>1, <2>2 DEF FlightsAreSound
  <1> QED BY <1>1, CoalesceInitially, CoalesceSteps, PTL DEF ReadCoalescerSpec

=============================================================================
