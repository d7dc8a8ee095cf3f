---------------------------- MODULE GpuNodeDedup ----------------------------
(***************************************************************************)
(* The same-host rendezvous for GPU memory (node_dedup_gpu.cc): the slots  *)
(* are those of NodeDedup, but a payload stays in the publisher's GPU      *)
(* arena, and readers copy it from there through a mapping they keep.  A   *)
(* process owns an entry of a shared registry (its generation, its arena's *)
(* handle and allocation cursor), exits or is killed at any moment, and    *)
(* another process then takes the entry over.                              *)
(*                                                                         *)
(* A step is a run of accesses that no other process can tell from one, as *)
(* in NodeDedup.  A payload is two halves, written and copied one after    *)
(* the other.  Time is left open: a slot may be found expired, a fetch     *)
(* overdue and a wait over at any moment.  CUDA is external: a copy may    *)
(* fail, and one from an arena that was freed fails or finds what the      *)
(* arena held, as node_dedup_gpu.h says of the driver.  Each key has a     *)
(* slot of its own (what goes wrong when keys share one is NodeDedup's     *)
(* subject) and each process one instance and one thread.                  *)
(***************************************************************************)
EXTENDS Integers, FiniteSets, Sequences

CONSTANTS
  GpuProcs,       \* processes; each attaches once
  RegEntries,     \* registry entries (kMaxProcs)
  GpuKeys,        \* keys, each with its slot
  ArenaCells,     \* payloads that fit an arena
  CallPlans,      \* each [calls: process -> the keys of its calls, in order;
                  \*       faults: CUDA calls that fail]
  MaxDeaths       \* processes that exit or are killed

ASSUME GpuAssumption ==
  /\ GpuProcs \subseteq Nat \ {0} /\ 0 \notin RegEntries /\ ArenaCells \in Nat \ {0}
  /\ \A plan \in CallPlans :
       plan.faults \in Nat /\ \A p \in GpuProcs : plan.calls[p] \in Seq(GpuKeys)

VARIABLES
  gslot,    \* key -> its slot [gen, state, known: identity written,
            \*                 owner, ogen, off, seq; val: what was published]
  reg,      \* entry -> [pid, ready, gen, cursor, arena]
  arenas,   \* process -> cell -> <<half, half>>
  gpu,      \* process -> what it is doing: see AtRest
  maps,     \* process -> entry -> the mapping kept: [gen, arena]
  cudaFaults    \* CUDA failures still to come

gpuVars == <<gslot, reg, arenas, gpu, maps, cudaFaults>>

NoCopy == [gen |-> 0, own |-> 0, egen |-> 0, off |-> 0, seq |-> 0, arena |-> 0,
           val |-> 0, got |-> <<0, 0>>]
AtRest(pc, entry, gen, calls) ==
  [pc |-> pc, entry |-> entry, gen |-> gen, calls |-> calls,
   key |-> 0, token |-> 0, seq |-> 0, val |-> 0, wait |-> FALSE, copy |-> NoCopy]

NoMapping == [gen |-> 0, arena |-> 0]
GpuInit ==
  /\ gslot = [k \in GpuKeys |-> [gen |-> 0, state |-> "empty", known |-> FALSE, owner |-> 0,
                                 ogen |-> 0, off |-> 0, seq |-> 0, val |-> 0]]
  /\ reg = [e \in RegEntries |-> [pid |-> 0, ready |-> FALSE, gen |-> 0, cursor |-> 0, arena |-> 0]]
  /\ arenas = [p \in GpuProcs |-> [c \in 0..(ArenaCells - 1) |-> <<0, 0>>]]
  /\ \E plan \in CallPlans :
       /\ gpu = [p \in GpuProcs |-> AtRest("off", 0, 0, plan.calls[p])]
       /\ cudaFaults = plan.faults
  /\ maps = [p \in GpuProcs |-> [e \in RegEntries |-> NoMapping]]

At(p, pc) == gpu[p].pc = pc
To(p, pc) ==
  gpu' = [gpu EXCEPT ![p] = IF pc = "idle" THEN AtRest("idle", @.entry, @.gen, @.calls)
                            ELSE [@ EXCEPT !.pc = pc]]
SharedSame == UNCHANGED <<gslot, reg, arenas, maps>>
Shared == SharedSame /\ UNCHANGED cudaFaults
OnlySlots == UNCHANGED <<reg, arenas, maps, cudaFaults>>

(* --------------------- Open, the destructor, and death ------------------ *)

PidDead(q) == q # 0 /\ gpu[q].pc = "dead"
\* Claim a registry entry: a free one, or one whose owner died.
GpuOpen(p) ==
  /\ At(p, "off") /\ gpu[p].calls # <<>>
  /\ \E e \in RegEntries :
       /\ reg[e].pid = 0 \/ PidDead(reg[e].pid)
       /\ \A f \in RegEntries : f < e => ~(reg[f].pid = 0 \/ PidDead(reg[f].pid))
       /\ reg' = [reg EXCEPT ![e].pid = p]
       /\ gpu' = [gpu EXCEPT ![p].pc = "open", ![p].entry = e]
  /\ UNCHANGED <<gslot, arenas, maps, cudaFaults>>
Attach(p) ==
  /\ At(p, "open")
  /\ LET e == gpu[p].entry
         gen == reg[e].gen + 1
     IN /\ reg' = [reg EXCEPT ![e] = [pid |-> p, ready |-> TRUE, gen |-> gen, cursor |-> 0, arena |-> p]]
        /\ gpu' = [gpu EXCEPT ![p] = AtRest("idle", e, gen, gpu[p].calls)]
  /\ UNCHANGED <<gslot, arenas, maps, cudaFaults>>

Dead(p) ==
  /\ Cardinality({q \in GpuProcs : gpu[q].pc = "dead"}) < MaxDeaths
  /\ gpu' = [gpu EXCEPT ![p] = AtRest("dead", 0, 0, <<>>)]
  /\ maps' = [maps EXCEPT ![p] = [e \in RegEntries |-> NoMapping]]
\* The destructor invalidates the entry before the arena goes away.
GpuClose(p) ==
  /\ At(p, "idle") /\ Dead(p)
  /\ LET e == gpu[p].entry
     IN reg' = [reg EXCEPT ![e].ready = FALSE, ![e].gen = @ + 1, ![e].pid = 0]
  /\ UNCHANGED <<gslot, arenas, cudaFaults>>
Killed(p) ==
  gpu[p].pc \notin {"off", "dead"} /\ Dead(p) /\ UNCHANGED <<gslot, reg, arenas, cudaFaults>>

(* ------------------------------- the slots ------------------------------ *)

FindSlot(k) == gslot[k].state # "empty" /\ gslot[k].known
Cas(k, from, to) ==
  gslot' = IF gslot[k].state = from THEN [gslot EXCEPT ![k].state = to] ELSE gslot

\* ClaimSg: what Find finds decides; an expired or uncopied value is fetched.
ClaimSg(p) ==
  /\ At(p, "idle") /\ gpu[p].calls # <<>>
  /\ LET k == Head(gpu[p].calls)
         st == IF FindSlot(k) THEN gslot[k].state ELSE "empty"
     IN \E pc \in CASE st = "ready" -> {"issue", "reserve"}
                     [] st = "fetching" -> {"wait", "takeover"}
                     [] st = "publishing" -> {"wait"}
                     [] OTHER -> {"reserve"} :
          gpu' = [gpu EXCEPT ![p].pc = pc, ![p].key = k, ![p].calls = Tail(@)]
  /\ Shared

TakeOverClaim(p) ==
  /\ At(p, "takeover")
  /\ LET k == gpu[p].key
     IN IF gslot[k].state = "fetching"
        THEN /\ gslot' = [gslot EXCEPT ![k].gen = @ + 2]
             /\ gpu' = [gpu EXCEPT ![p].pc = "fetch", ![p].token = gslot[k].gen + 2]
        ELSE UNCHANGED gslot /\ To(p, "wait")
  /\ OnlySlots

\* A slot that is empty, or ready and expired; else fetch without sharing.
ReserveSlot(p) ==
  /\ At(p, "reserve")
  /\ LET k == gpu[p].key
     IN \/ /\ gslot[k].state \in {"empty", "ready"}
           /\ gslot' = [gslot EXCEPT ![k].state = "fetching"] /\ To(p, "identify")
        \/ gslot[k].state # "empty" /\ UNCHANGED gslot /\ To(p, "idle")
  /\ OnlySlots
IdentifySlot(p) ==
  /\ At(p, "identify") /\ To(p, "token")
  /\ LET k == gpu[p].key
     IN gslot' = [gslot EXCEPT ![k] = [gen |-> @.gen + 2, state |-> @.state, known |-> TRUE,
                                       owner |-> 0, ogen |-> 0, off |-> 0, seq |-> 0, val |-> 0]]
  /\ OnlySlots
\* The claim's token is read after the identity was written.
TakeToken(p) ==
  /\ At(p, "token")
  /\ gpu' = [gpu EXCEPT ![p].pc = "fetch", ![p].token = gslot[gpu[p].key].gen] /\ Shared

(* -------------------------- copying a payload out ----------------------- *)

GiveUpCopy(p) ==
  \E pc \in IF gpu[p].wait THEN {"wait", "idle"} ELSE {"reserve"} :
    gpu' = [gpu EXCEPT ![p] = [@ EXCEPT !.pc = pc, !.copy = NoCopy]]
NoHit(p) == GiveUpCopy(p) /\ Shared
CudaFails == cudaFaults > 0 /\ cudaFaults' = cudaFaults - 1

\* WaitSg and WaitManySg: copy once the slot is ready, or time out.
WaitSg(p) ==
  /\ At(p, "wait") /\ Shared
  /\ \/ /\ FindSlot(gpu[p].key) /\ gslot[gpu[p].key].state = "ready"
        /\ gpu' = [gpu EXCEPT ![p] = [@ EXCEPT !.pc = "issue", !.wait = TRUE]]
     \/ To(p, "idle")

IssueCopySg(p) ==
  /\ At(p, "issue")
  /\ LET s == gslot[gpu[p].key]
     IN IF s.state = "ready"
        THEN gpu' = [gpu EXCEPT ![p].pc = "map", ![p].copy.gen = s.gen] /\ Shared
        ELSE NoHit(p)

\* No allocation since has come round to the payload's cell.
NotLapped(own, seq) == reg[own].cursor - seq \in 0..(ArenaCells - 1)

\* The own arena, the mapping kept for this generation, or a new one.
PeerBase(p, e, gen) ==
  IF e = gpu[p].entry THEN IF gen = gpu[p].gen THEN p ELSE 0
  ELSE IF maps[p][e].arena # 0 /\ maps[p][e].gen = gen THEN maps[p][e].arena
  ELSE reg[e].arena

\* The rest of IssueCopySg: the descriptor, the owner's entry, its mapping.
MapPeer(p) ==
  /\ At(p, "map")
  /\ LET s == gslot[gpu[p].key]
         base == PeerBase(p, s.owner, s.ogen)
         valid == /\ s.owner # 0 /\ reg[s.owner].ready /\ reg[s.owner].gen = s.ogen
                  /\ NotLapped(s.owner, s.seq) /\ base # 0
     IN \/ /\ valid
           /\ gpu' = [gpu EXCEPT ![p].pc = "copyFirst", ![p].copy =
                        [@ EXCEPT !.own = s.owner, !.egen = s.ogen, !.off = s.off, !.seq = s.seq,
                                  !.arena = base, !.val = s.val]]
           /\ maps' = IF s.owner = gpu[p].entry THEN maps
                      ELSE [maps EXCEPT ![p][s.owner] = [gen |-> s.ogen, arena |-> base]]
           /\ UNCHANGED <<gslot, reg, arenas, cudaFaults>>
        \/ ~valid /\ NoHit(p)

CopyHalf(p, h, from, to) ==
  /\ At(p, from)
  /\ LET c == gpu[p].copy
     IN gpu' = [gpu EXCEPT ![p].pc = to, ![p].copy.got[h] = arenas[c.arena][c.off][h]]
  /\ Shared
CopyOutSg(p) ==
  \/ CopyHalf(p, 1, "copyFirst", "copyLast")
  \/ CopyHalf(p, 2, "copyLast", "validate")
  \/ /\ gpu[p].pc \in {"map", "copyFirst", "copyLast"}
     /\ CudaFails /\ GiveUpCopy(p) /\ SharedSame

\* After the copy: not lapped, the same arena, the slot untouched.
ValidateCopy(k, c) ==
  NotLapped(c.own, c.seq) /\ reg[c.own].gen = c.egen /\ gslot[k].gen = c.gen

EndCopy(p) ==
  /\ At(p, "validate")
  /\ IF ValidateCopy(gpu[p].key, gpu[p].copy) THEN To(p, "hit") /\ Shared ELSE NoHit(p)
UseHit(p) == At(p, "hit") /\ To(p, "idle") /\ Shared

(* --------------------- PublishSg, Abort and Invalidate ------------------ *)

\* The fetch is over, with the value or without it; is the claim still ours?
Fetched(p) ==
  /\ At(p, "fetch") /\ Shared
  /\ LET k == gpu[p].key
     IN IF FindSlot(k) /\ gslot[k].gen = gpu[p].token
        THEN \E pc \in {"publish", "abort"} : To(p, pc)
        ELSE To(p, "idle")
AbortClaim(p) ==
  At(p, "abort") /\ Cas(gpu[p].key, "fetching", "empty") /\ To(p, "idle") /\ OnlySlots

\* The cursor passes the cell before anything is written to it.
PublishSg(p) ==
  /\ At(p, "publish") /\ Cas(gpu[p].key, "fetching", "publishing")
  /\ LET e == gpu[p].entry
     IN IF gslot[gpu[p].key].state = "fetching"
        THEN /\ reg' = [reg EXCEPT ![e].cursor = @ + 1]
             /\ gpu' = [gpu EXCEPT ![p] = [@ EXCEPT !.pc = "gatherFirst", !.seq = reg[e].cursor + 1,
                                                    !.val = 10 * p + Len(gpu[p].calls) + 1]]
        ELSE UNCHANGED reg /\ To(p, "idle")
  /\ UNCHANGED <<arenas, maps, cudaFaults>>
Cell(p) == (gpu[p].seq - 1) % ArenaCells
GatherHalf(p, h, from, to) ==
  /\ At(p, from) /\ To(p, to)
  /\ arenas' = [arenas EXCEPT ![p][Cell(p)][h] = gpu[p].val]
  /\ UNCHANGED <<gslot, reg, maps, cudaFaults>>
\* Mutant: the slot is published before the copies have finished.
GatherUnsynced(p) == GatherHalf(p, 1, "gatherFirst", "flip")

Gather(p) ==
  GatherHalf(p, 1, "gatherFirst", "gatherLast") \/ GatherHalf(p, 2, "gatherLast", "flip")
\* A copy or the synchronisation failed.
Abandon(p) ==
  /\ gpu[p].pc \in {"gatherFirst", "gatherLast", "flip"} /\ CudaFails /\ To(p, "idle")
  /\ gslot' = [gslot EXCEPT ![gpu[p].key].state = "empty"]
  /\ UNCHANGED <<reg, arenas, maps>>
FlipReady(p) ==
  /\ At(p, "flip") /\ To(p, "idle")
  /\ LET me == gpu[p]
     IN gslot' = [gslot EXCEPT ![me.key] =
                    [gen |-> @.gen + 2, state |-> "ready", known |-> @.known, owner |-> me.entry,
                     ogen |-> me.gen, off |-> Cell(p), seq |-> me.seq, val |-> me.val]]
  /\ OnlySlots

\* A PUT or REMOVE of the key; it waits while the slot is being published.
Invalidate(p) ==
  /\ At(p, "idle") /\ gpu[p].calls # <<>> /\ gpu' = [gpu EXCEPT ![p].calls = Tail(@)]
  /\ LET k == Head(gpu[p].calls)
     IN /\ gslot[k].state # "publishing"
        /\ gslot' = IF FindSlot(k) THEN [gslot EXCEPT ![k].gen = @ + 2, ![k].state = "empty"] ELSE gslot
  /\ OnlySlots

GpuStep(p) ==
  \/ GpuOpen(p) \/ Attach(p) \/ GpuClose(p) \/ Killed(p)
  \/ ClaimSg(p) \/ Invalidate(p) \/ TakeOverClaim(p) \/ ReserveSlot(p) \/ IdentifySlot(p) \/ TakeToken(p)
  \/ WaitSg(p) \/ IssueCopySg(p) \/ MapPeer(p) \/ CopyOutSg(p) \/ EndCopy(p) \/ UseHit(p)
  \/ Fetched(p) \/ AbortClaim(p) \/ PublishSg(p) \/ Gather(p) \/ Abandon(p) \/ FlipReady(p)

GpuNext == \E p \in GpuProcs : GpuStep(p)

GpuSpec == GpuInit /\ [][GpuNext]_gpuVars

(***************************************************************************)
(* A GET answered from a process's arena got the payload its slot          *)
(* described, both halves: although the publisher's ring may come round    *)
(* during the copy, the publisher may exit or die, its registry entry may  *)
(* pass to a process with another arena while readers keep the mapping of  *)
(* the old one, and the slot may be superseded.                            *)
(***************************************************************************)
GpuHitIsWhole ==
  \A p \in GpuProcs : gpu[p].pc = "hit" =>
    gpu[p].copy.got = <<gpu[p].copy.val, gpu[p].copy.val>>
=============================================================================
