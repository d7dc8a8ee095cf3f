----------------------------- MODULE NodeDedup ------------------------------
(***************************************************************************)
(* The same-host rendezvous of GETs (node_dedup.cc): processes share, in   *)
(* POSIX shared memory, an index of slots and a ring of payload bytes.     *)
(* The first process that wants a key reserves a slot and fetches; the     *)
(* others wait for it to publish, and copy.  Nothing is locked: a slot's   *)
(* state changes by compare-and-swap, and its generation is a seqlock.     *)
(*                                                                         *)
(* A step is a run of accesses that no other process can tell from one:    *)
(* the writes a process makes while it holds a slot in PUBLISHING, or has  *)
(* its generation odd, are one step.  Between Find and what is done with   *)
(* the slot, between a check of the generation and a compare-and-swap, and *)
(* inside a copy, other processes step in.  Readers ask for an exact length *)
(* (Claim and WaitCopy).  A payload is one cell of the arena and names the *)
(* key it was read for and the version read.                               *)
(* Time: old marks a slot that has outlived ttl_ms_ (READY) or takeover_ms_*)
(* (FETCHING); newer holds the slots stamped after the instant a process   *)
(* took as "now", where the unsigned difference wraps to a huge age.       *)
(***************************************************************************)
EXTENDS Integers, FiniteSets, FiniteSetsExt

CONSTANTS DedupKeys, Procs,
          NSlots,        \* slots of the probe window
          Arena,         \* cells of the payload ring
          MaxGets,       \* bound: GETs and invalidations of a behaviour
          MaxVersion     \* bound: versions of a key

ASSUME NodeDedupAssumption == NSlots \in Nat /\ Arena \in Nat \ {0}

VARIABLES dslot,         \* the index
          cells, cursor, \* the arena and alloc_cursor
          proc,          \* the processes
          version,       \* the key's version on the cache node
          gets,          \* operations so far
          overrun        \* history: a payload was written a lap too late

dedupVars == <<dslot, cells, cursor, proc, version, gets, overrun>>

DSlots == 1..NSlots
NoBytes == [key |-> "none", ver |-> 0]
EmptySlot == [gen |-> 0, state |-> "EMPTY", key |-> "none", len |-> 0, off |-> 0,
              seq |-> 0, old |-> FALSE, wrote |-> NoBytes]
IdleProc == [pc |-> "idle", key |-> "none", s |-> 0, token |-> 0, gen |-> 0,
             off |-> 0, seq |-> 0, bytes |-> NoBytes, want |-> NoBytes,
             waited |-> FALSE, newer |-> {}]

NodeDedupInit ==
  /\ dslot = [s \in DSlots |-> EmptySlot]
  /\ cells = [c \in 0..(Arena - 1) |-> NoBytes]
  /\ cursor = 0
  /\ proc = [p \in Procs |-> IdleProc]
  /\ version = [k \in DedupKeys |-> 0]
  /\ gets = 0
  /\ overrun = FALSE

(***************************************************************************)
(* Find: the first slot of the probe window that is in use for the key.    *)
(***************************************************************************)
Find(k) ==
  LET at == {s \in DSlots : dslot[s].state # "EMPTY" /\ dslot[s].key = k}
  IN IF at = {} THEN 0 ELSE Min(at)

Lapped(seq) == cursor - seq > Arena - 1

Expired(p, s) == dslot[s].old \/ s \in proc[p].newer

Becomes(p, r) == proc' = [proc EXCEPT ![p] = r]
Goes(p, pc) == Becomes(p, [proc[p] EXCEPT !.pc = pc])

\* A slot is stamped: for a process whose "now" is older, its age wraps.
Stamp(p, s, r) ==
  \E late \in SUBSET {q \in Procs \ {p} : proc[q].pc # "idle"} :
    proc' = [q \in Procs |->
      IF q = p THEN r
      ELSE [proc[q] EXCEPT !.newer = IF q \in late THEN @ \cup {s} ELSE @ \ {s}]]

GoesIdle(p) == Becomes(p, IdleProc)

(***************************************************************************)
(* ClaimImpl.                                                              *)
(***************************************************************************)
Claim(p, k) ==
  /\ proc[p].pc = "idle" /\ gets < MaxGets
  /\ gets' = gets + 1
  /\ Becomes(p, [proc[p] EXCEPT !.pc = IF Find(k) = 0 THEN "reserve" ELSE "look",
                                !.key = k, !.s = Find(k)])
  /\ UNCHANGED <<dslot, cells, cursor, version, overrun>>

TakeOver(p, s) ==
  /\ dslot' = [dslot EXCEPT ![s].gen = @ + 2, ![s].old = FALSE]
  /\ Stamp(p, s, [proc[p] EXCEPT !.pc = "fetch", !.token = dslot[s].gen + 2])

Look(p) ==
  /\ proc[p].pc = "look"
  /\ LET s == proc[p].s
         st == dslot[s].state IN
     \/ /\ st = "READY"
        /\ Goes(p, IF Expired(p, s) THEN "reserve" ELSE "load")
        /\ UNCHANGED dslot
     \/ st = "FETCHING" /\ Expired(p, s) /\ TakeOver(p, s)
     \/ /\ st = "PUBLISHING" \/ (st = "FETCHING" /\ ~Expired(p, s))
        /\ Goes(p, "wait") /\ UNCHANGED dslot
     \/ st = "EMPTY" /\ Goes(p, "reserve") /\ UNCHANGED dslot
  /\ UNCHANGED <<cells, cursor, version, gets, overrun>>

Reserve(p) ==
  /\ proc[p].pc = "reserve"
  /\ LET free == {s \in DSlots : \/ dslot[s].state = "EMPTY"
                                 \/ dslot[s].state = "READY" /\ Expired(p, s)} IN
     IF free = {}
     THEN Becomes(p, [proc[p] EXCEPT !.pc = "fetch", !.token = 0]) /\ UNCHANGED dslot
     ELSE /\ dslot' = [dslot EXCEPT ![Min(free)].state = "FETCHING"]
          /\ Becomes(p, [proc[p] EXCEPT !.pc = "identify", !.s = Min(free)])
  /\ UNCHANGED <<cells, cursor, version, gets, overrun>>

Identify(p) ==
  /\ proc[p].pc = "identify"
  /\ LET s == proc[p].s IN
     /\ dslot' = [dslot EXCEPT ![s] =
          [EmptySlot EXCEPT !.gen = dslot[s].gen + 2, !.state = dslot[s].state,
                            !.key = proc[p].key]]
     /\ Stamp(p, s, [proc[p] EXCEPT !.pc = "rescan"])
  /\ UNCHANGED <<cells, cursor, version, gets, overrun>>

\* Two claimers may have reserved two slots: the lower one stays.
Rescan(p) ==
  /\ proc[p].pc \in {"rescan", "rescan2"}
  /\ LET me == proc[p]
         first == Find(me.key) IN
     IF first # 0 /\ first # me.s
     THEN /\ dslot' = [dslot EXCEPT ![me.s].state =
                         IF @ = "FETCHING" THEN "EMPTY" ELSE @]
          /\ Goes(p, "wait")
     ELSE /\ IF me.pc = "rescan" THEN Goes(p, "rescan2")
             ELSE Becomes(p, [me EXCEPT !.pc = "fetch", !.token = dslot[me.s].gen])
          /\ UNCHANGED dslot
  /\ UNCHANGED <<cells, cursor, version, gets, overrun>>

(***************************************************************************)
(* The remote read, and then Publish or Abort under the claim's token.     *)
(***************************************************************************)
Fetch(p) ==
  /\ proc[p].pc = "fetch"
  /\ \/ Becomes(p, [proc[p] EXCEPT !.pc = "publish",
                       !.bytes = [key |-> proc[p].key, ver |-> version[proc[p].key]]])
     \/ Goes(p, "abort")
  /\ UNCHANGED <<dslot, cells, cursor, version, gets, overrun>>

Owns(p) ==
  LET s == Find(proc[p].key) IN
  proc[p].token # 0 /\ s # 0 /\ dslot[s].gen = proc[p].token

CheckToken(p) ==
  /\ proc[p].pc \in {"publish", "abort"}
  /\ IF Owns(p)
     THEN Becomes(p, [proc[p] EXCEPT !.pc = IF @ = "publish" THEN "swap" ELSE "drop",
                                     !.s = Find(proc[p].key)])
     ELSE GoesIdle(p)
  /\ UNCHANGED <<dslot, cells, cursor, version, gets, overrun>>

Abort(p) ==
  /\ proc[p].pc = "drop"
  /\ dslot' = [dslot EXCEPT ![proc[p].s].state =
                 IF @ = "FETCHING" THEN "EMPTY" ELSE @]
  /\ GoesIdle(p)
  /\ UNCHANGED <<cells, cursor, version, gets, overrun>>

Swap(p) ==
  /\ proc[p].pc = "swap"
  /\ IF dslot[proc[p].s].state = "FETCHING"
     THEN /\ dslot' = [dslot EXCEPT ![proc[p].s].state = "PUBLISHING"]
          /\ Becomes(p, [proc[p] EXCEPT !.pc = "write", !.off = cursor % Arena,
                                        !.seq = cursor + 1])
          /\ cursor' = cursor + 1
     ELSE GoesIdle(p) /\ UNCHANGED <<dslot, cursor>>
  /\ UNCHANGED <<cells, version, gets, overrun>>

Write(p) ==
  /\ proc[p].pc = "write"
  /\ cells' = [cells EXCEPT ![proc[p].off] = proc[p].bytes]
  /\ overrun' = (overrun \/ Lapped(proc[p].seq))
  /\ Goes(p, "ready")
  /\ UNCHANGED <<dslot, cursor, version, gets>>

Ready(p) ==
  /\ proc[p].pc = "ready"
  /\ LET me == proc[p] IN
     /\ dslot' = [dslot EXCEPT ![me.s] =
          [dslot[me.s] EXCEPT !.gen = @ + 2, !.state = "READY", !.len = 1, !.off = me.off,
                              !.seq = me.seq, !.old = FALSE, !.wrote = me.bytes]]
     /\ Stamp(p, me.s, IdleProc)
  /\ UNCHANGED <<cells, cursor, version, gets, overrun>>

(***************************************************************************)
(* CopyOut: generation, state and location are read, the bytes are copied, *)
(* and the copy counts only if the ring has not lapped the payload and the *)
(* generation has not moved.  WaitImpl finds the slot again on each try,   *)
(* and does not ask how old it is.                                         *)
(***************************************************************************)
CopyFails(p) == Goes(p, IF proc[p].waited THEN "wait" ELSE "reserve")

Wait(p) ==
  /\ proc[p].pc = "wait"
  /\ LET s == Find(proc[p].key) IN
     \/ /\ s # 0 /\ dslot[s].state = "READY"
        /\ Becomes(p, [proc[p] EXCEPT !.pc = "load", !.s = s, !.waited = TRUE])
     \/ GoesIdle(p)       \* wait_ms_ is over: the caller reads directly
  /\ UNCHANGED <<dslot, cells, cursor, version, gets, overrun>>

Load(p) ==
  /\ proc[p].pc = "load"
  /\ LET d == dslot[proc[p].s] IN
     IF d.state # "READY" \/ d.len # 1 \/ Lapped(d.seq) THEN CopyFails(p)
     ELSE Becomes(p, [proc[p] EXCEPT !.pc = "copy", !.gen = d.gen, !.off = d.off,
                                     !.seq = d.seq, !.want = d.wrote])
  /\ UNCHANGED <<dslot, cells, cursor, version, gets, overrun>>

Copy(p) ==
  /\ proc[p].pc = "copy"
  /\ Becomes(p, [proc[p] EXCEPT !.pc = "validate", !.bytes = cells[proc[p].off]])
  /\ UNCHANGED <<dslot, cells, cursor, version, gets, overrun>>

(* Mutant: the lap is checked before the copy only.                        *)
StillValidGen(p) == dslot[proc[p].s].gen = proc[p].gen

StillValid(p) == ~Lapped(proc[p].seq) /\ dslot[proc[p].s].gen = proc[p].gen

Validate(p) ==
  /\ proc[p].pc = "validate"
  /\ IF StillValid(p) THEN Goes(p, "hit") ELSE CopyFails(p)
  /\ UNCHANGED <<dslot, cells, cursor, version, gets, overrun>>

Deliver(p) ==
  /\ proc[p].pc = "hit"
  /\ GoesIdle(p)
  /\ UNCHANGED <<dslot, cells, cursor, version, gets, overrun>>

(***************************************************************************)
(* InvalidateKind, after a PUT or REMOVE has changed the key's version.    *)
(***************************************************************************)
BeginInvalidate(p, k) ==
  /\ proc[p].pc = "idle" /\ gets < MaxGets /\ version[k] < MaxVersion
  /\ gets' = gets + 1
  /\ version' = [version EXCEPT ![k] = @ + 1]
  /\ Becomes(p, [proc[p] EXCEPT !.pc = "invalidate", !.key = k])
  /\ UNCHANGED <<dslot, cells, cursor, overrun>>

FindInvalid(p) ==
  /\ proc[p].pc = "invalidate"
  /\ IF Find(proc[p].key) = 0 THEN GoesIdle(p)
     ELSE Becomes(p, [proc[p] EXCEPT !.pc = "supersede", !.s = Find(proc[p].key)])
  /\ UNCHANGED <<dslot, cells, cursor, version, gets, overrun>>

Supersede(p) ==
  /\ proc[p].pc = "supersede"
  /\ LET s == proc[p].s
         st == dslot[s].state IN
     \/ st = "PUBLISHING" /\ Goes(p, "invalidate") /\ UNCHANGED dslot
     \/ st = "EMPTY" /\ GoesIdle(p) /\ UNCHANGED dslot
     \/ /\ st \in {"FETCHING", "READY"}
        /\ dslot' = [dslot EXCEPT ![s].gen = @ + 2, ![s].state = "EMPTY"]
        /\ GoesIdle(p)
  /\ UNCHANGED <<cells, cursor, version, gets, overrun>>

\* The clock passes ttl_ms_ or takeover_ms_ after a slot's stamp.
Age(s) ==
  /\ dslot[s].state \in {"READY", "FETCHING"} /\ ~dslot[s].old
  /\ dslot' = [dslot EXCEPT ![s].old = TRUE]
  /\ UNCHANGED <<cells, cursor, proc, version, gets, overrun>>

NodeDedupNext ==
  \/ \E p \in Procs, k \in DedupKeys : Claim(p, k) \/ BeginInvalidate(p, k)
  \/ \E p \in Procs :
       \/ Look(p) \/ Reserve(p) \/ Identify(p) \/ Rescan(p) \/ Fetch(p)
       \/ CheckToken(p) \/ Abort(p) \/ Swap(p) \/ Write(p) \/ Ready(p)
       \/ Wait(p) \/ Load(p) \/ Copy(p) \/ Validate(p) \/ Deliver(p)
       \/ FindInvalid(p) \/ Supersede(p)
  \/ \E s \in DSlots : Age(s)

NodeDedupSpec == NodeDedupInit /\ [][NodeDedupNext]_dedupVars

(***************************************************************************)
(* A hit is never torn: the bytes CopyOut returns are the ones that were   *)
(* published in the slot, although the ring is overwritten by others and   *)
(* the slot is recycled while the copy is under way.  (Unless a publisher  *)
(* was overtaken by a whole lap between its allocation and its memcpy,     *)
(* which no reader can notice.)                                            *)
(***************************************************************************)
HitIsNotTorn ==
  ~overrun => \A p \in Procs : proc[p].pc = "hit" => proc[p].bytes = proc[p].want

(***************************************************************************)
(* A hit is the requested key's.  The comment in InvalidateKind says of a  *)
(* publisher it has superseded that "its old token can never publish into  *)
(* that generation"; but Publish compares the generation first and swaps   *)
(* the state afterwards, when the slot may be fetching for another key.    *)
(***************************************************************************)
HitIsOwnKey == \A p \in Procs : proc[p].pc = "hit" => proc[p].bytes.key = proc[p].key
=============================================================================
