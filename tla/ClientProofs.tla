---------------------------- MODULE ClientProofs ----------------------------
(***************************************************************************)
(* Proofs about what a client may rely on, for every value of the          *)
(* constants.  RetainClient: a key that a REFRESH does not ask for is      *)
(* protected.  NodeDedup: a hit in the rendezvous of GETs on one host is   *)
(* never torn.  Retention: protected slots expire and not too early,       *)
(* within a budget, and their durable record follows.                      *)
(***************************************************************************)
EXTENDS RetainClient, NodeDedup, Retention, Sequences, FiniteSetTheorems,
        WellFoundedInduction, TLAPS

-----------------------------------------------------------------------------
(* The keys a REFRESH skips.                                               *)

Codes == UNION {[ks -> {"miss", "protected", "plain"}] : ks \in SUBSET RKeys}
RCalls == [pc : {"idle", "send", "reply"}, mode : {"set", "refresh"},
           keys : SUBSET RKeys, code : Codes, age : 0..ReplyDelay]

RetainType ==
  /\ support \in [RNodes -> {-1, 0, 1}]
  /\ DOMAIN entry \subseteq RKeys /\ \A k \in DOMAIN entry : entry[k] \in 0..SetTtl
  /\ protection \in [RKeys -> 0..SetTtl] /\ recorded \in [RKeys -> {0, SetTtl}]
  /\ stored \subseteq RKeys /\ skipped \subseteq RKeys
  /\ rcall \in [RCallers -> RCalls]

\* What REFRESH renews with is the TTL that SET asked for.
RecordedIsSet == \A k \in stored : protection[k] > 0 => recorded[k] = SetTtl

\* A key a reply calls protected has lost no more than the reply's delay.
ReplyIsFresh ==
  \A c \in RCallers : \A k \in DOMAIN rcall[c].code \cap stored :
    rcall[c].pc = "reply" /\ rcall[c].code[k] = "protected"
      => protection[k] + rcall[c].age >= SetTtl

\* An entry's age and the delay of its reply bound what protection has lost.
EntryIsFresh ==
  \A k \in DOMAIN entry \cap stored :
    entry[k] = SetTtl \/ protection[k] + entry[k] + ReplyDelay >= SetTtl

RetainInv == RetainType /\ RecordedIsSet /\ ReplyIsFresh /\ EntryIsFresh /\ SkippedIsProtected

LEMMA NoRCallType == NoRCall \in RCalls /\ <<>> \in Codes
  <1>1. <<>> \in [{} -> {"miss", "protected", "plain"}]
    <2>1. <<>> \in Seq({"miss", "protected", "plain"}) /\ Len(<<>>) = 0
      OBVIOUS
    <2>2. <<>> \in [1..Len(<<>>) -> {"miss", "protected", "plain"}]
      BY <2>1
    <2> QED BY <2>1, <2>2
  <1>2. <<>> \in Codes
    BY Zenon, <1>1 DEF Codes
  <1> QED
    BY <1>2, RetainClientAssumption DEF NoRCall, RCalls

LEMMA RetainInit == RetainClientInit => RetainInv
  <1> SUFFICES ASSUME RetainClientInit PROVE RetainInv
    BY Zenon
  <1>1. RetainType
    BY NoRCallType, RetainClientAssumption DEF RetainClientInit, RetainType
  <1> QED
    BY <1>1 DEF RetainClientInit, RetainInv, RecordedIsSet, ReplyIsFresh, EntryIsFresh,
                SkippedIsProtected, NoRCall

LEMMA RetainStep == RetainInv /\ [RetainClientNext]_retainVars => RetainInv'
  <1> SUFFICES ASSUME RetainInv, [RetainClientNext]_retainVars PROVE RetainInv'
    BY Zenon
  <1> USE RetainClientAssumption DEF RetainInv
  <1>1. ASSUME NEW c \in RCallers, NEW ks \in SUBSET RKeys, NEW m \in {"set", "refresh"},
               BatchRetain(c, ks, m)
        PROVE  RetainInv'
    <2>1. \A k \in RKeys \cap stored : Debounced(k) => protection[k] > 0
      BY DEF Debounced, RetainType, EntryIsFresh
    <2>2. RetainType'
      BY Zenon, <1>1, NoRCallType DEF BatchRetain, RetainType, NoRCall, RCalls
    <2>3. UNCHANGED <<support, entry, protection, recorded, stored>>
      BY Zenon, <1>1 DEF BatchRetain
    <2>4. SkippedIsProtected'
      BY Zenon, <1>1, <2>1, <2>3 DEF BatchRetain, SkippedIsProtected
    <2>5. ReplyIsFresh'
      BY Zenon, <1>1, <2>3 DEF BatchRetain, ReplyIsFresh, RetainType, NoRCall
    <2> QED BY Zenon, <2>2, <2>3, <2>4, <2>5 DEF RecordedIsSet, EntryIsFresh
  <1>2. ASSUME NEW c \in RCallers, NEW n \in RNodes, RetainSent(c, n)
        PROVE  RetainInv'
    <2>1. UNCHANGED <<support, entry, stored>> /\ skipped' = {}
      BY Zenon, <1>2 DEF RetainSent
    <2>2. protection' \in [RKeys -> 0..SetTtl] /\ recorded' \in [RKeys -> {0, SetTtl}]
      BY <1>2 DEF RetainSent, RetainType
    <2>3. \A k \in RKeys \cap stored : protection'[k] \in {protection[k], SetTtl}
      BY Zenon, <1>2 DEF RetainSent, RetainType, RecordedIsSet
    <2>4. RecordedIsSet'
      BY Zenon, <1>2, <2>1 DEF RetainSent, RetainType, RecordedIsSet
    <2>5. DOMAIN rcall' = RCallers /\ \A d \in RCallers \ {c} : rcall'[d] = rcall[d]
      BY Zenon, <1>2 DEF RetainSent, RetainType
    <2>6. rcall'[c] \in RCalls
      <3> DEFINE answer(denied) == [k \in Same(n, rcall[c].keys) |->
                   IF k \notin stored THEN "miss"
                   ELSE IF (IF rcall[c].mode = "set" THEN k \notin denied ELSE protection[k] > 0)
                   THEN "protected" ELSE "plain"]
      <3>1. PICK denied : rcall' = [rcall EXCEPT ![c].pc = "reply", ![c].code = answer(denied)]
        BY Zenon, <1>2 DEF RetainSent
      <3>2. Same(n, rcall[c].keys) \in SUBSET RKeys
        BY Zenon DEF Same, RetainType, RCalls
      <3>3. answer(denied) \in [Same(n, rcall[c].keys) -> {"miss", "protected", "plain"}]
        BY Zenon
      <3> HIDE DEF answer
      <3>4. answer(denied) \in Codes
        BY Zenon, <3>2, <3>3 DEF Codes
      <3> QED BY Zenon, <3>1, <3>4 DEF RetainType, RCalls
    <2>7. \A k \in DOMAIN rcall'[c].code \cap stored :
            rcall'[c].code[k] = "protected" => protection'[k] = SetTtl
      BY <1>2 DEF RetainSent, RetainType, RCalls, RecordedIsSet, Same
    <2>8. ReplyIsFresh'
      BY SMTT(30), <2>1, <2>2, <2>3, <2>5, <2>6, <2>7
      DEF ReplyIsFresh, RetainType, RCalls, Codes
    <2>9. EntryIsFresh'
      BY <2>1, <2>2, <2>3 DEF EntryIsFresh, RetainType
    <2>10. rcall' \in [RCallers -> RCalls]
      <3>1. rcall' = [d \in RCallers |-> rcall'[d]]
        BY Zenon, <1>2 DEF RetainSent, RetainType
      <3> QED BY Zenon, <2>5, <2>6, <3>1 DEF RetainType
    <2> QED BY Zenon, <2>1, <2>2, <2>4, <2>8, <2>9, <2>10 DEF RetainType, SkippedIsProtected
  <1>3. ASSUME NEW c \in RCallers, NEW n \in RNodes, RetainFails(c, n) \/ Fallback(c, n)
        PROVE  RetainInv'
    <2>1. UNCHANGED <<entry, protection, recorded, stored>> /\ skipped' = {}
      BY Zenon, <1>3 DEF RetainFails, Fallback
    <2>2. support' \in [RNodes -> {-1, 0, 1}]
      BY Zenon, <1>3 DEF RetainFails, Fallback, RetainType
    <2>3. DOMAIN rcall' = RCallers /\ \A d \in RCallers \ {c} : rcall'[d] = rcall[d]
      BY Zenon, <1>3 DEF RetainFails, Fallback, RetainType
    <2>4. rcall'[c] \in RCalls /\ rcall'[c].pc # "reply"
      <3>1. CASE RetainFails(c, n)
        BY Zenon, <1>3, <3>1, NoRCallType DEF RetainFails, RetainType, RCalls, NoRCall
      <3>2. CASE Fallback(c, n)
        BY Zenon, <1>3, <3>2, NoRCallType DEF Fallback, RetainType, RCalls, NoRCall
      <3> QED BY Zenon, <1>3, <3>1, <3>2
    <2>5. ReplyIsFresh'
      BY Zenon, <2>1, <2>3, <2>4 DEF ReplyIsFresh, RetainType
    <2>6. rcall' \in [RCallers -> RCalls]
      <3>1. rcall' = [d \in RCallers |-> rcall'[d]]
        BY Zenon, <1>3 DEF RetainFails, Fallback, RetainType
      <3> QED BY Zenon, <2>3, <2>4, <3>1 DEF RetainType
    <2> QED BY Zenon, <2>1, <2>2, <2>5, <2>6
            DEF RetainType, RecordedIsSet, EntryIsFresh, SkippedIsProtected
  <1>4. ASSUME NEW c \in RCallers, RetainNode(c)
        PROVE  RetainInv'
    <2>1. UNCHANGED <<protection, recorded, stored>> /\ skipped' = {}
      BY Zenon, <1>4 DEF RetainNode
    <2>2. support' \in [RNodes -> {-1, 0, 1}]
      BY Zenon, <1>4 DEF RetainNode, RetainType
    <2>3. DOMAIN rcall' = RCallers /\ \A d \in RCallers \ {c} : rcall'[d] = rcall[d]
      BY Zenon, <1>4 DEF RetainNode, RetainType
    <2>4. rcall'[c] \in RCalls /\ rcall'[c].pc # "reply"
      BY ZenonT(60), <1>4, NoRCallType DEF RetainNode, RetainType, RCalls, NoRCall
    <2>5. DOMAIN rcall[c].code \subseteq RKeys
      BY DEF RetainType, RCalls, Codes
    <2>6. DOMAIN entry' \subseteq RKeys
          /\ \A k \in DOMAIN entry' :
               \/ k \in DOMAIN rcall[c].code /\ rcall[c].code[k] = "protected" /\ entry'[k] = 0
               \/ k \in DOMAIN entry /\ entry'[k] = entry[k]
      BY Zenon, <1>4, <2>5 DEF RetainNode, RetainType
    <2>7. EntryIsFresh'
      <3>1. SUFFICES ASSUME NEW k \in DOMAIN entry' \cap stored
                     PROVE  entry'[k] = SetTtl \/ protection[k] + entry'[k] + ReplyDelay >= SetTtl
        BY Zenon, <2>1 DEF EntryIsFresh
      <3>2. k \in RKeys /\ protection[k] \in Int
        BY <2>6, <3>1 DEF RetainType
      <3>3. CASE k \in DOMAIN rcall[c].code /\ rcall[c].code[k] = "protected" /\ entry'[k] = 0
        <4>1. rcall[c].pc = "reply" /\ k \in stored
          BY Zenon, <1>4, <3>1 DEF RetainNode
        <4>2. protection[k] + rcall[c].age >= SetTtl
          BY Zenon, <3>3, <4>1 DEF ReplyIsFresh
        <4>3. rcall[c].age \in 0..ReplyDelay
          BY Zenon DEF RetainType, RCalls
        <4> QED BY <3>2, <3>3, <4>2, <4>3, RetainClientAssumption
      <3>4. CASE k \in DOMAIN entry /\ entry'[k] = entry[k]
        BY Zenon, <3>1, <3>4 DEF EntryIsFresh
      <3> QED BY Zenon, <2>6, <3>1, <3>3, <3>4
    <2>8. ReplyIsFresh'
      BY Zenon, <2>1, <2>3, <2>4 DEF ReplyIsFresh, RetainType
    <2>9. rcall' \in [RCallers -> RCalls]
      <3>1. rcall' = [d \in RCallers |-> rcall'[d]]
        BY Zenon, <1>4 DEF RetainNode, RetainType
      <3> QED BY Zenon, <2>3, <2>4, <3>1 DEF RetainType
    <2> QED BY <2>1, <2>2, <2>6, <2>7, <2>8, <2>9
            DEF RetainType, RecordedIsSet, SkippedIsProtected
  <1>5. ASSUME NEW n \in RNodes, RetainLimits(n)
        PROVE  RetainInv'
    BY Zenon, <1>5 DEF RetainLimits, RetainType, RecordedIsSet, ReplyIsFresh, EntryIsFresh,
                SkippedIsProtected
  <1>6. ASSUME NEW k \in RKeys, RemoveKey(k)
        PROVE  RetainInv'
    BY <1>6 DEF RemoveKey, RetainType, RecordedIsSet, ReplyIsFresh, EntryIsFresh,
                SkippedIsProtected
  <1>7. CASE RetainTick
    <2>1. RetainType'
      BY SMTT(30), <1>7 DEF RetainTick, RetainType, RCalls
    <2>2. RecordedIsSet' /\ SkippedIsProtected'
      BY <1>7 DEF RetainTick, RetainType, RecordedIsSet, SkippedIsProtected
    <2>3. ReplyIsFresh'
      BY <1>7 DEF RetainTick, RetainType, RCalls, ReplyIsFresh
    <2>4. EntryIsFresh'
      BY <1>7 DEF RetainTick, RetainType, EntryIsFresh
    <2> QED BY Zenon, <2>1, <2>2, <2>3, <2>4
  <1>8. CASE UNCHANGED retainVars
    BY Zenon, <1>8 DEF retainVars, RetainType, RecordedIsSet, ReplyIsFresh, EntryIsFresh,
                SkippedIsProtected
  <1> QED
    BY Zenon, <1>1, <1>2, <1>3, <1>4, <1>5, <1>6, <1>7, <1>8 DEF RetainClientNext

(* For every set of keys, nodes and callers, every TTL and reply delay      *)
(* within the assumption: a key BatchRetain answers kRetSkippedDebounce is  *)
(* protected at its node at that moment, unless it was removed.             *)
THEOREM SkippedStaysProtected == RetainClientSpec => []SkippedIsProtected
  <1>1. RetainInv => SkippedIsProtected
    BY Zenon DEF RetainInv
  <1> QED BY <1>1, RetainInit, RetainStep, PTL DEF RetainClientSpec

-----------------------------------------------------------------------------
(* The rendezvous of GETs on one host: arithmetic of the ring.              *)

(* A set of natural numbers that is not empty has a least element. *)
LEMMA LeastExists ==
  ASSUME NEW T \in SUBSET Nat, T # {}
  PROVE  \E x \in T : \A y \in T : x <= y
  <1>1. PICK R : R = OpToRel(<, Nat)
    BY Zenon
  <1>2. R = {ss \in Nat \X Nat : ss[1] < ss[2]}
    BY Zenon, <1>1 DEF OpToRel
  <1>3. IsWellFoundedOn(R, Nat)
    BY Zenon, <1>1, NatLessThanWellFounded
  <1>4. PICK x \in T : \A y \in T : ~(<<y, x>> \in R)
    BY Zenon, <1>3, WFMin
  <1>5. \A y \in T : x <= y
    <2> TAKE y \in T
    <2>1. <<y, x>> \in Nat \X Nat /\ <<y, x>> \notin R
      BY Zenon, <1>4
    <2> QED BY <1>2, <2>1
  <1> QED BY Zenon, <1>5

LEMMA MinIsIn ==
  ASSUME NEW T \in SUBSET Nat, T # {}
  PROVE  Min(T) \in T
  BY Zenon, LeastExists DEF Min

(* Two positions less than a lap apart are different cells of the ring. *)
LEMMA CellsDiffer ==
  ASSUME NEW n \in Nat \ {0}, NEW a \in Nat, NEW b \in Nat, a < b, b - a < n
  PROVE  a % n # b % n
  <1>1. \A x \in Nat : x \div n \in Int /\ x % n \in Int /\ x = (n * (x \div n)) + (x % n)
    OBVIOUS
  <1>2. PICK r \in Int, q \in Int, p \in Int : r = a % n /\ q = a \div n /\ p = b \div n
    BY Zenon, <1>1
  <1> SUFFICES ASSUME b % n = r PROVE FALSE
    BY Zenon, <1>2
  <1>3. a = (n * q) + r /\ b = (n * p) + r
    BY Zenon, <1>1, <1>2
  <1>4. b - a = n * (p - q)
    BY <1>3
  <1>5. CASE p - q >= 1
    <2>1. n * (p - q) >= n
      BY <1>5
    <2> QED BY <1>4, <2>1
  <1>6. CASE p - q <= 0
    <2>1. n * (p - q) <= 0
      BY <1>6
    <2> QED BY <1>4, <2>1
  <1> QED BY <1>5, <1>6

-----------------------------------------------------------------------------
(* Where a process has a slot in hand, and where it has nothing of the ring. *)
Seated == {"look", "load", "identify", "rescan", "rescan2", "swap", "drop", "write", "ready",
           "supersede"}
Calm == {"idle", "look", "load", "reserve", "wait", "identify", "rescan", "rescan2", "fetch",
         "publish", "abort", "swap", "drop", "invalidate", "supersede"}
Places == Calm \cup {"write", "ready", "copy", "validate", "hit"}

(* The values of the variables. *)
KeyNames == DedupKeys \cup {"none"}
Payloads == [key : KeyNames, ver : Nat]
SlotValues ==
  [gen : Nat, state : {"EMPTY", "FETCHING", "PUBLISHING", "READY"}, key : KeyNames,
   len : {0, 1}, off : Nat, seq : Nat, old : BOOLEAN, wrote : Payloads]
ProcValues ==
  [pc : Places, key : KeyNames, s : DSlots \cup {0}, token : Nat, gen : Nat, off : Nat,
   seq : Nat, bytes : Payloads, want : Payloads, waited : BOOLEAN, newer : SUBSET DSlots]

DedupType ==
  /\ dslot \in [DSlots -> SlotValues]
  /\ cells \in [0..(Arena - 1) -> Payloads]
  /\ cursor \in Nat
  /\ proc \in [Procs -> ProcValues]
  /\ version \in [DedupKeys -> Nat]
  /\ overrun \in BOOLEAN

(* Position seq of the ring was allocated, at cell off; unless a publisher     *)
(* was overtaken or the ring has come round, the cell still holds val. *)
InRing(seq, off) == seq \in 1..cursor /\ off = (seq - 1) % Arena
Backed(seq, off, val) ==
  InRing(seq, off) /\ (~overrun /\ ~Lapped(seq) => cells[off] = val)

(* What a process relies on where it is. *)
ProcIsSound(p) ==
  LET me == proc[p] IN
  /\ me.pc \in Seated => me.s \in DSlots
  /\ me.pc # "idle" => me.key \in DedupKeys
  /\ me.pc = "write" => InRing(me.seq, me.off)
  /\ me.pc = "ready" => Backed(me.seq, me.off, me.bytes)
  /\ me.pc = "copy" => Backed(me.seq, me.off, me.want)
  /\ me.pc = "validate" => (~overrun /\ ~Lapped(me.seq) => me.bytes = me.want)
  /\ me.pc = "hit" => (~overrun => me.bytes = me.want)

(* A slot that a reader may copy from describes what the ring holds.  (A late  *)
(* Identify can meet a slot that is READY; it leaves a length of zero there.) *)
Readable(s) == dslot[s].state = "READY" /\ dslot[s].len = 1
SlotIsSound(s) ==
  Readable(s) => Backed(dslot[s].seq, dslot[s].off, dslot[s].wrote)

(* A position that is still to be written is nobody else's. *)
WritesAlone(p) ==
  proc[p].pc = "write" =>
    /\ \A s \in DSlots : Readable(s) => dslot[s].seq # proc[p].seq
    /\ \A q \in Procs \ {p} :
         proc[q].pc \in {"write", "ready", "copy"} => proc[q].seq # proc[p].seq

DedupInv ==
  /\ DedupType
  /\ \A p \in Procs : ProcIsSound(p) /\ WritesAlone(p)
  /\ \A s \in DSlots : SlotIsSound(s)

-----------------------------------------------------------------------------
LEMMA FindType ==
  ASSUME NodeDedupAssumption, DedupType, NEW k
  PROVE  Find(k) \in DSlots \cup {0}
  <1>1. PICK at : at = {s \in DSlots : dslot[s].state # "EMPTY" /\ dslot[s].key = k}
    BY Zenon
  <1>2. at \in SUBSET DSlots /\ at \in SUBSET Nat
    BY <1>1 DEF DSlots, NodeDedupAssumption
  <1>3. at # {} => Min(at) \in at
    BY Zenon, <1>2, MinIsIn
  <1>4. Find(k) = IF at = {} THEN 0 ELSE Min(at)
    BY Zenon, <1>1 DEF Find
  <1> QED BY Zenon, <1>2, <1>3, <1>4

(* A step of p that leaves the ring alone.  The other processes change at most *)
(* in the slots they take for old, and a slot a reader may copy from is one of *)
(* before; p is sound where it comes to, and it copies from such a slot. *)
Elsewhere(p) ==
  \A q \in Procs \ {p} :
    /\ proc'[q].pc = proc[q].pc /\ proc'[q].s = proc[q].s /\ proc'[q].key = proc[q].key
    /\ proc'[q].seq = proc[q].seq /\ proc'[q].off = proc[q].off
    /\ proc'[q].bytes = proc[q].bytes /\ proc'[q].want = proc[q].want

SlotsKept ==
  \A s \in DSlots : Readable(s)' =>
    /\ Readable(s) /\ dslot'[s].seq = dslot[s].seq
    /\ dslot'[s].off = dslot[s].off /\ dslot'[s].wrote = dslot[s].wrote

RingKept == UNCHANGED <<cells, cursor, overrun>>

CopiesFromSlot(p) ==
  proc'[p].pc = "copy" => \E s \in DSlots : Readable(s) /\ proc'[p].seq = dslot[s].seq

LEMMA QuietStep ==
  ASSUME DedupInv, NEW p \in Procs, RingKept, DedupType', Elsewhere(p), SlotsKept,
         ProcIsSound(p)', CopiesFromSlot(p), proc'[p].pc \notin {"write", "ready"}
  PROVE  DedupInv'
  <1>1. ASSUME NEW q \in Procs PROVE ProcIsSound(q)'
    <2>1. CASE q = p
      BY Zenon, <2>1
    <2>2. CASE q # p
      <3>1. ProcIsSound(q)
        BY Zenon DEF DedupInv
      <3> QED BY Zenon, <2>2, <3>1 DEF Elsewhere, ProcIsSound, RingKept, InRing, Backed, Lapped
    <2> QED BY Zenon, <2>1, <2>2
  <1>2. ASSUME NEW q \in Procs PROVE WritesAlone(q)'
    <2> SUFFICES ASSUME proc'[q].pc = "write"
                 PROVE  /\ \A s \in DSlots : Readable(s)' => dslot'[s].seq # proc'[q].seq
                        /\ \A r \in Procs \ {q} :
                             proc'[r].pc \in {"write", "ready", "copy"} =>
                               proc'[r].seq # proc'[q].seq
      BY Zenon DEF WritesAlone
    <2>1. q # p /\ proc[q].pc = "write" /\ proc'[q].seq = proc[q].seq
      BY Zenon DEF Elsewhere
    <2>2. WritesAlone(q)
      BY Zenon DEF DedupInv
    <2>3. \A s \in DSlots : Readable(s)' => dslot'[s].seq # proc'[q].seq
      BY Zenon, <2>1, <2>2 DEF SlotsKept, WritesAlone
    <2>4. ASSUME NEW r \in Procs \ {q}, proc'[r].pc \in {"write", "ready", "copy"}
          PROVE  proc'[r].seq # proc'[q].seq
      <3>1. CASE r = p
        BY Zenon, <2>1, <2>2, <2>4, <3>1 DEF CopiesFromSlot, WritesAlone
      <3>2. CASE r # p
        BY Zenon, <2>1, <2>2, <2>4, <3>2 DEF Elsewhere, WritesAlone
      <3> QED BY Zenon, <3>1, <3>2
    <2> QED BY Zenon, <2>3, <2>4
  <1>3. ASSUME NEW s \in DSlots PROVE SlotIsSound(s)'
    <2>1. SlotIsSound(s)
      BY Zenon DEF DedupInv
    <2> QED BY Zenon, <2>1 DEF SlotsKept, SlotIsSound, RingKept, Backed, InRing, Lapped
  <1> QED BY Zenon, <1>1, <1>2, <1>3 DEF DedupInv

Placed(r) ==
  /\ r.pc \in Calm /\ (r.pc \in Seated => r.s \in DSlots)
  /\ r.pc # "idle" => r.key \in DedupKeys

(* p goes on to record r, and nothing else changes but perhaps the slots. *)
LEMMA CalmStep ==
  ASSUME DedupInv, NEW p \in Procs, NEW r \in ProcValues, Becomes(p, r), Placed(r),
         RingKept, version' \in [DedupKeys -> Nat],
         dslot' \in [DSlots -> SlotValues], SlotsKept
  PROVE  DedupInv'
  <1>1. proc'[p] = r /\ \A q \in Procs \ {p} : proc'[q] = proc[q]
    BY Zenon DEF Becomes, DedupInv, DedupType
  <1>2. DedupType'
    BY Zenon DEF DedupInv, DedupType, Becomes, RingKept
  <1>3. Elsewhere(p)
    BY Zenon, <1>1 DEF Elsewhere
  <1>4. ProcIsSound(p)' /\ CopiesFromSlot(p) /\ proc'[p].pc \notin {"write", "ready"}
    BY Zenon, <1>1 DEF ProcIsSound, CopiesFromSlot, Calm, Placed
  <1> QED BY Zenon, <1>2, <1>3, <1>4, QuietStep

(* p stamps slot s and goes on to record r. *)
LEMMA StampEffect ==
  ASSUME DedupType, NEW p \in Procs, NEW s \in DSlots, NEW r \in ProcValues, Stamp(p, s, r)
  PROVE  proc' \in [Procs -> ProcValues] /\ proc'[p] = r /\ Elsewhere(p)
  <1>1. PICK late \in SUBSET {q \in Procs \ {p} : proc[q].pc # "idle"} :
          proc' = [q \in Procs |->
            IF q = p THEN r
            ELSE [proc[q] EXCEPT !.newer = IF q \in late THEN @ \cup {s} ELSE @ \ {s}]]
    BY Zenon DEF Stamp
  <1>2. proc \in [Procs -> ProcValues]
    BY Zenon DEF DedupType
  <1>3. proc'[p] = r
    BY Zenon, <1>1
  <1>4. ASSUME NEW q \in Procs \ {p}
        PROVE  /\ proc'[q] \in ProcValues
               /\ proc'[q].pc = proc[q].pc /\ proc'[q].s = proc[q].s /\ proc'[q].key = proc[q].key
               /\ proc'[q].seq = proc[q].seq /\ proc'[q].off = proc[q].off
               /\ proc'[q].bytes = proc[q].bytes /\ proc'[q].want = proc[q].want
    <2>1. PICK n \in SUBSET DSlots :
            n = IF q \in late THEN proc[q].newer \cup {s} ELSE proc[q].newer \ {s}
      BY Zenon, <1>2 DEF ProcValues
    <2>2. proc'[q] = [proc[q] EXCEPT !.newer = n]
      BY Zenon, <1>1, <2>1
    <2> QED BY <1>2, <2>2 DEF ProcValues
  <1>5. proc' \in [Procs -> ProcValues]
    BY Zenon, <1>1, <1>3, <1>4
  <1> QED BY Zenon, <1>3, <1>4, <1>5 DEF Elsewhere

LEMMA StampStep ==
  ASSUME DedupInv, NEW p \in Procs, NEW s \in DSlots, NEW r \in ProcValues, Stamp(p, s, r),
         Placed(r), RingKept, version' \in [DedupKeys -> Nat],
         dslot' \in [DSlots -> SlotValues], SlotsKept
  PROVE  DedupInv'
  <1>1. DedupType
    BY Zenon DEF DedupInv
  <1>2. proc' \in [Procs -> ProcValues] /\ proc'[p] = r /\ Elsewhere(p)
    BY Zenon, <1>1, StampEffect
  <1>3. DedupType'
    BY Zenon, <1>1, <1>2 DEF DedupType, RingKept
  <1>4. ProcIsSound(p)' /\ CopiesFromSlot(p) /\ proc'[p].pc \notin {"write", "ready"}
    BY Zenon, <1>2 DEF Placed, Calm, ProcIsSound, CopiesFromSlot
  <1> QED BY Zenon, <1>2, <1>3, <1>4, QuietStep

(* Slot s becomes d, which a reader may copy from only if s was so before. *)
LEMMA SlotStep ==
  ASSUME DedupType, NEW s \in DSlots, NEW d \in SlotValues, dslot' = [dslot EXCEPT ![s] = d],
         d.state = "READY" /\ d.len = 1 =>
           /\ dslot[s].state = "READY" /\ dslot[s].len = 1
           /\ d.seq = dslot[s].seq /\ d.off = dslot[s].off /\ d.wrote = dslot[s].wrote
  PROVE  dslot' \in [DSlots -> SlotValues] /\ SlotsKept
  <1>1. dslot'[s] = d /\ \A t \in DSlots \ {s} : dslot'[t] = dslot[t]
    BY Zenon DEF DedupType
  <1>2. dslot' \in [DSlots -> SlotValues]
    BY Zenon DEF DedupType
  <1>3. SlotsKept
    BY Zenon, <1>1 DEF SlotsKept, Readable
  <1> QED BY Zenon, <1>2, <1>3

(* The state of slot s is set, to what readers do not copy from. *)
LEMMA SetStateStep ==
  ASSUME DedupType, NEW s \in DSlots, NEW st \in {"EMPTY", "FETCHING", "PUBLISHING"},
         NEW n \in Nat, dslot' = [dslot EXCEPT ![s].gen = n, ![s].state = st]
  PROVE  dslot' \in [DSlots -> SlotValues] /\ SlotsKept
  <1>1. PICK d : d = [dslot[s] EXCEPT !.gen = n, !.state = st]
    BY Zenon
  <1>2. dslot[s] \in SlotValues
    BY Zenon DEF DedupType
  <1>3. d \in SlotValues /\ d.state = st
    BY Zenon, <1>1, <1>2 DEF SlotValues
  <1>4. dslot' = [dslot EXCEPT ![s] = d]
    BY Zenon, <1>1, <1>2
  <1> QED BY Zenon, <1>3, <1>4, SlotStep

LEMMA SlotsSame ==
  ASSUME DedupType, UNCHANGED dslot
  PROVE  dslot' \in [DSlots -> SlotValues] /\ SlotsKept
  BY Zenon DEF DedupType, SlotsKept, Readable

LEMMA ProcFacts ==
  ASSUME DedupInv, NEW p \in Procs
  PROVE  /\ DedupType /\ proc[p] \in ProcValues /\ ProcIsSound(p)
         /\ proc[p].pc \in Seated => proc[p].s \in DSlots
         /\ proc[p].pc # "idle" => proc[p].key \in DedupKeys
         /\ proc[p].s \in DSlots => dslot[proc[p].s] \in SlotValues
  BY Zenon DEF DedupInv, DedupType, ProcIsSound

-----------------------------------------------------------------------------
LEMMA ClaimStep ==
  ASSUME NodeDedupAssumption, DedupInv, NEW p \in Procs, NEW k \in DedupKeys, Claim(p, k)
  PROVE  DedupInv'
  <1>1. PICK f \in DSlots \cup {0} : f = Find(k)
    BY Zenon, FindType DEF DedupInv
  <1>2. PICK pc \in {"reserve", "look"} : pc = IF f = 0 THEN "reserve" ELSE "look"
    BY Zenon
  <1>3. PICK r : r = [proc[p] EXCEPT !.pc = pc, !.key = k, !.s = f]
    BY Zenon
  <1>4. Becomes(p, r) /\ UNCHANGED <<dslot, cells, cursor, version, overrun>>
    BY Zenon, <1>1, <1>2, <1>3 DEF Claim
  <1>5. r \in ProcValues /\ r.pc = pc /\ r.s = f /\ r.key = k
    <2>1. pc \in Places /\ k \in KeyNames
      BY Zenon DEF Places, Calm, KeyNames
    <2> QED BY Zenon, <1>3, <2>1, ProcFacts DEF ProcValues
  <1>6. Placed(r)
    BY Zenon, <1>1, <1>2, <1>5 DEF Calm, Seated, Placed
  <1> QED BY Zenon, <1>4, <1>5, <1>6, SlotsSame, CalmStep DEF DedupInv, DedupType, RingKept

(* p only moves to another place. *)
LEMMA GoesStep ==
  ASSUME DedupInv, NEW p \in Procs, NEW pc \in Calm, Goes(p, pc),
         pc \in Seated => proc[p].s \in DSlots, proc[p].pc # "idle",
         RingKept, UNCHANGED version,
         dslot' \in [DSlots -> SlotValues], SlotsKept
  PROVE  DedupInv'
  <1>1. PICK r : r = [proc[p] EXCEPT !.pc = pc]
    BY Zenon
  <1>2. pc \in Places
    BY Zenon DEF Places
  <1>3. r \in ProcValues /\ r.pc = pc /\ r.s = proc[p].s /\ r.key = proc[p].key
    BY Zenon, <1>1, <1>2, ProcFacts DEF ProcValues
  <1>4. Becomes(p, r) /\ Placed(r)
    BY Zenon, <1>1, <1>3, ProcFacts DEF Goes, Placed
  <1> QED BY Zenon, <1>3, <1>4, CalmStep DEF DedupInv, DedupType

LEMMA IdleProcType == IdleProc \in ProcValues /\ IdleProc.pc = "idle"
  <1>1. NoBytes \in Payloads /\ "none" \in KeyNames /\ "idle" \in Places
    BY Zenon DEF NoBytes, Payloads, KeyNames, Places, Calm
  <1> QED BY Zenon, <1>1 DEF IdleProc, ProcValues

LEMMA GoesIdleStep ==
  ASSUME DedupInv, NEW p \in Procs, GoesIdle(p), RingKept, UNCHANGED version,
         dslot' \in [DSlots -> SlotValues], SlotsKept
  PROVE  DedupInv'
  <1>1. Placed(IdleProc)
    BY Zenon, IdleProcType DEF Calm, Seated, Placed
  <1> QED BY Zenon, <1>1, IdleProcType, CalmStep DEF GoesIdle, DedupInv, DedupType

LEMMA LookStep ==
  ASSUME NodeDedupAssumption, DedupInv, NEW p \in Procs, Look(p)
  PROVE  DedupInv'
  <1>1. PICK s \in DSlots : s = proc[p].s
    BY Zenon, ProcFacts DEF Look, Seated
  <1>2. RingKept /\ UNCHANGED version /\ proc[p].pc = "look" /\ proc[p].s \in DSlots
    BY Zenon, <1>1 DEF Look, RingKept
  <1>3. CASE UNCHANGED dslot /\ \E pc \in {"reserve", "load", "wait"} : Goes(p, pc)
    <2>1. PICK pc \in {"reserve", "load", "wait"} : Goes(p, pc)
      BY Zenon, <1>3
    <2>2. pc \in Calm
      BY Zenon DEF Calm
    <2> QED BY Zenon, <1>2, <1>3, <2>1, <2>2, SlotsSame, GoesStep DEF DedupInv
  <1>4. CASE TakeOver(p, s) /\ dslot[s].state = "FETCHING"
    <2>1. PICK n \in Nat : n = dslot[s].gen + 2
      <3>1. dslot[s].gen \in Nat
        BY Zenon, <1>1, ProcFacts DEF SlotValues
      <3> QED BY SMTT(60), <3>1
    <2>2. PICK d : d = [dslot[s] EXCEPT !.gen = n, !.old = FALSE]
      BY Zenon
    <2>3. d \in SlotValues /\ d.state = "FETCHING"
      BY Zenon, <1>1, <1>4, <2>2, ProcFacts DEF SlotValues
    <2>4. dslot' = [dslot EXCEPT ![s] = d]
      BY Zenon, <1>4, <2>1, <2>2 DEF TakeOver
    <2>5. dslot' \in [DSlots -> SlotValues] /\ SlotsKept
      BY Zenon, <2>3, <2>4, SlotStep DEF DedupInv
    <2>6. PICK r : r = [proc[p] EXCEPT !.pc = "fetch", !.token = n]
      BY Zenon
    <2>7. r \in ProcValues /\ r.pc = "fetch" /\ r.key = proc[p].key
      <3>1. "fetch" \in Places
        BY Zenon DEF Places, Calm
      <3> QED BY Zenon, <2>6, <3>1, ProcFacts DEF ProcValues
    <2>8. Stamp(p, s, r)
      BY Zenon, <1>4, <2>1, <2>6 DEF TakeOver
    <2>9. Placed(r)
      BY Zenon, <1>2, <2>7, ProcFacts DEF Calm, Seated, Placed
    <2> QED BY Zenon, <1>2, <2>5, <2>7, <2>8, <2>9, StampStep DEF DedupInv, DedupType
  <1> QED BY Zenon, <1>1, <1>3, <1>4 DEF Look

LEMMA ReserveStep ==
  ASSUME NodeDedupAssumption, DedupInv, NEW p \in Procs, Reserve(p)
  PROVE  DedupInv'
  <1>1. PICK free : free = {s \in DSlots : \/ dslot[s].state = "EMPTY"
                                           \/ dslot[s].state = "READY" /\ Expired(p, s)}
    BY Zenon
  <1>2. RingKept /\ UNCHANGED version /\ proc[p].pc = "reserve"
    BY Zenon DEF Reserve, RingKept
  <1>3. "fetch" \in Places /\ "identify" \in Places /\ "fetch" \in Calm /\ "identify" \in Calm
        /\ "fetch" \notin Seated
    BY Zenon DEF Places, Calm, Seated
  <1>4. CASE free = {}
    <2>1. PICK r : r = [proc[p] EXCEPT !.pc = "fetch", !.token = 0]
      BY Zenon
    <2>2. Becomes(p, r) /\ UNCHANGED dslot
      BY Zenon, <1>1, <1>4, <2>1 DEF Reserve
    <2>3. r \in ProcValues /\ r.pc = "fetch" /\ r.key = proc[p].key
      BY Zenon, <1>3, <2>1, ProcFacts DEF ProcValues
    <2>4. Placed(r)
      BY Zenon, <1>2, <1>3, <2>3, ProcFacts DEF Placed
    <2> QED BY Zenon, <1>2, <2>4, <2>2, <2>3, SlotsSame, CalmStep DEF DedupInv, DedupType
  <1>5. CASE free # {}
    <2>1. PICK s \in DSlots : s = Min(free)
      <3>1. free \in SUBSET Nat /\ free \in SUBSET DSlots
        BY <1>1 DEF DSlots, NodeDedupAssumption
      <3> QED BY Zenon, <1>5, <3>1, MinIsIn
    <2>2. PICK r : r = [proc[p] EXCEPT !.pc = "identify", !.s = s]
      BY Zenon
    <2>3. Becomes(p, r) /\ dslot' = [dslot EXCEPT ![s].state = "FETCHING"]
      BY Zenon, <1>1, <1>5, <2>1, <2>2 DEF Reserve
    <2>4. r \in ProcValues /\ r.pc = "identify" /\ r.s = s /\ r.key = proc[p].key
      BY Zenon, <1>3, <2>2, ProcFacts DEF ProcValues
    <2>5. PICK d : d = [dslot[s] EXCEPT !.state = "FETCHING"]
      BY Zenon
    <2>6. d \in SlotValues /\ d.state = "FETCHING"
      BY Zenon, <2>5 DEF DedupInv, DedupType, SlotValues
    <2>7. dslot' = [dslot EXCEPT ![s] = d]
      BY Zenon, <2>3, <2>5
    <2>8. dslot' \in [DSlots -> SlotValues] /\ SlotsKept
      BY Zenon, <2>6, <2>7, SlotStep DEF DedupInv
    <2>9. Placed(r)
      BY Zenon, <1>2, <1>3, <2>4, ProcFacts DEF Placed
    <2> QED BY Zenon, <1>2, <2>3, <2>4, <2>8, <2>9, CalmStep DEF DedupInv, DedupType
  <1> QED BY Zenon, <1>4, <1>5

(* The slot of an Identify is not one readers copy from: its length is zero. *)
LEMMA IdentifyStep ==
  ASSUME NodeDedupAssumption, DedupInv, NEW p \in Procs, Identify(p)
  PROVE  DedupInv'
  <1>1. PICK s \in DSlots : s = proc[p].s
    BY Zenon, ProcFacts DEF Identify, Seated
  <1>2. RingKept /\ UNCHANGED version
    BY Zenon DEF Identify, RingKept
  <1>3. dslot[s] \in SlotValues /\ proc[p] \in ProcValues
    BY Zenon, <1>1, ProcFacts
  <1>4. PICK n \in Nat : n = dslot[s].gen + 2
    BY <1>3 DEF SlotValues
  <1>5. PICK d : d = [EmptySlot EXCEPT !.gen = n, !.state = dslot[s].state, !.key = proc[p].key]
    BY Zenon
  <1>6. d = [gen |-> n, state |-> dslot[s].state, key |-> proc[p].key, len |-> 0, off |-> 0,
             seq |-> 0, old |-> FALSE, wrote |-> NoBytes]
    BY Zenon, <1>5 DEF EmptySlot
  <1>7. NoBytes \in Payloads
    BY Zenon DEF NoBytes, Payloads, KeyNames
  <1>8. d \in SlotValues /\ d.len = 0
    <2>1. /\ dslot[s].state \in {"EMPTY", "FETCHING", "PUBLISHING", "READY"}
          /\ proc[p].key \in KeyNames
      BY Zenon, <1>3 DEF SlotValues, ProcValues
    <2> QED BY Zenon, <1>6, <1>7, <2>1 DEF SlotValues
  <1>9. dslot' = [dslot EXCEPT ![s] = d]
    BY Zenon, <1>1, <1>4, <1>5 DEF Identify
  <1>10. dslot' \in [DSlots -> SlotValues] /\ SlotsKept
    <2>1. DedupType /\ ~(d.state = "READY" /\ d.len = 1)
      BY <1>8 DEF DedupInv
    <2> QED BY ONLY Zenon, <1>8, <1>9, <2>1, SlotStep
  <1>11. PICK r : r = [proc[p] EXCEPT !.pc = "rescan"]
    BY Zenon
  <1>12. r \in ProcValues /\ r.pc = "rescan" /\ r.s = s /\ r.key = proc[p].key
    <2>1. "rescan" \in Places
      BY Zenon DEF Places, Calm
    <2> QED BY Zenon, <1>1, <1>3, <1>11, <2>1 DEF ProcValues
  <1>13. Stamp(p, s, r) /\ Placed(r)
    BY Zenon, <1>1, <1>11, <1>12, ProcFacts DEF Identify, Calm, Placed
  <1> QED BY Zenon, <1>2, <1>10, <1>12, <1>13, StampStep DEF DedupInv, DedupType

(* A compare-and-swap of slot s from FETCHING to a state no reader copies from. *)
LEMMA SwapStateStep ==
  ASSUME DedupType, NEW s \in DSlots, NEW st \in {"EMPTY", "PUBLISHING"},
         dslot' = [dslot EXCEPT ![s].state = IF @ = "FETCHING" THEN st ELSE @]
  PROVE  dslot' \in [DSlots -> SlotValues] /\ SlotsKept
  <1>1. dslot[s] \in SlotValues
    BY Zenon DEF DedupType
  <1>2. PICK d : d = [dslot[s] EXCEPT !.state = IF @ = "FETCHING" THEN st ELSE @]
    BY Zenon
  <1>3. CASE dslot[s].state = "FETCHING"
    <2>1. d = [dslot[s] EXCEPT !.state = st]
      BY Zenon, <1>2, <1>3
    <2>2. d \in SlotValues /\ d.state = st
      BY Zenon, <1>1, <2>1 DEF SlotValues
    <2>3. dslot' = [dslot EXCEPT ![s] = d]
      BY Zenon, <1>2
    <2> QED BY Zenon, <2>2, <2>3, SlotStep
  <1>4. CASE dslot[s].state # "FETCHING"
    <2>1. d = dslot[s]
      BY Zenon, <1>1, <1>2, <1>4 DEF SlotValues
    <2>2. dslot' = [dslot EXCEPT ![s] = d]
      BY Zenon, <1>2
    <2> QED BY Zenon, <1>1, <2>1, <2>2, SlotStep
  <1> QED BY Zenon, <1>3, <1>4

LEMMA RescanStep ==
  ASSUME NodeDedupAssumption, DedupInv, NEW p \in Procs, Rescan(p)
  PROVE  DedupInv'
  <1>1. PICK s \in DSlots : s = proc[p].s
    BY Zenon, ProcFacts DEF Rescan, Seated
  <1>2. RingKept /\ UNCHANGED version /\ proc[p].pc # "idle"
    BY Zenon DEF Rescan, RingKept
  <1>3. PICK first : first = Find(proc[p].key)
    BY Zenon
  <1>4. CASE first # 0 /\ first # s
    <2>1. /\ dslot' = [dslot EXCEPT ![s].state = IF @ = "FETCHING" THEN "EMPTY" ELSE @]
          /\ Goes(p, "wait")
      BY Zenon, <1>1, <1>3, <1>4 DEF Rescan
    <2>2. "wait" \in Calm /\ "wait" \notin Seated
      BY Zenon DEF Calm, Seated
    <2> QED BY Zenon, <1>2, <2>1, <2>2, SwapStateStep, GoesStep DEF DedupInv
  <1>5. CASE ~(first # 0 /\ first # s) /\ proc[p].pc = "rescan"
    <2>1. UNCHANGED dslot /\ Goes(p, "rescan2")
      BY Zenon, <1>1, <1>3, <1>5 DEF Rescan
    <2>2. "rescan2" \in Calm
      BY Zenon DEF Calm
    <2> QED BY Zenon, <1>1, <1>2, <2>1, <2>2, SlotsSame, GoesStep DEF DedupInv
  <1>6. CASE ~(first # 0 /\ first # s) /\ proc[p].pc # "rescan"
    <2>1. PICK n \in Nat : n = dslot[s].gen
      BY Zenon, <1>1, ProcFacts DEF SlotValues
    <2>2. PICK r : r = [proc[p] EXCEPT !.pc = "fetch", !.token = n]
      BY Zenon
    <2>3. UNCHANGED dslot /\ Becomes(p, r)
      BY Zenon, <1>1, <1>3, <1>6, <2>1, <2>2 DEF Rescan
    <2>4. "fetch" \in Places /\ "fetch" \in Calm /\ "fetch" \notin Seated
      BY Zenon DEF Places, Calm, Seated
    <2>5. r \in ProcValues /\ r.pc = "fetch" /\ r.key = proc[p].key
      BY Zenon, <2>2, <2>4, ProcFacts DEF ProcValues
    <2>6. Placed(r)
      BY Zenon, <1>2, <2>4, <2>5, ProcFacts DEF Placed
    <2> QED BY Zenon, <1>2, <2>3, <2>5, <2>6, SlotsSame, CalmStep DEF DedupInv, DedupType
  <1> QED BY Zenon, <1>4, <1>5, <1>6

LEMMA FetchStep ==
  ASSUME NodeDedupAssumption, DedupInv, NEW p \in Procs, Fetch(p)
  PROVE  DedupInv'
  <1>1. /\ RingKept /\ UNCHANGED <<version, dslot>> /\ proc[p] \in ProcValues
        /\ proc[p].key \in DedupKeys /\ proc[p].pc = "fetch"
    BY Zenon, ProcFacts DEF Fetch, RingKept
  <1>2. PICK b : b = [key |-> proc[p].key, ver |-> version[proc[p].key]]
    BY Zenon
  <1>3. b \in Payloads
    BY Zenon, <1>1, <1>2 DEF Payloads, KeyNames, DedupInv, DedupType
  <1>4. PICK r : r = [proc[p] EXCEPT !.pc = "publish", !.bytes = b]
    BY Zenon
  <1>5. "publish" \in Places /\ "publish" \in Calm /\ "publish" \notin Seated
    BY Zenon DEF Places, Calm, Seated
  <1>6. r \in ProcValues /\ r.pc = "publish" /\ r.key = proc[p].key
    BY Zenon, <1>1, <1>3, <1>4, <1>5 DEF ProcValues
  <1>7. Becomes(p, r) \/ Goes(p, "abort")
    BY Zenon, <1>2, <1>4 DEF Fetch
  <1>8. CASE Becomes(p, r)
    BY Zenon, <1>1, <1>5, <1>6, <1>8, SlotsSame, CalmStep DEF DedupInv, DedupType, Placed
  <1>9. CASE Goes(p, "abort")
    <2>1. "abort" \in Calm /\ "abort" \notin Seated
      BY Zenon DEF Calm, Seated
    <2> QED BY Zenon, <1>1, <1>9, <2>1, SlotsSame, GoesStep DEF DedupInv
  <1> QED BY Zenon, <1>7, <1>8, <1>9

LEMMA CheckTokenStep ==
  ASSUME NodeDedupAssumption, DedupInv, NEW p \in Procs, CheckToken(p)
  PROVE  DedupInv'
  <1>1. RingKept /\ UNCHANGED <<version, dslot>> /\ proc[p].pc \in {"publish", "abort"}
    BY Zenon DEF CheckToken, RingKept
  <1>2. CASE ~Owns(p)
    BY Zenon, <1>1, <1>2, SlotsSame, GoesIdleStep DEF CheckToken, DedupInv
  <1>3. CASE Owns(p)
    <2>1. PICK s \in DSlots : s = Find(proc[p].key)
      BY Zenon, <1>3, FindType DEF Owns, DedupInv
    <2>2. PICK pc \in {"swap", "drop"} :
            pc = IF proc[p].pc = "publish" THEN "swap" ELSE "drop"
      BY Zenon
    <2>3. PICK r : r = [proc[p] EXCEPT !.pc = pc, !.s = s]
      BY Zenon
    <2>4. Becomes(p, r)
      BY Zenon, <1>3, <2>1, <2>2, <2>3 DEF CheckToken
    <2>5. pc \in Places /\ pc \in Calm
      BY Zenon DEF Places, Calm
    <2>6. r \in ProcValues /\ r.pc = pc /\ r.s = s /\ r.key = proc[p].key
      BY Zenon, <2>3, <2>5, ProcFacts DEF ProcValues
    <2>7. Placed(r)
      BY Zenon, <1>1, <2>5, <2>6, ProcFacts DEF Placed
    <2> QED BY Zenon, <1>1, <2>4, <2>6, <2>7, SlotsSame, CalmStep DEF DedupInv, DedupType
  <1> QED BY Zenon, <1>2, <1>3

LEMMA AbortStep ==
  ASSUME DedupInv, NEW p \in Procs, Abort(p)
  PROVE  DedupInv'
  <1>1. PICK s \in DSlots : s = proc[p].s
    BY Zenon, ProcFacts DEF Abort, Seated
  <1>2. /\ RingKept /\ UNCHANGED version /\ GoesIdle(p)
        /\ dslot' = [dslot EXCEPT ![s].state = IF @ = "FETCHING" THEN "EMPTY" ELSE @]
    BY Zenon, <1>1 DEF Abort, RingKept
  <1> QED BY Zenon, <1>2, SwapStateStep, GoesIdleStep DEF DedupInv

LEMMA WaitStep ==
  ASSUME NodeDedupAssumption, DedupInv, NEW p \in Procs, Wait(p)
  PROVE  DedupInv'
  <1>1. RingKept /\ UNCHANGED <<version, dslot>> /\ proc[p].pc = "wait"
    BY Zenon DEF Wait, RingKept
  <1>2. CASE GoesIdle(p)
    BY Zenon, <1>1, <1>2, SlotsSame, GoesIdleStep DEF DedupInv
  <1>3. CASE ~GoesIdle(p)
    <2>1. PICK s \in DSlots : s = Find(proc[p].key)
      BY Zenon, <1>3, FindType DEF Wait, DedupInv
    <2>2. PICK r : r = [proc[p] EXCEPT !.pc = "load", !.s = s, !.waited = TRUE]
      BY Zenon
    <2>3. Becomes(p, r)
      BY Zenon, <1>3, <2>1, <2>2 DEF Wait
    <2>4. "load" \in Places /\ "load" \in Calm
      BY Zenon DEF Places, Calm
    <2>5. r \in ProcValues /\ r.pc = "load" /\ r.s = s /\ r.key = proc[p].key
      BY Zenon, <2>2, <2>4, ProcFacts DEF ProcValues
    <2>6. Placed(r)
      BY Zenon, <1>1, <2>4, <2>5, ProcFacts DEF Placed
    <2> QED BY Zenon, <1>1, <2>3, <2>5, <2>6, SlotsSame, CalmStep DEF DedupInv, DedupType
  <1> QED BY Zenon, <1>2, <1>3

LEMMA DeliverStep ==
  ASSUME DedupInv, NEW p \in Procs, Deliver(p)
  PROVE  DedupInv'
  BY Zenon, SlotsSame, GoesIdleStep DEF Deliver, DedupInv, RingKept

LEMMA BeginInvalidateStep ==
  ASSUME DedupInv, NEW p \in Procs, NEW k \in DedupKeys, BeginInvalidate(p, k)
  PROVE  DedupInv'
  <1>1. RingKept /\ UNCHANGED dslot
    BY Zenon DEF BeginInvalidate, RingKept
  <1>2. version' \in [DedupKeys -> Nat]
    <2>1. version \in [DedupKeys -> Nat] /\ version[k] + 1 \in Nat
      BY DEF DedupInv, DedupType
    <2> QED BY Zenon, <2>1 DEF BeginInvalidate
  <1>3. PICK r : r = [proc[p] EXCEPT !.pc = "invalidate", !.key = k]
    BY Zenon
  <1>4. Becomes(p, r)
    BY Zenon, <1>3 DEF BeginInvalidate
  <1>5. "invalidate" \in Places /\ "invalidate" \in Calm /\ "invalidate" \notin Seated
        /\ k \in KeyNames
    BY Zenon DEF Places, Calm, Seated, KeyNames
  <1>6. r \in ProcValues /\ r.pc = "invalidate" /\ r.key = k
    BY Zenon, <1>3, <1>5, ProcFacts DEF ProcValues
  <1>7. Placed(r)
    BY Zenon, <1>5, <1>6 DEF Placed
  <1> QED BY Zenon, <1>1, <1>2, <1>4, <1>6, <1>7, SlotsSame, CalmStep DEF DedupInv

LEMMA FindInvalidStep ==
  ASSUME NodeDedupAssumption, DedupInv, NEW p \in Procs, FindInvalid(p)
  PROVE  DedupInv'
  <1>1. RingKept /\ UNCHANGED <<version, dslot>> /\ proc[p].pc = "invalidate"
    BY Zenon DEF FindInvalid, RingKept
  <1>2. CASE Find(proc[p].key) = 0
    BY Zenon, <1>1, <1>2, SlotsSame, GoesIdleStep DEF FindInvalid, DedupInv
  <1>3. CASE Find(proc[p].key) # 0
    <2>1. PICK s \in DSlots : s = Find(proc[p].key)
      BY Zenon, <1>3, FindType DEF DedupInv
    <2>2. PICK r : r = [proc[p] EXCEPT !.pc = "supersede", !.s = s]
      BY Zenon
    <2>3. Becomes(p, r)
      BY Zenon, <1>3, <2>1, <2>2 DEF FindInvalid
    <2>4. "supersede" \in Places /\ "supersede" \in Calm
      BY Zenon DEF Places, Calm
    <2>5. r \in ProcValues /\ r.pc = "supersede" /\ r.s = s /\ r.key = proc[p].key
      BY ZenonT(60), <2>2, <2>4, ProcFacts DEF ProcValues
    <2>6. Placed(r)
      BY Zenon, <1>1, <2>4, <2>5, ProcFacts DEF Placed
    <2> QED BY Zenon, <1>1, <2>3, <2>5, <2>6, SlotsSame, CalmStep DEF DedupInv, DedupType
  <1> QED BY Zenon, <1>2, <1>3

LEMMA SupersedeStep ==
  ASSUME DedupInv, NEW p \in Procs, Supersede(p)
  PROVE  DedupInv'
  <1>1. PICK s \in DSlots : s = proc[p].s
    BY Zenon, ProcFacts DEF Supersede, Seated
  <1>2. RingKept /\ UNCHANGED version /\ proc[p].pc = "supersede"
    BY Zenon DEF Supersede, RingKept
  <1>3. CASE UNCHANGED dslot /\ GoesIdle(p)
    BY ZenonT(60), <1>2, <1>3, SlotsSame, GoesIdleStep DEF DedupInv
  <1>4. CASE UNCHANGED dslot /\ Goes(p, "invalidate")
    <2>1. "invalidate" \in Calm /\ "invalidate" \notin Seated
      BY Zenon DEF Calm, Seated
    <2> QED BY Zenon, <1>2, <1>4, <2>1, SlotsSame, GoesStep DEF DedupInv
  <1>5. CASE GoesIdle(p) /\ dslot' = [dslot EXCEPT ![s].gen = @ + 2, ![s].state = "EMPTY"]
    <2>1. PICK n \in Nat : n = dslot[s].gen + 2
      <3>1. dslot[s].gen \in Nat
        BY Zenon, <1>1, ProcFacts DEF SlotValues
      <3> QED BY <3>1
    <2>2. dslot' = [dslot EXCEPT ![s].gen = n, ![s].state = "EMPTY"]
      BY Zenon, <1>5, <2>1
    <2> QED BY ZenonT(60), <1>2, <1>5, <2>2, SetStateStep, GoesIdleStep DEF DedupInv
  <1> QED BY Zenon, <1>1, <1>3, <1>4, <1>5 DEF Supersede

-----------------------------------------------------------------------------
(* The steps that touch the ring. *)
LEMMA InRingCell ==
  ASSUME NodeDedupAssumption, DedupType, NEW seq, NEW off, InRing(seq, off)
  PROVE  seq \in Nat /\ seq - 1 \in Nat /\ off \in 0..(Arena - 1) /\ off \in Nat
  <1>1. seq \in 1..cursor /\ off = (seq - 1) % Arena /\ cursor \in Nat
    BY Zenon DEF InRing, DedupType
  <1>2. seq - 1 \in Nat
    BY <1>1
  <1>3. (seq - 1) % Arena \in 0..(Arena - 1)
    BY <1>2 DEF NodeDedupAssumption
  <1> QED BY <1>1, <1>2, <1>3 DEF NodeDedupAssumption

(* An allocation: what was lapped stays so, and nothing is overwritten. *)
LEMMA RingAdvances ==
  ASSUME DedupType, cursor' = cursor + 1, UNCHANGED <<cells, overrun>>,
         NEW seq, NEW off, NEW val, seq \in Nat
  PROVE  /\ InRing(seq, off) => InRing(seq, off)'
         /\ Lapped(seq) => Lapped(seq)'
         /\ Backed(seq, off, val) => Backed(seq, off, val)'
  <1>1. cursor \in Nat /\ Arena \in Nat
    BY Zenon, NodeDedupAssumption DEF DedupType
  <1>2. InRing(seq, off) => InRing(seq, off)'
    BY <1>1 DEF InRing
  <1>3. Lapped(seq) => Lapped(seq)'
    BY <1>1 DEF Lapped
  <1> QED BY Zenon, <1>2, <1>3 DEF Backed

(* A payload is written to the cell of position at: unless it comes a lap too   *)
(* late, which overrun records, no other position in the current lap is hurt. *)
LEMMA RingWritten ==
  ASSUME NodeDedupAssumption, DedupType, NEW at, NEW cell, InRing(at, cell), NEW b,
         cells' = [cells EXCEPT ![cell] = b], overrun' = (overrun \/ Lapped(at)),
         UNCHANGED cursor
  PROVE  /\ Backed(at, cell, b)'
         /\ \A seq, off, val : seq # at /\ Backed(seq, off, val) => Backed(seq, off, val)'
         /\ \A seq, off : (InRing(seq, off)' <=> InRing(seq, off))
  <1>1. at \in Nat /\ at - 1 \in Nat /\ cell \in 0..(Arena - 1) /\ cell = (at - 1) % Arena
    BY Zenon, InRingCell DEF InRing
  <1>2. \A seq, off : (InRing(seq, off)' <=> InRing(seq, off))
    BY Zenon DEF InRing
  <1>3. \A seq : Lapped(seq)' <=> Lapped(seq)
    BY Zenon DEF Lapped
  <1>4. cells'[cell] = b
    BY Zenon, <1>1 DEF DedupType
  <1>5. Backed(at, cell, b)'
    BY Zenon, <1>2, <1>4 DEF Backed
  <1>6. ASSUME NEW seq, NEW off, NEW val, seq # at, Backed(seq, off, val)
        PROVE  Backed(seq, off, val)'
    <2> SUFFICES ASSUME ~overrun', ~Lapped(seq)
                 PROVE  cells'[off] = val
      BY Zenon, <1>2, <1>3, <1>6 DEF Backed
    <2>1. ~overrun /\ ~Lapped(at) /\ cells[off] = val
      BY Zenon, <1>6 DEF Backed
    <2>2. InRing(seq, off)
      BY Zenon, <1>6 DEF Backed
    <2>3. /\ seq \in Nat /\ seq - 1 \in Nat /\ off \in 0..(Arena - 1)
          /\ off = (seq - 1) % Arena
      BY Zenon, <2>2, InRingCell DEF InRing
    <2>4. /\ cursor \in Nat /\ Arena \in Nat \ {0} /\ at <= cursor /\ seq <= cursor
          /\ cursor - seq <= Arena - 1 /\ cursor - at <= Arena - 1
      BY <1>1, <2>1, <2>2, <2>3 DEF Lapped, InRing, DedupType, NodeDedupAssumption
    <2>5. PICK x \in Nat, y \in Nat : x = seq - 1 /\ y = at - 1
      BY Zenon, <1>1, <2>3
    <2>6. x # y /\ x - y < Arena /\ y - x < Arena
      BY <1>1, <1>6, <2>3, <2>4, <2>5
    <2>7. x % Arena # y % Arena
      <3>1. CASE x < y
        BY Zenon, <2>4, <2>6, <3>1, CellsDiffer
      <3>2. CASE y < x
        BY Zenon, <2>4, <2>6, <3>2, CellsDiffer
      <3> QED BY <2>6, <3>1, <3>2
    <2>8. off # cell
      BY Zenon, <1>1, <2>3, <2>5, <2>7
    <2> QED BY Zenon, <2>1, <2>3, <2>8 DEF DedupType
  <1> QED BY Zenon, <1>2, <1>5, <1>6

(* What the invariant says of the positions in use. *)
LEMMA SeqTypes ==
  ASSUME DedupType
  PROVE  /\ \A q \in Procs : proc[q].seq \in Nat
         /\ \A s \in DSlots : dslot[s].seq \in Nat
  BY Zenon DEF DedupType, ProcValues, SlotValues

LEMMA SwapStep ==
  ASSUME NodeDedupAssumption, DedupInv, NEW p \in Procs, Swap(p)
  PROVE  DedupInv'
  <1>1. PICK s \in DSlots : s = proc[p].s
    BY Zenon, ProcFacts DEF Swap, Seated
  <1>2. UNCHANGED <<cells, version, overrun>> /\ proc[p].pc = "swap" /\ DedupType
    BY Zenon DEF Swap, DedupInv
  <1>3. CASE dslot[s].state # "FETCHING"
    <2>1. GoesIdle(p) /\ UNCHANGED <<dslot, cursor>>
      BY Zenon, <1>1, <1>3 DEF Swap
    <2> QED BY Zenon, <1>2, <2>1, SlotsSame, GoesIdleStep DEF RingKept
  <1>4. CASE dslot[s].state = "FETCHING"
    <2>1. PICK c \in Nat : c = cursor
      BY Zenon, <1>2 DEF DedupType
    <2>2. PICK o \in 0..(Arena - 1) : o = c % Arena
      BY DEF NodeDedupAssumption
    <2>3. o \in Nat /\ c + 1 \in Nat /\ o = ((c + 1) - 1) % Arena /\ c + 1 \in 1..(c + 1)
      BY <2>2 DEF NodeDedupAssumption
    <2>4. PICK r : r = [proc[p] EXCEPT !.pc = "write", !.off = o, !.seq = c + 1]
      BY Zenon
    <2>5. /\ Becomes(p, r) /\ cursor' = c + 1
          /\ dslot' = [dslot EXCEPT ![s].state = "PUBLISHING"]
      BY Zenon, <1>1, <1>4, <2>1, <2>2, <2>4 DEF Swap
    <2>6. /\ r \in ProcValues /\ r.pc = "write" /\ r.off = o /\ r.seq = c + 1
          /\ r.s = s /\ r.key = proc[p].key
      <3>1. "write" \in Places
        BY Zenon DEF Places
      <3> QED BY Zenon, <1>1, <2>3, <2>4, <3>1, ProcFacts DEF ProcValues
    <2>7. proc'[p] = r /\ \A q \in Procs \ {p} : proc'[q] = proc[q]
      BY Zenon, <2>5 DEF Becomes, DedupInv, DedupType
    <2>8. dslot' \in [DSlots -> SlotValues] /\ SlotsKept
      <3>1. dslot[s].gen \in Nat /\ dslot[s] \in SlotValues
        BY Zenon, <1>2 DEF DedupType, SlotValues
      <3>2. PICK d : d = [dslot[s] EXCEPT !.state = "PUBLISHING"]
        BY Zenon
      <3>3. d \in SlotValues /\ d.state = "PUBLISHING"
        BY Zenon, <3>1, <3>2 DEF SlotValues
      <3>4. dslot' = [dslot EXCEPT ![s] = d]
        BY Zenon, <2>5, <3>2
      <3> QED BY Zenon, <1>2, <3>3, <3>4, SlotStep
    <2>9. DedupType'
      <3>1. proc' \in [Procs -> ProcValues]
        BY Zenon, <1>2, <2>5, <2>6 DEF Becomes, DedupType
      <3> QED BY Zenon, <1>2, <2>3, <2>5, <2>8, <3>1 DEF DedupType
    <2>10. \A q \in Procs : proc[q].seq \in Nat
      BY Zenon, <1>2, SeqTypes
    <2>11. ASSUME NEW q \in Procs PROVE ProcIsSound(q)'
      <3>1. CASE q = p
        <4>1. proc'[p].seq \in 1..cursor' /\ proc'[p].off = (proc'[p].seq - 1) % Arena
          BY Zenon, <2>3, <2>5, <2>6, <2>7
        <4>2. proc[p].key \in DedupKeys
          <5>1. ProcIsSound(p)
            BY Zenon DEF DedupInv
          <5> QED BY Zenon, <1>2, <5>1 DEF ProcIsSound
        <4> QED BY Zenon, <2>6, <2>7, <3>1, <4>1, <4>2 DEF ProcIsSound, InRing
      <3>2. CASE q # p
        <4>1. ProcIsSound(q) /\ proc'[q] = proc[q]
          BY Zenon, <2>7, <3>2 DEF DedupInv
        <4>2. cursor' = cursor + 1 /\ proc[q].seq \in Nat
          BY Zenon, <2>1, <2>5, <2>10
        <4>3. PICK me : me = proc[q]
          BY Zenon
        <4>4. /\ InRing(me.seq, me.off) => InRing(me.seq, me.off)'
              /\ Lapped(me.seq) => Lapped(me.seq)'
              /\ Backed(me.seq, me.off, me.bytes) => Backed(me.seq, me.off, me.bytes)'
              /\ Backed(me.seq, me.off, me.want) => Backed(me.seq, me.off, me.want)'
          BY Zenon, <1>2, <4>2, <4>3, RingAdvances
        <4> QED BY ZenonT(60), <1>2, <4>1, <4>3, <4>4 DEF ProcIsSound
      <3> QED BY Zenon, <3>1, <3>2
    <2>12. ASSUME NEW x \in DSlots, Readable(x)' PROVE SlotIsSound(x)' /\ dslot'[x].seq <= c
      <3>1. SlotIsSound(x) /\ Readable(x) /\ dslot[x].seq \in Nat
        BY Zenon, <1>2, <2>8, <2>12, SeqTypes DEF DedupInv, SlotsKept
      <3>2. PICK d : d = dslot[x]
        BY Zenon
      <3>3. Backed(d.seq, d.off, d.wrote) /\ cursor' = cursor + 1
        BY Zenon, <2>1, <2>5, <3>1, <3>2 DEF SlotIsSound
      <3>4. Backed(d.seq, d.off, d.wrote)'
        BY Zenon, <1>2, <3>1, <3>2, <3>3, RingAdvances
      <3>5. dslot'[x].seq = d.seq /\ dslot'[x].off = d.off /\ dslot'[x].wrote = d.wrote
        BY Zenon, <2>8, <2>12, <3>2 DEF SlotsKept
      <3>6. d.seq <= c
        BY SMTT(60), <2>1, <3>3 DEF Backed, InRing
      <3> QED BY Zenon, <3>4, <3>5, <3>6 DEF SlotIsSound
    <2>13. \A x \in DSlots : SlotIsSound(x)'
      BY Zenon, <2>12 DEF SlotIsSound
    <2>14. ASSUME NEW q \in Procs, proc[q].pc \in {"write", "ready", "copy"}
           PROVE  proc[q].seq <= c
      <3>1. ProcIsSound(q)
        BY Zenon DEF DedupInv
      <3> QED BY <2>1, <2>14, <3>1 DEF ProcIsSound, Backed, InRing
    <2>15. ASSUME NEW q \in Procs PROVE WritesAlone(q)'
      <3>1. CASE q = p
        <4>1. \A x \in DSlots : Readable(x)' => dslot'[x].seq # c + 1
          BY SMTT(60), <2>9, <2>12, SeqTypes DEF DedupType, SlotValues
        <4>2. \A t \in Procs \ {p} :
                proc'[t].pc \in {"write", "ready", "copy"} => proc'[t].seq # c + 1
          BY SMTT(60), <2>7, <2>10, <2>14
        <4> QED BY Zenon, <2>6, <2>7, <3>1, <4>1, <4>2 DEF WritesAlone
      <3>2. CASE q # p
        <4> SUFFICES ASSUME proc'[q].pc = "write"
                     PROVE  /\ \A x \in DSlots : Readable(x)' => dslot'[x].seq # proc'[q].seq
                            /\ \A t \in Procs \ {q} :
                                 proc'[t].pc \in {"write", "ready", "copy"} =>
                                   proc'[t].seq # proc'[q].seq
          BY Zenon DEF WritesAlone
        <4>1. WritesAlone(q) /\ proc'[q] = proc[q] /\ proc[q].pc = "write"
          BY Zenon, <2>7, <3>2 DEF DedupInv
        <4>2. \A x \in DSlots : Readable(x)' => dslot'[x].seq # proc'[q].seq
          BY Zenon, <2>8, <4>1 DEF SlotsKept, WritesAlone
        <4>3. proc[q].seq # c + 1
          BY <2>10, <2>14, <4>1
        <4> QED BY Zenon, <2>6, <2>7, <4>1, <4>2, <4>3 DEF WritesAlone
      <3> QED BY Zenon, <3>1, <3>2
    <2> QED BY Zenon, <2>9, <2>11, <2>13, <2>15 DEF DedupInv
  <1> QED BY Zenon, <1>3, <1>4


LEMMA WriteStep ==
  ASSUME NodeDedupAssumption, DedupInv, NEW p \in Procs, Write(p)
  PROVE  DedupInv'
  <1>1. DedupType /\ proc[p] \in ProcValues /\ ProcIsSound(p) /\ WritesAlone(p)
    BY Zenon DEF DedupInv, DedupType
  <1>2. PICK me \in ProcValues : me = proc[p]
    BY Zenon, <1>1
  <1>3. /\ me.pc = "write" /\ InRing(me.seq, me.off) /\ me.s \in DSlots /\ me.key \in DedupKeys
    BY Zenon, <1>1, <1>2 DEF Write, ProcIsSound, Seated
  <1>4. /\ cells' = [cells EXCEPT ![me.off] = me.bytes]
        /\ overrun' = (overrun \/ Lapped(me.seq))
        /\ UNCHANGED <<dslot, cursor, version>>
    BY Zenon, <1>2 DEF Write
  <1>5. PICK r : r = [me EXCEPT !.pc = "ready"]
    BY Zenon
  <1>6. /\ r \in ProcValues /\ r.pc = "ready" /\ r.seq = me.seq /\ r.off = me.off
        /\ r.bytes = me.bytes /\ r.s = me.s /\ r.key = me.key
    <2>1. "ready" \in Places
      BY Zenon DEF Places
    <2> QED BY Zenon, <1>5, <2>1 DEF ProcValues
  <1>7. Becomes(p, r)
    BY Zenon, <1>2, <1>5 DEF Write, Goes
  <1>8. /\ proc' \in [Procs -> ProcValues] /\ proc'[p] = r
        /\ \A q \in Procs \ {p} : proc'[q] = proc[q]
    BY Zenon, <1>1, <1>6, <1>7 DEF Becomes, DedupType
  <1>9. /\ Backed(me.seq, me.off, me.bytes)'
        /\ \A seq, off, val : seq # me.seq /\ Backed(seq, off, val) => Backed(seq, off, val)'
        /\ \A seq, off : (InRing(seq, off)' <=> InRing(seq, off))
    BY Zenon, <1>1, <1>3, <1>4, RingWritten
  <1>10. DedupType'
    <2>1. me.off \in 0..(Arena - 1) /\ me.bytes \in Payloads
      BY Zenon, <1>1, <1>3, InRingCell DEF ProcValues
    <2>2. cells' \in [0..(Arena - 1) -> Payloads]
      BY Zenon, <1>1, <1>4, <2>1 DEF DedupType
    <2>3. overrun' \in BOOLEAN
      BY Zenon, <1>1, <1>4 DEF DedupType, Lapped
    <2> QED BY Zenon, <1>1, <1>4, <1>8, <2>2, <2>3 DEF DedupType
  <1>11. ASSUME NEW q \in Procs PROVE ProcIsSound(q)'
    <2>1. CASE q = p
      <3>1. /\ me.seq \in 1..cursor' /\ me.off = (me.seq - 1) % Arena
            /\ ~overrun' /\ ~Lapped(me.seq)' => cells'[me.off] = me.bytes
        BY Zenon, <1>9 DEF Backed, InRing
      <3> QED BY Zenon, <1>3, <1>6, <1>8, <2>1, <3>1 DEF ProcIsSound, Backed, InRing, Lapped
    <2>2. CASE q # p
      <3>1. PICK you : you = proc[q]
        BY Zenon
      <3>2. proc'[q] = you /\ ProcIsSound(q)
        BY Zenon, <1>8, <2>2, <3>1 DEF DedupInv
      <3>3. you.pc \in {"ready", "copy"} => you.seq # me.seq
        BY Zenon, <1>1, <1>2, <1>3, <2>2, <3>1 DEF WritesAlone
      <3>4. you.pc = "write" => InRing(you.seq, you.off)'
        BY ZenonT(60), <1>9, <3>1, <3>2 DEF ProcIsSound
      <3>5. you.pc = "ready" => Backed(you.seq, you.off, you.bytes)'
        BY Zenon, <1>9, <3>1, <3>2, <3>3 DEF ProcIsSound
      <3>6. you.pc = "copy" => Backed(you.seq, you.off, you.want)'
        BY Zenon, <1>9, <3>1, <3>2, <3>3 DEF ProcIsSound
      <3>7. /\ you.pc = "validate" => (~overrun' /\ ~Lapped(you.seq)' => you.bytes = you.want)
            /\ you.pc = "hit" => (~overrun' => you.bytes = you.want)
            /\ you.pc \in Seated => you.s \in DSlots
            /\ you.pc # "idle" => you.key \in DedupKeys
        BY Zenon, <1>4, <3>1, <3>2 DEF ProcIsSound, Lapped
      <3> QED BY Zenon, <3>2, <3>4, <3>5, <3>6, <3>7 DEF ProcIsSound
    <2> QED BY Zenon, <2>1, <2>2
  <1>12. ASSUME NEW x \in DSlots PROVE SlotIsSound(x)'
    <2>1. SlotIsSound(x) /\ (Readable(x)' => Readable(x))
      BY Zenon, <1>4 DEF DedupInv, Readable
    <2>2. Readable(x) => dslot[x].seq # me.seq
      BY Zenon, <1>1, <1>2, <1>3 DEF WritesAlone
    <2>3. PICK d : d = dslot[x]
      BY Zenon
    <2>4. Readable(x) => Backed(d.seq, d.off, d.wrote)'
      BY Zenon, <1>9, <2>1, <2>2, <2>3 DEF SlotIsSound
    <2> QED BY Zenon, <1>4, <2>1, <2>3, <2>4 DEF SlotIsSound
  <1>13. ASSUME NEW q \in Procs PROVE WritesAlone(q)'
    <2> SUFFICES ASSUME proc'[q].pc = "write"
                 PROVE  /\ \A x \in DSlots : Readable(x)' => dslot'[x].seq # proc'[q].seq
                        /\ \A t \in Procs \ {q} :
                             proc'[t].pc \in {"write", "ready", "copy"} =>
                               proc'[t].seq # proc'[q].seq
      BY Zenon DEF WritesAlone
    <2>1. q # p /\ proc'[q] = proc[q] /\ proc[q].pc = "write" /\ WritesAlone(q)
      BY Zenon, <1>6, <1>8 DEF DedupInv
    <2>2. \A x \in DSlots : Readable(x)' => dslot'[x].seq # proc'[q].seq
      BY Zenon, <1>4, <2>1 DEF WritesAlone, Readable
    <2>3. \A t \in Procs : proc'[t].seq = proc[t].seq
      BY Zenon, <1>2, <1>6, <1>8
    <2>4. \A t \in Procs : proc'[t].pc \in {"write", "ready", "copy"}
                             => proc[t].pc \in {"write", "ready", "copy"}
      BY Zenon, <1>2, <1>3, <1>8
    <2> QED BY Zenon, <2>1, <2>2, <2>3, <2>4 DEF WritesAlone
  <1> QED BY Zenon, <1>10, <1>11, <1>12, <1>13 DEF DedupInv

LEMMA ReadyStep ==
  ASSUME NodeDedupAssumption, DedupInv, NEW p \in Procs, Ready(p)
  PROVE  DedupInv'
  <1>1. DedupType /\ proc[p] \in ProcValues /\ ProcIsSound(p)
    BY Zenon, ProcFacts
  <1>2. PICK me \in ProcValues : me = proc[p]
    BY Zenon, <1>1
  <1>3. me.pc = "ready" /\ Backed(me.seq, me.off, me.bytes) /\ me.s \in DSlots
    BY Zenon, <1>1, <1>2 DEF Ready, ProcIsSound, Seated
  <1>4. PICK s \in DSlots : s = me.s
    BY Zenon, <1>3
  <1>5. PICK d : d = [dslot[s] EXCEPT !.gen = @ + 2, !.state = "READY", !.len = 1,
                        !.off = me.off, !.seq = me.seq, !.old = FALSE, !.wrote = me.bytes]
    BY Zenon
  <1>6. /\ dslot' = [dslot EXCEPT ![s] = d] /\ Stamp(p, s, IdleProc)
        /\ UNCHANGED <<cells, cursor, version, overrun>>
    BY Zenon, <1>2, <1>4, <1>5 DEF Ready
  <1>7. d \in SlotValues /\ d.seq = me.seq /\ d.off = me.off /\ d.wrote = me.bytes
    <2>1. dslot[s] \in SlotValues
      BY Zenon, <1>1 DEF DedupType
    <2>2. dslot[s].gen + 2 \in Nat
      BY SMTT(60), <2>1 DEF SlotValues
    <2> QED BY Zenon, <1>5, <2>1, <2>2 DEF SlotValues, ProcValues
  <1>8. proc' \in [Procs -> ProcValues] /\ proc'[p] = IdleProc /\ Elsewhere(p)
    BY Zenon, <1>1, <1>6, IdleProcType, StampEffect
  <1>9. dslot'[s] = d /\ \A x \in DSlots \ {s} : dslot'[x] = dslot[x]
    BY Zenon, <1>1, <1>6 DEF DedupType
  <1>10. DedupType'
    BY Zenon, <1>1, <1>6, <1>7, <1>8 DEF DedupType
  <1>11. \A seq, off, val : Backed(seq, off, val) <=> Backed(seq, off, val)'
    BY Zenon, <1>6 DEF Backed, InRing, Lapped
  <1>12. ASSUME NEW q \in Procs PROVE ProcIsSound(q)'
    <2>1. CASE q = p
      BY Zenon, <1>8, <2>1, IdleProcType DEF ProcIsSound, Seated
    <2>2. CASE q # p
      <3>1. ProcIsSound(q)
        BY Zenon DEF DedupInv
      <3> QED BY Zenon, <1>6, <1>8, <2>2, <3>1
              DEF Elsewhere, ProcIsSound, InRing, Backed, Lapped
    <2> QED BY Zenon, <2>1, <2>2
  <1>13. ASSUME NEW x \in DSlots PROVE SlotIsSound(x)'
    <2>1. CASE x = s
      <3>1. Backed(d.seq, d.off, d.wrote)'
        BY Zenon, <1>3, <1>7, <1>11
      <3> QED BY Zenon, <1>9, <2>1, <3>1 DEF SlotIsSound
    <2>2. CASE x # s
      <3>1. SlotIsSound(x) /\ dslot'[x] = dslot[x]
        BY Zenon, <1>9, <2>2 DEF DedupInv
      <3> QED BY Zenon, <1>11, <3>1 DEF SlotIsSound, Readable
    <2> QED BY Zenon, <2>1, <2>2
  <1>14. ASSUME NEW q \in Procs PROVE WritesAlone(q)'
    <2> SUFFICES ASSUME proc'[q].pc = "write"
                 PROVE  /\ \A x \in DSlots : Readable(x)' => dslot'[x].seq # proc'[q].seq
                        /\ \A t \in Procs \ {q} :
                             proc'[t].pc \in {"write", "ready", "copy"} =>
                               proc'[t].seq # proc'[q].seq
      BY Zenon DEF WritesAlone
    <2>1. /\ q # p /\ proc'[q].pc = proc[q].pc /\ proc'[q].seq = proc[q].seq
          /\ WritesAlone(q) /\ proc[q].pc = "write"
      BY Zenon, <1>8, IdleProcType DEF DedupInv, Elsewhere
    <2>2. me.seq # proc[q].seq
      BY Zenon, <1>2, <1>3, <2>1 DEF WritesAlone
    <2>3. \A x \in DSlots : Readable(x)' => dslot'[x].seq # proc'[q].seq
      BY Zenon, <1>7, <1>9, <2>1, <2>2 DEF WritesAlone, Readable
    <2>4. ASSUME NEW t \in Procs \ {q}, proc'[t].pc \in {"write", "ready", "copy"}
          PROVE  proc'[t].seq # proc'[q].seq
      <3>1. t # p
        BY Zenon, <1>8, <2>4, IdleProcType
      <3> QED BY Zenon, <1>8, <2>1, <2>4, <3>1 DEF Elsewhere, WritesAlone
    <2> QED BY Zenon, <2>3, <2>4
  <1> QED BY Zenon, <1>10, <1>12, <1>13, <1>14 DEF DedupInv


-----------------------------------------------------------------------------
(* CopyOut. *)
LEMMA CopyFailsStep ==
  ASSUME DedupInv, NEW p \in Procs, CopyFails(p), proc[p].pc # "idle",
         UNCHANGED <<dslot, cells, cursor, version, overrun>>
  PROVE  DedupInv'
  <1>1. PICK pc \in Calm : Goes(p, pc) /\ pc \notin Seated
    <2>1. {"wait", "reserve"} \subseteq Calm /\ "wait" \notin Seated /\ "reserve" \notin Seated
      BY Zenon DEF Calm, Seated
    <2> QED BY Zenon, <2>1 DEF CopyFails
  <1>2. DedupType
    BY Zenon DEF DedupInv
  <1>3. dslot' \in [DSlots -> SlotValues] /\ SlotsKept
    BY Zenon, <1>2, SlotsSame
  <1> QED BY Zenon, <1>1, <1>3, GoesStep DEF RingKept

(* p goes on to record r, beside the slots and the ring. *)
LEMMA ReaderStep ==
  ASSUME DedupInv, NEW p \in Procs, NEW r \in ProcValues, Becomes(p, r),
         UNCHANGED <<dslot, cells, cursor, version, overrun>>,
         ProcIsSound(p)', CopiesFromSlot(p), r.pc \notin {"write", "ready"}
  PROVE  DedupInv'
  <1>1. proc'[p] = r /\ \A q \in Procs \ {p} : proc'[q] = proc[q]
    BY Zenon DEF Becomes, DedupInv, DedupType
  <1>2. DedupType'
    BY Zenon DEF DedupInv, DedupType, Becomes
  <1>3. Elsewhere(p)
    BY Zenon, <1>1 DEF Elsewhere
  <1>4. SlotsKept
    BY Zenon, SlotsSame DEF DedupInv
  <1> QED BY Zenon, <1>1, <1>2, <1>3, <1>4, QuietStep DEF RingKept

LEMMA LoadStep ==
  ASSUME NodeDedupAssumption, DedupInv, NEW p \in Procs, Load(p)
  PROVE  DedupInv'
  <1>1. /\ DedupType /\ proc[p] \in ProcValues /\ proc[p].pc = "load"
        /\ proc[p].s \in DSlots /\ proc[p].key \in DedupKeys
    BY Zenon, ProcFacts DEF Load, Seated
  <1>2. PICK s \in DSlots : s = proc[p].s
    BY Zenon, <1>1
  <1>3. PICK d \in SlotValues : d = dslot[s]
    BY Zenon, <1>1 DEF DedupType
  <1>4. UNCHANGED <<dslot, cells, cursor, version, overrun>>
    BY Zenon DEF Load
  <1>5. CASE d.state # "READY" \/ d.len # 1 \/ Lapped(d.seq)
    <2>1. CopyFails(p)
      BY Zenon, <1>2, <1>3, <1>5 DEF Load
    <2> QED BY Zenon, <1>1, <1>4, <2>1, CopyFailsStep
  <1>6. CASE d.state = "READY" /\ d.len = 1 /\ ~Lapped(d.seq)
    <2>1. PICK r : r = [proc[p] EXCEPT !.pc = "copy", !.gen = d.gen, !.off = d.off,
                                       !.seq = d.seq, !.want = d.wrote]
      BY Zenon
    <2>2. Becomes(p, r)
      BY Zenon, <1>2, <1>3, <1>6, <2>1 DEF Load
    <2>3. /\ r \in ProcValues /\ r.pc = "copy" /\ r.off = d.off /\ r.seq = d.seq
          /\ r.want = d.wrote /\ r.key = proc[p].key
      <3>1. "copy" \in Places
        BY Zenon DEF Places
      <3> QED BY Zenon, <1>1, <2>1, <3>1 DEF ProcValues, SlotValues
    <2>4. proc'[p] = r
      BY Zenon, <1>1, <2>2 DEF Becomes, DedupType
    <2>5. Readable(s) /\ SlotIsSound(s)
      BY Zenon, <1>3, <1>6 DEF Readable, DedupInv
    <2>6. Backed(d.seq, d.off, d.wrote)
      BY Zenon, <1>3, <2>5 DEF SlotIsSound
    <2>7. ProcIsSound(p)'
      BY Zenon, <1>1, <1>4, <2>3, <2>4, <2>6 DEF ProcIsSound, Backed, InRing, Lapped, Seated
    <2>8. CopiesFromSlot(p)
      BY Zenon, <1>3, <2>3, <2>4, <2>5 DEF CopiesFromSlot
    <2> QED BY Zenon, <1>4, <2>2, <2>3, <2>7, <2>8, ReaderStep
  <1> QED BY Zenon, <1>5, <1>6

LEMMA CopyStep ==
  ASSUME NodeDedupAssumption, DedupInv, NEW p \in Procs, Copy(p)
  PROVE  DedupInv'
  <1>1. PICK me \in ProcValues : me = proc[p]
    BY Zenon, ProcFacts
  <1>2. DedupType /\ ProcIsSound(p) /\ me.pc = "copy" /\ me.key \in DedupKeys
    BY Zenon, <1>1, ProcFacts DEF Copy
  <1>3. UNCHANGED <<dslot, cells, cursor, version, overrun>>
    BY Zenon DEF Copy
  <1>4. Backed(me.seq, me.off, me.want)
    BY Zenon, <1>1, <1>2 DEF ProcIsSound
  <1>5. PICK b \in Payloads : b = cells[me.off]
    <2>1. me.off \in 0..(Arena - 1)
      BY Zenon, <1>2, <1>4, InRingCell DEF Backed
    <2> QED BY Zenon, <1>2, <2>1 DEF DedupType
  <1>6. PICK r : r = [me EXCEPT !.pc = "validate", !.bytes = b]
    BY Zenon
  <1>7. Becomes(p, r)
    BY Zenon, <1>1, <1>5, <1>6 DEF Copy
  <1>8. /\ r \in ProcValues /\ r.pc = "validate" /\ r.bytes = b /\ r.seq = me.seq
        /\ r.want = me.want /\ r.key = me.key
    <2>1. "validate" \in Places
      BY Zenon DEF Places
    <2> QED BY Zenon, <1>6, <2>1 DEF ProcValues
  <1>9. proc'[p] = r
    BY Zenon, <1>2, <1>7 DEF Becomes, DedupType
  <1>10. ~overrun /\ ~Lapped(me.seq) => b = me.want
    BY Zenon, <1>4, <1>5 DEF Backed
  <1>11. ProcIsSound(p)' /\ CopiesFromSlot(p)
    BY Zenon, <1>2, <1>3, <1>8, <1>9, <1>10 DEF ProcIsSound, Lapped, Seated, CopiesFromSlot
  <1> QED BY Zenon, <1>3, <1>7, <1>8, <1>11, ReaderStep

LEMMA ValidateStep ==
  ASSUME NodeDedupAssumption, DedupInv, NEW p \in Procs, Validate(p)
  PROVE  DedupInv'
  <1>1. PICK me \in ProcValues : me = proc[p]
    BY Zenon, ProcFacts
  <1>2. DedupType /\ ProcIsSound(p) /\ me.pc = "validate" /\ me.key \in DedupKeys
    BY ZenonT(60), <1>1, ProcFacts DEF Validate
  <1>3. UNCHANGED <<dslot, cells, cursor, version, overrun>>
    BY ZenonT(60) DEF Validate
  <1>4. CASE ~StillValid(p)
    <2>1. CopyFails(p)
      BY Zenon, <1>4 DEF Validate
    <2> QED BY ZenonT(60), <1>1, <1>2, <1>3, <2>1, CopyFailsStep
  <1>5. CASE StillValid(p)
    <2>1. PICK r : r = [me EXCEPT !.pc = "hit"]
      BY Zenon
    <2>2. Becomes(p, r)
      BY Zenon, <1>1, <1>5, <2>1 DEF Validate, Goes
    <2>3. r \in ProcValues /\ r.pc = "hit" /\ r.bytes = me.bytes /\ r.want = me.want /\ r.key = me.key
      <3>1. "hit" \in Places
        BY Zenon DEF Places
      <3> QED BY Zenon, <2>1, <3>1 DEF ProcValues
    <2>4. proc'[p] = r
      BY Zenon, <1>2, <2>2 DEF Becomes, DedupType
    <2>5. ~overrun => me.bytes = me.want
      BY Zenon, <1>1, <1>2, <1>5 DEF StillValid, ProcIsSound
    <2>6. ProcIsSound(p)' /\ CopiesFromSlot(p)
      BY Zenon, <1>2, <1>3, <2>3, <2>4, <2>5 DEF ProcIsSound, Seated, CopiesFromSlot
    <2> QED BY Zenon, <1>3, <2>2, <2>3, <2>6, ReaderStep
  <1> QED BY Zenon, <1>4, <1>5

-----------------------------------------------------------------------------
(* Nothing but the age of a slot changes. *)
LEMMA AgeStep ==
  ASSUME DedupInv, NEW s \in DSlots, Age(s)
  PROVE  DedupInv'
  <1>1. DedupType /\ UNCHANGED <<cells, cursor, proc, version, overrun>>
    BY Zenon DEF DedupInv, Age
  <1>2. PICK d : d = [dslot[s] EXCEPT !.old = TRUE]
    BY Zenon
  <1>3. /\ d \in SlotValues /\ d.state = dslot[s].state /\ d.len = dslot[s].len
        /\ d.seq = dslot[s].seq /\ d.off = dslot[s].off /\ d.wrote = dslot[s].wrote
    BY Zenon, <1>1, <1>2 DEF DedupType, SlotValues
  <1>4. dslot' = [dslot EXCEPT ![s] = d]
    BY Zenon, <1>2 DEF Age
  <1>5. dslot' \in [DSlots -> SlotValues] /\ SlotsKept
    BY Zenon, <1>1, <1>3, <1>4, SlotStep
  <1>6. DedupType'
    BY Zenon, <1>1, <1>5 DEF DedupType
  <1>7. ASSUME NEW p \in Procs PROVE ProcIsSound(p)' /\ WritesAlone(p)'
    <2>1. ProcIsSound(p) /\ WritesAlone(p)
      BY Zenon DEF DedupInv
    <2>2. ProcIsSound(p)'
      BY ZenonT(60), <1>1, <2>1 DEF ProcIsSound, Backed, InRing, Lapped
    <2>3. WritesAlone(p)'
      BY ZenonT(60), <1>1, <1>5, <2>1 DEF WritesAlone, SlotsKept
    <2> QED BY Zenon, <2>2, <2>3
  <1>8. ASSUME NEW x \in DSlots PROVE SlotIsSound(x)'
    <2>1. SlotIsSound(x)
      BY Zenon DEF DedupInv
    <2> QED BY Zenon, <1>1, <1>5, <2>1 DEF SlotIsSound, SlotsKept, Backed, InRing, Lapped
  <1> QED BY Zenon, <1>6, <1>7, <1>8 DEF DedupInv

LEMMA DedupInitHolds ==
  ASSUME NodeDedupAssumption, NodeDedupInit
  PROVE  DedupInv
  <1>1. NoBytes \in Payloads
    BY Zenon DEF NoBytes, Payloads, KeyNames
  <1>2. EmptySlot \in SlotValues /\ EmptySlot.state = "EMPTY"
    BY Zenon, <1>1 DEF EmptySlot, SlotValues, KeyNames
  <1>3. DedupType
    BY Zenon, <1>1, <1>2, IdleProcType DEF NodeDedupInit, DedupType
  <1>4. \A p \in Procs : proc[p] = IdleProc
    BY Zenon DEF NodeDedupInit
  <1>5. \A s \in DSlots : ~Readable(s)
    BY Zenon, <1>2 DEF NodeDedupInit, Readable
  <1> QED BY Zenon, <1>3, <1>4, <1>5, IdleProcType
        DEF DedupInv, ProcIsSound, Seated, WritesAlone, SlotIsSound

LEMMA DedupNextHolds ==
  ASSUME NodeDedupAssumption, DedupInv, [NodeDedupNext]_dedupVars
  PROVE  DedupInv'
  <1>1. CASE UNCHANGED dedupVars
    BY ZenonT(60), <1>1
    DEF dedupVars, DedupInv, DedupType, ProcIsSound, WritesAlone, SlotIsSound,
                Readable, Backed, InRing, Lapped
  <1>2. ASSUME NEW p \in Procs, NEW k \in DedupKeys, Claim(p, k) PROVE DedupInv'
    BY Zenon, <1>2, ClaimStep
  <1>3. ASSUME NEW p \in Procs, NEW k \in DedupKeys, BeginInvalidate(p, k) PROVE DedupInv'
    BY Zenon, <1>3, BeginInvalidateStep
  <1>4. ASSUME NEW p \in Procs,
               \/ Look(p) \/ Reserve(p) \/ Identify(p) \/ Rescan(p) \/ Fetch(p)
               \/ CheckToken(p) \/ Abort(p) \/ Swap(p) \/ Write(p) \/ Ready(p)
               \/ Wait(p) \/ Load(p) \/ Copy(p) \/ Validate(p) \/ Deliver(p)
               \/ FindInvalid(p) \/ Supersede(p)
        PROVE  DedupInv'
    <2>1. CASE Look(p)         BY Zenon, <2>1, LookStep
    <2>2. CASE Reserve(p)      BY Zenon, <2>2, ReserveStep
    <2>3. CASE Identify(p)     BY Zenon, <2>3, IdentifyStep
    <2>4. CASE Rescan(p)       BY Zenon, <2>4, RescanStep
    <2>5. CASE Fetch(p)        BY Zenon, <2>5, FetchStep
    <2>6. CASE CheckToken(p)   BY Zenon, <2>6, CheckTokenStep
    <2>7. CASE Abort(p)        BY SMTT(60), <2>7, AbortStep
    <2>8. CASE Swap(p)         BY Zenon, <2>8, SwapStep
    <2>9. CASE Write(p)        BY Zenon, <2>9, WriteStep
    <2>10. CASE Ready(p)       BY Zenon, <2>10, ReadyStep
    <2>11. CASE Wait(p)        BY Zenon, <2>11, WaitStep
    <2>12. CASE Load(p)        BY Zenon, <2>12, LoadStep
    <2>13. CASE Copy(p)        BY Zenon, <2>13, CopyStep
    <2>14. CASE Validate(p)    BY Zenon, <2>14, ValidateStep
    <2>15. CASE Deliver(p)     BY Zenon, <2>15, DeliverStep
    <2>16. CASE FindInvalid(p) BY Zenon, <2>16, FindInvalidStep
    <2>17. CASE Supersede(p)   BY Zenon, <2>17, SupersedeStep
    <2> QED BY Zenon, <1>4, <2>1, <2>2, <2>3, <2>4, <2>5, <2>6, <2>7, <2>8, <2>9, <2>10, <2>11,
               <2>12, <2>13, <2>14, <2>15, <2>16, <2>17
  <1>5. ASSUME NEW s \in DSlots, Age(s) PROVE DedupInv'
    BY Zenon, <1>5, AgeStep
  <1> QED BY Zenon, <1>1, <1>2, <1>3, <1>4, <1>5 DEF NodeDedupNext

(* A hit is never torn.  A position of the ring belongs to one publisher until  *)
(* it is written, positions less than a lap apart are different cells, and      *)
(* CopyOut asks after the copy whether the ring has come round: what it returns *)
(* are then the bytes that were published in the slot it read. *)
THEOREM HitIsNeverTorn == NodeDedupSpec => []HitIsNotTorn
  <1>1. NodeDedupInit => DedupInv
    BY Zenon, NodeDedupAssumption, DedupInitHolds
  <1>2. DedupInv /\ [NodeDedupNext]_dedupVars => DedupInv'
    BY Zenon, NodeDedupAssumption, DedupNextHolds
  <1>3. DedupInv => HitIsNotTorn
    BY Zenon DEF DedupInv, ProcIsSound, HitIsNotTorn
  <1> QED BY <1>1, <1>2, <1>3, PTL DEF NodeDedupSpec

---------------------------------------------------------------------------
(* Integer division, as the wheel's buckets use it.                        *)

\* Division with remainder.
LEMMA DivMod ==
  ASSUME NEW x \in Int, NEW n \in Nat \ {0}
  PROVE  /\ x \div n \in Int /\ x % n \in 0..(n - 1)
         /\ x = n * (x \div n) + (x % n)
  BY Z3

\* The remainder is determined by its bounds.
LEMMA ModUnique ==
  ASSUME NEW n \in Nat \ {0}, NEW p \in Int, NEW r \in 0..(n - 1)
  PROVE  (n * p + r) % n = r
  BY Z3T(30)

\* A later second is in the same tick of the wheel or in a later one.
LEMMA DivMono ==
  ASSUME NEW x \in Int, NEW y \in Int, NEW n \in Nat \ {0}, x <= y
  PROVE  x \div n <= y \div n
  <1> DEFINE p == x \div n
             q == y \div n
  <1>1. x = n * p + (x % n) /\ y = n * q + (y % n)
    BY Zenon, DivMod
  <1>2. p \in Int /\ q \in Int /\ x % n \in 0..(n - 1) /\ y % n \in 0..(n - 1)
    BY Zenon, DivMod
  <1>3. SUFFICES ASSUME p > q PROVE FALSE
    BY <1>2
  <1>4. n * p >= n * (q + 1)
    BY <1>2, <1>3, Z3
  <1> QED BY <1>1, <1>2, <1>4, Z3

\* A lap visits every bucket: n consecutive ticks hit every residue.
LEMMA LapVisitsAll ==
  ASSUME NEW x \in Int, NEW t \in Int, NEW n \in Nat \ {0}
  PROVE  \E b \in (t - n + 1)..t : b % n = x % n
  <1> DEFINE q == (t - x) \div n
             r == (t - x) % n
             p == x \div n
             b == x + n * q
  <1>1. q \in Int /\ r \in 0..(n - 1) /\ t - x = n * q + r
    BY DivMod
  <1>2. p \in Int /\ x % n \in 0..(n - 1) /\ x = n * p + (x % n)
    BY Zenon, DivMod
  <1>3. b = t - r /\ b \in Int
    BY <1>1, Z3
  <1>4. b \in (t - n + 1)..t
    BY <1>1, <1>3
  <1>5. b = n * (p + q) + (x % n)
    BY <1>1, <1>2, Z3
  <1>6. p + q \in Int
    BY <1>1, <1>2
  <1>7. b % n = x % n
    BY Zenon, <1>2, <1>5, <1>6, ModUnique
  <1> QED BY Zenon, <1>4, <1>7

---------------------------------------------------------------------------
(* The inductive invariant.                                                *)

\* The wheel never runs ahead of the time Retain and ExpireRetention have
\* seen, so a fresh deadline always lands in a bucket yet to be drained.
WheelBehindClock ==
  /\ rnow >= 2 * WheelTick
  /\ wtick <= Drained(rnow)
  /\ \A e \in wheel : e[2] > 0

\* What Retain compares a new deadline with is never ahead of the record.
SavedIsBehind ==
  \A k \in Protected :
    /\ record[k].ttl = ttl[k]
    /\ saved[k] <= record[k].until
    /\ until[k] <= saved[k] + Larger(PersistFloor(ttl[k]) - 1, 0)

\* Retain answers a miss for a slot still being written, so an abandoned PUT
\* never takes a protection with it.
OnlyCommitted == Protected \subseteq resident \ writing

RetentionInv ==
  /\ TypeOK /\ ProtectionExpires /\ ProtectedIsExact /\ BudgetHolds
  /\ WheelBehindClock /\ SavedIsBehind /\ OnlyCommitted

---------------------------------------------------------------------------
\* The protected keys are a finite set, so they can be counted.
LEMMA ProtectedFinite ==
  ASSUME TypeOK
  PROVE  IsFiniteSet(Protected) /\ Cardinality(Protected) \in Nat
  BY Zenon, ConstantsAssumption, FS_Subset, FS_CardinalityType DEF Protected

\* The tick of a second.
LEMMA TickType ==
  ASSUME NEW u \in Nat
  PROVE  u \div WheelTick \in Int
  BY DivMod, ConstantsAssumption

\* WheelSize is a positive number of buckets.
LEMMA WheelSizeType == WheelSize \in Nat \ {0}
  <1>1. MaxTTL \div WheelTick \in Int /\ MaxTTL \div WheelTick >= 0
    BY ConstantsAssumption, Z3
  <1> QED BY <1>1 DEF WheelSize

\* The ticks ExpireRetention visits on its way from w to `target', skipping
\* what a stall left more than a lap behind, include the bucket of every tick
\* in between.
LEMMA TickIsVisited ==
  ASSUME NEW w \in Nat, NEW target \in Nat, NEW tick \in Int, tick > w, tick <= target
  PROVE  \E b \in VisitedTicks(w, target) : b % WheelSize = tick % WheelSize
  <1>1. CASE target - w > WheelSize
    <2>1. target \in Int
      OBVIOUS
    <2>2. \E b \in (target - WheelSize + 1)..target : b % WheelSize = tick % WheelSize
      BY Zenon, <2>1, WheelSizeType, LapVisitsAll
    <2> QED BY Zenon, <1>1, <2>2 DEF VisitedTicks
  <1>2. CASE ~(target - w > WheelSize)
    <2>1. tick \in (w + 1)..target
      OBVIOUS
    <2> QED BY Zenon, <1>2, <2>1 DEF VisitedTicks
  <1> QED BY Zenon, <1>1, <1>2

\* What Drained computes.
LEMMA DrainedType ==
  ASSUME NEW now \in Nat, now >= 2 * WheelTick
  PROVE  /\ Drained(now) \in Nat
         /\ Drained(now) = (now \div WheelTick) - 1
         /\ now \div WheelTick \in Int
  <1>1. (2 * WheelTick) \div WheelTick = 2
    BY ConstantsAssumption, Z3
  <1>2. now \div WheelTick >= 2 /\ now \div WheelTick \in Int
    BY <1>1, DivMono, DivMod, ConstantsAssumption
  <1> QED BY <1>2 DEF Drained

\* A deadline after a time the wheel has seen lies in a bucket it has not
\* drained.
LEMMA LaterIsUndrained ==
  ASSUME NEW now \in Nat, now >= 2 * WheelTick, NEW u \in Nat, u >= now
  PROVE  u \div WheelTick > Drained(now) /\ u \div WheelTick \in Int
  <1>1. now \div WheelTick <= u \div WheelTick
    BY DivMono, ConstantsAssumption
  <1>2. u \div WheelTick \in Int
    BY DivMod, ConstantsAssumption
  <1> QED BY <1>1, <1>2, DrainedType

\* Drained never falls as time goes on.
LEMMA DrainedMono ==
  ASSUME NEW a \in Nat, NEW b \in Nat, a >= 2 * WheelTick, a <= b
  PROVE  Drained(a) <= Drained(b)
  <1>1. a \div WheelTick <= b \div WheelTick
    BY DivMono, ConstantsAssumption
  <1>2. b >= 2 * WheelTick
    BY ConstantsAssumption
  <1> QED BY <1>1, <1>2, DrainedType

\* A clock sample is a natural number.
LEMMA SampleType ==
  ASSUME TypeOK, NEW s \in Samples
  PROVE  s \in Nat /\ s >= 2 * WheelTick
  BY ConstantsAssumption DEF TypeOK, Samples

---------------------------------------------------------------------------
\* A freshly formatted store satisfies the invariant.
LEMMA InitInv == Init => RetentionInv
  <1> SUFFICES ASSUME Init PROVE RetentionInv
    BY Zenon
  <1>1. 2 * WheelTick \in Nat
    BY ConstantsAssumption
  <1>2. Drained(2 * WheelTick) \in Nat
    BY SMTT(60), <1>1, DrainedType
  <1>3. TypeOK
    BY <1>1, <1>2, ConstantsAssumption DEF Init, TypeOK, Pinned, NoRecord
  <1>4. Protected = {}
    BY Zenon DEF Init, Protected
  <1>5. Cardinality(Protected) = 0
    BY Zenon, <1>4, FS_EmptySet
  <1>6. ProtectedIsExact /\ BudgetHolds
    BY <1>5, ConstantsAssumption DEF Init, ProtectedIsExact, BudgetHolds, Larger
  <1>7. WheelBehindClock
    BY <1>1, <1>2 DEF Init, WheelBehindClock
  <1> QED BY Zenon, <1>3, <1>4, <1>6, <1>7
        DEF RetentionInv, ProtectionExpires, SavedIsBehind, OnlyCommitted

\* Freeing a slot keeps the invariant: the counter falls with the protection.
LEMMA FreeSlotInv ==
  ASSUME RetentionInv, NEW k \in resident, FreeSlot(k),
         writing' \subseteq writing \ {k}, reading' \subseteq reading \ {k},
         pending' \subseteq (writing' \cup reading') \cap removed', clock' = clock
  PROVE  RetentionInv'
  <1> USE DEF RetentionInv
  <1>1. k \in Keys
    BY Zenon DEF TypeOK
  <1>2. Protected' = Protected \ {k}
    BY Zenon, <1>1 DEF FreeSlot, Protected, TypeOK
  <1>3. /\ IsFiniteSet(Protected) /\ Cardinality(Protected) \in Nat
        /\ Cardinality(Protected \ {k}) = IF k \in Protected THEN Cardinality(Protected) - 1
                                          ELSE Cardinality(Protected)
    BY ProtectedFinite, FS_RemoveElement, Zenon
  <1>4. IsFiniteSet(Protected \ {k}) /\ Cardinality(Protected \ {k}) \in Nat
    BY Zenon, <1>3, FS_RemoveElement, FS_CardinalityType
  <1>5. ProtectedIsExact'
    BY Zenon, <1>1, <1>2, <1>3 DEF FreeSlot, ProtectedIsExact, Protected
  <1>6. BudgetHolds'
    BY SMTT(60), <1>2, <1>3, <1>4, ConstantsAssumption DEF FreeSlot, BudgetHolds, Larger, TypeOK
  <1>7. TypeOK'
    <2>1. protected' \in Nat
      BY Zenon, <1>2, <1>4, <1>5 DEF ProtectedIsExact
    <2> QED BY <1>1, <2>1, ConstantsAssumption DEF FreeSlot, TypeOK, NoRecord, Pinned
  <1>8. WheelBehindClock'
    BY Zenon DEF FreeSlot, WheelBehindClock
  <1>9. ProtectionExpires' /\ SavedIsBehind'
    BY Zenon, <1>1, <1>2 DEF FreeSlot, ProtectionExpires, SavedIsBehind, Protected, TypeOK
  <1>10. OnlyCommitted'
    BY Zenon, <1>2 DEF FreeSlot, OnlyCommitted
  <1> QED BY Zenon, <1>5, <1>6, <1>7, <1>8, <1>9, <1>10

\* The retention state does not move, nor the set of pins grow beyond slots.
LEMMA SlotsInv ==
  ASSUME RetentionInv, UNCHANGED retain, clock' \in Nat,
         resident' \subseteq Keys, writing' \subseteq resident',
         reading' \subseteq resident' \ writing',
         pending' \subseteq (writing' \cup reading') \cap removed',
         Protected \subseteq resident' \ writing'
  PROVE  RetentionInv'
  <1> USE DEF RetentionInv, retain
  <1>1. TypeOK'
    BY Zenon DEF TypeOK, Pinned
  <1>2. ProtectedIsExact' /\ BudgetHolds' /\ WheelBehindClock'
    BY Zenon DEF ProtectedIsExact, BudgetHolds, WheelBehindClock, Protected
  <1>3. ProtectionExpires' /\ SavedIsBehind'
    BY Zenon DEF ProtectionExpires, SavedIsBehind, Protected
  <1>4. OnlyCommitted'
    BY Zenon DEF OnlyCommitted, Protected
  <1> QED BY Zenon, <1>1, <1>2, <1>3, <1>4

\* Time as the allocator sees it only moves forward.
LEMMA NowGrows ==
  ASSUME RetentionInv, NEW s \in Samples
  PROVE  /\ Larger(rnow, s) \in Nat /\ Larger(rnow, s) >= rnow
         /\ Larger(rnow, s) >= 2 * WheelTick
         /\ wtick <= Drained(Larger(rnow, s))
         /\ Drained(Larger(rnow, s)) \in Nat
  <1> DEFINE now == Larger(rnow, s)
  <1>0. s \in Nat /\ s >= 2 * WheelTick /\ rnow \in Nat /\ rnow >= 2 * WheelTick
    BY Zenon, SampleType DEF RetentionInv, WheelBehindClock, TypeOK
  <1>1. now \in Nat /\ now >= rnow /\ now >= 2 * WheelTick /\ rnow \in Nat
    BY <1>0, ConstantsAssumption DEF Larger
  <1>2. Drained(rnow) <= Drained(now) /\ Drained(now) \in Nat /\ Drained(rnow) \in Nat
    BY Zenon, <1>1, DrainedMono, DrainedType DEF RetentionInv, WheelBehindClock
  <1> QED BY SMTT(60), <1>1, <1>2 DEF RetentionInv, WheelBehindClock, TypeOK

\* A refused RETAIN moves nothing but retain_now_s_.
LEMMA RefusedInv ==
  ASSUME RetentionInv, NEW k \in Keys, NEW req \in 0..MaxTTL, NEW mode \in Modes,
         RetainRefused(k, req, mode)
  PROVE  RetentionInv'
  <1> USE DEF RetentionInv, RetainRefused, slots
  <1>1. PICK s \in Samples : rnow' = Larger(rnow, s)
    BY Zenon
  <1>2. TypeOK'
    BY Zenon, <1>1, NowGrows DEF TypeOK, Pinned
  <1>3. WheelBehindClock'
    BY Zenon, <1>1, NowGrows DEF WheelBehindClock
  <1>4. ProtectedIsExact' /\ BudgetHolds'
    BY Zenon DEF ProtectedIsExact, BudgetHolds, Protected
  <1>5. ProtectionExpires' /\ SavedIsBehind'
    BY Zenon DEF ProtectionExpires, SavedIsBehind, Protected
  <1>6. OnlyCommitted'
    BY Zenon DEF OnlyCommitted, Protected
  <1> QED BY Zenon, <1>2, <1>3, <1>4, <1>5, <1>6

\* The TTL a grant stores is the stored one or a larger one, within MaxTTL.
LEMMA EffectiveTTLType ==
  ASSUME TypeOK, NEW k \in Keys, NEW req \in 0..MaxTTL, NEW mode \in Modes
  PROVE  /\ EffectiveTTL(k, req, mode) \in 0..MaxTTL
         /\ EffectiveTTL(k, req, mode) >= ttl[k]
         /\ Smaller(ttl[k], MaxTTL) = ttl[k]
  BY ConstantsAssumption DEF TypeOK, EffectiveTTL, Smaller, Larger

\* The distance below which a renewal is not written is a natural number.
LEMMA PersistFloorType ==
  ASSUME NEW e \in 0..MaxTTL
  PROVE  PersistFloor(e) \in Nat
  <1>1. e \div 4 \in Int /\ e \div 4 >= 0
    BY ConstantsAssumption, Z3
  <1> QED BY <1>1, ConstantsAssumption DEF PersistFloor, Larger

\* What a renewal that is not written may add to the deadline.
LEMMA FloorSlack ==
  ASSUME NEW f \in Nat, NEW base \in Nat, NEW n \in Nat, n < base + f \/ n = base
  PROVE  n <= base + Larger(f - 1, 0)
  BY DEF Larger

\* A granted RETAIN keeps the invariant: it counts the slot once and pushes an
\* entry for the new deadline into a bucket that is not drained yet.
LEMMA GrantedInv ==
  ASSUME RetentionInv, NEW k \in Keys, NEW req \in 0..MaxTTL, NEW mode \in Modes,
         RetainGranted(k, req, mode)
  PROVE  RetentionInv'
  <1> USE DEF RetentionInv
  <1> DEFINE eff == EffectiveTTL(k, req, mode)
             New(now) == Larger(until[k], now + eff)
             Persist(now) == Persists(k, eff, New(now))
  <1>1. PICK s \in Samples :
          /\ rnow' = Larger(rnow, s)
          /\ protected' = IF until[k] = 0 THEN protected + 1 ELSE protected
          /\ ttl' = [ttl EXCEPT ![k] = eff]
          /\ until' = [until EXCEPT ![k] = New(rnow')]
          /\ wheel' = IF New(rnow') # until[k] THEN wheel \cup {<<k, New(rnow')>>} ELSE wheel
          /\ saved' = IF Persist(rnow') THEN [saved EXCEPT ![k] = New(rnow')] ELSE saved
          /\ record' = IF Persist(rnow')
                       THEN [record EXCEPT ![k] = [until |-> New(rnow'), ttl |-> eff]]
                       ELSE record
    BY Zenon DEF RetainGranted
  <1>2. /\ rnow' \in Nat /\ rnow' >= rnow /\ rnow' >= 2 * WheelTick
        /\ wtick <= Drained(rnow') /\ Drained(rnow') \in Nat
    BY Zenon, <1>1, NowGrows
  <1>3. /\ eff \in 0..MaxTTL /\ eff # 0 /\ eff >= ttl[k] /\ ttl[k] \in 0..MaxTTL
        /\ Smaller(ttl[k], MaxTTL) = ttl[k]
    BY Zenon, EffectiveTTLType DEF RetainGranted, TypeOK
  <1>4. UNCHANGED <<clock, resident, writing, reading, pending, removed, wtick, restored>>
    BY Zenon DEF RetainGranted, slots
  <1> DEFINE new == New(rnow')
  <1>5. new \in Nat /\ new > rnow' /\ new >= until[k] /\ new > 0
    BY SMTT(30), <1>2, <1>3, ConstantsAssumption DEF Larger, TypeOK
  <1>6. Protected' = Protected \cup {k}
    BY <1>1, <1>5 DEF Protected, TypeOK
  <1>7. /\ IsFiniteSet(Protected) /\ Cardinality(Protected) \in Nat
        /\ Cardinality(Protected \cup {k}) = IF k \in Protected THEN Cardinality(Protected)
                                             ELSE Cardinality(Protected) + 1
    BY ProtectedFinite, FS_AddElement, Zenon
  <1>8. ProtectedIsExact'
    BY Zenon, <1>1, <1>6, <1>7 DEF ProtectedIsExact, Protected
  <1>9. BudgetHolds'
    <2>1. k \in Protected \/ protected + 1 <= Budget
      BY Zenon DEF RetainGranted, Admits, Protected
    <2>2. Cardinality(Protected) <= Larger(Budget, restored) /\ restored \in Nat
      BY Zenon DEF BudgetHolds, TypeOK
    <2> QED BY SMTT(60), <1>4, <1>6, <1>7, <2>1, <2>2, ConstantsAssumption
              DEF BudgetHolds, ProtectedIsExact, Larger
  <1>10. TypeOK'
    <2>1. protected' \in Nat
      BY SMTT(60), <1>1 DEF TypeOK
    <2>2. record' \in [Keys -> [until : Nat, ttl : 0..MaxTTL]]
      BY Zenon, <1>1, <1>3, <1>5 DEF TypeOK
    <2>3. until' \in [Keys -> Nat] /\ saved' \in [Keys -> Nat] /\ ttl' \in [Keys -> 0..MaxTTL]
      BY Zenon, <1>1, <1>3, <1>5 DEF TypeOK
    <2>4. wheel' \subseteq Keys \X Nat
      BY SMTT(60), <1>1, <1>5 DEF TypeOK
    <2> QED BY Zenon, <1>2, <1>4, <2>1, <2>2, <2>3, <2>4 DEF TypeOK, Pinned
  <1>11. WheelBehindClock'
    BY SMTT(60), <1>1, <1>2, <1>4, <1>5 DEF WheelBehindClock
  <1>12. new \div WheelTick > wtick
    BY SMTT(60), <1>2, <1>5, LaterIsUndrained, ConstantsAssumption DEF TypeOK
  <1>13. ProtectionExpires'
    <2> SUFFICES ASSUME NEW j \in Protected'
                 PROVE  <<j, until'[j]>> \in wheel' /\ until'[j] \div WheelTick > wtick'
      BY Zenon DEF ProtectionExpires
    <2>1. CASE j = k
      <3>1. until'[j] = new
        BY Zenon, <1>1, <2>1 DEF TypeOK
      <3>2. CASE new # until[k]
        BY SMTT(60), <1>1, <1>4, <1>12, <2>1, <3>1, <3>2
      <3>3. CASE new = until[k]
        BY SMTT(60), <1>1, <1>4, <1>5, <1>12, <2>1, <3>1, <3>3 DEF ProtectionExpires, Protected
      <3> QED BY Zenon, <3>2, <3>3
    <2>2. CASE j # k
      <3>1. j \in Protected /\ until'[j] = until[j]
        BY Zenon, <1>1, <1>6, <2>2 DEF TypeOK, Protected
      <3> QED BY SMTT(60), <1>1, <1>4, <3>1 DEF ProtectionExpires
    <2> QED BY Zenon, <2>1, <2>2
  <1>14. SavedIsBehind'
    <2> SUFFICES ASSUME NEW j \in Protected'
                 PROVE  /\ record'[j].ttl = ttl'[j]
                        /\ saved'[j] <= record'[j].until
                        /\ until'[j] <= saved'[j] + Larger(PersistFloor(ttl'[j]) - 1, 0)
      BY ZenonT(60) DEF SavedIsBehind, PersistFloor
    <2>1. CASE j # k
      <3>1. j \in Protected /\ j \in Keys
        BY Zenon, <1>6, <2>1 DEF Protected
      <3>2. /\ until'[j] = until[j] /\ saved'[j] = saved[j] /\ record'[j] = record[j]
            /\ ttl'[j] = ttl[j]
        BY Zenon, <1>1, <2>1, <3>1 DEF TypeOK
      <3> QED BY Zenon, <3>1, <3>2 DEF SavedIsBehind
    <2>2. CASE j = k /\ Persist(rnow')
      <3>1. /\ until'[k] = new /\ saved'[k] = new /\ ttl'[k] = eff
            /\ record'[k] = [until |-> new, ttl |-> eff]
        BY Zenon, <1>1, <2>2 DEF TypeOK
      <3>2. PersistFloor(eff) \in Nat
        BY Zenon, <1>3, PersistFloorType
      <3>3. new \in Nat
        BY Zenon, <1>5
      <3> HIDE DEF new, New, Persist, eff, RetentionInv
      <3>4. new <= new + Larger(PersistFloor(eff) - 1, 0) /\ new <= new
        BY SMTT(60), <3>2, <3>3, FloorSlack
      <3> QED BY SMTT(60), <2>2, <3>1, <3>4
    <2>3. CASE j = k /\ ~Persist(rnow')
      <3>1. eff = ttl[k] /\ until[k] # 0 /\ new < saved[k] + PersistFloor(eff)
        <4>1. PersistFloor(eff) \in Nat /\ saved[k] \in Nat
          BY Zenon, <1>3, PersistFloorType DEF TypeOK
        <4>2. ~Persists(k, eff, new) /\ new \in Nat
          BY Zenon, <1>5, <2>3
        <4> HIDE DEF new, New, Persist, eff, RetentionInv
        <4>3. /\ until[k] # 0 /\ ~(eff > Smaller(ttl[k], MaxTTL))
              /\ ~(new >= saved[k] + PersistFloor(eff))
          BY ZenonT(60), <4>2 DEF Persists
        <4>4. eff >= ttl[k] /\ ~(eff > ttl[k])
          BY Zenon, <1>3, <4>3
        <4>5. \A x \in 0..MaxTTL : x \in Nat
          BY ConstantsAssumption
        <4>6. eff \in Nat /\ ttl[k] \in Nat
          BY Zenon, <1>3, <4>5
        <4>7. eff = ttl[k]
          BY SMTT(60), <4>4, <4>6
        <4>8. new < saved[k] + PersistFloor(eff)
          BY SMTT(60), <4>1, <4>2, <4>3
        <4> QED BY Zenon, <4>3, <4>7, <4>8
      <3>2. /\ until'[k] = new /\ saved'[k] = saved[k] /\ ttl'[k] = eff
            /\ record'[k] = record[k] /\ saved[k] \in Nat
        BY Zenon, <1>1, <2>3 DEF TypeOK
      <3>3. record[k].ttl = ttl[k] /\ saved[k] <= record[k].until
        BY Zenon, <3>1 DEF SavedIsBehind, Protected
      <3>4. PersistFloor(eff) \in Nat
        BY Zenon, <1>3, PersistFloorType
      <3>5. j = k
        BY Zenon, <2>3
      <3>6. new \in Nat
        BY Zenon, <1>5
      <3>7. until'[k] < saved[k] + PersistFloor(eff) /\ until'[k] \in Nat
        BY ZenonT(60), <3>1, <3>2, <3>6
      <3> HIDE DEF new, New, Persist, eff, RetentionInv
      <3>8. until'[k] <= saved[k] + Larger(PersistFloor(eff) - 1, 0)
        BY ZenonT(60), <3>2, <3>4, <3>7, FloorSlack
      <3> QED BY Zenon, <3>1, <3>2, <3>3, <3>5, <3>8
    <2> QED BY ZenonT(60), <2>1, <2>2, <2>3
  <1>15. OnlyCommitted'
    BY Zenon, <1>4, <1>6 DEF OnlyCommitted, RetainGranted, Committed
  <1> QED BY Zenon, <1>8, <1>9, <1>10, <1>11, <1>13, <1>14, <1>15

\* A protection survives ExpireRetention only when its bucket is not drained.
LEMMA DueIsComplete ==
  ASSUME RetentionInv, NEW k \in Protected, NEW now \in Nat, now >= 2 * WheelTick,
         Drained(now) > wtick, until[k] \div WheelTick <= Drained(now)
  PROVE  <<k, until[k]>> \in DueEntries(now, Drained(now))
  <1> DEFINE u == until[k]
             tick == u \div WheelTick
             target == Drained(now)
  <1>1. u \in Nat /\ <<k, u>> \in wheel /\ tick > wtick /\ wtick \in Nat
    BY Zenon DEF RetentionInv, ProtectionExpires, TypeOK, Protected
  <1>2. tick \in Int /\ target \in Nat /\ WheelSize \in Nat \ {0}
    BY Zenon, <1>1, TickType, DrainedType, WheelSizeType
  <1>3. u <= now
    <2> SUFFICES ASSUME u > now PROVE FALSE
      BY <1>1
    <2> QED BY <1>1, <1>2, LaterIsUndrained
  <1>4. \E b \in VisitedTicks(wtick, target) : b % WheelSize = tick % WheelSize
    <2>1. tick <= target
      BY Zenon
    <2>2. wtick \in Nat /\ target \in Nat /\ tick \in Int /\ tick > wtick
      BY Zenon, <1>1, <1>2
    <2> HIDE DEF tick, target
    <2> QED BY ZenonT(60), <2>1, <2>2, TickIsVisited
  <1>5. Bucket(u) = tick % WheelSize
    BY Zenon DEF Bucket
  <1> HIDE DEF u, tick, target
  <1>6. <<k, u>> \in DueEntries(now, target)
    BY Zenon, <1>1, <1>3, <1>4, <1>5 DEF DueEntries
  <1> QED BY Zenon, <1>6 DEF u, target

\* ExpireRetention keeps the invariant: it takes down exactly the protections
\* whose entries it drains.
LEMMA ExpireInv ==
  ASSUME RetentionInv, ExpireRetention
  PROVE  RetentionInv'
  <1> USE DEF RetentionInv
  <1> DEFINE Due(now) == IF Drained(now) <= wtick THEN {} ELSE DueEntries(now, Drained(now))
             Over(now) == {k \in Keys : <<k, until[k]>> \in Due(now)}
  <1>1. PICK s \in Samples :
          /\ rnow' = Larger(rnow, s)
          /\ wheel' = wheel \ Due(rnow')
          /\ wtick' = Larger(wtick, Drained(rnow'))
          /\ until' = [k \in Keys |-> IF k \in Over(rnow') THEN 0 ELSE until[k]]
          /\ protected' = protected - Cardinality(Over(rnow'))
    BY Zenon DEF ExpireRetention
  <1>2. UNCHANGED <<clock, resident, writing, reading, pending, removed, ttl, saved, record, restored>>
    BY Zenon DEF ExpireRetention, slots
  <1>3. /\ rnow' \in Nat /\ rnow' >= rnow /\ rnow' >= 2 * WheelTick
        /\ wtick <= Drained(rnow') /\ Drained(rnow') \in Nat
    BY Zenon, <1>1, NowGrows
  <1> DEFINE over == Over(rnow')
  <1>4. over \subseteq Protected
    <2> SUFFICES ASSUME NEW k \in over PROVE until[k] # 0
      BY Zenon DEF Protected
    <2>1. <<k, until[k]>> \in wheel
      BY Zenon DEF DueEntries
    <2>2. <<k, until[k]>>[2] > 0
      BY Zenon, <2>1 DEF WheelBehindClock
    <2> QED BY <2>2
  <1>5. Protected' = Protected \ over
    BY Zenon, <1>1, <1>4 DEF Protected, TypeOK
  <1>6. /\ Cardinality(Protected \ over) = Cardinality(Protected) - Cardinality(over)
        /\ Cardinality(Protected \ over) \in Nat /\ Cardinality(over) \in Nat
        /\ Cardinality(Protected) \in Nat
    <2>1. IsFiniteSet(Protected) /\ Cardinality(Protected) \in Nat
      BY Zenon, ProtectedFinite
    <2>2. IsFiniteSet(over) /\ IsFiniteSet(Protected \ over)
      BY <1>4, <2>1, FS_Subset, Zenon
    <2>3. Cardinality(over) \in Nat /\ Cardinality(Protected \ over) \in Nat
      BY Zenon, <2>2, FS_CardinalityType
    <2>4. /\ over \cup (Protected \ over) = Protected
          /\ over \cap (Protected \ over) = {}
      BY Zenon, <1>4
    <2>5. Cardinality(over \cup (Protected \ over))
            = Cardinality(over) + Cardinality(Protected \ over)
              - Cardinality(over \cap (Protected \ over))
      BY <2>2, FS_Union, Zenon
    <2>6. Cardinality(over \cap (Protected \ over)) = 0
      BY Zenon, <2>4, FS_EmptySet
    <2> HIDE DEF over
    <2>7. Cardinality(over \cup (Protected \ over)) = Cardinality(Protected)
      BY ZenonT(60), <2>4
    <2> QED BY SMTT(60), <2>1, <2>3, <2>5, <2>6, <2>7
  <1>7. ProtectedIsExact'
    BY Zenon, <1>1, <1>5, <1>6 DEF ProtectedIsExact
  <1>8. BudgetHolds'
    <2>1. Cardinality(Protected) <= Larger(Budget, restored) /\ restored \in Nat
      BY Zenon DEF BudgetHolds, TypeOK
    <2> QED BY SMTT(60), <1>2, <1>5, <1>6, <2>1, ConstantsAssumption DEF BudgetHolds, Larger
  <1>9. TypeOK'
    <2>1. protected' \in Nat
      BY Zenon, <1>5, <1>6, <1>7 DEF ProtectedIsExact
    <2>2. wtick' \in Nat
      BY Zenon, <1>1, <1>3 DEF Larger, TypeOK
    <2>3. until' \in [Keys -> Nat] /\ wheel' \subseteq Keys \X Nat
      BY Zenon, <1>1 DEF TypeOK
    <2> QED BY Zenon, <1>2, <1>3, <2>1, <2>2, <2>3 DEF TypeOK, Pinned
  <1>10. wtick' = Drained(rnow')
    <2>1. wtick' = Larger(wtick, Drained(rnow')) /\ wtick \in Nat
      BY Zenon, <1>1 DEF TypeOK
    <2> QED BY SMTT(60), <1>3, <2>1 DEF Larger
  <1>11. WheelBehindClock'
    BY SMTT(60), <1>1, <1>3, <1>10 DEF WheelBehindClock
  <1>12. ProtectionExpires'
    <2> SUFFICES ASSUME NEW k \in Protected'
                 PROVE  <<k, until'[k]>> \in wheel' /\ until'[k] \div WheelTick > wtick'
      BY ZenonT(60) DEF ProtectionExpires
    <2>1. k \in Protected /\ k \in Keys /\ k \notin over /\ until'[k] = until[k]
      BY Zenon, <1>1, <1>5 DEF Protected
    <2>2. <<k, until[k]>> \in wheel /\ until[k] \div WheelTick > wtick /\ until[k] \in Nat
      BY Zenon, <2>1 DEF ProtectionExpires, TypeOK
    <2>3. <<k, until[k]>> \notin Due(rnow')
      BY Zenon, <2>1
    <2>4. until[k] \div WheelTick \in Int
      BY Zenon, <2>2, TickType
    <2>5. CASE Drained(rnow') <= wtick
      <3>1. wheel' = wheel \ Due(rnow') /\ wtick \in Nat
        BY Zenon, <1>1 DEF TypeOK
      <3> HIDE DEF Due, RetentionInv
      <3> QED BY SMTT(60), <1>3, <1>10, <2>1, <2>2, <2>3, <2>4, <2>5, <3>1
    <2>6. CASE ~(Drained(rnow') <= wtick)
      <3>1. Drained(rnow') > wtick
        BY SMTT(60), <1>3, <2>6 DEF TypeOK
      <3>2. ~(until[k] \div WheelTick <= Drained(rnow'))
        BY Zenon, <1>3, <2>1, <2>3, <2>6, <3>1, DueIsComplete
      <3> QED BY SMTT(60), <1>1, <1>3, <1>10, <2>1, <2>2, <2>3, <2>4, <3>2
    <2> QED BY Zenon, <2>5, <2>6
  <1>13. SavedIsBehind'
    BY Zenon, <1>1, <1>2, <1>5 DEF SavedIsBehind, Protected, PersistFloor
  <1>14. OnlyCommitted'
    BY Zenon, <1>2, <1>5 DEF OnlyCommitted
  <1> QED BY Zenon, <1>7, <1>8, <1>9, <1>11, <1>12, <1>13, <1>14

\* A clean restart re-establishes the invariant from the durable records.
LEMMA RestartInv ==
  ASSUME RetentionInv, Restart
  PROVE  RetentionInv'
  <1>0. TypeOK
    BY Zenon DEF RetentionInv
  <1> DEFINE Back(s) == {k \in resident : record[k].until > s /\ record[k].ttl # 0}
             Due(s, k) == Smaller(record[k].until, s + record[k].ttl)
  <1>1. PICK s \in Samples :
          /\ rnow' = s
          /\ until' = [k \in Keys |-> IF k \in Back(s) THEN Due(s, k) ELSE 0]
          /\ saved' = [k \in Keys |-> IF k \in Back(s) THEN Due(s, k) ELSE 0]
          /\ ttl' = [k \in Keys |-> record[k].ttl]
          /\ wheel' = {<<k, Due(s, k)>> : k \in Back(s)}
          /\ wtick' = Drained(s)
          /\ protected' = Cardinality(Back(s))
          /\ restored' = Cardinality(Back(s))
    BY ZenonT(60) DEF Restart
  <1>2. UNCHANGED <<clock, resident, writing, reading, pending, removed, record>> /\ writing = {}
    BY Zenon DEF Restart, slots
  <1>3. s \in Nat /\ s >= 2 * WheelTick /\ Drained(s) \in Nat /\ s > 0
    BY SMTT(60), <1>0, SampleType, DrainedType, ConstantsAssumption
  <1>4. \A k \in Keys : record[k].until \in Nat /\ record[k].ttl \in 0..MaxTTL
    BY Zenon, <1>0 DEF TypeOK
  <1>5. resident \subseteq Keys
    BY Zenon, <1>0 DEF TypeOK
  <1>6. \A k \in Back(s) : Due(s, k) \in Nat /\ Due(s, k) > s /\ Due(s, k) <= record[k].until
    BY SMTT(60), <1>3, <1>4, <1>5, ConstantsAssumption DEF Smaller
  <1> DEFINE back == Back(s)
  <1>7. back \subseteq Keys /\ back \subseteq resident
    BY Zenon, <1>5
  <1> HIDE DEF Back, Due
  <1>8. Protected' = back
    BY SMTT(60), <1>1, <1>3, <1>6, <1>7 DEF Protected
  <1>9. IsFiniteSet(back) /\ Cardinality(back) \in Nat
    BY Zenon, <1>7, ConstantsAssumption, FS_Subset, FS_CardinalityType
  <1>10. ProtectedIsExact'
    BY Zenon, <1>1, <1>8 DEF ProtectedIsExact
  <1>11. BudgetHolds'
    <2>1. restored' = Cardinality(back)
      BY Zenon, <1>1
    <2> HIDE DEF back
    <2> QED BY SMTT(60), <1>8, <1>9, <2>1, ConstantsAssumption DEF BudgetHolds, Larger
  <1>12. TypeOK'
    <2>1. until' \in [Keys -> Nat] /\ saved' \in [Keys -> Nat]
      BY ZenonT(60), <1>1, <1>6
    <2>2. ttl' \in [Keys -> 0..MaxTTL]
      BY Zenon, <1>1, <1>4
    <2>3. wheel' \subseteq Keys \X Nat
      BY SMTT(60), <1>1, <1>6, <1>7
    <2>4. protected' \in Nat /\ restored' \in Nat
      BY ZenonT(60), <1>1, <1>9
    <2> QED BY Zenon, <1>0, <1>1, <1>2, <1>3, <2>1, <2>2, <2>3, <2>4 DEF TypeOK, Pinned
  <1>13. WheelBehindClock'
    BY SMTT(60), <1>1, <1>3, <1>6 DEF WheelBehindClock
  <1>14. ProtectionExpires'
    <2> SUFFICES ASSUME NEW k \in back
                 PROVE  <<k, until'[k]>> \in wheel' /\ until'[k] \div WheelTick > wtick'
      BY ZenonT(60), <1>8 DEF ProtectionExpires
    <2>1. until'[k] = Due(s, k) /\ wtick' = Drained(s)
      BY ZenonT(60), <1>1, <1>7
    <2>2. Due(s, k) \in Nat /\ Due(s, k) >= s
      BY SMTT(60), <1>3, <1>6
    <2>3. <<k, Due(s, k)>> \in wheel'
      BY Zenon, <1>1
    <2>4. Due(s, k) \div WheelTick > Drained(s)
      BY Zenon, <1>3, <2>2, LaterIsUndrained
    <2> QED BY Zenon, <2>1, <2>3, <2>4
  <1>15. SavedIsBehind'
    <2> SUFFICES ASSUME NEW k \in back
                 PROVE  /\ record'[k].ttl = ttl'[k]
                        /\ saved'[k] <= record'[k].until
                        /\ until'[k] <= saved'[k] + Larger(PersistFloor(ttl'[k]) - 1, 0)
      BY ZenonT(60), <1>8 DEF SavedIsBehind, PersistFloor
    <2>1. /\ until'[k] = Due(s, k) /\ saved'[k] = Due(s, k)
          /\ ttl'[k] = record[k].ttl /\ record' = record
      BY ZenonT(60), <1>1, <1>2, <1>7
    <2>2. Due(s, k) \in Nat /\ Due(s, k) <= record[k].until
      BY Zenon, <1>6
    <2>3. PersistFloor(record[k].ttl) \in Nat
      BY Zenon, <1>4, <1>7, PersistFloorType
    <2>4. Due(s, k) <= Due(s, k) + Larger(PersistFloor(record[k].ttl) - 1, 0)
      BY Zenon, <2>2, <2>3, FloorSlack
    <2> QED BY Zenon, <2>1, <2>2, <2>4
  <1>16. OnlyCommitted'
    BY Zenon, <1>2, <1>7, <1>8 DEF OnlyCommitted
  <1> QED BY Zenon, <1>10, <1>11, <1>12, <1>13, <1>14, <1>15, <1>16 DEF RetentionInv

---------------------------------------------------------------------------
\* Every step of the store keeps the invariant.
LEMMA NextInv == RetentionInv /\ [Next]_vars => RetentionInv'
  <1> SUFFICES ASSUME RetentionInv, [Next]_vars PROVE RetentionInv'
    BY Zenon
  <1>1. TypeOK /\ OnlyCommitted
    BY Zenon DEF RetentionInv
  <1>2. CASE UNCHANGED vars
    BY Zenon, <1>1, <1>2, SlotsInv DEF vars, slots, retain, TypeOK, Pinned, OnlyCommitted
  <1>3. CASE Advance
    BY Zenon, <1>1, <1>3, SlotsInv, ConstantsAssumption
    DEF Advance, slots, TypeOK, Pinned, OnlyCommitted
  <1>4. ASSUME NEW k \in Keys, KeyStep(k) PROVE RetentionInv'
    <2>1. CASE Put(k)
      <3>1. k \notin Protected
        BY Zenon, <1>1, <2>1 DEF Put, OnlyCommitted
      <3> QED BY Zenon, <1>1, <2>1, <3>1, SlotsInv DEF Put, TypeOK, Pinned, OnlyCommitted
    <2>2. CASE Evict(k)
      BY Zenon, <1>1, <2>2, FreeSlotInv DEF Evict, Evictable, TypeOK, Pinned
    <2>3. CASE Commit(k)
      BY Zenon, <1>1, <2>3, SlotsInv DEF Commit, TypeOK, Pinned, OnlyCommitted
    <2>4. CASE Abandon(k)
      BY Zenon, <1>1, <2>4, FreeSlotInv DEF Abandon, TypeOK, Pinned
    <2>5. CASE Read(k)
      BY Zenon, <1>1, <2>5, SlotsInv DEF Read, Committed, TypeOK, Pinned, OnlyCommitted
    <2>6. CASE ReadEnd(k) /\ k \in pending
      BY Zenon, <1>1, <2>6, FreeSlotInv DEF ReadEnd, TypeOK, Pinned
    <2>7. CASE ReadEnd(k) /\ k \notin pending
      BY Zenon, <1>1, <2>7, SlotsInv DEF ReadEnd, TypeOK, Pinned, OnlyCommitted
    <2>8. CASE RemoveNow(k)
      BY Zenon, <1>1, <2>8, FreeSlotInv DEF RemoveNow, TypeOK, Pinned
    <2>9. CASE RemoveLater(k)
      BY Zenon, <1>1, <2>9, SlotsInv DEF RemoveLater, TypeOK, Pinned, OnlyCommitted
    <2>10. CASE \E req \in 0..MaxTTL, mode \in Modes :
                  RetainRefused(k, req, mode) \/ RetainGranted(k, req, mode)
      BY Zenon, <2>10, RefusedInv, GrantedInv
    <2> QED BY SMTT(60), <1>4, <2>1, <2>2, <2>3, <2>4, <2>5, <2>6, <2>7, <2>8, <2>9, <2>10
            DEF KeyStep
  <1>5. CASE ExpireRetention
    BY Zenon, <1>5, ExpireInv
  <1>6. CASE Restart
    BY Zenon, <1>6, RestartInv
  <1> QED BY Zenon, <1>2, <1>3, <1>4, <1>5, <1>6 DEF Next

\* The record's deadline lags the slot's by less than PersistFloor, because
\* the value Retain compares with does and the record is not behind it.
LEMMA InvImpliesFresh == RetentionInv => RecordIsFresh
  <1> SUFFICES ASSUME RetentionInv, NEW k \in Protected
               PROVE  /\ record[k].ttl = ttl[k]
                      /\ until[k] <= record[k].until + Larger(PersistFloor(ttl[k]) - 1, 0)
    BY Zenon DEF RecordIsFresh
  <1>1. k \in Keys /\ until[k] \in Nat /\ saved[k] \in Nat /\ ttl[k] \in 0..MaxTTL
    BY Zenon DEF RetentionInv, TypeOK, Protected
  <1>2. record[k].until \in Nat
    BY Zenon, <1>1 DEF RetentionInv, TypeOK
  <1>3. PersistFloor(ttl[k]) \in Nat
    BY Zenon, <1>1, PersistFloorType
  <1>4. /\ record[k].ttl = ttl[k] /\ saved[k] <= record[k].until
        /\ until[k] <= saved[k] + Larger(PersistFloor(ttl[k]) - 1, 0)
    BY Zenon DEF RetentionInv, SavedIsBehind
  <1> QED BY SMTT(60), <1>1, <1>2, <1>3, <1>4 DEF Larger

\* The invariant holds in every reachable state.
THEOREM InvariantHolds == Spec => []RetentionInv
  BY InitInv, NextInv, PTL DEF Spec

\* The variables keep their types: pins belong to resident slots, a removal is
\* pending only on a pinned slot, no counter goes negative.
THEOREM TypeCorrect == Spec => []TypeOK
  <1>1. RetentionInv => TypeOK
    BY Zenon DEF RetentionInv
  <1> QED BY <1>1, InvariantHolds, PTL

\* Every protection has its entry in a bucket ExpireRetention has yet to
\* drain: none is held for ever.
THEOREM EveryProtectionExpires == Spec => []ProtectionExpires
  <1>1. RetentionInv => ProtectionExpires
    BY Zenon DEF RetentionInv
  <1> QED BY <1>1, InvariantHolds, PTL

\* protected_slots_ counts the protected slots, and they stay within the
\* budget or within what the last restart brought back.
THEOREM BudgetIsKept == Spec => [](ProtectedIsExact /\ BudgetHolds)
  <1>1. RetentionInv => ProtectedIsExact /\ BudgetHolds
    BY Zenon DEF RetentionInv
  <1> QED BY <1>1, InvariantHolds, PTL

\* A clean restart loses less than PersistFloor of a protection: the durable
\* record is that close behind the slot's deadline.
THEOREM RecordKeepsUp == Spec => []RecordIsFresh
  BY InvImpliesFresh, InvariantHolds, PTL

\* Every protection will expire, counts and budget are exact and the durable
\* records keep up, in every reachable state.
THEOREM RetentionStaysExact == Spec => []RetentionIsExact
  <1>1. RetentionInv => TypeOK /\ ProtectionExpires /\ ProtectedIsExact /\ BudgetHolds
    BY Zenon DEF RetentionInv
  <1>2. RetentionInv => RetentionIsExact
    BY Zenon, <1>1, InvImpliesFresh DEF RetentionIsExact
  <1> QED BY <1>2, InvariantHolds, PTL

---------------------------------------------------------------------------
\* What one step may do to a deadline, as NeverEndsEarly states it.
EndsRightly ==
  \A k \in Keys :
    until[k] # 0 /\ until'[k] < until[k] =>
      Restart \/ rnow' >= until[k] \/ k \in removed'

\* Freeing the slot of key j shortens no other key's protection.
LEMMA FreeSlotTouchesOne ==
  ASSUME TypeOK, NEW j \in Keys, FreeSlot(j), NEW k \in Keys, k # j
  PROVE  until'[k] = until[k]
  BY Zenon DEF FreeSlot, TypeOK

\* No step shortens a protection before its deadline but a REMOVE or a restart.
LEMMA StepEndsRightly == RetentionInv /\ [Next]_vars => EndsRightly
  <1> SUFFICES ASSUME RetentionInv, [Next]_vars, NEW k \in Keys,
                      until[k] # 0, until'[k] < until[k], ~Restart
               PROVE  rnow' >= until[k] \/ k \in removed'
    BY Zenon DEF EndsRightly
  <1>1. TypeOK /\ OnlyCommitted /\ until[k] \in Nat /\ k \in Protected
    BY Zenon DEF RetentionInv, TypeOK, Protected
  <1>2. until'[k] # until[k]
    BY SMTT(60), <1>1
  <1>3. CASE UNCHANGED vars \/ Advance
    BY Zenon, <1>2, <1>3 DEF vars, retain, Advance
  <1>4. ASSUME NEW j \in Keys, KeyStep(j)
        PROVE  rnow' >= until[k] \/ k \in removed'
    <2>1. CASE Put(j) \/ Commit(j) \/ Read(j) \/ RemoveLater(j)
      BY Zenon, <1>2, <2>1 DEF Put, Commit, Read, RemoveLater, retain
    <2>2. CASE Evict(j)
      <3>1. j # k
        BY ZenonT(60), <1>1, <2>2 DEF Evict, Evictable, Protected
      <3> QED BY Zenon, <1>1, <1>2, <2>2, <3>1, FreeSlotTouchesOne DEF Evict
    <2>3. CASE Abandon(j)
      <3>1. j # k
        BY ZenonT(60), <1>1, <2>3 DEF Abandon, OnlyCommitted
      <3> QED BY ZenonT(60), <1>1, <1>2, <2>3, <3>1, FreeSlotTouchesOne DEF Abandon
    <2>4. CASE ReadEnd(j)
      <3>1. j = k
        BY Zenon, <1>1, <1>2, <2>4, FreeSlotTouchesOne DEF ReadEnd, retain
      <3>2. k \in pending
        BY Zenon, <1>2, <2>4, <3>1 DEF ReadEnd, retain
      <3>3. k \in removed /\ removed' = removed
        BY Zenon, <1>1, <2>4, <3>2 DEF ReadEnd, TypeOK
      <3> QED BY Zenon, <3>3
    <2>5. CASE RemoveNow(j)
      <3>1. CASE j = k
        BY Zenon, <2>5, <3>1 DEF RemoveNow
      <3>2. CASE j # k
        BY Zenon, <1>1, <1>2, <2>5, <3>2, FreeSlotTouchesOne DEF RemoveNow
      <3> QED BY Zenon, <3>1, <3>2
    <2>6. ASSUME NEW req \in 0..MaxTTL, NEW mode \in Modes, RetainRefused(j, req, mode)
          PROVE  FALSE
      BY Zenon, <1>2, <2>6 DEF RetainRefused
    <2>7. ASSUME NEW req \in 0..MaxTTL, NEW mode \in Modes, RetainGranted(j, req, mode)
          PROVE  FALSE
      <3>1. PICK s \in Samples :
              until' = [until EXCEPT ![j] = Larger(until[j], Larger(rnow, s)
                                                   + EffectiveTTL(j, req, mode))]
        BY ZenonT(60), <2>7 DEF RetainGranted
      <3>2. Larger(rnow, s) \in Nat /\ EffectiveTTL(j, req, mode) \in 0..MaxTTL
        BY Zenon, <1>1, NowGrows, EffectiveTTLType
      <3>3. j = k
        BY Zenon, <1>1, <1>2, <3>1 DEF TypeOK
      <3>4. until'[k] = Larger(until[k], Larger(rnow, s) + EffectiveTTL(j, req, mode))
        BY Zenon, <1>1, <3>1, <3>3 DEF TypeOK
      <3>5. until'[k] >= until[k]
        <4> DEFINE b == Larger(rnow, s) + EffectiveTTL(j, req, mode)
        <4>1. b \in Int
          BY SMTT(60), <3>2, ConstantsAssumption
        <4>2. until'[k] = Larger(until[k], b)
          BY Zenon, <3>4
        <4> HIDE DEF b
        <4> QED BY SMTT(60), <1>1, <4>1, <4>2 DEF Larger
      <3>6. until'[k] \in Nat
        <4>1. RetentionInv'
          BY Zenon, NextInv
        <4> QED BY Zenon, <4>1 DEF RetentionInv, TypeOK
      <3> QED BY <1>1, <3>5, <3>6
    <2> QED BY ZenonT(60), <1>4, <2>1, <2>2, <2>3, <2>4, <2>5, <2>6, <2>7 DEF KeyStep
  <1>5. CASE ExpireRetention
    <2> DEFINE Due(now) == IF Drained(now) <= wtick THEN {} ELSE DueEntries(now, Drained(now))
    <2>1. PICK s \in Samples :
            /\ rnow' = Larger(rnow, s)
            /\ until' = [j \in Keys |-> IF j \in {i \in Keys : <<i, until[i]>> \in Due(rnow')}
                                        THEN 0 ELSE until[j]]
      BY Zenon, <1>5 DEF ExpireRetention
    <2>2. <<k, until[k]>> \in Due(rnow')
      BY Zenon, <1>2, <2>1
    <2>3. <<k, until[k]>>[2] <= rnow'
      BY Zenon, <2>2 DEF DueEntries
    <2>4. rnow' \in Nat
      BY Zenon, <2>1, NowGrows
    <2> QED BY Zenon, <1>1, <2>3, <2>4
  <1> QED BY Zenon, <1>3, <1>4, <1>5 DEF Next

\* A granted protection never ends early, whichever eviction, expiry, reader,
\* writer or clock step comes first.
THEOREM ProtectionNeverEndsEarly == Spec => NeverEndsEarly
  <1>1. RetentionInv /\ [Next]_vars => [EndsRightly]_vars
    BY Zenon, StepEndsRightly
  <1> QED BY <1>1, InvariantHolds, PTL DEF Spec, NeverEndsEarly, EndsRightly

=============================================================================
