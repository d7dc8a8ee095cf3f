---------------------------- MODULE RetainClient ----------------------------
(***************************************************************************)
(* The client side of retention (BatchRetain, RetainNode and RetainLimits  *)
(* in kv_client.cc): one request per owning node, a node                   *)
(* that does not know the operation degrades to an existence probe, and a  *)
(* REFRESH of a key found protected a short while ago is not sent at all.  *)
(* The node's side is Retention; here it is the ticks of protection a key  *)
(* has left.  Every key is present unless removed.                         *)
(***************************************************************************)
EXTENDS Integers, FiniteSets

CONSTANTS RKeys, RNodes,
          ROwner,          \* [RKeys -> RNodes]
          Aware,           \* the nodes that support kRetain
          RCallers,        \* threads that call BatchRetain
          SetTtl,          \* the TTL SET asks for, and REFRESH names as its hint
          DebouncePart,    \* interval = ttl / DebouncePart (10 in the code)
          ReplyDelay,      \* ticks a reply may take
          EntryCap         \* RetainDebounceCapPerShard

\* A reply is not so late that a debounced entry outlives the protection it
\* was stamped for.
ASSUME RetainClientAssumption ==
  /\ {SetTtl, DebouncePart, ReplyDelay, EntryCap} \subseteq Nat
  /\ ROwner \in [RKeys -> RNodes]
  /\ \A age \in 0..SetTtl : age * DebouncePart < SetTtl => age + ReplyDelay < SetTtl

VARIABLES support,         \* [RNodes -> {-1, 0, 1}]: retain_nodes_.supported
          entry,           \* retain_debounce_: [subset of RKeys -> age]
          protection,      \* [RKeys -> ticks left at the node, 0 = none]
          recorded,        \* [RKeys -> TTL recorded at the node]
          stored,          \* the keys the node holds
          rcall,           \* [RCallers -> a BatchRetain in progress]
          skipped          \* history: the keys the last step answered kRetSkippedDebounce

retainVars == <<support, entry, protection, recorded, stored, rcall, skipped>>

NoRCall == [pc |-> "idle", mode |-> "set", keys |-> {}, code |-> <<>>, age |-> 0]

RetainClientInit ==
  /\ support = [n \in RNodes |-> -1] /\ entry = [k \in {} |-> 0]
  /\ protection = [k \in RKeys |-> 0] /\ recorded = [k \in RKeys |-> 0]
  /\ stored = RKeys /\ rcall = [c \in RCallers |-> NoRCall] /\ skipped = {}

(* Mutant: a key counts as recently protected for its whole time to live.  *)
WholeTtl(k) == k \in DOMAIN entry /\ entry[k] < SetTtl

Debounced(k) == k \in DOMAIN entry /\ entry[k] * DebouncePart < SetTtl

\* BatchRetain: the debounced keys are answered, the others go to their node.
BatchRetain(c, ks, mode) ==
  /\ rcall[c].pc = "idle"
  /\ skipped' = IF mode = "refresh" THEN {k \in ks : Debounced(k)} ELSE {}
  /\ LET rest == ks \ skipped' IN
     rcall' = [rcall EXCEPT ![c] = IF rest = {} THEN NoRCall
                 ELSE [NoRCall EXCEPT !.pc = "send", !.mode = mode, !.keys = rest]]
  /\ UNCHANGED <<support, entry, protection, recorded, stored>>

(***************************************************************************)
(* RetainNode, the request: the node acts.  SET protects with the asked    *)
(* TTL unless the node denies it, REFRESH renews with the recorded one.    *)
(***************************************************************************)
Same(n, ks) == {k \in ks : ROwner[k] = n}

RetainSent(c, n) ==
  /\ rcall[c].pc = "send" /\ Same(n, rcall[c].keys) # {}
  /\ n \in Aware /\ support[n] # 0
  /\ \E denied \in SUBSET Same(n, rcall[c].keys) :
     LET ks == Same(n, rcall[c].keys) \cap stored
         protects(k) == IF rcall[c].mode = "set" THEN k \notin denied ELSE protection[k] > 0
         ttl(k) == IF rcall[c].mode = "set" THEN SetTtl ELSE recorded[k]
     IN /\ protection' = [k \in RKeys |-> IF k \in ks /\ protects(k) THEN ttl(k) ELSE protection[k]]
        /\ recorded' = [k \in RKeys |-> IF k \in ks /\ protects(k) THEN ttl(k) ELSE recorded[k]]
        /\ rcall' = [rcall EXCEPT ![c].pc = "reply",
             ![c].code = [k \in Same(n, rcall[c].keys) |->
                IF k \notin stored THEN "miss" ELSE IF protects(k) THEN "protected" ELSE "plain"]]
  /\ skipped' = {} /\ UNCHANGED <<support, entry, stored>>

\* The reply: the node is known to support retention, and each key it found
\* protected is stamped with the time of the reply; a full table is cleared
\* and starts over with the keys stamped last.
RetainNode(c) ==
  /\ rcall[c].pc = "reply"
  /\ LET got == rcall[c].code
         kept == {k \in DOMAIN got : got[k] = "protected"}
         gone == DOMAIN got \ kept
         n == ROwner[CHOOSE k \in DOMAIN got : TRUE]
         others == (DOMAIN entry) \ (gone \cup kept)
         fresh == kept \ DOMAIN entry
         cleared == Cardinality(DOMAIN entry \ gone) + Cardinality(fresh) > EntryCap
     IN /\ support' = [support EXCEPT ![n] = 1]
        /\ \E last \in SUBSET kept :
             /\ IF cleared THEN Cardinality(last) \in 1..EntryCap ELSE last = kept
             /\ entry' = [k \in (IF cleared THEN last ELSE kept \cup others) |->
                            IF k \in kept THEN 0 ELSE entry[k]]
        /\ LET rest == rcall[c].keys \ DOMAIN got IN
           rcall' = [rcall EXCEPT ![c] = IF rest = {} THEN NoRCall
                       ELSE [@ EXCEPT !.pc = "send", !.keys = rest, !.code = <<>>, !.age = 0]]
  /\ skipped' = {} /\ UNCHANGED <<protection, recorded, stored>>

\* A lost request or reply, and a peer in cooldown: kRetError, nothing learnt.
RetainFails(c, n) ==
  /\ \/ rcall[c].pc = "send" /\ Same(n, rcall[c].keys) # {}
     \/ rcall[c].pc = "reply" /\ Same(n, DOMAIN rcall[c].code) # {}
  /\ LET rest == rcall[c].keys \ Same(n, rcall[c].keys) IN
     rcall' = [rcall EXCEPT ![c] = IF rest = {} THEN NoRCall
                 ELSE [@ EXCEPT !.pc = "send", !.keys = rest, !.code = <<>>, !.age = 0]]
  /\ skipped' = {} /\ UNCHANGED <<support, entry, protection, recorded, stored>>

\* kInvalid from a node that does not know kRetain, once learnt never asked
\* again: REFRESH probes existence, SET is answered kRetUnsupported.
Fallback(c, n) ==
  /\ rcall[c].pc = "send" /\ Same(n, rcall[c].keys) # {}
  /\ n \notin Aware \/ support[n] = 0
  /\ support' = [support EXCEPT ![n] = 0]
  /\ LET rest == rcall[c].keys \ Same(n, rcall[c].keys) IN
     rcall' = [rcall EXCEPT ![c] = IF rest = {} THEN NoRCall ELSE [@ EXCEPT !.keys = rest]]
  /\ skipped' = {} /\ UNCHANGED <<entry, protection, recorded, stored>>

\* RetainLimits probes the nodes never heard of.
RetainLimits(n) ==
  /\ support[n] = -1
  /\ support' = [support EXCEPT ![n] = IF n \in Aware THEN 1 ELSE 0]
  /\ skipped' = {} /\ UNCHANGED <<entry, protection, recorded, stored, rcall>>

RetainTick ==
  /\ \A c \in RCallers : rcall[c].pc = "reply" => rcall[c].age < ReplyDelay
  /\ protection' = [k \in RKeys |-> IF protection[k] > 0 THEN protection[k] - 1 ELSE 0]
  /\ entry' = [k \in DOMAIN entry |-> IF entry[k] < SetTtl THEN entry[k] + 1 ELSE entry[k]]
  /\ rcall' = [c \in RCallers |-> IF rcall[c].pc = "reply"
                                  THEN [rcall[c] EXCEPT !.age = @ + 1] ELSE rcall[c]]
  /\ skipped' = {} /\ UNCHANGED <<support, recorded, stored>>

\* KVClient::Remove of a key: the node forgets it, retain_debounce_ does not.
RemoveKey(k) ==
  /\ k \in stored /\ stored' = stored \ {k}
  /\ protection' = [protection EXCEPT ![k] = 0] /\ recorded' = [recorded EXCEPT ![k] = 0]
  /\ skipped' = {} /\ UNCHANGED <<support, entry, rcall>>

RetainClientNext ==
  \/ \E c \in RCallers, ks \in SUBSET RKeys \ {{}}, m \in {"set", "refresh"} : BatchRetain(c, ks, m)
  \/ \E c \in RCallers, n \in RNodes : RetainSent(c, n) \/ RetainFails(c, n) \/ Fallback(c, n)
  \/ \E c \in RCallers : RetainNode(c)
  \/ \E n \in RNodes : RetainLimits(n)
  \/ \E k \in RKeys : RemoveKey(k)
  \/ RetainTick

RetainClientSpec == RetainClientInit /\ [][RetainClientNext]_retainVars

(***************************************************************************)
(* "Protected within the last ttl/10: still protected": a key answered     *)
(* kRetSkippedDebounce, which counts as a hit, is protected at its node at *)
(* that moment unless it was removed, however late the reply that stamped  *)
(* its entry came.                                                         *)
(***************************************************************************)
SkippedIsProtected == \A k \in skipped \cap stored : protection[k] > 0
=============================================================================
