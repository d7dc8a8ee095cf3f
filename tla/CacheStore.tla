----------------------------- MODULE CacheStore -----------------------------
(***************************************************************************)
(* What a store engine promises (StoreEngine, src/src/cache/store_engine.h): *)
(* a cache of write-once keys.  A key shows one whole value, the one its    *)
(* PUT published; the value may go at any time, to make room or because the *)
(* store has failed; after REMOVE it is gone until a new PUT of the key     *)
(* begins; and a store that opens again shows nothing but values it showed  *)
(* before and was not asked to remove.                                      *)
(***************************************************************************)
CONSTANTS Keys, Values, Nothing

VARIABLES open,      \* the store serves
          visible,   \* [Keys -> Values \cup {Nothing}]: what a GET finds
          kept,      \* the last value shown since the key's last REMOVE
          gone       \* removed, and no PUT has begun since

storeVars == <<open, visible, kept, gone>>

Empty == [k \in Keys |-> Nothing]
Without(S) == [k \in Keys |-> IF k \in S THEN Nothing ELSE visible[k]]

CacheStoreInit == ~open /\ visible = Empty /\ kept = Empty /\ gone = {}

(* A PUT takes a slot for k, perhaps from other keys.                      *)
BeginPut(k) ==
  /\ open
  /\ gone' = gone \ {k}
  /\ \E S \in SUBSET Keys : visible' = Without(S)
  /\ UNCHANGED <<open, kept>>

Publish(k, v) ==
  /\ open /\ k \notin gone /\ visible[k] = Nothing
  /\ visible' = [visible EXCEPT ![k] = v]
  /\ kept' = [kept EXCEPT ![k] = v]
  /\ UNCHANGED <<open, gone>>

Remove(k) ==
  /\ open
  /\ visible' = [visible EXCEPT ![k] = Nothing]
  /\ kept' = [kept EXCEPT ![k] = Nothing]
  /\ gone' = gone \cup {k}
  /\ UNCHANGED open

(* Eviction, reclaim, or a failure that closes the store to readers.       *)
Drop(S) == open /\ visible' = Without(S) /\ UNCHANGED <<open, kept, gone>>

(* The process ends, in order or not.                                      *)
Close == open /\ open' = FALSE /\ visible' = Empty /\ UNCHANGED <<kept, gone>>

Open ==
  /\ ~open /\ open' = TRUE
  /\ \E S \in SUBSET Keys : visible' = [k \in Keys |-> IF k \in S THEN kept[k] ELSE Nothing]
  /\ UNCHANGED <<kept, gone>>

CacheStoreNext ==
  \/ \E k \in Keys : BeginPut(k) \/ Remove(k) \/ \E v \in Values : Publish(k, v)
  \/ \E S \in SUBSET Keys : Drop(S)
  \/ Close \/ Open

CacheStoreSpec == CacheStoreInit /\ [][CacheStoreNext]_storeVars
=============================================================================
