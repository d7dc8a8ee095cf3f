---------------------------- MODULE ReadCoalescer ----------------------------
(***************************************************************************)
(* The read path of a cache node once the RAM tier has missed:             *)
(* src/src/cache/read_coalescer.h and the KvNodeServer functions that use  *)
(* it (PrepareReadForKey, FinishDiskRead, FinishPromotedDiskRead and       *)
(* RangeDirectForKey, kv_node_server.cc).                                  *)
(*                                                                         *)
(* Concurrent reads of one key share one disk read, a flight.  A serving   *)
(* thread leads a flight in one of two ways.  It registers an asynchronous *)
(* read, hands it to its ring and goes on with its other requests; only    *)
(* that thread can complete the flight later.  Or it reads synchronously   *)
(* inside ReadCoalescer::Read.  A follower sleeps on the flight, at most   *)
(* WaitMs, and then copies the leader's bytes, looks in the RAM tier, or   *)
(* reads for itself.                                                       *)
(*                                                                         *)
(* Of the bytes only their state is kept: Whole, or Torn for a buffer that *)
(* was allocated and not yet filled.  The request's range is part of the   *)
(* key; all reads here are of whole values.                                *)
(***************************************************************************)
EXTENDS Integers, Sequences, FiniteSets, FiniteSetsExt

CONSTANTS FKeys,      \* the keys that are read
          RReaders,   \* the serving threads
          RingDepth,  \* asynchronous reads one thread may have in its ring
          Scripts     \* bound: the keys each thread is asked for, in order

ASSUME CoalescerAssumption ==
    /\ IsFiniteSet(RReaders) /\ RingDepth \in Nat
    /\ Scripts \subseteq [RReaders -> Seq(FKeys)]

VARIABLES map,      \* map_: the flight that reads a key, 0 if none
          flight,   \* the flights some thread still refers to
          ring,     \* the asynchronous reads of each thread, by slot
          reader,   \* what each thread is doing
          ram,      \* the durable entry of a key in the RAM tier, or NoData
          reads     \* the requests still to come, by thread

coalesceVars == <<map, flight, ring, reader, ram, reads>>

NoData == "no data"
Torn   == "torn"
Whole  == "whole"

(* Flight: `data' are the shared bytes, `copiers' is copy_waiters, `pub'   *)
(* is publishes_to_ram.                                                    *)
NoFlight == [key |-> "none", leader |-> "none", pub |-> FALSE, done |-> FALSE,
             ok |-> FALSE, data |-> NoData, copiers |-> 0]
FlightIds == 1 .. (Cardinality(RReaders) * (RingDepth + 1))

NoRead == [id |-> 0, key |-> "none", direct |-> FALSE]

IdleReader == [pc |-> "idle", key |-> "none", id |-> 0, force |-> FALSE,
               slot |-> 0, got |-> NoData, later |-> "none"]

ReadCoalescerInit ==
    /\ map = [k \in FKeys |-> 0]
    /\ flight = [f \in FlightIds |-> NoFlight]
    /\ ring = [t \in RReaders |-> [s \in 1 .. RingDepth |-> NoRead]]
    /\ reader = [t \in RReaders |-> IdleReader]
    /\ ram = [k \in FKeys |-> NoData]
    /\ reads \in Scripts

(***************************************************************************)
(* A flight is a shared_ptr: its id is free again when neither map_, a     *)
(* ring nor a thread refers to it.                                         *)
(***************************************************************************)
InRing(t) == {ring[t][s].id : s \in 1 .. RingDepth}

Referred == {map[k] : k \in FKeys} \union {reader[t].id : t \in RReaders}
                \union UNION {InRing(t) : t \in RReaders}

FreshFlight == Min(FlightIds \ Referred)

FreeSlots(t) == {s \in 1 .. RingDepth : ring[t][s] = NoRead}

To(t, pc) == [reader EXCEPT ![t].pc = pc]

(* The answer; only a torn one is remembered.                              *)
Answer(t, v) ==
    [reader EXCEPT ![t] = [IdleReader EXCEPT !.got = IF v = Torn THEN v ELSE NoData,
                                             !.later = reader[t].later]]

(* The flights after thread t has dropped its reference to f.              *)
Released(fs, t, f) ==
    LET others == {map[k] : k \in FKeys}
                     \union UNION {InRing(u) \union {reader[u].id} : u \in RReaders \ {t}}
    IN  IF f = 0 \/ f \in others THEN fs ELSE [fs EXCEPT ![f] = NoFlight]

(***************************************************************************)
(* PrepareReadForKey: a RAM hit answers at once.  A thread takes a request *)
(* only between two others and with a free slot; its ring may hold reads   *)
(* it has not reaped.                                                      *)
(***************************************************************************)
PrepareRead(t) ==
    /\ reads[t] # <<>>
    /\ reader[t].pc = "idle"
    /\ reader[t].later = "none"
    /\ FreeSlots(t) # {}
    /\ reads' = [reads EXCEPT ![t] = Tail(@)]
    /\ LET k == Head(reads[t])
       IN  reader' = IF ram[k] # NoData
                       THEN Answer(t, ram[k])
                       ELSE [reader EXCEPT ![t] =
                               [IdleReader EXCEPT !.pc = "published", !.key = k]]
    /\ UNCHANGED <<map, flight, ring, ram>>

(***************************************************************************)
(* WaitForPublished: only a flight that was born with the promise to       *)
(* publish into RAM is waited for, and never by the thread that leads it.  *)
(***************************************************************************)
JoinOrBypass(t) ==
    LET f == map[reader[t].key]
    IN  reader' = CASE f = 0 \/ ~flight[f].pub -> To(t, "joinable")
                    [] f # 0 /\ flight[f].pub /\ flight[f].leader = t ->
                         [reader EXCEPT ![t].pc = "lease", ![t].force = TRUE]
                    [] OTHER ->
                         [reader EXCEPT ![t].pc = "await", ![t].id = f]

WaitForPublished(t) ==
    /\ reader[t].pc = "published"
    /\ JoinOrBypass(t)
    /\ UNCHANGED <<map, flight, ring, ram, reads>>

Independent(t) ==
    [reader EXCEPT ![t].pc = "lease", ![t].force = TRUE, ![t].id = 0]

(* kReady looks in the RAM tier again; failure and eviction read anew.     *)
AwaitEnds(t) ==
    /\ reader[t].pc = "await"
    /\ flight[reader[t].id].done
    /\ reader' = IF flight[reader[t].id].ok /\ ram[reader[t].key] # NoData
                   THEN Answer(t, ram[reader[t].key])
                   ELSE Independent(t)
    /\ flight' = Released(flight, t, reader[t].id)
    /\ UNCHANGED <<map, ring, ram, reads>>

(* wait_for runs out while the leader is still reading.                    *)
AwaitTimesOut(t) ==
    /\ reader[t].pc = "await"
    /\ ~flight[reader[t].id].done
    /\ reader' = Independent(t)
    /\ UNCHANGED <<map, flight, ring, ram, reads>>

(***************************************************************************)
(* InFlight: another flight is joined by the synchronous path, which the   *)
(* serving thread puts off until its own ring is empty.                    *)
(***************************************************************************)
PutOff(t) ==
    [reader EXCEPT ![t] = [IdleReader EXCEPT !.later = reader[t].key]]

InFlight(t) ==
    /\ reader[t].pc = "joinable"
    /\ reader' = IF map[reader[t].key] # 0 THEN PutOff(t) ELSE To(t, "lease")
    /\ UNCHANGED <<map, flight, ring, ram, reads>>

(***************************************************************************)
(* RangeDirectPrep, ReserveDurable and TryRegisterAsync.  The lease pins   *)
(* the version that is on disk now.  A reservation in the arena may be     *)
(* refused; with one, the flight promises to publish into RAM.  When a     *)
(* flight for the key appeared meanwhile, lease and reservation are        *)
(* dropped and the synchronous path is taken.                              *)
(***************************************************************************)
Lease(t) ==
    /\ reader[t].pc = "lease"
    /\ LET s == Min(FreeSlots(t)) k == reader[t].key
       IN  \E direct \in BOOLEAN :
             ring' = [ring EXCEPT ![t][s] =
                        [id |-> 0, key |-> k, direct |-> direct]]
           /\ reader' = [reader EXCEPT ![t].pc = "register", ![t].slot = s]
    /\ UNCHANGED <<map, flight, ram, reads>>

TryRegisterAsync(t, k, f, publishes) ==
    /\ map' = [map EXCEPT ![k] = f]
    /\ flight' = [flight EXCEPT ![f] =
          [NoFlight EXCEPT !.key = k, !.leader = t, !.pub = publishes]]

Register(t) ==
    LET k == reader[t].key s == reader[t].slot f == FreshFlight
    IN  /\ reader[t].pc = "register"
        /\ IF reader[t].force
             THEN /\ reader' = [reader EXCEPT ![t] = IdleReader]
                  /\ UNCHANGED <<map, flight, ring>>
           ELSE IF map[k] # 0
             THEN /\ ring' = [ring EXCEPT ![t][s] = NoRead]
                  /\ reader' = PutOff(t)
                  /\ UNCHANGED <<map, flight>>
             ELSE /\ TryRegisterAsync(t, k, f, ring[t][s].direct)
                  /\ ring' = [ring EXCEPT ![t][s].id = f]
                  /\ reader' = [reader EXCEPT ![t] = IdleReader]
        /\ UNCHANGED <<ram, reads>>

(***************************************************************************)
(* FinishDiskRead and FinishPromotedDiskRead, with CompleteAsync.  The     *)
(* thread reaps a completion between two requests.  A promoted read is     *)
(* published into RAM before the flight ends, a staged one after.  The     *)
(* flight leaves map_; then, for copying followers, a buffer is allocated  *)
(* and filled; then `done' is set.                                         *)
(***************************************************************************)
Reap(t, s, ok) ==
    LET r == ring[t][s] v == IF ok THEN Whole ELSE NoData
    IN  /\ reader[t].pc = "idle"
        /\ r # NoRead
        /\ ram' = IF ok /\ r.direct THEN [ram EXCEPT ![r.key] = Whole] ELSE ram
        /\ reader' = IF r.id = 0
                       THEN Answer(t, v)
                       ELSE [reader EXCEPT ![t].pc = "complete", ![t].id = r.id,
                                ![t].slot = s, ![t].key = r.key, ![t].got = v]
        /\ ring' = IF r.id = 0 THEN [ring EXCEPT ![t][s] = NoRead] ELSE ring
        /\ UNCHANGED <<map, flight, reads>>

(* The locked part of CompleteAsync: the token and the map_ entry go.      *)
Erase(t) ==
    LET f == reader[t].id
    IN  /\ reader[t].pc = "complete"
        /\ map' = [map EXCEPT ![flight[f].key] = IF @ = f THEN 0 ELSE @]
        /\ reader' = To(t, "copy")
        /\ UNCHANGED <<flight, ring, ram, reads>>

Allocates(t) == flight[reader[t].id].copiers > 0 /\ reader[t].got # NoData

Allocate(t) ==
    /\ reader[t].pc = "copy"
    /\ IF Allocates(t)
         THEN /\ flight' = [flight EXCEPT ![reader[t].id].data = Torn]
              /\ reader' = To(t, "fill")
         ELSE /\ reader' = To(t, "end")
              /\ UNCHANGED flight
    /\ UNCHANGED <<map, ring, ram, reads>>

\* Mutant: followers are released before the data is there.
EndsBeforeTheCopy(t) ==
    /\ reader[t].pc = "fill"
    /\ flight' = [flight EXCEPT ![reader[t].id].done = TRUE,
                                ![reader[t].id].ok = TRUE]
    /\ reader' = To(t, "end")
    /\ UNCHANGED <<map, ring, ram, reads>>

Fill(t) ==
    /\ reader[t].pc = "fill"
    /\ flight' = [flight EXCEPT ![reader[t].id].data = reader[t].got]
    /\ reader' = To(t, "end")
    /\ UNCHANGED <<map, ring, ram, reads>>

(* `done' with the status, then PutDurable of a staged whole value.        *)
EndFlight(t) ==
    LET f == reader[t].id v == reader[t].got
    IN  /\ reader[t].pc = "end"
        /\ flight' = Released([flight EXCEPT ![f].done = TRUE, ![f].ok = v # NoData],
                              t, f)
        /\ ram' = IF v # NoData /\ ~flight[f].pub
                    THEN [ram EXCEPT ![reader[t].key] = v] ELSE ram
        /\ ring' = [ring EXCEPT ![t][reader[t].slot] = NoRead]
        /\ reader' = Answer(t, v)
        /\ UNCHANGED <<map, reads>>

(***************************************************************************)
(* The connection ends with reads still in the ring: each is aborted       *)
(* (committed = false) and its flight completed with an error.             *)
(***************************************************************************)
Abort(t, s) ==
    LET f == ring[t][s].id
    IN  /\ reader[t].pc = "idle"
        /\ ring[t][s] # NoRead
        /\ ring' = [ring EXCEPT ![t][s] = NoRead]
        /\ map' = [k \in FKeys |-> IF f # 0 /\ map[k] = f THEN 0 ELSE map[k]]
        /\ flight' =
              IF f = 0 THEN flight
              ELSE IF \E u \in RReaders : reader[u].id = f
                THEN [flight EXCEPT ![f].done = TRUE]
                ELSE [flight EXCEPT ![f] = NoFlight]
        /\ UNCHANGED <<reader, ram, reads>>

(***************************************************************************)
(* The synchronous path: RangeDirectForKey, once the ring is empty.        *)
(***************************************************************************)
(* ReadCoalescer::Read under mu_: become the leader, or find a flight.     *)
ReadFlight(t) ==
    LET k == reader[t].later f == FreshFlight
        now == [IdleReader EXCEPT !.key = k]
    IN  /\ reader[t].pc = "idle"
        /\ k # "none"
        /\ \A s \in 1 .. RingDepth : ring[t][s] = NoRead
        /\ IF ram[k] # NoData
             THEN /\ reader' = [reader EXCEPT ![t] = IdleReader]
                  /\ UNCHANGED <<map, flight>>
           ELSE IF map[k] = 0
             THEN /\ map' = [map EXCEPT ![k] = f]
                  /\ flight' = [flight EXCEPT ![f] =
                        [NoFlight EXCEPT !.key = k, !.leader = t, !.data = Torn]]
                  /\ reader' = [reader EXCEPT ![t] =
                        [now EXCEPT !.pc = "lead", !.id = f]]
             ELSE /\ reader' = [reader EXCEPT ![t] = [now EXCEPT !.id = map[k],
                        !.pc = IF flight[map[k]].leader = t THEN "own" ELSE "count"]]
                  /\ UNCHANGED <<map, flight>>
        /\ UNCHANGED <<ring, ram, reads>>

(* The leader's fill: the disk read lands in the shared buffer.            *)
LeaderFill(t, ok) ==
    /\ reader[t].pc = "lead"
    /\ flight' = [flight EXCEPT ![reader[t].id].data = IF ok THEN Whole ELSE Torn]
    /\ reader' = [reader EXCEPT ![t].pc = "erase",
                                ![t].got = IF ok THEN Whole ELSE NoData]
    /\ UNCHANGED <<map, ring, ram, reads>>

LeaderErase(t) ==
    /\ reader[t].pc = "erase"
    /\ map' = [map EXCEPT ![reader[t].key] = IF @ = reader[t].id THEN 0 ELSE @]
    /\ reader' = To(t, "finish")
    /\ UNCHANGED <<flight, ring, ram, reads>>

(* done, notify_all; then RangeDirectForKey promotes the whole value.      *)
LeaderDone(t) ==
    LET v == reader[t].got
    IN  /\ reader[t].pc = "finish"
        /\ flight' = Released([flight EXCEPT ![reader[t].id].done = TRUE,
                                             ![reader[t].id].ok = v # NoData],
                              t, reader[t].id)
        /\ ram' = IF v # NoData THEN [ram EXCEPT ![reader[t].key] = v] ELSE ram
        /\ reader' = Answer(t, v)
        /\ UNCHANGED <<map, ring, reads>>

(* A follower counts itself outside mu_; the leader may already be past    *)
(* its look at copy_waiters.                                               *)
Follow(t) ==
    /\ reader[t].pc = "count"
    /\ flight' = [flight EXCEPT ![reader[t].id].copiers = @ + 1]
    /\ reader' = To(t, "follow")
    /\ UNCHANGED <<map, ring, ram, reads>>

FollowerCopies(t) ==
    LET f == flight[reader[t].id]
    IN  /\ reader[t].pc = "follow"
        /\ f.done
        /\ IF f.ok /\ f.data # NoData
             THEN /\ ram' = [ram EXCEPT ![reader[t].key] = f.data]
                  /\ reader' = Answer(t, f.data)
                  /\ flight' = Released(flight, t, reader[t].id)
             ELSE /\ reader' = To(t, "own")
                  /\ UNCHANGED <<ram, flight>>
        /\ UNCHANGED <<map, ring, reads>>

FollowerTimesOut(t) ==
    /\ reader[t].pc = "follow"
    /\ ~flight[reader[t].id].done
    /\ reader' = To(t, "own")
    /\ UNCHANGED <<map, flight, ring, ram, reads>>

(* fill into the caller's own buffer, then the promotion.                  *)
OwnFill(t, ok) ==
    LET k == reader[t].key
    IN  /\ reader[t].pc = "own"
        /\ ram' = IF ok THEN [ram EXCEPT ![k] = Whole] ELSE ram
        /\ reader' = Answer(t, NoData)
        /\ flight' = Released(flight, t, reader[t].id)
        /\ UNCHANGED <<map, ring, reads>>

(* The RAM tier evicts the entry.                                          *)
EvictDurable(k) ==
    /\ ram[k] # NoData
    /\ ram' = [ram EXCEPT ![k] = NoData]
    /\ UNCHANGED <<map, flight, ring, reader, reads>>

ReaderTurn(t) ==
    \/ WaitForPublished(t) \/ AwaitEnds(t) \/ AwaitTimesOut(t) \/ InFlight(t)
    \/ Lease(t) \/ Register(t) \/ Erase(t) \/ Allocate(t) \/ Fill(t)
    \/ EndFlight(t) \/ ReadFlight(t) \/ LeaderErase(t) \/ LeaderDone(t) \/ Follow(t)
    \/ FollowerCopies(t) \/ FollowerTimesOut(t)
    \/ \E ok \in BOOLEAN : LeaderFill(t, ok) \/ OwnFill(t, ok)

ReapTurn(t) == \E s \in 1 .. RingDepth, ok \in BOOLEAN : Reap(t, s, ok)

ReadCoalescerNext ==
    \/ \E t \in RReaders :
          \/ PrepareRead(t)
          \/ ReaderTurn(t)
          \/ ReapTurn(t)
          \/ \E s \in 1 .. RingDepth : Abort(t, s)
    \/ \E k \in FKeys : EvictDurable(k)

ReadCoalescerSpec == ReadCoalescerInit /\ [][ReadCoalescerNext]_coalesceVars

(***************************************************************************)
(* Every answer is the whole value: no follower copies a shared            *)
(* buffer between its allocation and its fill, although it reads the       *)
(* buffer under no lock but the flight's (Read 316-332, CompleteAsync      *)
(* 186-196).  And every flight in map_ still has a leader that will end    *)
(* it, so an aborted read never leaves its key to time out for ever.       *)
(***************************************************************************)
FlightsAreSound ==
    /\ \A t \in RReaders : reader[t].got # Torn
    /\ \A k \in FKeys : ram[k] # Torn
    /\ \A k \in FKeys : map[k] # 0 =>
          LET t == flight[map[k]].leader
          IN  /\ ~flight[map[k]].done
              /\ map[k] \in InRing(t) \union {reader[t].id}

(***************************************************************************)
(* Every request is answered, although two threads may each wait for the   *)
(* flight the other can only complete after its own wait: the wait ends by *)
(* itself (WaitForPublished 225-230), and a thread never waits for a       *)
(* flight it leads (220-221).  While a request is unanswered, some thread  *)
(* can take a step or some disk read can complete.                         *)
(***************************************************************************)
ReadsReturn ==
    (\E t \in RReaders : reader[t].pc # "idle" \/ reader[t].later # "none")
        => ENABLED (\E t \in RReaders : ReaderTurn(t) \/ ReapTurn(t))

(***************************************************************************)
(* A coalesced read returns, with the whole value.                         *)
(***************************************************************************)
ReadsAreCoalesced == FlightsAreSound /\ ReadsReturn
=============================================================================
