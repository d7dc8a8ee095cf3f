----------------------------- MODULE PeerHealth -----------------------------
(***************************************************************************)
(* The client's record of which peers to avoid (peer_health.h), used by    *)
(* threads that send calls and by the background prober.  Times are kept   *)
(* relative to now: a cooldown as the ticks that remain, the last served   *)
(* response as its age.  A thread reads the clock before it enters         *)
(* MarkGood or MarkBad, so the time it passes may be some ticks old.       *)
(***************************************************************************)
EXTENDS Integers, Sequences, FiniteSets

LOCAL INSTANCE SequencesExt

CONSTANTS Peers, HThreads,
          BaseCooldown, MaxCooldown, BusyGrace,
          MaxPeers,     \* kMaxPeers
          MaxStale      \* ticks a thread may take from the clock to the lock

ASSUME PeerHealthAssumption ==
  /\ BaseCooldown \in Nat \ {0} /\ MaxCooldown \in Nat /\ BaseCooldown <= MaxCooldown
  /\ BusyGrace \in Nat /\ MaxPeers \in Nat \ {0} /\ MaxStale \in Nat

VARIABLES up,           \* the peers that answer
          until,        \* [tracked subset of Peers -> ticks of cooldown left]
          streak,       \* fail_streak_
          lastGood,     \* last_good_, as ages
          lru,          \* peer_lru_, oldest first
          sender        \* [HThreads -> a data-path call]

healthVars == <<up, until, streak, lastGood, lru, sender>>

IdleSender == [pc |-> "idle", peer |-> "none", stale |-> 0]
Without(f, x) == [y \in DOMAIN f \ {x} |-> f[y]]
With(f, x, v) == [y \in DOMAIN f \cup {x} |-> IF y = x THEN v ELSE f[y]]
Empty == [x \in {} |-> 0]

PeerHealthInit ==
  /\ up \in SUBSET Peers
  /\ until = Empty /\ streak = Empty /\ lastGood = Empty /\ lru = <<>>
  /\ sender = [t \in HThreads |-> IdleSender]

(* Mutant: a peer is healthy again only when its entry has been erased.    *)
HealthyWhenErased(p) == p \notin DOMAIN until

Healthy(p) == p \in DOMAIN until => until[p] <= 0

\* TrackLocked: the peer goes to the back of the list; the one at the front
\* loses all its state when the list is full.
Tracked(p) ==
  LET known  == \E i \in 1..Len(lru) : lru[i] = p
      full   == ~known /\ Len(lru) = MaxPeers
      victim == IF full THEN {Head(lru)} ELSE {}
      kept   == SelectSeq(lru, LAMBDA q : q # p /\ q \notin victim)
      drop(f) == [q \in DOMAIN f \ victim |-> f[q]]
  IN [lru |-> Append(kept, p), until |-> drop(until), streak |-> drop(streak),
      lastGood |-> drop(lastGood)]

Cooldown(fails) ==
  LET cd == BaseCooldown * 2 ^ (fails - 1) IN IF cd > MaxCooldown THEN MaxCooldown ELSE cd

\* The age of the last response as MarkBad computes it from a clock reading
\* stale ticks old: an unsigned difference, huge when it would be negative.
Since(age, stale) == IF age >= stale THEN age - stale ELSE BusyGrace + 1

MarkBad(t) ==
  /\ sender[t].pc = "bad"
  /\ LET p  == sender[t].peer
         tr == Tracked(p)
         fails == IF p \in DOMAIN tr.streak THEN tr.streak[p] + 1 ELSE 1
         busy == p \in DOMAIN tr.lastGood /\ Since(tr.lastGood[p], sender[t].stale) < BusyGrace
     IN /\ lru' = tr.lru /\ lastGood' = tr.lastGood
        /\ IF busy THEN until' = tr.until /\ streak' = tr.streak
           ELSE /\ streak' = With(tr.streak, p, IF fails > MaxCooldown THEN MaxCooldown ELSE fails)
                /\ until' = With(tr.until, p, Cooldown(fails) - sender[t].stale)
  /\ sender' = [sender EXCEPT ![t] = IdleSender]
  /\ UNCHANGED up

MarkGood(t) ==
  /\ sender[t].pc = "good"
  /\ LET p == sender[t].peer
         tr == Tracked(p)
     IN /\ lru' = tr.lru /\ lastGood' = With(tr.lastGood, p, sender[t].stale)
        /\ until' = Without(tr.until, p) /\ streak' = Without(tr.streak, p)
  /\ sender' = [sender EXCEPT ![t] = IdleSender]
  /\ UNCHANGED up

\* ProbeLoop: a peer that answers the sentinel probe is cleared.
MarkProbeAlive(p) ==
  /\ p \in up /\ p \in DOMAIN until
  /\ lru' = IF \E i \in 1..Len(lru) : lru[i] = p
            THEN Append(SelectSeq(lru, LAMBDA q : q # p), p) ELSE lru
  /\ until' = Without(until, p) /\ streak' = Without(streak, p)
  /\ UNCHANGED <<up, lastGood, sender>>

\* A data-path call: not sent to an unhealthy peer; a peer that is up may
\* still fail one call; then the clock is read and the outcome recorded.
Send(t, p) ==
  /\ sender[t].pc = "idle" /\ Healthy(p)
  /\ sender' = [sender EXCEPT ![t] = [pc |-> "sent", peer |-> p, stale |-> 0]]
  /\ UNCHANGED <<up, until, streak, lastGood, lru>>

Outcome(t) ==
  /\ sender[t].pc = "sent"
  /\ \E o \in {"good", "bad"} :
       /\ o = "good" => sender[t].peer \in up
       /\ sender' = [sender EXCEPT ![t].pc = o]
  /\ UNCHANGED <<up, until, streak, lastGood, lru>>

Older(n, most) == IF n < most THEN n + 1 ELSE n

HealthTick ==
  /\ \A t \in HThreads : sender[t].pc \in {"good", "bad"} => sender[t].stale < MaxStale
  /\ until' = [p \in DOMAIN until |-> IF until[p] > 0 THEN until[p] - 1 ELSE 0]
  /\ lastGood' = [p \in DOMAIN lastGood |-> Older(lastGood[p], BusyGrace + MaxStale)]
  /\ sender' = [t \in HThreads |-> IF sender[t].pc \in {"good", "bad"}
                                  THEN [sender[t] EXCEPT !.stale = @ + 1] ELSE sender[t]]
  /\ UNCHANGED <<up, streak, lru>>

PeerTurns(p) ==
  /\ up' = IF p \in up THEN up \ {p} ELSE up \cup {p}
  /\ UNCHANGED <<until, streak, lastGood, lru, sender>>

PeerHealthNext ==
  \/ \E t \in HThreads : MarkBad(t) \/ MarkGood(t) \/ Outcome(t) \/ (\E p \in Peers : Send(t, p))
  \/ \E p \in Peers : MarkProbeAlive(p) \/ PeerTurns(p)
  \/ HealthTick

\* Time passes, calls end and are recorded; the prober is optional
\* (StartProbe), so nothing is assumed of it.
PeerHealthFairness ==
  /\ WF_healthVars(HealthTick)
  /\ \A t \in HThreads : WF_healthVars(Outcome(t)) /\ WF_healthVars(MarkGood(t))
                        /\ WF_healthVars(MarkBad(t))

PeerHealthSpec == PeerHealthInit /\ [][PeerHealthNext]_healthVars /\ PeerHealthFairness

(***************************************************************************)
(* No peer is avoided for good: whatever failed before and however long    *)
(* the backoff has grown, the data path finds every peer healthy again and *)
(* again, with no prober running.                                          *)
(***************************************************************************)
PeerIsTriedAgain == \A p \in Peers : []<>Healthy(p)
=============================================================================
