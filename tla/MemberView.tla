----------------------------- MODULE MemberView -----------------------------
(***************************************************************************)
(* How a client follows the member list.  MdsMemberPoller asks an MDS for  *)
(* the group's topology, MemberViewGuard decides whether the number of     *)
(* members eligible for the ring may be believed yet, and the callback     *)
(* that KVClient::StartMdsDiscovery installs publishes the topology to the *)
(* transport and, when the view was admitted, rebuilds the ring.           *)
(*                                                                         *)
(* A view gives each member's standing: absent, listed and eligible, or    *)
(* listed and degraded.  An epoch is a hash of the view's content and is   *)
(* modelled by that content, in a set that is empty while there is none.   *)
(***************************************************************************)
EXTENDS Integers, Sequences, FiniteSets

CONSTANTS Members,        \* the nodes that may be listed
          ViewsToAccept,  \* kViewsToAccept
          ShrinkPct       \* ShrinkGuardPct()

ASSUME MemberViewAssumption ==
  /\ IsFiniteSet(Members)
  /\ ViewsToAccept \in Nat \ {0}
  /\ ShrinkPct \in 0..99

Standing == {"absent", "eligible", "degraded"}
Views == [Members -> Standing]
NoEpoch == {}

VARIABLES guard,      \* MemberViewGuard
          topoEpoch,  \* last_topology_epoch_, or NoEpoch
          placeEpoch, \* last_placement_epoch_, or NoEpoch
          ring,       \* KVClient::ring_ and addr_: the members keys route to
          ringEpoch,  \* PlacementEpochState of the callback
          published,  \* published_peers_: what the transport was told
          lastView,   \* history: the last view polled
          viewRun,    \* history: successive polls that returned it
          sizes,      \* history: the last ViewsToAccept sizes polled
          anchor      \* history: the last size that repeated so often

viewVars == <<guard, topoEpoch, placeEpoch, ring, ringEpoch, published,
              lastView, viewRun, sizes, anchor>>

Placement(v) == {m \in Members : v[m] = "eligible"}
Topology(v) == {m \in Members : v[m] # "absent"}

NoGuard == [have |-> FALSE, baseline |-> 0, ref |-> 0, last |-> 0, same |-> 0,
            suspect |-> 0, suspectRun |-> 0, emptyRun |-> 0]

MemberViewInit ==
  /\ guard = NoGuard
  /\ topoEpoch = NoEpoch /\ placeEpoch = NoEpoch /\ ringEpoch = NoEpoch
  /\ ring = {} /\ published = {}
  /\ lastView = [m \in Members |-> "absent"] /\ viewRun = 0 /\ sizes = <<>>
  /\ anchor = 0

(***************************************************************************)
(* MemberViewGuard::Admit, in its parts.  A result is the guard's next     *)
(* state and whether the view may be adopted.                              *)
(***************************************************************************)
\* same_streak_ is only compared with views_to_accept_, and counts no further.
Sighting(g, n) ==
  IF g.have /\ n = g.last THEN [g EXCEPT !.same = IF @ < ViewsToAccept THEN @ + 1 ELSE @]
  ELSE [g EXCEPT !.last = n, !.same = 1]

AdmitFirst(g, n) ==
  [ok |-> TRUE, g |-> [g EXCEPT !.have = TRUE, !.baseline = n, !.ref = n]]

AdmitEmpty(g) ==
  IF g.emptyRun + 1 >= ViewsToAccept
  THEN [ok |-> TRUE, g |-> [g EXCEPT !.baseline = 0, !.ref = 0,
                                     !.emptyRun = 0, !.suspectRun = 0]]
  ELSE [ok |-> FALSE, g |-> [g EXCEPT !.emptyRun = @ + 1, !.suspectRun = 0]]

Deviates(g, n) ==
  /\ ShrinkPct > 0 /\ g.ref > 0
  /\ n * 100 < g.ref * (100 - ShrinkPct) \/ n * 100 > g.ref * (100 + ShrinkPct)

AdmitSuspect(g, n) ==
  LET count == IF n = g.suspect THEN g.suspectRun + 1 ELSE 1 IN
  IF count >= ViewsToAccept
  THEN [ok |-> TRUE, g |-> [g EXCEPT !.baseline = n, !.ref = n, !.suspect = n,
                                     !.suspectRun = 0]]
  ELSE [ok |-> FALSE, g |-> [g EXCEPT !.suspect = n, !.suspectRun = count]]

(* Mutant: the reference follows every admitted view, one hop at a time.   *)
AdmitByHops(g, n) ==
  [ok |-> TRUE, g |-> [g EXCEPT !.baseline = n, !.ref = n,
     !.suspectRun = IF ShrinkPct > 0 /\ g.ref > 0 THEN 0 ELSE @]]

AdmitOrdinary(g, n) ==
  [ok |-> TRUE, g |-> [g EXCEPT !.baseline = n,
     !.ref = IF g.ref = 0 \/ g.same >= ViewsToAccept THEN n ELSE @,
     !.suspectRun = IF ShrinkPct > 0 /\ g.ref > 0 THEN 0 ELSE @]]

Admit(n) ==
  LET g == Sighting(guard, n)
      h == [g EXCEPT !.emptyRun = 0] IN
  IF ~g.have THEN AdmitFirst(g, n)
  ELSE IF n = 0 /\ g.baseline > 0 THEN AdmitEmpty(g)
  ELSE IF Deviates(h, n) THEN AdmitSuspect(h, n)
  ELSE AdmitOrdinary(h, n)

(***************************************************************************)
(* The callback of StartMdsDiscovery.  SetMembers and AdoptRing replace    *)
(* ring_ and addr_ together under ring_mu_.                                *)
(***************************************************************************)
PublishPeerTopologies(v) == published' = Topology(v)

SetMembers(members) == ring' = members

DiscoveryCallback(v, admitted) ==
  /\ PublishPeerTopologies(v)
  /\ IF admitted /\ ringEpoch # {Placement(v)}
     THEN SetMembers(Placement(v)) /\ ringEpoch' = {Placement(v)}
     ELSE UNCHANGED <<ring, ringEpoch>>

(***************************************************************************)
(* PollOnce, with the answer of Query.  An MDS that predates kListTopology *)
(* is asked for kListMembers, which leaves the degraded members out.       *)
(***************************************************************************)
Answers(v) ==
  {v, [m \in Members |-> IF v[m] = "degraded" THEN "absent" ELSE v[m]]}

PollOnce(v) ==
  LET verdict == Admit(Cardinality(Placement(v)))
      topoChanged == topoEpoch # {v}
      placeChanged == verdict.ok /\ placeEpoch # {Placement(v)} IN
  /\ guard' = verdict.g
  /\ topoEpoch' = {v}
  /\ placeEpoch' = IF placeChanged THEN {Placement(v)} ELSE placeEpoch
  /\ IF topoChanged \/ placeChanged THEN DiscoveryCallback(v, verdict.ok)
     ELSE UNCHANGED <<ring, ringEpoch, published>>

Repeated(ns) ==
  Len(ns) = ViewsToAccept /\ \A i \in DOMAIN ns : ns[i] = ns[1]

Record(v) ==
  LET n == Cardinality(Placement(v))
      all == Append(sizes, n) IN
  /\ lastView' = v
  /\ viewRun' = IF v # lastView \/ viewRun = 0 THEN 1
                ELSE IF viewRun < ViewsToAccept THEN viewRun + 1 ELSE viewRun
  /\ sizes' = IF Len(all) > ViewsToAccept THEN Tail(all) ELSE all
  /\ anchor' = IF anchor = 0 \/ sizes = <<>> \/ Repeated(sizes') THEN n ELSE anchor

\* A query that fails changes nothing: PollOnce returns before the guard.
Poll == \E v \in Views : \E a \in Answers(v) : PollOnce(a) /\ Record(a)

\* StopMdsDiscovery and a new StartMdsDiscovery: a new poller, the old ring.
RestartDiscovery ==
  /\ guard' = NoGuard
  /\ topoEpoch' = NoEpoch /\ placeEpoch' = NoEpoch /\ ringEpoch' = NoEpoch
  /\ viewRun' = 0 /\ sizes' = <<>> /\ anchor' = 0
  /\ UNCHANGED <<ring, published, lastView>>

MemberViewNext == Poll \/ RestartDiscovery

MemberViewSpec == MemberViewInit /\ [][MemberViewNext]_viewVars

(***************************************************************************)
(* The ring never follows a doubtful view: a poll that changes it reported *)
(* a size within ShrinkPct per cent of one that had held for ViewsToAccept *)
(* polls, or one that has held that long itself, or the first size of all. *)
(* In particular a mass expiry spread over many polls cannot walk the ring *)
(* down in small hops, the ratchet MemberViewGuard is there to close.      *)
(***************************************************************************)
Near(n, m) == n * 100 >= m * (100 - ShrinkPct) /\ n * 100 <= m * (100 + ShrinkPct)

AdoptionIsGuarded ==
  [][ring' # ring =>
       LET n == Cardinality(ring') IN
       \/ anchor = 0 \/ Repeated(sizes')
       \/ n > 0 /\ (ShrinkPct > 0 => Near(n, anchor))]_viewVars

(***************************************************************************)
(* A lasting view is adopted: after ViewsToAccept polls that agree, keys   *)
(* route by exactly that view, and the transport knows its members.  A     *)
(* rejected view must not have left its epoch behind in PollOnce.          *)
(***************************************************************************)
LastingViewIsAdopted ==
  viewRun = ViewsToAccept =>
    ring = Placement(lastView) /\ published = Topology(lastView)

(***************************************************************************)
(* The ring follows the MDS, neither too eagerly nor for ever behind:      *)
(* doubtful views are held back, lasting ones are adopted.                 *)
(***************************************************************************)
RingFollowsViews == AdoptionIsGuarded /\ []LastingViewIsAdopted
=============================================================================
