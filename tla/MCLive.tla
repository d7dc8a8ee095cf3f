------------------------------- MODULE MCLive -------------------------------
(***************************************************************************)
(* The liveness of four components that share no state, one at a time:     *)
(* part is the component this behaviour is about, the others stay in their *)
(* first state.                                                            *)
(***************************************************************************)
EXTENDS MdsLease, PeerHealth, RdmaServe, DiskSlabStore

VARIABLE part

MCEndpoints == <<"mds1", "mds2">>
MCLeases == 1..5

Session(ops, n, u, g) == [ops |-> ops, rounds |-> n, uring |-> u, gives |-> g]
MCSessions ==
  {Session({"PullInto"}, 2, TRUE, FALSE), Session({"LeasedMany", "CacheMulti"}, 2, FALSE, FALSE)}

LiveInit ==
  /\ part \in {"lease", "health", "serve", "slab"}
  /\ MdsLeaseInit /\ PeerHealthInit /\ RdmaServeInit /\ Init
  /\ part # "health" => up = Peers
  /\ part # "serve" => session = CHOOSE s \in Sessions : TRUE

Except(p, v) == IF part # p THEN UNCHANGED v ELSE TRUE

LiveNext ==
  /\ \/ part = "lease" /\ MdsLeaseNext
     \/ part = "health" /\ PeerHealthNext
     \/ part = "serve" /\ RdmaServeNext
     \/ part = "slab" /\ SteadyNext
  /\ UNCHANGED part
  /\ Except("lease", mdsVars) /\ Except("health", healthVars)
  /\ Except("serve", serveVars) /\ Except("slab", vars)

liveVars == <<part, mdsVars, healthVars, serveVars, vars>>

\* The fair actions of the components are disabled in their first state.
LiveSpec ==
  /\ LiveInit /\ [][LiveNext]_liveVars
  /\ MdsLeaseFairness /\ PeerHealthFairness /\ RdmaServeFairness /\ Fairness
=============================================================================
