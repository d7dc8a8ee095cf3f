------------------------------ MODULE MCClient ------------------------------
(***************************************************************************)
(* The client side for TLC.  These components share no state, so one run   *)
(* checks them one at a time: part is the component that this behaviour is *)
(* about, and the others stay in their first state.                        *)
(***************************************************************************)
EXTENDS MemberView, KvClient, PernodeSink, ReadScheduler, ParallelExecutor,
        TcpTransport, RetainClient, RdmaTransport, NodeDedup, GpuNodeDedup,
        BouncePool

CONSTANTS k1, k2, n1, n2, c1, c2, c3

VARIABLE part

MCRoute == k1 :> n1 @@ k2 :> n2
Workload(fns, ks, n, f) == [fns |-> fns, keys |-> ks, calls |-> n, faults |-> f]
MCWorkloads ==
  {Workload({"PutDirect", "BatchGet", "GetDirect"}, {k1}, 3, 1),
   Workload({"RemoveDirect", "BatchGetAuto"}, {k1}, 3, 1),
   Workload({"BatchPut", "BatchGet"}, {k1, k2}, 2, 0),
   Workload({"BatchPutSg", "BatchExist", "ExistDirect"}, {k1, k2}, 2, 0),
   Workload({"BatchRemove", "BatchGetAutoSg", "GetAutoDirect"}, {k1, k2}, 2, 0),
   Workload({"BatchGetAutoSg"}, {k1, k2}, 1, 1)}

\* Batches of two shards and an empty one; loops in parallel, serial, empty.
MCShards == c1 :> 2 @@ c2 :> 2 @@ c3 :> 0
MCItems == c1 :> 3 @@ c2 :> 2 @@ c3 :> 0
MCConcurrency == c1 :> 3 @@ c2 :> 1 @@ c3 :> 3

Link(n, f, s, r) == [calls |-> n, faults |-> f, stops |-> s, restarts |-> r]
MCLinks == {Link(3, 1, 0, FALSE), Link(2, 0, 1, FALSE), Link(2, 1, 1, TRUE)}

MCOwner == k1 :> n1 @@ k2 :> n2

MCTiers == <<{1, 2}>>
Network(fns, ops, lim, raised, f, u, k) ==
  [fns |-> fns, ops |-> ops, limit |-> lim, raised |-> raised, faults |-> f,
   updates |-> u, keepalives |-> k]
MCNetworks ==
  {Network({"Cache"}, 3, 2, 2, 3, 0, 0), Network({"CacheMany", "RangeMany"}, 2, 3, 4, 1, 0, 0),
   Network({"Cache", "ExistMany"}, 2, 2, 2, 1, 1, 0),
   Network({"RangeMany", "PullInto"}, 2, 3, 3, 1, 1, 1),
   Network({"Remove", "CacheFromMulti"}, 2, 3, 3, 1, 1, 0)}

\* The publisher's ring comes round while its payload is read; or it dies,
\* and a third process takes its registry entry over.
Plan(one, two, three, f) == [calls |-> <<one, two, three>>, faults |-> f]
MCCallPlans ==
  {Plan(<<>>, <<>>, <<>>, 0), Plan(<<1, 2, 2>>, <<1>>, <<>>, 1), Plan(<<1>>, <<1, 1>>, <<1>>, 0)}

ClientInit ==
  /\ part \in {"view", "client", "sink", "scheduler", "executor", "tcp", "retain",
               "rdma", "dedup", "gpu", "bounce"}
  /\ MemberViewInit /\ KvClientInit /\ PernodeSinkInit /\ ReadSchedulerInit
  /\ ParallelExecutorInit /\ TcpInit /\ RetainClientInit /\ RdmaTransportInit
  /\ NodeDedupInit /\ GpuInit /\ BouncePoolInit
  /\ part # "client" => workload = CHOOSE w \in Workloads : TRUE
  /\ part # "tcp" => link = CHOOSE l \in Links : TRUE
  /\ part # "rdma" => network = CHOOSE n \in Networks : TRUE
  /\ part # "gpu" => \A p \in GpuProcs : gpu[p].calls = <<>>
  /\ part # "bounce" => \A t \in Publishers : pub[t].home = "app"

Except(p, v) == IF part # p THEN UNCHANGED v ELSE TRUE

OthersStay ==
  /\ UNCHANGED part
  /\ Except("view", viewVars) /\ Except("client", clientVars)
  /\ Except("sink", sinkVars) /\ Except("scheduler", schedVars)
  /\ Except("executor", execVars) /\ Except("tcp", tcpVars)
  /\ Except("retain", retainVars) /\ Except("rdma", rdmaVars)
  /\ Except("dedup", dedupVars) /\ Except("gpu", gpuVars)
  /\ Except("bounce", bounceVars)

ClientNext ==
  /\ \/ part = "view" /\ MemberViewNext
     \/ part = "client" /\ KvClientNext
     \/ part = "sink" /\ PernodeSinkNext
     \/ part = "scheduler" /\ ReadSchedulerNext
     \/ part = "executor" /\ ParallelExecutorNext
     \/ part = "tcp" /\ TcpNext
     \/ part = "retain" /\ RetainClientNext
     \/ part = "rdma" /\ RdmaTransportNext
     \/ part = "dedup" /\ NodeDedupNext
     \/ part = "gpu" /\ GpuNext
     \/ part = "bounce" /\ BouncePoolNext
  /\ OthersStay

clientPartVars == <<part, viewVars, clientVars, sinkVars, schedVars, execVars, tcpVars,
                    retainVars, rdmaVars, dedupVars, gpuVars, bounceVars>>

ClientSpec == ClientInit /\ [][ClientNext]_clientPartVars

Symmetry == Permutations(Procs) \cup Permutations(DedupKeys)
=============================================================================
