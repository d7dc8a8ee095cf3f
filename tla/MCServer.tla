------------------------------ MODULE MCServer ------------------------------
(***************************************************************************)
(* The server side for TLC.  These components share no state, so one run   *)
(* checks them one at a time: part is the component that this behaviour is *)
(* about, and the others stay in their first state.                        *)
(***************************************************************************)
EXTENDS RdmaServe, RdmaServer, RecvPool, ReadCoalescer, KVStore, DiskCacheGroup, Retention,
        SlabAllocator

CONSTANTS k1, k2, k3, t1, t2

VARIABLE part

Session(ops, n, u, g) == [ops |-> ops, rounds |-> n, uring |-> u, gives |-> g]
MCSessions ==
  {Session({"PullInto"}, 2, TRUE, FALSE), Session({"PullInto", "ExistMany"}, 2, TRUE, TRUE),
   Session({"LeasedMany", "CacheMany"}, 3, FALSE, FALSE),
   Session({"LeasedMulti", "CacheMulti"}, 3, FALSE, FALSE),
   Session({"LeasedMany", "PullInto"}, 2, FALSE, TRUE)}

\* Two threads that read two objects in opposite order, or one object twice.
MCScripts == {t1 :> <<k1, k2>> @@ t2 :> <<k2, k1>>, t1 :> <<k1, k1>> @@ t2 :> <<k1, k1>>}

MCShardOf == k1 :> 1 @@ k2 :> 1 @@ k3 :> 2
MCTenantOf == k1 :> "x" @@ k2 :> "y" @@ k3 :> "x"
Load(fns, ks, sizes, ts, n, f, room, crashes) ==
  [fns |-> fns, keys |-> ks, sizes |-> sizes, threads |-> ts, calls |-> n, faults |-> f,
   disk |-> room, crashes |-> crashes]
MCLoads ==
  {Load({"Cache", "Remove"}, {k1, k2}, {1}, {t1, t2}, 5, 1, 9, 1),
   Load({"Cache", "Range"}, {k1, k2}, {1, 2}, {t1}, 5, 1, 9, 0),
   Load({"Cache", "RangeInto", "RangeDirect", "RangeDirectPrep"}, {k1}, {1, 3}, {t1}, 3, 0, 9, 0),
   Load({"Cache", "Range", "Remove"}, {k1}, {1, 3}, {t1, t2}, 4, 0, 9, 1),
   Load({"Cache", "CacheDirect"}, {k1, k2, k3}, {1, 2}, {t1}, 5, 0, 3, 1),
   Load({"Cache", "CacheDirect"}, {k1, k3}, {2}, {t1, t2}, 4, 1, 3, 0)}

MCQTenant == k1 :> "x" @@ k2 :> "x" @@ k3 :> "y"
MCQStripe == "x" :> 1 @@ "y" :> 2
MCQDisk == k1 :> "d1" @@ k2 :> "d2" @@ k3 :> "d1"
MCQBytes == k1 :> 1 @@ k2 :> 1 @@ k3 :> 1
MCQuota == "x" :> 1 @@ "y" :> 0
Mix(n, batches, e, f) == [calls |-> n, batches |-> batches, evict |-> e, fail |-> f]
MCMixes == {Mix(3, {<<k1, k2>>, <<k3, k1>>, <<k2, k3>>, <<k2, k2>>}, FALSE, TRUE),
            Mix(4, {<<k1, k2>>}, TRUE, FALSE)}

\* Two small objects whose probes start together, and one that fills an extent.
MCHashOf == k1 :> 1 @@ k2 :> 1 @@ k3 :> 2
MCSizeOf == k1 :> 1 @@ k2 :> 1 @@ k3 :> 2

ServerInit ==
  /\ part \in {"serve", "server", "pool", "coalescer", "kvstore", "group", "retention",
              "allocator"}
  /\ RdmaServeInit /\ RdmaServerInit /\ RecvPoolInit /\ ReadCoalescerInit
  /\ KVStoreInit /\ DiskCacheGroupInit /\ Init /\ AllocatorInit
  /\ part # "serve" => session = CHOOSE s \in Sessions : TRUE
  /\ part # "coalescer" => reads = CHOOSE s \in Scripts : TRUE
  /\ part # "kvstore" => load = CHOOSE l \in Loads : TRUE
  /\ part # "group" => mix = CHOOSE m \in Mixes : TRUE

Except(p, v) == IF part # p THEN UNCHANGED v ELSE TRUE

ServerNext ==
  /\ \/ part = "serve" /\ RdmaServeNext
     \/ part = "server" /\ RdmaServerNext
     \/ part = "pool" /\ RecvPoolNext
     \/ part = "coalescer" /\ ReadCoalescerNext
     \/ part = "kvstore" /\ KVStoreNext
     \/ part = "group" /\ DiskCacheGroupNext
     \/ part = "retention" /\ Next
     \/ part = "allocator" /\ AllocatorNext
  /\ UNCHANGED part
  /\ Except("serve", serveVars) /\ Except("server", serverVars)
  /\ Except("pool", poolVars) /\ Except("coalescer", coalesceVars)
  /\ Except("kvstore", kvstoreVars) /\ Except("group", quotaVars)
  /\ Except("retention", vars) /\ Except("allocator", slab)

serverPartVars == <<part, serveVars, serverVars, poolVars, coalesceVars, kvstoreVars,
                    quotaVars, vars, slab>>

ServerSpec == ServerInit /\ [][ServerNext]_serverPartVars

Symmetry == Permutations(Keys)
=============================================================================
