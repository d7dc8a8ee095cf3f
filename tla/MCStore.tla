------------------------------ MODULE MCStore ------------------------------
(***************************************************************************)
(* One disk's store for TLC: the engine with its crashes, its directory,   *)
(* its watermark latch and the ring its reads run on.  They share no state *)
(* in the models, so one run checks them one at a time: part is the        *)
(* component that this behaviour is about, and the others stay in their    *)
(* first state.                                                            *)
(***************************************************************************)
EXTENDS DiskSlabStore, SlabLayout, NewPutDemandLatch, UringReader

VARIABLE part

StoreInit ==
  /\ part \in {"engine", "layout", "latch", "uring"}
  /\ Init /\ SlabLayoutInit /\ LatchInit /\ UringReaderInit
  /\ part # "layout" => dir = [f \in DirFiles |-> Absent]

Except(p, v) == IF part # p THEN UNCHANGED v ELSE TRUE

StoreNext ==
  /\ \/ part = "engine" /\ Next
     \/ part = "layout" /\ SlabLayoutNext
     \/ part = "latch" /\ LatchNext
     \/ part = "uring" /\ UringReaderNext
  /\ UNCHANGED part
  /\ Except("engine", vars) /\ Except("layout", layoutVars)
  /\ Except("latch", latchVars) /\ Except("uring", uringVars)

storePartVars == <<part, vars, layoutVars, latchVars, uringVars>>

StoreSpec == StoreInit /\ [][StoreNext]_storePartVars
=============================================================================
