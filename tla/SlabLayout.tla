----------------------------- MODULE SlabLayout -----------------------------
(***************************************************************************)
(* How a slab store's directory comes to be and is opened again            *)
(* (DiskSlabStore: OpenOrInit, OpenEpochState, ResetUncleanEpoch,          *)
(* MarkDirtyEpoch, ClearInitMarker and the destructor).  The process may   *)
(* end between any two system calls, by a failing call or by its death,    *)
(* and the machine may lose power.  A later start takes what it finds for  *)
(* an unfinished initialization, for a store, or for neither.              *)
(*                                                                         *)
(* One process uses the directory at a time.  A power loss leaves of each  *)
(* file any content written since it was last synced, and no file at all   *)
(* if its directory entry was not; entries are durable only once their     *)
(* directory is synced, which the code does for the root alone.  O_DIRECT, *)
(* symbolic links and the slots' records are left out.                     *)
(***************************************************************************)
EXTENDS Integers, TLC

CONSTANTS
  Geometries,    \* extent size, granularity and count asked for, as one value
  ExtentFiles,   \* names of the files under extents/
  MaxStarts,     \* starts of the process
  MaxPowerLosses

RootFiles == {"marker", "meta", "table", "extents", "state", "other"}
DirFiles == RootFiles \cup ExtentFiles

\* A file: g is "none", "empty" from its creation to its first write, or the
\* geometry it was written for; x is what it holds.
Absent == [g |-> "none", x |-> ""]
Created == [g |-> "empty", x |-> ""]
FileOf(g, x) == [g |-> g, x |-> x]

VARIABLES
  dir,       \* DirFiles -> content, as a process sees it
  medium,     \* DirFiles -> the contents a power loss may leave
  start,     \* the process: see Idle
  lost,      \* a power loss has taken something
  starts, losses

layoutVars == <<dir, medium, start, lost, starts, losses>>

Idle(pc) == [pc |-> pc, g |-> "none", marked |-> FALSE, resume |-> FALSE, fresh |-> FALSE,
             unclean |-> FALSE, before |-> [f \in DirFiles |-> Absent]]

\* Nothing; somebody else's file; a populated store of the format without slab_state.
PreEpoch(g) ==
  [f \in DirFiles |-> IF f \in {"marker", "state", "other"} THEN Absent
                      ELSE FileOf(g, IF f \in {"table"} \cup ExtentFiles THEN "data" ELSE "")]
Alien == [f \in DirFiles |-> IF f = "other" THEN FileOf("other", "") ELSE Absent]

SlabLayoutInit ==
  /\ dir \in {[f \in DirFiles |-> Absent], Alien} \cup {PreEpoch(g) : g \in Geometries}
  /\ medium = [f \in DirFiles |-> {dir[f]}]
  /\ start = Idle("down") /\ lost = FALSE /\ starts = 0 /\ losses = 0

(* ------------------------------ system calls ---------------------------- *)

Has(f) == dir[f] # Absent
FitsGeometry(f, g) == dir[f].g = g

Goes(pc) == start' = [start EXCEPT !.pc = pc]
Puts(f, c) ==
  /\ dir' = [dir EXCEPT ![f] = c]
  /\ medium' = [medium EXCEPT ![f] = @ \cup {c}]
Synced(f) == (medium[f] \cap {Absent}) \cup {dir[f]}
SyncsFiles(F) ==
  medium' = [f \in DirFiles |-> IF f \in F THEN Synced(f) ELSE medium[f]] /\ UNCHANGED dir
\* fsync of the root: its entries, and the unlinked ones' absence.
RootSynced(m) ==
  [f \in DirFiles |-> IF f \notin RootFiles THEN m[f]
                      ELSE IF Has(f) THEN m[f] \ {Absent} ELSE {Absent}]
Keeps == UNCHANGED <<dir, medium>>
Quiet == UNCHANGED <<lost, starts, losses>>

(* ------------------------------- OpenOrInit ----------------------------- *)

\* The marker decides what an unfinished layout may be taken for.
Marked == Has("marker")
ResumesInit == Marked /\ ~Has("state")

MarkerUnfit(g) == Marked /\ ~FitsGeometry("marker", g)
ResumeUnfit(g) ==
  ResumesInit /\ (Has("other") \/ \E e \in ExtentFiles : Has(e) /\ ~FitsGeometry(e, g))
\* Mutant: a directory without metadata is taken for an empty one.
TakenForEmpty(g) == Has("meta") /\ ~FitsGeometry("meta", g)
MetaUnfit(g) ==
  IF Has("meta") THEN ~FitsGeometry("meta", g) \/ (~ResumesInit /\ ~Has("extents"))
  ELSE Has("state") \/ (~Marked /\ \E f \in RootFiles : Has(f))

\* Everything up to the first call that changes the directory.
OpenOrInit(g) ==
  /\ start.pc \in {"down", "refused"} /\ starts < MaxStarts
  /\ starts' = starts + 1
  /\ start' = [Idle(IF MarkerUnfit(g) \/ ResumeUnfit(g) \/ MetaUnfit(g) THEN "refused"
                    ELSE IF Marked \/ Has("meta") THEN "table" ELSE "mark")
               EXCEPT !.g = g, !.marked = Marked, !.resume = ResumesInit,
                      !.fresh = ~Has("meta"), !.before = dir]
  /\ Keeps /\ UNCHANGED <<lost, losses>>

\* The marker is on the medium, name and all, before any other file is made.
CreateMarker == start.pc = "mark" /\ Puts("marker", Created) /\ Goes("markWrite") /\ Quiet
WriteMarker ==
  /\ start.pc = "markWrite" /\ Puts("marker", FileOf(start.g, ""))
  /\ Goes("markSync") /\ Quiet
SyncMarker ==
  /\ start.pc = "markSync"
  /\ medium' = RootSynced([medium EXCEPT !["marker"] = Synced("marker")])
  /\ start' = [start EXCEPT !.pc = "table", !.marked = TRUE]
  /\ UNCHANGED dir /\ Quiet

\* Whether this start is building the store.
Builds == start.marked /\ (start.resume \/ start.fresh)

OpenTable ==
  /\ start.pc = "table" /\ Quiet
  /\ IF Has("table")
     THEN /\ Keeps
          /\ Goes(IF FitsGeometry("table", start.g) /\ (start.resume => dir["table"].x = "zero")
                  THEN "meta" ELSE "refused")
     ELSE IF Builds THEN Puts("table", Created) /\ Goes("tableSize")
     ELSE Keeps /\ Goes("refused")
SizeTable ==
  /\ start.pc = "tableSize" /\ Puts("table", FileOf(start.g, "zero"))
  /\ Goes("tableSync") /\ Quiet
SyncNewTable == start.pc = "tableSync" /\ SyncsFiles({"table"}) /\ Goes("meta") /\ Quiet

CreateMeta ==
  /\ start.pc = "meta" /\ Quiet
  /\ IF start.fresh THEN Puts("meta", Created) /\ Goes("metaWrite")
                    ELSE Keeps /\ Goes("extents")
WriteMeta ==
  /\ start.pc = "metaWrite" /\ Puts("meta", FileOf(start.g, ""))
  /\ Goes("metaSync") /\ Quiet
SyncMeta == start.pc = "metaSync" /\ SyncsFiles({"meta"}) /\ Goes("extents") /\ Quiet

CreateExtentsDir ==
  /\ start.pc = "extents" /\ Goes("extent") /\ Quiet
  /\ IF Builds /\ ~Has("extents") THEN Puts("extents", FileOf(start.g, "")) ELSE Keeps

\* One extent after the other: the ones there must fit, the others are made.
OpenExtents ==
  /\ start.pc = "extent" /\ Quiet
  /\ IF \E e \in ExtentFiles : Has(e) /\ ~FitsGeometry(e, start.g) THEN Keeps /\ Goes("refused")
     ELSE IF \A e \in ExtentFiles : Has(e) THEN Keeps /\ Goes("state")
     ELSE IF ~(start.fresh \/ start.resume) THEN Keeps /\ Goes("refused")
     ELSE \E e \in ExtentFiles : ~Has(e) /\ Puts(e, Created) /\ Goes("extentSize")
SizeExtent ==
  /\ start.pc = "extentSize" /\ Goes("extent") /\ Quiet
  /\ \E e \in ExtentFiles : dir[e] = Created /\ Puts(e, FileOf(start.g, "blank"))

(* ------------------- the epoch state, and the way to serving ------------ *)

\* A new store starts clean; one without slab_state is of the older format and
\* taken for unclean; otherwise the record tells.
OpenEpochFile ==
  /\ start.pc = "state" /\ Quiet
  /\ IF ~Has("state") THEN Puts("state", Created) /\ Goes("stateWrite")
     ELSE /\ Keeps
          /\ start' = [start EXCEPT !.pc = IF ~(start.fresh \/ start.resume) /\
                                              dir["state"].g = "state"
                                           THEN "reset" ELSE "refused",
                                    !.unclean = dir["state"].x = "dirty"]
WriteEpochFile ==
  /\ start.pc = "stateWrite" /\ Quiet
  /\ LET new == start.fresh \/ start.resume
     IN /\ Puts("state", FileOf("state", IF new THEN "clean" ELSE "dirty"))
        /\ start' = [start EXCEPT !.pc = "stateSync", !.unclean = ~new]
SyncEpochFile == start.pc = "stateSync" /\ SyncsFiles({"state"}) /\ Goes("reset") /\ Quiet

ResetTable ==
  /\ start.pc = "reset" /\ Quiet
  /\ IF start.unclean THEN Puts("table", FileOf(start.g, "zero")) /\ Goes("resetSync")
                      ELSE Keeps /\ Goes("dirty")
SyncReset == start.pc = "resetSync" /\ SyncsFiles({"table"}) /\ Goes("dirty") /\ Quiet

MarkDirty ==
  /\ start.pc = "dirty" /\ Puts("state", FileOf("state", "dirty"))
  /\ Goes("dirtySync") /\ Quiet
SyncDirty == start.pc = "dirtySync" /\ SyncsFiles({"state"}) /\ Goes("unmark") /\ Quiet

ClearInitMarker ==
  /\ start.pc = "unmark" /\ Quiet
  /\ IF start.marked THEN Puts("marker", Absent) /\ Goes("unmarkSync")
                     ELSE Keeps /\ Goes("serving")
SyncUnmarked ==
  /\ start.pc = "unmarkSync" /\ medium' = RootSynced(medium) /\ Goes("serving")
  /\ UNCHANGED dir /\ Quiet

(* --------------------------- serving and its end ------------------------ *)

\* A PUT's payload, and then its record.
WritePayloads(e) ==
  /\ start.pc = "serving" /\ dir[e].x = "blank"
  /\ Puts(e, FileOf(start.g, "data")) /\ UNCHANGED start /\ Quiet
WriteRecords ==
  /\ start.pc = "serving" /\ \A e \in ExtentFiles : dir[e].x = "data"
  /\ Puts("table", FileOf(start.g, "data")) /\ UNCHANGED start /\ Quiet

\* The destructor: payloads, table, and then the clean mark.
ExitSync ==
  /\ start.pc = "serving" /\ SyncsFiles(ExtentFiles \cup {"table"})
  /\ Goes("exit") /\ Quiet
ExitClean ==
  /\ start.pc = "exit" /\ Puts("state", FileOf("state", "clean"))
  /\ Goes("exitSync") /\ Quiet
ExitDone == start.pc = "exitSync" /\ SyncsFiles({"state"}) /\ Goes("down") /\ Quiet

(* -------------------------------- the faults ---------------------------- *)

\* The process dies, or a call fails and the start with it.
Dies == start.pc \notin {"down", "refused"} /\ Goes("down") /\ Keeps /\ Quiet

LosesPower ==
  /\ losses < MaxPowerLosses /\ losses' = losses + 1
  /\ \E marker \in medium["marker"], meta \in medium["meta"], table \in medium["table"],
        extents \in medium["extents"], state \in medium["state"],
        E \in [ExtentFiles -> UNION {medium[e] : e \in ExtentFiles}] :
       /\ \A e \in ExtentFiles : E[e] \in medium[e]
       /\ extents = Absent => \A e \in ExtentFiles : E[e] = Absent
       /\ dir' = E @@ [dir EXCEPT !["marker"] = marker, !["meta"] = meta, !["table"] = table,
                                 !["extents"] = extents, !["state"] = state]
  /\ medium' = [f \in DirFiles |-> {dir'[f]}]
  /\ lost' = (lost \/ dir' # dir)
  /\ start' = Idle("down") /\ UNCHANGED starts

SlabLayoutNext ==
  \/ \E g \in Geometries : OpenOrInit(g)
  \/ CreateMarker \/ WriteMarker \/ SyncMarker
  \/ OpenTable \/ SizeTable \/ SyncNewTable
  \/ CreateMeta \/ WriteMeta \/ SyncMeta
  \/ CreateExtentsDir \/ OpenExtents \/ SizeExtent
  \/ OpenEpochFile \/ WriteEpochFile \/ SyncEpochFile
  \/ ResetTable \/ SyncReset \/ MarkDirty \/ SyncDirty
  \/ ClearInitMarker \/ SyncUnmarked
  \/ \E e \in ExtentFiles : WritePayloads(e)
  \/ WriteRecords \/ ExitSync \/ ExitClean \/ ExitDone
  \/ Dies \/ LosesPower

SlabLayoutSpec == SlabLayoutInit /\ [][SlabLayoutNext]_layoutVars

(* ------------------------------- properties ----------------------------- *)

\* A store that serves is whole: every file there and of the geometry asked
\* for, the marker gone, the epoch dirty, and no record over an extent whose
\* payload was lost or which was made anew.
ServesWholeStore ==
  start.pc = "serving" =>
    /\ \A f \in {"meta", "table", "extents"} \cup ExtentFiles : FitsGeometry(f, start.g)
    /\ ~Has("marker") /\ dir["state"].x = "dirty" /\ ~Has("other")
    /\ dir["table"].x = "data" => \A e \in ExtentFiles : dir[e].x = "data"

\* A directory that holds a store of another geometry, or anything unknown,
\* is left as it is (docs/DEPLOY.md:265: a mismatch refuses to start and
\* never rewrites the data).
OthersAreUntouched ==
  \A f \in DirFiles :
    start.before[f].g \in (Geometries \cup {"other"}) \ {start.g, "none"} => dir = start.before

\* Short of a power loss that took something, a start is refused only for
\* another's files or for a file the last process made and did not get to
\* write: every other interrupted initialization is resumed.
RefusalIsJustified ==
  start.pc = "refused" /\ ~lost =>
    \E f \in DirFiles : dir[f].g \in ({"empty", "other"} \cup Geometries) \ {start.g}

\* A slab directory is never half a store, whatever ended the starts before.
LayoutIsSound == ServesWholeStore /\ OthersAreUntouched /\ RefusalIsJustified
=============================================================================
