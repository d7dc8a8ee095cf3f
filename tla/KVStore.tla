------------------------------- MODULE KVStore -------------------------------
(***************************************************************************)
(* The file-per-block engine of a cache node: src/src/cache/kv_store.cc.   *)
(*                                                                         *)
(* A block is a file.  Cache writes a temporary file outside the lock,     *)
(* renames it and enters it into its shard's index under the lock, and     *)
(* then evicts blocks of the shard by CLOCK second chance until the shard  *)
(* is within its capacity.  A full disk makes it evict from every shard    *)
(* and try once more.  Remove and eviction rename the block to a temporary *)
(* name and unlink that off the lock.  A restart rebuilds the index from   *)
(* the files and deletes the temporary ones.                               *)
(*                                                                         *)
(* A shard's lock is held over several steps: every turn of an eviction    *)
(* loop is a step of its own, so that a crash may fall between two         *)
(* renames.  A file is the number of the write that made it and its size.  *)
(* An open descriptor keeps the file it opened (POSIX).  A crash is the    *)
(* end of the process: what a system call has done stays done.             *)
(***************************************************************************)
EXTENDS Integers, Sequences, FiniteSets, FiniteSetsExt, SequencesExt, Functions

CONSTANTS BKeys,      \* block keys
          BThreads,   \* request threads
          ShardOf,    \* ShardFor: [BKeys -> shards]
          TenantOf,   \* the tenant of a key
          ShardBytes, \* capacity of a shard
          ForceBytes, \* least target of a forced eviction (64 MiB)
          Align,      \* kDioAlign
          Loads       \* bounds: [fns, keys, sizes, threads, calls, faults,
                      \*          disk, crashes]

ASSUME KVStoreAssumption ==
    /\ ShardBytes \in Nat /\ ForceBytes \in Nat /\ Align \in Nat \ {0}

VARIABLES load,     \* the bounds of this behaviour
          file,     \* blocks/: the file of a key, or NoFile
          entry,    \* Shard::index
          shard,    \* per shard: the CLOCK ring (front first), hand and bytes
          tenant,   \* tenant_used_bytes, summed over the shards
          lock,     \* the thread that holds a shard's lock exclusively
          bop,      \* what each thread is doing
          writes,   \* writes so far: names the files
          bleft     \* calls, faults and crashes still to come

kvstoreVars == <<load, file, entry, shard, tenant, lock, bop, writes, bleft>>

BShards  == Range(ShardOf)
NoFile   == [ver |-> 0, size |-> 0]
NoEntry  == [size |-> 0, ref |-> FALSE]
End      == "end"
Unlocked == "unlocked"
IdleBop  == [pc |-> "idle", fn |-> "none", key |-> "none", tmp |-> NoFile,
             trash |-> 0, want |-> 0, todo |-> {}, retried |-> FALSE, spins |-> 0,
             res |-> "none", fd |-> NoFile, fsize |-> 0, off |-> 0, len |-> 0, cap |-> 0]

KVStoreInit ==
    /\ load \in Loads
    /\ file = [k \in BKeys |-> NoFile]
    /\ entry = [k \in BKeys |-> NoEntry]
    /\ shard = [s \in BShards |-> [order |-> <<>>, hand |-> End, used |-> 0]]
    /\ tenant = [n \in Range(TenantOf) |-> 0]
    /\ lock = [s \in BShards |-> Unlocked]
    /\ bop = [t \in BThreads |-> IdleBop]
    /\ writes = 0
    /\ bleft = [calls |-> load.calls, faults |-> load.faults, crashes |-> load.crashes]

Indexed(k) == entry[k] # NoEntry
AlignDown(n) == (n \div Align) * Align
AlignUp(n) == AlignDown(n + Align - 1)
MaxOf(a, b) == IF a > b THEN a ELSE b
MinOf(a, b) == IF a < b THEN a ELSE b

Ends(t, res) == [bop EXCEPT ![t] = [IdleBop EXCEPT !.res = res]]

(* What is on the disk: blocks, temporary files and trash.                 *)
DiskBytes ==
    MapThenSumSet(LAMBDA k : file[k].size, BKeys)
        + MapThenSumSet(LAMBDA t : bop[t].tmp.size + bop[t].trash, BThreads)

BeginCall(t, fn, k) ==
    /\ bleft.calls > 0
    /\ t \in load.threads /\ fn \in load.fns /\ k \in load.keys
    /\ bop[t].pc = "idle"
    /\ bleft' = [bleft EXCEPT !.calls = @ - 1]

(* A failing open, write or rename.                                        *)
DiskFails == bleft.faults > 0 /\ bleft' = [bleft EXCEPT !.faults = @ - 1]

(***************************************************************************)
(* Cache: skip a key that is indexed already, otherwise write.             *)
(***************************************************************************)
Cache(t, k, size) ==
    /\ BeginCall(t, "Cache", k)
    /\ lock[ShardOf[k]] = Unlocked
    /\ bop' = IF Indexed(k) THEN Ends(t, "ok")
              ELSE [bop EXCEPT ![t] = [IdleBop EXCEPT !.pc = "write", !.fn = "Cache",
                                                      !.key = k, !.len = size]]
    /\ UNCHANGED <<load, file, entry, shard, tenant, lock, writes>>

(* CacheDirect: the same from the caller's aligned buffer; a padded value  *)
(* that the buffer cannot hold fails without an errno.                     *)
CacheDirect(t, k, size, cap) ==
    /\ BeginCall(t, "CacheDirect", k)
    /\ lock[ShardOf[k]] = Unlocked
    /\ bop' = CASE Indexed(k) -> Ends(t, "ok")
                [] ~Indexed(k) /\ AlignUp(size) > cap ->
                      Ends(t, "small buffer")
                [] OTHER -> [bop EXCEPT ![t] = [IdleBop EXCEPT !.pc = "write",
                                !.fn = "CacheDirect", !.key = k, !.len = size]]
    /\ UNCHANGED <<load, file, entry, shard, tenant, lock, writes>>

(* write_tmp: fallocate reports a full disk.  The first time that starts   *)
(* the forced eviction, the second time the call fails, as it does at once *)
(* on any other error.                                                     *)
WriteTmp(t) ==
    LET o == bop[t] fits == DiskBytes + o.len <= load.disk
    IN  /\ o.pc = "write"
        /\ \/ /\ bop' = IF fits
                    THEN [bop EXCEPT ![t].pc = "publish",
                                     ![t].tmp = [ver |-> writes + 1, size |-> o.len]]
                  ELSE IF o.retried THEN Ends(t, "no space")
                  ELSE [bop EXCEPT ![t].pc = "force", ![t].retried = TRUE,
                                   ![t].want = MaxOf(2 * o.len, ForceBytes),
                                   ![t].todo = {ShardOf[o.key]}]
              /\ writes' = IF fits THEN writes + 1 ELSE writes
              /\ UNCHANGED bleft
           \/ /\ DiskFails
              /\ bop' = Ends(t, "io error")
              /\ UNCHANGED writes
        /\ UNCHANGED <<load, file, entry, shard, tenant, lock>>

(***************************************************************************)
(* One block leaves its shard: RenameToTrash, then the accounting.  The    *)
(* hand moves off the victim towards the front.                            *)
(***************************************************************************)
HandNext(s, k) ==
    LET i == CHOOSE i \in 1 .. Len(shard[s].order) : shard[s].order[i] = k
    IN  IF i = 1 THEN End ELSE shard[s].order[i - 1]

Hand(s) == IF shard[s].hand = End THEN Last(shard[s].order) ELSE shard[s].hand

Detach(s, k, hand) ==
    /\ file' = [file EXCEPT ![k] = NoFile]
    /\ entry' = [entry EXCEPT ![k] = NoEntry]
    /\ shard' = [shard EXCEPT ![s].order = SelectSeq(@, LAMBDA j : j # k),
                              ![s].hand = hand,
                              ![s].used = @ - entry[k].size]
    /\ tenant' = [tenant EXCEPT ![TenantOf[k]] = @ - entry[k].size]

(***************************************************************************)
(* EvictLocked, one turn of its loop; the lock is held throughout.  The    *)
(* last block of a shard stays.  A referenced block is passed over, at     *)
(* most twice around.                                                      *)
(***************************************************************************)
EvictLocked(t) ==
    LET s == ShardOf[bop[t].key] c == shard[s] v == Hand(s)
    IN  /\ bop[t].pc = "evict"
        /\ IF ~(c.used > ShardBytes /\ Len(c.order) > 1)
             THEN /\ lock' = [lock EXCEPT ![s] = Unlocked]
                  /\ bop' = [bop EXCEPT ![t].pc = "unlink", ![t].res = "ok"]
                  /\ UNCHANGED <<file, entry, shard, tenant, bleft>>
           ELSE IF entry[v].ref /\ bop[t].spins < 2 * Len(c.order)
             THEN /\ entry' = [entry EXCEPT ![v].ref = FALSE]
                  /\ shard' = [shard EXCEPT ![s].hand = HandNext(s, v)]
                  /\ bop' = [bop EXCEPT ![t].spins = @ + 1]
                  /\ UNCHANGED <<file, tenant, lock, bleft>>
             ELSE \/ /\ Detach(s, v, HandNext(s, v))
                     /\ bop' = [bop EXCEPT ![t].trash = @ + entry[v].size]
                     /\ UNCHANGED <<lock, bleft>>
                  \/ /\ DiskFails
                     /\ lock' = [lock EXCEPT ![s] = Unlocked]
                     /\ bop' = [bop EXCEPT ![t].pc = "unlink", ![t].res = "io error"]
                     /\ UNCHANGED <<file, entry, shard, tenant>>
        /\ UNCHANGED <<load, writes>>

(***************************************************************************)
(* The ENOSPC path: ForceEvictLocked on the own shard, then on the others, *)
(* until enough bytes are detached; then the trash is unlinked and the     *)
(* write tried again.                                                      *)
(***************************************************************************)
ForceLock(t) ==
    /\ bop[t].pc = "force"
    /\ bop[t].todo # {}
    /\ \E s \in bop[t].todo :
          /\ lock[s] = Unlocked
          /\ lock' = [lock EXCEPT ![s] = t]
          /\ bop' = [bop EXCEPT ![t].pc = "sweep"]
    /\ UNCHANGED <<load, file, entry, shard, tenant, writes, bleft>>

NextShards(t, s) ==
    IF s = ShardOf[bop[t].key] THEN BShards \ {s} ELSE bop[t].todo \ {s}

ForceEvictLocked(t) ==
    \E s \in BShards :
        /\ bop[t].pc = "sweep"
        /\ lock[s] = t
        /\ IF bop[t].want = 0 \/ shard[s].order = <<>>
             THEN /\ lock' = [lock EXCEPT ![s] = Unlocked]
                  /\ LET rest == NextShards(t, s)
                     IN  bop' = [bop EXCEPT ![t].todo = rest, ![t].pc =
                           IF bop[t].want = 0 \/ rest = {} THEN "retry" ELSE "force"]
                  /\ UNCHANGED <<file, entry, shard, tenant, bleft>>
             ELSE LET v == Hand(s)
                  IN  \/ /\ Detach(s, v, HandNext(s, v))
                         /\ bop' = [bop EXCEPT ![t].trash = @ + entry[v].size,
                                       ![t].want = MaxOf(0, @ - entry[v].size)]
                         /\ UNCHANGED <<lock, bleft>>
                      \/ /\ DiskFails
                         /\ lock' = [lock EXCEPT ![s] = Unlocked]
                         /\ bop' = [bop EXCEPT ![t].pc = "unlink", ![t].res = "io error"]
                         /\ UNCHANGED <<file, entry, shard, tenant>>
        /\ UNCHANGED <<load, writes>>

RetryWrite(t) ==
    /\ bop[t].pc = "retry"
    /\ bop' = [bop EXCEPT ![t].pc = "write", ![t].trash = 0, ![t].todo = {}]
    /\ UNCHANGED <<load, file, entry, shard, tenant, lock, writes, bleft>>

(***************************************************************************)
(* Under the exclusive lock: a writer that lost the race drops its file;   *)
(* otherwise the rename publishes the block and the index follows.         *)
(***************************************************************************)
Publish(t) ==
    LET k == bop[t].key s == ShardOf[k] tmp == bop[t].tmp
    IN  /\ bop[t].pc = "publish"
        /\ lock[s] = Unlocked
        /\ \/ /\ Indexed(k)
              /\ bop' = Ends(t, "ok")
              /\ UNCHANGED <<file, entry, shard, tenant, lock, bleft>>
           \/ /\ ~Indexed(k)
              /\ DiskFails
              /\ bop' = Ends(t, "io error")
              /\ UNCHANGED <<file, entry, shard, tenant, lock>>
           \/ /\ ~Indexed(k)
              /\ lock' = [lock EXCEPT ![s] = t]
              /\ file' = [file EXCEPT ![k] = tmp]
              /\ entry' = [entry EXCEPT ![k] = [size |-> tmp.size, ref |-> FALSE]]
              /\ shard' = [shard EXCEPT ![s].order = <<k>> \o @, ![s].used = @ + tmp.size]
              /\ tenant' = [tenant EXCEPT ![TenantOf[k]] = @ + tmp.size]
              /\ bop' = [bop EXCEPT ![t].pc = "evict", ![t].tmp = NoFile]
              /\ UNCHANGED bleft
        /\ UNCHANGED <<load, writes>>

(* The slow unlink, off the lock, and the return.                          *)
Unlink(t) ==
    /\ bop[t].pc = "unlink"
    /\ bop' = Ends(t, bop[t].res)
    /\ UNCHANGED <<load, file, entry, shard, tenant, lock, writes, bleft>>

\* Mutant: the clock hand may be left on the victim.
HandStays(s, k) == shard[s].hand

(***************************************************************************)
(* Remove: the rename decides; the hand must leave the victim first.       *)
(***************************************************************************)
HandOff(s, k) == IF shard[s].hand = k THEN HandNext(s, k) ELSE shard[s].hand

RemoveBlock(t, k) ==
    /\ BeginCall(t, "Remove", k)
    /\ lock[ShardOf[k]] = Unlocked
    /\ IF Indexed(k)
         THEN /\ Detach(ShardOf[k], k, HandOff(ShardOf[k], k))
              /\ bop' = [bop EXCEPT ![t] = [IdleBop EXCEPT !.pc = "unlink",
                           !.fn = "Remove", !.trash = entry[k].size, !.res = "ok"]]
         ELSE /\ bop' = Ends(t, "not found")
              /\ UNCHANGED <<file, entry, shard, tenant>>
    /\ UNCHANGED <<load, lock, writes>>

(* The rename of Remove, or the open of a read, fails: nothing changes.    *)
CallFails(t, fn, k) ==
    /\ t \in load.threads /\ fn \in load.fns /\ k \in load.keys
    /\ bop[t].pc = "idle"
    /\ lock[ShardOf[k]] = Unlocked
    /\ Indexed(k)
    /\ DiskFails
    /\ bop' = Ends(t, "io error")
    /\ UNCHANGED <<load, file, entry, shard, tenant, lock, writes>>

(***************************************************************************)
(* Range and its three variants: look up, open and read the size under the *)
(* shared lock, set the CLOCK bit; read the aligned superset later.  They  *)
(* differ in what the caller's capacity does: RangeInto shortens the slice *)
(* to it, RangeDirect and RangeDirectPrep refuse a superset that exceeds   *)
(* it.  RangeDirectPrep leaves the read itself to its caller.              *)
(***************************************************************************)
Open(t, fn, k, off, len, cap) ==
    /\ BeginCall(t, fn, k)
    /\ lock[ShardOf[k]] = Unlocked
    /\ IF ~Indexed(k)
         THEN bop' = Ends(t, "not found") /\ UNCHANGED entry
         ELSE /\ entry' = [entry EXCEPT ![k].ref = TRUE]
              /\ bop' = [bop EXCEPT ![t] = [IdleBop EXCEPT !.pc = "pread",
                    !.fn = fn, !.key = k, !.fd = file[k],
                    !.fsize = entry[k].size, !.off = off, !.len = len, !.cap = cap]]
    /\ UNCHANGED <<load, file, shard, tenant, lock, writes>>

RangeBlock(t, k, off, len) == Open(t, "Range", k, off, len, 0)
RangeInto(t, k, off, len, cap) == Open(t, "RangeInto", k, off, len, cap)
RangeDirect(t, k, off, len, cap) == Open(t, "RangeDirect", k, off, len, cap)
RangeDirectPrep(t, k, off, len, cap) == Open(t, "RangeDirectPrep", k, off, len, cap)

(* The slice that is asked for: all of the rest for length 0.              *)
Wanted(o) ==
    LET n == MinOf(IF o.len = 0 THEN o.fsize - o.off ELSE o.len, o.fsize - o.off)
    IN  IF o.fn = "RangeInto" THEN MinOf(n, o.cap) ELSE n

Opened(t) == bop[t]

(* PreadRangeDirectTo: the aligned read of the open file.                  *)
PreadRangeDirectTo(o, n) ==
    LET astart == AlignDown(o.off)
        alen == AlignUp(o.off + n) - astart
        total == MinOf(alen, MaxOf(0, o.fd.size - astart))
    IN  CASE o.fn \in {"RangeDirect", "RangeDirectPrep"} /\ alen > o.cap -> "too small"
          [] total < (o.off - astart) + n -> "io error"
          [] OTHER -> "ok"

Pread(t) ==
    /\ bop[t].pc = "pread"
    /\ LET o == Opened(t)
       IN  bop' = [bop EXCEPT ![t] = [IdleBop EXCEPT !.fn = o.fn, !.key = o.key,
              !.fsize = o.fd.size, !.off = o.off, !.len = Wanted(o), !.cap = o.cap,
              !.res = CASE o.off > o.fsize -> "invalid"
                        [] o.off <= o.fsize /\ Wanted(o) = 0 -> "ok"
                        [] OTHER -> PreadRangeDirectTo(o, Wanted(o))]]
    /\ UNCHANGED <<load, file, entry, shard, tenant, lock, writes, bleft>>

(***************************************************************************)
(* The process ends and starts again: RebuildIndex enters every block file *)
(* into its shard, in some order, and deletes the temporary files.  It     *)
(* evicts nothing.                                                         *)
(***************************************************************************)
ShardKeys(s) == {k \in BKeys : ShardOf[k] = s /\ file[k] # NoFile}

RebuildIndex ==
    /\ bleft.crashes > 0
    /\ bleft' = [bleft EXCEPT !.crashes = @ - 1]
    /\ entry' = [k \in BKeys |-> IF file[k] = NoFile THEN NoEntry
                                 ELSE [size |-> file[k].size, ref |-> FALSE]]
    /\ shard' = [s \in BShards |->
          [order |-> SetToSeq(ShardKeys(s)), hand |-> End,
           used |-> MapThenSumSet(LAMBDA k : file[k].size, ShardKeys(s))]]
    /\ tenant' = [n \in Range(TenantOf) |->
          MapThenSumSet(LAMBDA k : file[k].size, {k \in BKeys : TenantOf[k] = n})]
    /\ lock' = [s \in BShards |-> Unlocked]
    /\ bop' = [t \in BThreads |-> IdleBop]
    /\ UNCHANGED <<load, file, writes>>

KVStoreNext ==
    \/ \E t \in BThreads :
          \/ \E k \in BKeys :
                \/ \E size \in load.sizes :
                      \/ Cache(t, k, size)
                      \/ \E cap \in {size, size + Align} : CacheDirect(t, k, size, cap)
                \/ RemoveBlock(t, k)
                \/ \E fn \in {"Remove", "Range"} : CallFails(t, fn, k)
                \/ \E off \in 0 .. Max(load.sizes) + 1, len \in 0 .. Max(load.sizes) :
                      \/ RangeBlock(t, k, off, len)
                      \/ \E cap \in {1, Align} : \/ RangeInto(t, k, off, len, cap)
                                                \/ RangeDirect(t, k, off, len, cap)
                                                \/ RangeDirectPrep(t, k, off, len, cap)
          \/ WriteTmp(t) \/ EvictLocked(t) \/ ForceLock(t) \/ ForceEvictLocked(t)
          \/ RetryWrite(t) \/ Publish(t) \/ Unlink(t) \/ Pread(t)
    \/ RebuildIndex

KVStoreSpec == KVStoreInit /\ [][KVStoreNext]_kvstoreVars

(***************************************************************************)
(* Index, ring, files and byte counts describe the same blocks whenever a  *)
(* shard's lock is free, after a restart too, and the CLOCK hand, an       *)
(* iterator that survives between calls, points into the ring even while   *)
(* the lock is held: Remove and eviction never leave it on an erased node  *)
(* (HandNext 351-354, Remove 567-572), and no key is in the ring twice.    *)
(***************************************************************************)
IndexIsExact ==
    /\ \A s \in BShards :
          /\ shard[s].hand \in Range(shard[s].order) \union {End}
          /\ IsInjective(shard[s].order)
          /\ Range(shard[s].order) = {k \in BKeys : ShardOf[k] = s /\ Indexed(k)}
          /\ shard[s].used = MapThenSumSet(LAMBDA k : entry[k].size, Range(shard[s].order))
    /\ \A n \in Range(TenantOf) :
          tenant[n] = MapThenSumSet(LAMBDA k : entry[k].size,
                                    {k \in BKeys : TenantOf[k] = n})
    /\ \A k \in BKeys : entry[k].size = file[k].size

(***************************************************************************)
(* A read returns exactly the slice it was asked for from the block it     *)
(* opened, or says why it cannot (offset past the end, or a buffer smaller *)
(* than the aligned read), although the block may be removed, evicted and  *)
(* written again with another size between the unlock and the pread        *)
(* (Range 668-673: the open descriptor pins the inode).                    *)
(***************************************************************************)
ReadsAreExact ==
    \A t \in BThreads :
        LET o == bop[t]
        IN  o.pc = "idle" /\ o.key # "none" =>
              \/ o.res = "invalid" /\ o.off > o.fsize
              \/ o.res = "too small" /\ o.cap < AlignUp(o.off + o.len) - AlignDown(o.off)
              \/ o.res = "ok" /\ o.off + o.len <= o.fsize

(***************************************************************************)
(* A full disk heals itself: with one writer and no failing rename, no     *)
(* write of a value the disk can hold is refused for lack of space (the    *)
(* comment at 498-500: otherwise "PUTs would fail forever").               *)
(***************************************************************************)
FullDiskHeals ==
    \A t \in BThreads :
        load.threads = {t} /\ load.faults = 0 /\ load.disk >= Max(load.sizes) =>
            bop[t].res # "no space"

(***************************************************************************)
(* What the store keeps and what it serves agree, block by block and byte  *)
(* by byte, and a full disk makes room for what it can hold.               *)
(***************************************************************************)
BlocksAreExact == IndexIsExact /\ ReadsAreExact /\ FullDiskHeals
=============================================================================
