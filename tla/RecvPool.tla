------------------------------ MODULE RecvPool ------------------------------
(***************************************************************************)
(* RecvSegmentPool: the registered receive memory of an RdmaServer.  It     *)
(* grows by chunks up to a limit, serves leases first-fit from the free     *)
(* ranges of a chunk, merges what is returned, keeps the first chunk for    *)
(* staging when a reserve is configured, and gives empty chunks back after  *)
(* a while.  A lease returns its range and notes the release in two steps.  *)
(***************************************************************************)
EXTENDS Integers, Sequences, FiniteSets, FiniteSetsExt, SequencesExt

CONSTANTS
    ChunkBytes, MaxBytes,   \* chunk_bytes_, max_bytes_
    Alignment,              \* of a lease's first byte
    Reserve,                \* a staging reserve is configured
    LeaseSizes, Rails,      \* sizes asked for; affinities of chunks
    TrimAfter,              \* idle_ms, in ticks
    Owners                  \* threads that hold a lease

ASSUME RecvPoolAssumption ==
    /\ {ChunkBytes, MaxBytes, Alignment, TrimAfter} \subseteq Nat \ {0}
    /\ ChunkBytes % Alignment = 0 /\ MaxBytes % Alignment = 0
    /\ ChunkBytes <= MaxBytes /\ (Reserve => ChunkBytes < MaxBytes)

VARIABLES
    chunks,     \* sequence of chunks, in the order they were added
    leases      \* per owner: the lease it holds

poolVars == <<chunks, leases>>

Shared == -1
Never == TrimAfter + 1      \* empty_since_ms = 0
NoRange == [chunk |-> 0, begin |-> 0, len |-> 0, class |-> "none", noted |-> TRUE]

Chunk(id, bytes, rail, staging) ==
    [id |-> id, size |-> bytes, rail |-> rail, staging |-> staging,
     free |-> {<<0, bytes>>}, since |-> Never]

RecvPoolInit ==
    /\ chunks = <<Chunk(1, ChunkBytes, Shared, Reserve)>>
    /\ leases = [o \in Owners |-> NoRange]

AlignUpChecked(n) == ((n + Alignment - 1) \div Alignment) * Alignment

(* RecvSegment::Allocate: the first free range the aligned lease fits into,  *)
(* less the lease. *)
Fits(range, bytes) == AlignUpChecked(range[1]) + bytes <= range[1] + range[2]

FirstFit(free, bytes) ==
    LET fit == { r \in free : Fits(r, bytes) } IN
    CHOOSE r \in fit : \A q \in fit : r[1] <= q[1]

Carve(free, bytes) ==
    LET r == FirstFit(free, bytes)
        begin == AlignUpChecked(r[1])
        end == begin + bytes IN
    (free \ {r})
      \cup (IF begin > r[1] THEN {<<r[1], begin - r[1]>>} ELSE {})
      \cup (IF end < r[1] + r[2] THEN {<<end, r[1] + r[2] - end>>} ELSE {})

\* Mutant: a freed range is not merged with its right neighbour.
MergesLeftOnly(free, begin, len) ==
    LET prev == { r \in free : r[1] + r[2] = begin }
        first == IF prev = {} THEN begin ELSE Min({ r[1] : r \in prev }) IN
    (free \ prev) \cup {<<first, begin + len - first>>}

(* RecvSegment::Release: merge with the free neighbours on both sides. *)
Merge(free, begin, len) ==
    LET prev == { r \in free : r[1] + r[2] = begin }
        next == { r \in free : r[1] = begin + len }
        first == IF prev = {} THEN begin ELSE Min({ r[1] : r \in prev })
        last == begin + len + SumSet({ r[2] : r \in next }) IN
    (free \ (prev \cup next)) \cup {<<first, last - first>>}

CommittedBytes(cs) == FoldSeq(LAMBDA c, n : c.size + n, 0, cs)

Used(c) == c.size - MapThenSumSet(LAMBDA r : r[2], c.free)

(* RecvSegmentPool::Allocate: the reserve for staging, then the rail's own   *)
(* chunks, then the shared ones, each in order; then a new chunk. *)
Candidates(class, rail, bytes) ==
    LET fit(which(_)) == SelectInSeq(chunks, LAMBDA c : which(c)
                            /\ \E r \in c.free : Fits(r, bytes)) IN
    <<IF class = "staging" /\ Reserve THEN fit(LAMBDA c : c.staging) ELSE 0,
      fit(LAMBDA c : c.rail = rail /\ ~c.staging),
      fit(LAMBDA c : c.rail = Shared /\ ~c.staging)>>

(* A chunk is known by its segment's address, which a later chunk may reuse. *)
FreshId == Min((1..(Len(chunks) + 1)) \ { chunks[n].id : n \in DOMAIN chunks })

NewChunk(bytes, rail) ==
    LET room == MaxBytes - CommittedBytes(chunks) IN
    IF AlignUpChecked(bytes) > room THEN <<>>
    ELSE <<Chunk(FreshId, Min({Max({ChunkBytes, AlignUpChecked(bytes)}), room}), rail, FALSE)>>

LeaseRange(o, cs, n, bytes, class) ==
    LET begin == AlignUpChecked(FirstFit(cs[n].free, bytes)[1]) IN
    /\ chunks' = [cs EXCEPT ![n].free = Carve(@, bytes), ![n].since = Never]
    /\ leases' = [leases EXCEPT ![o] = [chunk |-> cs[n].id, begin |-> begin,
                     len |-> bytes, class |-> class, noted |-> FALSE]]

AllocateLease(o, class, rail, bytes) ==
    LET fit == SelectSeq(Candidates(class, rail, bytes), LAMBDA n : n # 0) IN
    /\ leases[o] = NoRange
    /\ IF fit # <<>> THEN LeaseRange(o, chunks, fit[1], bytes, class)
       ELSE LET added == NewChunk(bytes, rail) IN
            /\ added # <<>>         \* else the allocation fails
            /\ LeaseRange(o, chunks \o added, Len(chunks) + 1, bytes, class)

(* Lease::Reset returns the range under the segment's own mutex ... *)
ResetLease(o) ==
    LET l == leases[o]
        n == SelectInSeq(chunks, LAMBDA c : c.id = l.chunk) IN
    /\ l.len # 0
    /\ chunks' = [chunks EXCEPT ![n].free = Merge(@, l.begin, l.len)]
    /\ leases' = [leases EXCEPT ![o] = [NoRange EXCEPT !.chunk = l.chunk, !.noted = FALSE]]
   

(* ... and then notes the release, if the chunk is still there. *)
NoteRelease(o) ==
    LET n == SelectInSeq(chunks, LAMBDA c : c.id = leases[o].chunk) IN
    /\ leases[o].len = 0 /\ ~leases[o].noted
    /\ leases' = [leases EXCEPT ![o] = NoRange]
    /\ chunks' = IF n # 0 /\ Used(chunks[n]) = 0
                 THEN [chunks EXCEPT ![n].since = 0] ELSE chunks

(* TrimIdle on one chunk: what is left of it. *)
Trimmed(c) ==
    IF Used(c) # 0 THEN {[c EXCEPT !.since = Never]}
    ELSE IF c.since = Never THEN {[c EXCEPT !.since = 0]}
    ELSE IF c.since < TrimAfter THEN {c} ELSE {}

(* TrimIdle: every chunk but the first. *)
TrimIdleChunks ==
    /\ chunks' = <<Head(chunks)>> \o
         FlattenSeq([n \in 1..(Len(chunks) - 1) |-> SetToSeq(Trimmed(chunks[n + 1]))])
    /\ UNCHANGED leases

PoolTick ==
    /\ \E n \in DOMAIN chunks : chunks[n].since < TrimAfter
    /\ chunks' = [n \in DOMAIN chunks |-> [chunks[n] EXCEPT
                    !.since = IF @ < TrimAfter THEN @ + 1 ELSE @]]
    /\ UNCHANGED leases

RecvPoolNext ==
    \/ \E o \in Owners :
         \/ \E class \in {"conn", "staging"}, rail \in Rails, bytes \in LeaseSizes :
              AllocateLease(o, class, rail, bytes)
         \/ ResetLease(o) \/ NoteRelease(o)
    \/ TrimIdleChunks \/ PoolTick

RecvPoolSpec == RecvPoolInit /\ [][RecvPoolNext]_poolVars

Bytes(begin, len) == begin..(begin + len - 1)

(* Memory a connection registers for its peer's WRITEs belongs to it alone:  *)
(* the leases on a chunk and its free ranges divide it, no chunk goes away    *)
(* under a lease, and free neighbours are always one range, so that memory    *)
(* comes back in the sizes it was taken in (rdma_recv_segment.cc Allocate,    *)
(* Release, TrimIdle).  The total stays within max_bytes_, and a connection   *)
(* never takes the staging reserve. *)
LeasesDivideChunks ==
    /\ \A o \in Owners : leases[o].len # 0 =>
         \E n \in DOMAIN chunks : chunks[n].id = leases[o].chunk
             /\ (chunks[n].staging => leases[o].class = "staging")
    /\ \A n \in DOMAIN chunks :
         LET c == chunks[n]
             held == { o \in Owners : leases[o].len # 0 /\ leases[o].chunk = c.id }
             parts == c.free \cup { <<leases[o].begin, leases[o].len>> : o \in held } IN
         /\ Cardinality(parts) = Cardinality(c.free) + Cardinality(held)
         /\ UNION { Bytes(p[1], p[2]) : p \in parts } = 0..(c.size - 1)
         /\ \A p, q \in parts : p # q => Bytes(p[1], p[2]) \cap Bytes(q[1], q[2]) = {}
         /\ \A p, q \in c.free : p[1] + p[2] # q[1]
    /\ CommittedBytes(chunks) <= MaxBytes
=============================================================================
