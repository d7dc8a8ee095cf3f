---------------------------- MODULE UringReader ----------------------------
(***************************************************************************)
(* The bounded io_uring a serving connection reads its disks with          *)
(* (uring_reader.h), as the serve loop of rdma_server.cc drives it: groups *)
(* are submitted and completions reaped in any order; a short read is      *)
(* resubmitted under its token; any failure of the ring itself poisons it; *)
(* the loop then drains it with a timeout, and its destructor without one, *)
(* before the owners of the buffers are released.                          *)
(*                                                                         *)
(* The kernel is external: it may take part of a group, run reads in any   *)
(* order, read short, fail a read, or fail a call (MaxRingFaults in all).  *)
(* The destructor's untimed wait is taken to return a completion.  Tokens  *)
(* stand for buffers, of ReadUnits each.                                   *)
(***************************************************************************)
EXTENDS Integers, FiniteSets, FiniteSetsExt

CONSTANTS
  UringDepth,      \* depth_
  MaxTokens,      \* tokens before next_token_ would wrap
  ReadUnits,      \* length of a read
  MaxReaps,       \* kernel completions one read may take (5)
  MaxRingFaults

ASSUME UringAssumption == UringDepth \in Nat /\ ReadUnits \in Nat

RingSlots == 1..UringDepth
UnusedSlot == [used |-> FALSE, token |-> 0, done |-> 0, reaps |-> 0]

VARIABLES
  uring,      \* the object's members: see UringReaderInit
  kernel,     \* reads the kernel owns: [token, left]
  cqes,       \* completions not yet seen: [token, res]
  sqes,       \* reads prepared and not submitted
  answers,    \* token -> what Completion told the loop
  owner,      \* the loop: "serve", "failed", "drained", "gone"
  ringFaults

uringVars == <<uring, kernel, cqes, sqes, answers, owner, ringFaults>>

UringReaderInit ==
  /\ uring = [pending |-> [s \in RingSlots |-> UnusedSlot], next |-> 1,
              logical |-> 0, kernel |-> 0, poisoned |-> FALSE]
  /\ kernel = {} /\ cqes = {} /\ sqes = {}
  /\ answers = [t \in {} |-> 0] /\ owner = "serve" /\ ringFaults = 0

Asked(t) == [token |-> t, left |-> ReadUnits]
FreePending == {s \in RingSlots : ~uring.pending[s].used}
TokensOf(R) == {r.token : r \in R}
UringFault == ringFaults < MaxRingFaults /\ ringFaults' = ringFaults + 1

(* --------------------------------- Submit ------------------------------- *)

\* The first n free slots, in order, get the next n tokens.
Filled(n) ==
  LET Rank(s) == Cardinality({r \in FreePending : r < s})
  IN [s \in RingSlots |->
        IF s \in FreePending /\ Rank(s) < n
        THEN [used |-> TRUE, token |-> uring.next + Rank(s), done |-> 0, reaps |-> 0]
        ELSE uring.pending[s]]

\* n reads were prepared and the kernel took the first a of them.
Prepared(n, a) ==
  LET group == uring.next..(uring.next + n - 1)
      taken == uring.next..(uring.next + a - 1)
  IN /\ kernel' = kernel \cup {Asked(t) : t \in taken}
     /\ sqes' = sqes \cup (group \ taken)

Submittable(n) ==
  owner = "serve" /\ ~uring.poisoned /\ n \in 1..(UringDepth - uring.logical)

SubmitGroup(n) ==
  /\ Submittable(n) /\ uring.next + n - 1 <= MaxTokens
  /\ Prepared(n, n)
  /\ uring' = [uring EXCEPT !.pending = Filled(n), !.next = @ + n,
                            !.kernel = @ + n, !.logical = @ + n]
  /\ UNCHANGED <<cqes, answers, owner, ringFaults>>

\* Mutant: a short submit counts every prepared read as with the kernel.
CountsTheGroup(p, a) == p

\* The token would wrap; io_uring_get_sqe had none after p of n reads; or
\* io_uring_submit gave up after a of the p = n prepared.
CountsAccepted(p, a) == a
SubmitFails(n, p, a) ==
  /\ Submittable(n) /\ a < n /\ p <= n /\ (p < n => a = 0)
  /\ IF uring.next + n - 1 > MaxTokens
     THEN /\ uring' = [uring EXCEPT !.poisoned = TRUE]
          /\ UNCHANGED <<kernel, sqes, ringFaults>>
     ELSE /\ UringFault /\ Prepared(p, a)
          /\ uring' = [uring EXCEPT !.pending = Filled(p), !.next = @ + p,
                                    !.kernel = @ + CountsAccepted(p, a), !.poisoned = TRUE]
  /\ owner' = "failed" /\ UNCHANGED <<cqes, answers>>

(* ------------------------------ the kernel ------------------------------ *)

\* A read ends whole, short, at the end of the file (0) or with an error (-1).
KernelReads(r) ==
  /\ kernel' = kernel \ {r}
  /\ \E res \in -1..r.left : cqes' = cqes \cup {[token |-> r.token, res |-> res]}
  /\ UNCHANGED <<uring, sqes, answers, owner, ringFaults>>

(* ------------------------ Peek, or Wait, and Reap ----------------------- *)

\* The ring itself fails a look at the completion queue.
PeekFails ==
  /\ owner = "serve" /\ ~uring.poisoned /\ UringFault
  /\ uring' = [uring EXCEPT !.poisoned = TRUE]
  /\ owner' = "failed" /\ UNCHANGED <<kernel, cqes, sqes, answers>>

SlotOfToken(t) == {s \in RingSlots : uring.pending[s].used /\ uring.pending[s].token = t}

\* The completion c of the read in slot s; u is the ring with c seen.
Completes(s, c, u) ==
  /\ uring' = [u EXCEPT !.pending[s].used = FALSE, !.logical = @ - 1]
  /\ answers' = [t \in DOMAIN answers \cup {c.token} |->
                   IF t = c.token THEN IF c.res < 0 THEN c.res ELSE u.pending[s].done
                   ELSE answers[t]]
  /\ UNCHANGED <<kernel, sqes, owner, ringFaults>>

Resubmits(s, c, u) ==
  /\ kernel' = kernel \cup {[token |-> c.token, left |-> ReadUnits - u.pending[s].done]}
  /\ uring' = [u EXCEPT !.kernel = @ + 1]
  /\ UNCHANGED <<sqes, answers, owner, ringFaults>>
\* The residual was prepared (left) or not when it failed.
ResubmitFails(u, left) ==
  /\ uring' = [u EXCEPT !.poisoned = TRUE] /\ sqes' = sqes \cup left
  /\ owner' = "failed" /\ UNCHANGED <<kernel, answers>>

ReapOne(c) ==
  /\ owner = "serve" /\ ~uring.poisoned
  /\ cqes' = cqes \ {c}
  /\ \E s \in SlotOfToken(c.token) :
       LET q == [uring.pending[s] EXCEPT !.reaps = @ + 1,
                                         !.done = @ + (IF c.res > 0 THEN c.res ELSE 0)]
           u == [uring EXCEPT !.kernel = @ - 1, !.pending[s] = q]
       IN IF c.res > 0 /\ u.pending[s].done < ReadUnits
          THEN \/ u.pending[s].reaps <= MaxReaps /\ Resubmits(s, c, u)
               \/ u.pending[s].reaps <= MaxReaps /\ UringFault
                  /\ \E left \in SUBSET {c.token} : ResubmitFails(u, left)
               \/ u.pending[s].reaps > MaxReaps /\ ResubmitFails(u, {}) /\ UNCHANGED ringFaults
          ELSE Completes(s, c, u)

\* The connection ends for reasons of its own.
ServeEnds ==
  /\ owner = "serve" /\ owner' = "failed"
  /\ UNCHANGED <<uring, kernel, cqes, sqes, answers, ringFaults>>

(* --------------------------------- Drain -------------------------------- *)

DrainOne(c) ==
  /\ owner \in {"failed", "drained"} /\ uring.kernel > 0
  /\ cqes' = cqes \ {c}
  /\ uring' = [uring EXCEPT !.kernel = @ - 1]
  /\ UNCHANGED <<kernel, sqes, answers, owner, ringFaults>>

\* Drain returns, everything reaped or (timed, first) with reads still out.
Aborted ==
  [uring EXCEPT !.pending = [s \in RingSlots |-> [uring.pending[s] EXCEPT !.used = FALSE]],
                !.logical = 0]
DrainReturns ==
  /\ owner = "failed"
  /\ \/ uring.kernel = 0 /\ uring' = Aborted /\ UNCHANGED ringFaults
     \/ uring.kernel > 0 /\ uring' = uring /\ UringFault
  /\ owner' = "drained" /\ UNCHANGED <<kernel, cqes, sqes, answers>>

\* ~UringReader; the owners of the buffers go next.
Destroyed ==
  /\ owner = "drained" /\ uring.kernel = 0
  /\ uring' = Aborted /\ owner' = "gone"
  /\ UNCHANGED <<kernel, cqes, sqes, answers, ringFaults>>

UringReaderNext ==
  \/ \E n \in RingSlots : SubmitGroup(n)
  \/ \E n \in RingSlots, p, a \in 0..UringDepth : SubmitFails(n, p, a)
  \/ \E r \in kernel : KernelReads(r)
  \/ \E c \in cqes : ReapOne(c) \/ DrainOne(c)
  \/ PeekFails \/ ServeEnds \/ DrainReturns \/ Destroyed

UringReaderSpec == UringReaderInit /\ [][UringReaderNext]_uringVars

(* ------------------------------- properties ----------------------------- *)

\* What the kernel owns is known: kernel_inflight_ counts it through partial
\* submissions, resubmissions and failures, every such read has its slot to
\* itself while the loop serves, and when the ring is gone the kernel writes
\* to no buffer any more.
KernelIsCounted ==
  /\ uring.kernel = Cardinality(kernel) + Cardinality(cqes)
  /\ owner = "serve" =>
       /\ \A t \in TokensOf(kernel) \cup TokensOf(cqes) : Cardinality(SlotOfToken(t)) = 1
       /\ uring.logical = UringDepth - Cardinality(FreePending)
       /\ uring.logical = uring.kernel
  /\ owner = "gone" => kernel = {} /\ cqes = {}

\* Each read is answered once, when the kernel is done with it; a read that
\* was prepared and never submitted is not answered; and what is left of a
\* short read is exactly what the kernel was asked for again.
ReadsAreAnsweredOnce ==
  /\ DOMAIN answers \cap (TokensOf(kernel) \cup TokensOf(cqes) \cup sqes) = {}
  /\ \A s \in RingSlots : uring.pending[s].used => uring.pending[s].token \notin DOMAIN answers
  /\ \A r \in kernel, s \in RingSlots :
       owner = "serve" /\ uring.pending[s].used /\ uring.pending[s].token = r.token =>
         r.left + uring.pending[s].done = ReadUnits

\* The ring's accounting is what lets the loop release the buffers: both of
\* the above, through every failure of Submit, Peek, Reap and a timed Drain.
RingIsOwned == KernelIsCounted /\ ReadsAreAnsweredOnce
=============================================================================
