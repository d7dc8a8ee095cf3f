------------------------- MODULE NewPutDemandLatch -------------------------
(***************************************************************************)
(* When the reclaimer drains a slab store: NewPutDemandLatch and the       *)
(* watermark part of DiskSlabStore::ReclaimTick.  A store seen above its   *)
(* high watermark is drained to the low one, and stays open to draining    *)
(* while NEW commits keep coming; QuietTickLimit quiet observations end    *)
(* that, once the drain itself is over.                                    *)
(*                                                                         *)
(* Occupancy is in slots.  Of the bytes admitted in an interval the code   *)
(* looks only at whether there were any.                                   *)
(***************************************************************************)
EXTENDS Integers, Sequences

CONSTANTS
  HighBytes, LowestBytes,  \* evict_high_bytes_, evict_low_bytes_
  FullBytes,               \* slots of the store
  QuietTickLimit,          \* kQuietTickLimit (128)
  TickVictims,             \* evict_max_victims_per_tick_
  MaxTicks                 \* observations in the log

VARIABLES
  latch,     \* watermark_latch_
  used,      \* slots taken
  filling,   \* of these, the ones whose PUT has not committed
  admitted,  \* new_put_bytes_since_tick_ # 0
  log        \* history: what each tick since the start saw

latchVars == <<latch, used, filling, admitted, log>>

NoDemand == [active |-> FALSE, pressure |-> FALSE, quiet |-> 0,
             current |-> FALSE, previous |-> FALSE]

LatchInit ==
  latch = NoDemand /\ used = 0 /\ filling = 0 /\ admitted = FALSE /\ log = <<>>

(* A PUT takes a slot; later it commits, or fails and gives it back.         *)
TakeSlot ==
  /\ used < FullBytes /\ used' = used + 1 /\ filling' = filling + 1
  /\ UNCHANGED <<latch, admitted, log>>
CommitNew ==
  /\ filling > 0 /\ filling' = filling - 1 /\ admitted' = TRUE
  /\ UNCHANGED <<latch, used, log>>
GiveBack ==
  /\ filling > 0 /\ filling' = filling - 1 /\ used' = used - 1
  /\ UNCHANGED <<latch, admitted, log>>
(* REMOVE, or the eviction of a resident outside the watermark.              *)
LoseOne ==
  /\ used > filling /\ used' = used - 1
  /\ UNCHANGED <<latch, filling, admitted, log>>

BeginTick ==
  LET l == [latch EXCEPT !.previous = latch.current, !.current = admitted,
                         !.pressure = @ /\ used # 0,
                         !.quiet = IF used = 0 THEN 0 ELSE @]
  IN IF used > HighBytes
     THEN [l EXCEPT !.pressure = TRUE, !.active = TRUE, !.quiet = 0]
     ELSE IF admitted
     THEN [l EXCEPT !.quiet = 0, !.active = @ \/ (l.pressure /\ used > LowestBytes)]
     ELSE [l EXCEPT !.quiet = IF ~l.pressure THEN 0
                              ELSE IF @ < QuietTickLimit THEN @ + 1 ELSE @]

\* Mutant: the grace runs out while a drain is under way.
ExpiresWhileActive(l) == l.pressure /\ l.quiet = QuietTickLimit

(* l is the latch after the eviction, which left n slots.                    *)
Expires(l) == l.pressure /\ ~l.active /\ l.quiet = QuietTickLimit

EndTick(l, n) ==
  LET m == [l EXCEPT !.active = @ /\ ~(n <= LowestBytes /\ ~l.current /\ ~l.previous)]
  IN IF Expires(m) THEN [m EXCEPT !.pressure = FALSE, !.quiet = 0] ELSE m

(* Slots being filled or read are pinned: spare of the others may go.        *)
ReclaimTick ==
  /\ Len(log) < MaxTicks
  /\ \E spare \in 0..(used - filling) :
       LET l == BeginTick
           wanted == {n \in 0..spare : n <= TickVictims /\ used - n >= LowestBytes}
           gone == IF l.active /\ used > LowestBytes
                   THEN CHOOSE n \in wanted : \A m \in wanted : m <= n ELSE 0
       IN /\ used' = used - gone
          /\ latch' = EndTick(l, used - gone)
          /\ log' = Append(log, [before |-> used, after |-> used - gone, new |-> admitted])
  /\ admitted' = FALSE /\ UNCHANGED filling

(* The store closes, its PUTs over, and opens again with what it held.       *)
ReopenStore ==
  /\ filling = 0 /\ latch' = NoDemand /\ admitted' = FALSE /\ log' = <<>>
  /\ UNCHANGED <<used, filling>>

LatchNext ==
  TakeSlot \/ CommitNew \/ GiveBack \/ LoseOne \/ ReclaimTick \/ ReopenStore

LatchSpec == LatchInit /\ [][LatchNext]_latchVars

(* ------------------------------- properties ----------------------------- *)

\* What the ticks saw, and what follows from it without any counter.
AboveHigh(i) == log[i].before > HighBytes
QuietTick(i) == ~AboveHigh(i) /\ ~log[i].new
Settled(i) == log[i].after <= LowestBytes /\ ~log[i].new /\ (i > 1 => ~log[i-1].new)
\* The last QuietTickLimit observations up to i were quiet.
LongQuiet(i) == i >= QuietTickLimit /\ \A j \in (i - QuietTickLimit + 1)..i : QuietTick(j)

\* open[i]: the store is open to draining after tick i; on[i]: it is being
\* drained.
Verdict ==
  LET V[i \in 0..Len(log)] ==
        IF i = 0 THEN [open |-> FALSE, on |-> FALSE]
        ELSE LET open == AboveHigh(i) \/ (V[i-1].open /\ log[i].before # 0)
                 on == (V[i-1].on \/ AboveHigh(i)
                          \/ (open /\ log[i].new /\ log[i].before > LowestBytes)) /\ ~Settled(i)
             IN [open |-> open /\ (on \/ ~LongQuiet(i)), on |-> on]
  IN V[Len(log)]

\* The latch says what the history of observations says: a drain once begun
\* lasts until the store was at the low watermark through two intervals with
\* no NEW commit; the store is open to draining from an observation above the
\* high watermark until it was seen empty, or until QuietTickLimit quiet ones
\* in a row with no drain, and not longer; and a store that was never above
\* the high watermark loses nothing to a tick.
LatchFollowsDemand ==
  /\ latch.active = Verdict.on /\ latch.pressure = Verdict.open
  /\ \A i \in DOMAIN log : log[i].after < log[i].before => \E j \in 1..i : AboveHigh(j)
=============================================================================
