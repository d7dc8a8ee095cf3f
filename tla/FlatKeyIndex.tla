---------------------------- MODULE FlatKeyIndex ----------------------------
(***************************************************************************)
(* SlabAllocator::FlatKeyIndex: the open-addressing hash table that maps a *)
(* key to its slot.  Collisions probe the next bucket; an erased cell      *)
(* becomes a tombstone, which a search passes over and an insertion        *)
(* reuses; growth and compaction happen only in Reserve.  The code's load  *)
(* limit of 7/10 and its compaction thresholds are kept; the smallest      *)
(* table has MinCapacity cells where the code has 16.                      *)
(***************************************************************************)
EXTENDS Integers, Sequences, SequencesExt

CONSTANTS
  Objects,      \* the keys
  HashOf,       \* [Objects -> Nat], Hash()
  MinCapacity   \* cells of the first table, a power of two

Empty == "empty"
Tomb == "tombstone"

Cells(t) == Len(t.cells)
LoadLimit(cap) == (cap * 7) \div 10

\* The i-th cell a probe for o visits in a table of cap cells.
Probe(o, cap, i) == ((HashOf[o] + i - 1) % cap) + 1

\* The steps of a probe for o after which P holds of the cell for the first time.
FirstStep(cells, o, P(_)) ==
  {i \in DOMAIN cells :
     /\ P(cells[Probe(o, Len(cells), i)])
     /\ \A j \in 1..(i - 1) : ~P(cells[Probe(o, Len(cells), j)])}

\* The cell Find stops at: o's own, or none if an empty cell comes first.
FindKey(t, o) ==
  {c \in {Probe(o, Cells(t), i) : i \in FirstStep(t.cells, o, LAMBDA x : x \in {o, Empty})} :
     t.cells[c] = o}

\* A table of cap cells holding t's keys, entered in cell order; no tombstones.
Rehash(t, cap) ==
  LET Enter(cells, x) ==
        IF x \in {Empty, Tomb} THEN cells
        ELSE LET i == CHOOSE i \in FirstStep(cells, x, LAMBDA y : y = Empty) : TRUE
             IN [cells EXCEPT ![Probe(x, cap, i)] = x]
  IN [cells |-> FoldLeft(Enter, [c \in 1..cap |-> Empty], t.cells),
      size |-> t.size, tombs |-> 0]

CapacityFor[cap \in Nat, n \in Nat] ==
  IF n > LoadLimit(cap) THEN CapacityFor[2 * cap, n] ELSE cap

ReserveCells(t, n) ==
  LET cap == CapacityFor[IF t.cells = <<>> THEN MinCapacity ELSE Cells(t), n]
      crowded == t.tombs # 0 /\ (n + t.tombs > LoadLimit(cap) \/ t.tombs > cap \div 4)
  IN IF t.cells = <<>> \/ cap # Cells(t) \/ crowded THEN Rehash(t, cap) ELSE t

\* Insert of an absent key: the first tombstone before the first empty cell.
InsertKey(t, o) ==
  LET r == ReserveCells(t, t.size + 1)
      end == CHOOSE i \in FirstStep(r.cells, o, LAMBDA x : x = Empty) : TRUE
      early == {i \in FirstStep(r.cells, o, LAMBDA x : x = Tomb) : i < end}
      target == Probe(o, Cells(r), IF early = {} THEN end ELSE CHOOSE i \in early : TRUE)
  IN [cells |-> [r.cells EXCEPT ![target] = o],
      size |-> r.size + 1,
      tombs |-> r.tombs - (IF r.cells[target] = Tomb THEN 1 ELSE 0)]

\* An erased key leaves a tombstone, so that the chains through it stay whole.
EraseKey(t, o) ==
  IF FindKey(t, o) = {} THEN t
  ELSE [t EXCEPT !.cells[CHOOSE c \in FindKey(t, o) : TRUE] = Tomb,
                 !.size = @ - 1, !.tombs = @ + 1]

NewIndex == [cells |-> <<>>, size |-> 0, tombs |-> 0]

\* The table answers for exactly the keys in S, its counters are right, and a
\* search always meets an empty cell: erasing and compacting never cut a chain.
IndexIsFaithful(t, S) ==
  /\ \A o \in Objects : (FindKey(t, o) # {}) <=> (o \in S)
  /\ t.size = Len(SelectSeq(t.cells, LAMBDA x : x \notin {Empty, Tomb}))
  /\ t.tombs = Len(SelectSeq(t.cells, LAMBDA x : x = Tomb))
  /\ t.cells # <<>> => \E c \in DOMAIN t.cells : t.cells[c] = Empty
==============================================================================
