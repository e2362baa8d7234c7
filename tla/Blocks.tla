------------------------------- MODULE Blocks -------------------------------
(***************************************************************************)
(* Address ranges (Block in address.h and address.cpp), both ends          *)
(* inclusive.  Addresses compare by their linear value, so a block is a    *)
(* pair of linear addresses; one with its ends the wrong way round is      *)
(* invalid and empty.                                                      *)
(***************************************************************************)
EXTENDS SegmentOrder, SequencesExt

Range2(lo, hi) == [lo |-> lo, hi |-> hi]
ValidBlock(b) == b.lo >= 0 /\ b.lo <= b.hi
BytesOf(b) == b.lo..b.hi

Later(x, y) == IF x > y THEN x ELSE y
Sooner(x, y) == IF x < y THEN x ELSE y

Intersects(a, b) ==
  ValidBlock(a) /\ ValidBlock(b) /\ Later(a.lo, b.lo) <= Sooner(a.hi, b.hi)

(* Only the block itself is asked to be valid. *)
Adjacent(a, b) == ValidBlock(a) /\ Later(a.lo, b.lo) - Sooner(a.hi, b.hi) = 1

Coalesce(a, b) ==
  IF Intersects(a, b) \/ Adjacent(a, b)
  THEN Range2(Sooner(a.lo, b.lo), Later(a.hi, b.hi)) ELSE a

SortedBlocks(bs) ==
  LET listed == SetToSeq(bs)
      order == Ascending([i \in DOMAIN listed |-> listed[i].lo])
  IN [k \in DOMAIN listed |-> listed[order[k]]]
=============================================================================
