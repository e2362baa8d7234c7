---------------------------- MODULE SegmentOrder ----------------------------
(***************************************************************************)
(* Lists put in order (std::sort in codemap.cpp and routine.cpp): segments *)
(* by their base, blocks by their begin.  Places with equal keys stay as   *)
(* they came.                                                              *)
(***************************************************************************)
EXTENDS Integers, FiniteSets, Sequences

(* The place that the i-th of a list of keys has in their order. *)
NotBehind(keys, i) ==
  {j \in DOMAIN keys : keys[j] < keys[i] \/ (keys[j] = keys[i] /\ j <= i)}
Place(keys, i) == Cardinality(NotBehind(keys, i))

(* Which of the keys the order has at each place. *)
Ascending(keys) == [k \in DOMAIN keys |-> CHOOSE i \in DOMAIN keys : Place(keys, i) = k]

(* Segment::operator<. *)
InBaseOrder(segs) ==
  LET order == Ascending([i \in DOMAIN segs |-> segs[i].addr])
  IN [k \in DOMAIN segs |-> segs[order[k]]]
=============================================================================
