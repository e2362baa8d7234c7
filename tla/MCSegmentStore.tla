--------------------------- MODULE MCSegmentStore ---------------------------
(* SegmentStore with an address before and one past a small image. *)
EXTENDS SegmentStore

MCAddrs == -1..CodeSize
MCNames == {<<"user", 0>>}

ASSUME NamesGiven
=============================================================================
