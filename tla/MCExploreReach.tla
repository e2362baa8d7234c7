--------------------------- MODULE MCExploreReach ---------------------------
(* ExploreReach on the small images of MCImages. *)
EXTENDS ExploreReach, MCImages
=============================================================================
