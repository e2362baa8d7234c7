--------------------------- MODULE MCExploreCode ---------------------------
(* ExploreCode on the small images of MCImages. *)
EXTENDS ExploreCode, MCImages
=============================================================================
