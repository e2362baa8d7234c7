---------------------------- MODULE MCExploreMap ----------------------------
(* ExploreMap on the small images of MCImages. *)
EXTENDS ExploreMap, MCImages

(* An entrypoint in a segment that does not begin where the image does. *)
MCEntryPastStart == [seg |-> 1, lin |-> 1]
=============================================================================
