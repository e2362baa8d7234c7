----------------------------- MODULE ExploreMap -----------------------------
(***************************************************************************)
(* exploreCode to its end: the code map is built from the search queue and *)
(* the segment table the exploration leaves behind.                        *)
(***************************************************************************)
EXTENDS ExploreCode, SegmentOrder

VARIABLE cm     \* the code map under construction

Build == INSTANCE CodeMapBuild

mapState == <<state, cm>>

InitM == Init /\ cm = Build!NewMap(FALSE, 0)

(* setSegments sorts the segments for the map. *)
MapTable == InBaseOrder(segs)

Explore == Next /\ UNCHANGED cm

MapNextByte ==
  /\ pc = "done" /\ cm.status = "mapping" /\ ~Build!LastByteMapped(cm, sq, MapTable)
  /\ cm' = Build!MapByte(cm, sq, MapTable)
  /\ UNCHANGED state

MapEnd ==
  /\ pc = "done" /\ cm.status = "mapping" /\ Build!LastByteMapped(cm, sq, MapTable)
  /\ cm' = Build!FinishMap(cm, sq, CodeSize)
  /\ UNCHANGED state

NextM == Explore \/ MapNextByte \/ MapEnd

SpecM == InitM /\ [][NextM]_mapState

-----------------------------------------------------------------------------
(* The map is a map, and its blocks are ranges of the image. *)
MapTypeOK ==
  /\ cm \in Build!Maps
  /\ \A b \in cm.blocks : b.lo \in Byte /\ b.hi \in Byte /\ b.lo <= b.hi

BlockBytes(b) == b.lo..b.hi
Owned(r) == {b \in Byte : sq.visited[b] = r}
BlocksOf(kind, r) == {b \in cm.blocks : b.kind = kind /\ b.idx = r}

(* The blocks never overlap, and a routine is given exactly the bytes it   *)
(* owns as reachable code.                                                 *)
BlocksMatchOwners ==
  cm.status = "mapped" =>
    /\ \A a, b \in cm.blocks : a # b => BlockBytes(a) \cap BlockBytes(b) = {}
    /\ \A r \in DOMAIN sq.entrypoints :
         UNION {BlockBytes(b) : b \in BlocksOf("reachable", r)} = Owned(r)

(* A routine that still owns its entrypoint has a main block, one that     *)
(* starts there: its extents are computed from it (recalculateExtents).    *)
MainBlockExists ==
  cm.status = "mapped" =>
    \A r \in DOMAIN sq.entrypoints :
      LET ep == sq.entrypoints[r].addr.lin
      IN sq.visited[ep] = r => \E b \in BlocksOf("reachable", r) : b.lo = ep

(* "attribute to a routine if surrounded by that routine's blocks on both  *)
(* sides" (codemap.cpp:293): and nothing else is attributed.               *)
UnreachableIsSurrounded ==
  cm.status = "mapped" =>
    \A b \in cm.blocks : b.kind = "unreachable" =>
      /\ \A x \in BlockBytes(b) : sq.visited[x] \in {NULL_ROUTINE, BAD_ROUTINE}
      /\ sq.visited[b.lo - 1] = b.idx /\ sq.visited[b.hi + 1] = b.idx

(* A finished exploration leaves a queue the map can be built from, but    *)
(* for an instruction that reaches past the end of its routine's segment.  *)
(* A block with an end its routine's segment cannot express is a           *)
(* MemoryError in closeBlock, and there is no map at all.                  *)
MapFailsOnlyOnStraddle ==
  cm.status = "failed" =>
    \E b \in Byte : /\ sq.visited[b] > NULL_ROUTINE
                    /\ ~InSegment(b, sq.entrypoints[sq.visited[b]].addr.seg)
=============================================================================
