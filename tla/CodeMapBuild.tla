---------------------------- MODULE CodeMapBuild ----------------------------
(***************************************************************************)
(* From a search queue to a code map (codemap.cpp): CodeMap's constructor  *)
(* with blocksFromQueue and closeBlock, which cut the byte map of a        *)
(* finished exploration into blocks and give them to routines.             *)
(*                                                                         *)
(* A map under construction is a record; the operations are functions of   *)
(* it, of the queue q and of the segment table, so that the module can be  *)
(* put behind any exploration.  Blocks carry linear addresses; what the    *)
(* code does to their segments is kept where it can fail.                  *)
(***************************************************************************)
EXTENDS ScanQueue, FiniteSets

NoSegment == -1     \* the base of Segment{}

BlockKinds == {"reachable", "unreachable", "unclaimed"}
Blocks == [kind : BlockKinds, idx : RoutineIds, lo : Int, hi : Int]

Maps == [start : Int, off : Int, open : Addresses, seg : Int,
         curId : RoutineIds, prevId : RoutineIds,
         curBlockId : RoutineIds, prevBlockId : RoutineIds,
         blocks : SUBSET Blocks, only : BOOLEAN,
         status : {"mapping", "mapped", "failed"}]

(* The walk begins at the linear address start, in the 64K segment that is *)
(* below it.  With only, the routines have their blocks already and the    *)
(* blocks that no routine claims are looked for.                           *)
NewMap(only, start) ==
  [only |-> only, start |-> start, off |-> start, open |-> LinearAddr(start), seg |-> NoSegment,
   curId |-> NULL_ROUTINE, prevId |-> NULL_ROUTINE,
   curBlockId |-> NULL_ROUTINE, prevBlockId |-> NULL_ROUTINE,
   blocks |-> {}, status |-> "mapping"]

-----------------------------------------------------------------------------
(* findSegment goes through the segments as they are listed: the last that *)
(* contains off, or the first past it.  "Assume sorted segments": the map  *)
(* of an exploration has them sorted, a file may list them in any order.   *)

Containing(table, off) == {i \in DOMAIN table : InSegment(off, table[i].addr)}
Past(table, off) == {i \in DOMAIN table : table[i].addr > off}

FindSegment(table, off) ==
  IF Containing(table, off) = {} THEN NoSegment
  ELSE table[CHOOSE i \in Containing(table, off) : \A j \in Containing(table, off) : j <= i].addr

FindSegmentPast(table, off) ==
  IF Past(table, off) = {} THEN NoSegment
  ELSE table[CHOOSE i \in Past(table, off) : \A j \in Past(table, off) : i <= j].addr

-----------------------------------------------------------------------------
(* closeBlock: the open block ends before next.  Reachable blocks, and     *)
(* unreachable ones that have the same routine on both sides, are moved to *)
(* the segment of the routine's entrypoint; Address::move refuses to leave *)
(* the reach of the segment (MemoryError).                                 *)

Fits(lo, hi, seg) == InSegment(lo, seg) /\ InSegment(hi, seg)

(* Mutated form: the routine on the other side is not compared. *)
KindOfAnySide(cm) ==
  IF cm.curBlockId > NULL_ROUTINE THEN "reachable"
  ELSE IF cm.prevBlockId > NULL_ROUTINE THEN "unreachable"
  ELSE "unclaimed"

KindOf(cm) ==
  IF cm.only THEN "unclaimed"
  ELSE IF cm.curBlockId > NULL_ROUTINE THEN "reachable"
  ELSE IF cm.prevBlockId > NULL_ROUTINE /\ cm.curId = cm.prevBlockId THEN "unreachable"
  ELSE "unclaimed"

OwnerOf(cm) ==
  CASE KindOf(cm) = "reachable" -> cm.curBlockId
    [] KindOf(cm) = "unreachable" -> cm.prevBlockId
    [] OTHER -> NULL_ROUTINE

HomeOf(cm, q) ==
  IF OwnerOf(cm) = NULL_ROUTINE THEN cm.open.seg
  ELSE q.entrypoints[OwnerOf(cm)].addr.seg

(* unclaimedOnly: a block of a routine is not recorded again. *)
Known(cm) == cm.only /\ cm.curBlockId # NULL_ROUTINE

(* Mutated form: the first byte after the block belongs to it too. *)
CloseBlockAtNext(cm, q, next) ==
  IF cm.status = "failed" \/ ~IsValid(cm.open) \/ next = cm.open.lin THEN cm
  ELSE [cm EXCEPT
          !.blocks = @ \cup {[kind |-> KindOf(cm), idx |-> OwnerOf(cm),
                              lo |-> cm.open.lin, hi |-> next]},
          !.prevBlockId = cm.curBlockId]

CloseBlock(cm, q, next) ==
  IF cm.status = "failed" \/ ~IsValid(cm.open) \/ next = cm.open.lin THEN cm
  ELSE IF \/ next < cm.open.lin
          \/ ~InSegment(next - 1, cm.open.seg)
          \/ ~Fits(cm.open.lin, next - 1, HomeOf(cm, q))
  THEN [cm EXCEPT !.status = "failed"]
  ELSE [cm EXCEPT
          !.blocks = IF Known(cm) THEN @
                     ELSE @ \cup {[kind |-> KindOf(cm), idx |-> OwnerOf(cm),
                                   lo |-> cm.open.lin, hi |-> next - 1]},
          !.prevBlockId = cm.curBlockId]

-----------------------------------------------------------------------------
(* One turn of the loop of blocksFromQueue.                                *)

(* Bytes in no segment are skipped up to the next segment.  The id of the  *)
(* byte was read before and is not read again after the skip.              *)
SkipGap(cm, q, table) ==
  IF FindSegment(table, cm.off) # NoSegment THEN cm
  ELSE [CloseBlock(cm, q, cm.off) EXCEPT !.open = InvalidAddr,
          !.off = FindSegmentPast(table, cm.off)]

(* Mutated form: the block of the segment left behind is not closed.       *)
ChangeSegmentKeepOpen(cm, q, seg) == [cm EXCEPT !.seg = seg]

(* Mutated form: a block whose owner stays is not opened again. *)
ChangeSegmentNoReopen(cm, q, seg) ==
  IF seg = cm.seg THEN cm
  ELSE IF IsValid(cm.open) /\ InSegment(cm.open.lin, seg)
  THEN [cm EXCEPT !.seg = seg]
  ELSE [CloseBlock(cm, q, cm.off) EXCEPT !.seg = seg, !.open = InvalidAddr]

(* Another segment begins to contain the bytes: a block that does not fit  *)
(* into it ends here, and the next begins here if the owner stays.         *)
ChangeSegment(cm, q, seg) ==
  IF seg = cm.seg THEN cm
  ELSE IF IsValid(cm.open) /\ InSegment(cm.open.lin, seg)
  THEN [cm EXCEPT !.seg = seg]
  ELSE [CloseBlock(cm, q, cm.off) EXCEPT !.seg = seg,
          !.open = IF cm.curId = cm.prevId THEN [seg |-> seg, lin |-> cm.off]
                   ELSE InvalidAddr]

(* Mutated form: entrypoints in the middle of a block are not looked for.  *)
ChangeOwnerOnly(cm, q) ==
  IF cm.curId = cm.prevId THEN cm
  ELSE [(IF cm.off = cm.start THEN cm ELSE CloseBlock(cm, q, cm.off)) EXCEPT
          !.open = [seg |-> cm.seg, lin |-> cm.off],
          !.curBlockId = cm.curId, !.prevId = cm.curId]

(* A block ends where the owner changes or an entrypoint is met.           *)
ChangeOwner(cm, q) ==
  IF cm.curId = cm.prevId /\ IsEntrypoint(q, cm.off) = NULL_ROUTINE THEN cm
  ELSE [(IF cm.off = cm.start THEN cm ELSE CloseBlock(cm, q, cm.off)) EXCEPT
          !.open = [seg |-> cm.seg, lin |-> cm.off],
          !.curBlockId = cm.curId, !.prevId = cm.curId]

MapByte(cm, q, table) ==
  LET read == [cm EXCEPT !.curId = q.visited[cm.off]]
      skipped == SkipGap(read, q, table)
      entered == ChangeSegment(skipped, q, FindSegment(table, skipped.off))
      split == ChangeOwner(entered, q)
  IN [split EXCEPT !.off = @ + 1]

(* No byte left, or no segment that contains or follows this one. *)
LastByteMapped(cm, q, table) ==
  \/ cm.off \notin DOMAIN q.visited
  \/ FindSegment(table, cm.off) = NoSegment /\ FindSegmentPast(table, cm.off) = NoSegment

(* The last block ends where the segments do, at a byte whose id was read, *)
(* or else at the end of the map: a gap may have been skipped past it, to  *)
(* a segment beyond. *)
FinishMap(cm, q, end) ==
  LET inside == cm.off \in DOMAIN q.visited
      read == IF inside THEN [cm EXCEPT !.curId = q.visited[cm.off]] ELSE cm
      closed == CloseBlock(read, q, IF inside THEN cm.off ELSE end)
  IN IF closed.status = "failed" THEN closed ELSE [closed EXCEPT !.status = "mapped"]
=============================================================================
