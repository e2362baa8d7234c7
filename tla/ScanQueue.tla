----------------------------- MODULE ScanQueue -----------------------------
(***************************************************************************)
(* The search queue of the analyzer (scanq.cpp): the places of a loaded    *)
(* image still to be scanned, the byte map saying which routine owns each  *)
(* byte, and the routine entrypoints found so far.                         *)
(*                                                                         *)
(* A queue is a value, a record, and an operation returns the queue it     *)
(* leaves behind: exploreCode owns one queue and compareCode two, and one  *)
(* step of either makes several queue calls in a row.                      *)
(***************************************************************************)
EXTENDS Image, Sequences

BAD_ROUTINE  == -1    \* bytes that failed to decode
NULL_ROUTINE == 0     \* bytes not visited yet

RoutineIds == Int
Points == [addr : Addresses, idx : RoutineIds, call : BOOLEAN]
Entrypoints == [addr : Addresses, idx : RoutineIds, near : BOOLEAN]
NullPoint == [addr |-> InvalidAddr, idx |-> NULL_ROUTINE, call |-> FALSE]

ScanQueues == [visited : [Byte -> RoutineIds], queue : Seq(Points),
               entrypoints : Seq(Entrypoints), cur : Points]

-----------------------------------------------------------------------------
(* Queries.                                                                *)

RoutineCount(sq) == Len(sq.entrypoints)

HasPoint(sq, lin, call) ==
  \E i \in DOMAIN sq.queue : sq.queue[i].addr.lin = lin /\ sq.queue[i].call = call

KnownEntrypoint(sq, lin) ==
  \E i \in DOMAIN sq.entrypoints : sq.entrypoints[i].addr.lin = lin

(* The id of the first entrypoint registered at lin, or NULL_ROUTINE. *)
IsEntrypoint(sq, lin) ==
  IF KnownEntrypoint(sq, lin)
  THEN sq.entrypoints[CHOOSE i \in DOMAIN sq.entrypoints :
         /\ sq.entrypoints[i].addr.lin = lin
         /\ \A j \in DOMAIN sq.entrypoints :
              sq.entrypoints[j].addr.lin = lin => i <= j].idx
  ELSE NULL_ROUTINE

-----------------------------------------------------------------------------
(* The byte map.                                                           *)

(* Mutated forms: one byte too many, past the end of the map too; one byte *)
(* too few.                                                                *)
SetRoutineIdxPastEnd(sq, off, len, id) ==
  [sq EXCEPT !.visited =
     [b \in Byte \cup {off + len} |-> IF b \in off..(off + len) THEN id ELSE sq.visited[b]]]

SetRoutineIdxShort(sq, off, len, id) ==
  [sq EXCEPT !.visited =
     [b \in Byte |-> IF b \in off..(off + len - 2) THEN id ELSE sq.visited[b]]]

(* fill of len bytes from off; the caller checks that they fit. *)
SetRoutineIdx(sq, off, len, id) ==
  [sq EXCEPT !.visited =
     [b \in Byte |-> IF b \in off..(off + len - 1) THEN id ELSE sq.visited[b]]]

(* off and the bytes after it up to the first one of another owner. *)
RunFrom(visited, off) ==
  {b \in Byte : b >= off /\ \A c \in off..b : visited[c] = visited[off]}

(* clearRoutineIdx: the whole run of equal ids starting at off is wiped. *)
ClearRoutineIdx(sq, off) ==
  [sq EXCEPT !.visited =
     [b \in Byte |-> IF b \in RunFrom(sq.visited, off)
                     THEN NULL_ROUTINE ELSE sq.visited[b]]]

-----------------------------------------------------------------------------
(* The constructor and the queue operations.                               *)

EmptyQueue ==
  [visited |-> [b \in Byte |-> NULL_ROUTINE], queue |-> << >>,
   entrypoints |-> << >>, cur |-> NullPoint]

SeededQueue(addr, idx) ==
  [EmptyQueue EXCEPT
     !.queue = << [addr |-> addr, idx |-> idx, call |-> TRUE] >>,
     !.entrypoints = << [addr |-> addr, idx |-> idx, near |-> TRUE] >>]

(* Mutated form: the point taken stays in the queue. *)
NextPointKeep(sq) == [sq EXCEPT !.cur = Head(sq.queue)]

NextPoint(sq) ==
  [sq EXCEPT !.cur = Head(sq.queue), !.queue = Tail(sq.queue)]

(* saveCall at a known entrypoint only updates its nearness.  The bound is *)
(* the code's: destId >= routineCount() also turns away the newest         *)
(* entrypoint, whose index equals the count.                               *)
UpdateNear(sq, id, near) ==
  IF id >= RoutineCount(sq) \/ id = 0 THEN sq
  ELSE [sq EXCEPT !.entrypoints[id].near = near]

NewRoutine(sq, dest, near) ==
  LET id == RoutineCount(sq) + 1
  IN [sq EXCEPT
        !.queue = Append(@, [addr |-> dest, idx |-> id, call |-> TRUE]),
        !.entrypoints = Append(@, [addr |-> dest, idx |-> id, near |-> near])]

(* Mutated form: a known entrypoint is not looked for. *)
SaveCallUnchecked(sq, dest, near) ==
  IF HasPoint(sq, dest.lin, TRUE) THEN sq ELSE NewRoutine(sq, dest, near)

SaveCall(sq, dest, near) ==
  IF IsEntrypoint(sq, dest.lin) # NULL_ROUTINE
  THEN UpdateNear(sq, IsEntrypoint(sq, dest.lin), near)
  ELSE IF HasPoint(sq, dest.lin, TRUE) THEN sq
  ELSE NewRoutine(sq, dest, near)

(* saveJump: an unvisited destination not queued yet goes to the front of  *)
(* the queue for the current routine, in the segment of its entrypoint.    *)
SaveJump(sq, dest) ==
  LET home == sq.entrypoints[sq.cur.idx].addr.seg
  IN IF \/ sq.visited[dest.lin] # NULL_ROUTINE
        \/ HasPoint(sq, dest.lin, FALSE)
        \/ ~InSegment(dest.lin, home)
     THEN sq
     ELSE [sq EXCEPT !.queue =
             << [addr |-> [seg |-> home, lin |-> dest.lin],
                 idx |-> sq.cur.idx, call |-> FALSE] >> \o @]

(* Mutated form: the destination of a jump is not followed. *)
SaveBranchCallsOnly(sq, dest, call, near) ==
  IF IsValid(dest) /\ dest.lin \in Byte /\ call THEN SaveCall(sq, dest, near) ELSE sq

(* saveBranch: unknown destinations and those outside the image are        *)
(* dropped.                                                                *)
SaveBranch(sq, dest, call, near) ==
  IF ~IsValid(dest) \/ dest.lin \notin Byte THEN sq
  ELSE IF call THEN SaveCall(sq, dest, near)
  ELSE SaveJump(sq, dest)

-----------------------------------------------------------------------------
(* What makes a queue consistent.                                          *)

(* Entrypoints are numbered in the order of discovery and no two routines  *)
(* start at the same byte: getRoutines and saveCall index the vector with  *)
(* idx - 1, and isEntrypoint relies on the first match being the only one. *)
EntrypointsNumbered(sq) ==
  \A i \in DOMAIN sq.entrypoints :
    /\ sq.entrypoints[i].idx = i
    /\ sq.entrypoints[i].addr.lin \in Byte
    /\ InSegment(sq.entrypoints[i].addr.lin, sq.entrypoints[i].addr.seg)
    /\ \A j \in DOMAIN sq.entrypoints :
         sq.entrypoints[j].addr.lin = sq.entrypoints[i].addr.lin => i = j

(* A queued point belongs to a known routine, lies in the image and in the *)
(* segment of that routine's entrypoint; a queued call is that entrypoint. *)
PointBelongs(sq, p) ==
  /\ p.idx \in DOMAIN sq.entrypoints
  /\ p.addr.lin \in Byte
  /\ p.addr.seg = sq.entrypoints[p.idx].addr.seg
  /\ InSegment(p.addr.lin, p.addr.seg)
  /\ p.call => p.addr.lin = sq.entrypoints[p.idx].addr.lin

(* The queue never holds the same place twice in the same role.            *)
QueueWithoutRepeats(sq) ==
  \A i, j \in DOMAIN sq.queue :
    /\ sq.queue[i].addr.lin = sq.queue[j].addr.lin
    /\ sq.queue[i].call = sq.queue[j].call
    => i = j

(* Every owner in the byte map is a routine the queue knows, so the code   *)
(* map built from it can index its routines by owner.                      *)
OwnersKnown(sq) ==
  \A b \in Byte : sq.visited[b] \in {BAD_ROUTINE, NULL_ROUTINE} \cup DOMAIN sq.entrypoints

Consistent(sq) ==
  /\ EntrypointsNumbered(sq)
  /\ \A i \in DOMAIN sq.queue : PointBelongs(sq, sq.queue[i])
  /\ QueueWithoutRepeats(sq)
  /\ OwnersKnown(sq)
=============================================================================
