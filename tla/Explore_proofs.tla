--------------------------- MODULE Explore_proofs ---------------------------
(***************************************************************************)
(* The exploration of an image and what it leaves behind, for every size   *)
(* of image and of segment, every set of images and every map it is seeded *)
(* with.                                                                   *)
(*                                                                         *)
(* First its safety.  The inductive invariant joins the types, the         *)
(* consistency of the queue and what a scan owns: saveJump may only index  *)
(* the entrypoints because the point being scanned belongs to a routine,   *)
(* which holds because every queued point does, which the numbering of the *)
(* entrypoints keeps.                                                      *)
(*                                                                         *)
(* Then, that it implements the walk of CodeReach, and who owns which      *)
(* bytes while it does.                                                    *)
(*                                                                         *)
(* Then the code map that is built behind it.  While the bytes are walked  *)
(* over, those before the open block are parted into blocks, and those     *)
(* from it on have one owner.  The segments are in order, so that they     *)
(* change at the start of a new one only, where the open block is closed:  *)
(* so a block lies in the segment it was opened in, and closing it can     *)
(* only fail where its routine's segment does not reach.                   *)
(***************************************************************************)
EXTENDS ExploreReach, ExploreMap, QueueTableLemmas

IInv == TypeOK /\ segs \in Tables /\ QueueConsistent /\ RollbackOwnsItsRange

LEMMA QueueOfInvariant ==
  ASSUME TypeOK, QueueConsistent
  PROVE  sq \in Queues
BY DEF TypeOK, QueueConsistent, Queues

-----------------------------------------------------------------------------
(* Segments and addresses.                                                 *)

LEMMA RegisterType ==
  ASSUME NEW table \in Tables, NEW type \in SegTypes, NEW addr \in Int
  PROVE  Register(table, type, addr) \in Tables
BY StoreSegmentType DEF Register

LEMMA TableTypes == \A table \in Tables : table \in Seq(Segments)
BY DEF Tables

LEMMA FarImmediateType ==
  ASSUME NEW i \in Instructions
  PROVE  FarImmediate(i) \in Int
<1>1. i.seg \in Int /\ i.to \in Int
  BY DEF Instructions
<1>2. i.seg \div ParaSize \in Int
  BY <1>1, SizeAssumption
<1>3. (i.seg \div ParaSize) * SegSize \in Int
  BY <1>2, SizeAssumption
<1>4. QED
  BY <1>1, <1>3 DEF FarImmediate

-----------------------------------------------------------------------------
(* One decoded instruction.                                                *)

(* What is known where an instruction is decoded. *)
LEMMA AtInstruction ==
  ASSUME IInv, NEW i \in Decoded
  PROVE  /\ pc = "scan" /\ sq \in Queues /\ csip \in Addresses /\ csip.lin \in Byte
         /\ csip.lin \in Int /\ csip.seg \in Int
         /\ i = code[csip.lin] /\ i \in Instructions /\ WellFormed(i)
         /\ i.len \in Nat \ {0} /\ i.to \in Int /\ i.seg \in Int
         /\ i.type \in SegTypes /\ i.mem \in Int
         /\ PointBelongs(sq, sq.cur) /\ sq.cur.idx \in DOMAIN sq.entrypoints
         /\ sq.cur.addr.lin \in Byte /\ sq.cur.addr.lin \in Int
<1>1. pc = "scan" /\ csip.lin \in Byte /\ i = code[csip.lin]
  BY DEF Decoded
<1>2. csip \in Addresses /\ sq \in Queues /\ code \in Programs
  BY QueueOfInvariant DEF IInv, TypeOK
<1>3. code \in Images
  BY <1>2, ProgramAssumption
<1>4. i \in Instructions /\ WellFormed(i)
  BY <1>1, <1>3 DEF Images
<1>5. /\ i.len \in Nat \ {0} /\ i.to \in Int /\ i.seg \in Int
      /\ i.type \in SegTypes /\ i.mem \in Int
  BY <1>4 DEF Instructions, SegTypes
<1>6. PointBelongs(sq, sq.cur)
  BY <1>1 DEF IInv, RollbackOwnsItsRange
<1>7. sq.cur.idx \in DOMAIN sq.entrypoints /\ sq.cur.addr.lin \in Byte
  BY <1>6 DEF PointBelongs
<1>8. csip.lin \in Int /\ csip.seg \in Int /\ sq.cur.addr.lin \in Int
  BY <1>2, <1>7, SizeAssumption DEF Addresses, Byte
<1>9. QED
  BY <1>1, <1>2, <1>4, <1>5, <1>6, <1>7, <1>8

LEMMA ClaimedType ==
  ASSUME IInv, NEW i \in Decoded
  PROVE  /\ Claimed(i) \in Queues /\ Grows(sq, Claimed(i))
         /\ Claimed(i).cur = sq.cur /\ sq.cur.idx \in DOMAIN Claimed(i).entrypoints
         /\ \A b \in Byte : Claimed(i).visited[b] =
              IF b \in csip.lin..(csip.lin + i.len - 1) THEN sq.cur.idx ELSE sq.visited[b]
<1>1. /\ sq \in Queues /\ csip.lin \in Int /\ i.len \in Int
      /\ sq.cur.idx \in {BAD_ROUTINE} \cup DOMAIN sq.entrypoints
      /\ sq.cur.idx \in DOMAIN sq.entrypoints
  BY AtInstruction
<1>2. /\ Claimed(i) \in Queues /\ Grows(sq, Claimed(i))
      /\ \A b \in Byte : Claimed(i).visited[b] =
           IF b \in csip.lin..(csip.lin + i.len - 1) THEN sq.cur.idx ELSE sq.visited[b]
  BY <1>1, SetRoutineIdxType DEF Claimed
<1>3. QED
  BY <1>1, <1>2 DEF Grows

(* What rolling a search back does to the queue and to the byte map. *)
LEMMA RolledBack ==
  ASSUME IInv, RollBack
  PROVE  /\ sq' \in Queues
         /\ sq'.queue = sq.queue /\ sq'.entrypoints = sq.entrypoints /\ sq'.cur = sq.cur
         /\ \E i \in Decoded :
              /\ i.kind = "bad" \/ (i.kind = "trap" /\ Fits(i))
              /\ \A b \in Byte : sq'.visited[b] =
                   IF b \in sq.cur.addr.lin..csip.lin THEN BAD_ROUTINE
                   ELSE IF i.kind = "trap" /\ b \in csip.lin..(csip.lin + i.len - 1)
                        THEN sq.cur.idx
                   ELSE sq.visited[b]
<1>1. PICK i \in Decoded :
        \/ i.kind = "bad" /\ sq' = MarkedBad(sq)
        \/ i.kind = "trap" /\ Fits(i) /\ sq' = MarkedBad(Claimed(i))
  BY DEF RollBack
<1> DEFINE from == IF i.kind = "bad" THEN sq ELSE Claimed(i)
<1>2. /\ sq \in Queues /\ csip.lin \in Int /\ sq.cur.addr.lin \in Int
      /\ Claimed(i) \in Queues /\ Claimed(i).cur = sq.cur
  BY AtInstruction, ClaimedType
<1>3. Claimed(i).queue = sq.queue /\ Claimed(i).entrypoints = sq.entrypoints
  BY <1>2 DEF Claimed, SetRoutineIdx, Queues, ScanQueues
<1>4. \A b \in Byte : from.visited[b] =
        IF i.kind # "bad" /\ b \in csip.lin..(csip.lin + i.len - 1)
        THEN sq.cur.idx ELSE sq.visited[b]
  BY ClaimedType
<1>5. /\ from \in Queues /\ from.cur = sq.cur /\ from.queue = sq.queue
      /\ from.entrypoints = sq.entrypoints
  BY <1>2, <1>3
<1>6. sq' = MarkedBad(from) /\ i.kind \in {"bad", "trap"}
  BY <1>1
<1> HIDE DEF from
<1> DEFINE off == sq.cur.addr.lin
           len == csip.lin - sq.cur.addr.lin + 1
<1>7. off \in Int /\ len \in Int /\ off + len - 1 = csip.lin
  BY <1>2
<1>8. sq' = SetRoutineIdx(from, off, len, BAD_ROUTINE)
  BY <1>5, <1>6 DEF MarkedBad
<1> HIDE DEF off, len
<1>9. /\ sq' \in Queues /\ Grows(from, sq')
      /\ sq'.queue = from.queue /\ sq'.entrypoints = from.entrypoints
      /\ \A b \in Byte : sq'.visited[b] =
           IF b \in off..(off + len - 1) THEN BAD_ROUTINE ELSE from.visited[b]
  BY <1>5, <1>7, <1>8, SetRoutineIdxType
<1>10. sq'.cur = sq.cur
  BY <1>5, <1>9 DEF Grows
<1>11. \A b \in Byte : sq'.visited[b] =
          IF b \in sq.cur.addr.lin..csip.lin THEN BAD_ROUTINE
          ELSE IF i.kind = "trap" /\ b \in csip.lin..(csip.lin + i.len - 1)
               THEN sq.cur.idx
          ELSE sq.visited[b]
  BY <1>4, <1>6, <1>7, <1>9 DEF off
<1>12. QED
  BY <1>1, <1>5, <1>9, <1>10, <1>11

LEMMA DataReferenceType ==
  ASSUME IInv, NEW i \in Decoded, DataReference(i)
  PROVE  vars' \in SUBSET Int
BY AtInstruction DEF IInv, TypeOK, DataReference

LEMMA NearDestType ==
  ASSUME IInv, NEW i \in Decoded, NEW to \in Int
  PROVE  /\ NearDest(to) \in Addresses
         /\ IsValid(NearDest(to)) => InSegment(NearDest(to).lin, NearDest(to).seg)
<1>1. csip.seg \in Int
  BY AtInstruction
<1>2. InvalidAddr \in Addresses /\ ~IsValid(InvalidAddr)
  BY DEF InvalidAddr, Addresses, IsValid
<1>3. QED
  BY <1>1, <1>2, WrapInSegment DEF NearDest

LEMMA JumpDestType ==
  ASSUME IInv, NEW i \in Decoded
  PROVE  JumpDest(i) \in Addresses
<1>1. i \in Instructions /\ i.to \in Int
  BY AtInstruction
<1>2. InvalidAddr \in Addresses
  BY DEF InvalidAddr, Addresses
<1>3. QED
  BY <1>1, <1>2, NearDestType, LinearAddrType, FarImmediateType DEF JumpDest

LEMMA CallDestsType ==
  ASSUME IInv, NEW i \in Decoded, NEW dest \in CallDests(i)
  PROVE  /\ dest \in Addresses
         /\ IsValid(dest) => InSegment(dest.lin, dest.seg)
<1>1. i \in Instructions /\ WellFormed(i) /\ i.to \in Int /\ i.seg \in Int
  BY AtInstruction
<1>2. CASE i.kind = "calli"
  <2>1. PICK t \in Byte \cup {NoAddr} : dest = NearDest(t)
    BY <1>2 DEF CallDests
  <2>2. t \in Int
    BY SizeAssumption DEF Byte, NoAddr
  <2>3. QED
    BY <2>1, <2>2, NearDestType
<1>3. CASE i.kind = "callfar" /\ i.to # NoAddr
  <2>1. dest = [seg |-> i.seg, lin |-> i.to]
    BY <1>3 DEF CallDests
  <2>2. InSegment(i.to, i.seg)
    BY <1>1, <1>3 DEF WellFormed
  <2>3. QED
    BY <1>1, <2>1, <2>2 DEF Addresses
<1>4. CASE i.kind # "calli" /\ ~(i.kind = "callfar" /\ i.to # NoAddr)
  <2>1. dest = NearDest(i.to)
    BY <1>4 DEF CallDests
  <2>2. QED
    BY <1>1, <2>1, NearDestType
<1>5. QED
  BY <1>2, <1>3, <1>4

(* A branch saved after the instruction's bytes are claimed. *)
LEMMA BranchSaved ==
  ASSUME IInv, NEW i \in Decoded, NEW dest \in Addresses,
         NEW call \in BOOLEAN, NEW near \in BOOLEAN,
         call /\ IsValid(dest) => InSegment(dest.lin, dest.seg)
  PROVE  LET saved == SaveBranch(Claimed(i), dest, call, near)
         IN  saved \in Queues /\ saved.cur.idx \in DOMAIN saved.entrypoints
<1> DEFINE saved == SaveBranch(Claimed(i), dest, call, near)
<1>1. /\ Claimed(i) \in Queues /\ Claimed(i).cur.idx \in DOMAIN Claimed(i).entrypoints
  BY ClaimedType
<1>2. saved \in Queues /\ Grows(Claimed(i), saved)
  BY <1>1, SaveBranchType
<1>3. saved.cur.idx \in DOMAIN saved.entrypoints
  BY <1>1, <1>2 DEF Grows
<1>4. QED
  BY <1>2, <1>3

LEMMA FallThroughType ==
  ASSUME NEW q \in Queues, NEW dest, dest.lin \in Byte,
         q.cur.idx \in DOMAIN q.entrypoints
  PROVE  FallThrough(q, dest) \in Queues
<1> DEFINE r == ClearRoutineIdx(q, dest.lin)
<1>1. r \in Queues /\ Grows(q, r)
  BY ClearRoutineIdxType
<1>2. r.cur.idx \in DOMAIN r.entrypoints
  BY <1>1 DEF Grows
<1> HIDE DEF r
<1>3. SaveJump(r, dest) \in Queues
  BY <1>1, <1>2, SaveJumpType
<1>4. QED
  BY <1>3 DEF FallThrough, r

LEMMA SplitAfterType ==
  ASSUME NEW i, NEW saved \in Queues, saved.cur.idx \in DOMAIN saved.entrypoints,
         SplitAfter(i, saved)
  PROVE  sq' \in Queues /\ pc' \in {"next", "aborted"}
BY FallThroughType DEF SplitAfter

LEMMA ClaimNopsType ==
  ASSUME NEW q \in Queues, NEW i, q.cur.idx \in DOMAIN q.entrypoints
  PROVE  ClaimNops(q, i) \in Queues
<1> DEFINE v == [b \in Byte |-> IF b \in NopsAfter(i) THEN q.cur.idx ELSE q.visited[b]]
<1>1. q \in ScanQueues /\ OwnersKnown(q)
  BY DEF Queues, Consistent
<1>2. v \in [Byte -> RoutineIds]
  BY <1>1 DEF ScanQueues, Points
<1>3. \A b \in Byte : v[b] \in {BAD_ROUTINE, NULL_ROUTINE} \cup DOMAIN q.entrypoints
  BY <1>1 DEF OwnersKnown
<1>4. ClaimNops(q, i) = [q EXCEPT !.visited = v]
  BY DEF ClaimNops
<1> HIDE DEF v
<1>5. QED
  BY <1>2, <1>3, <1>4, OwnersChange

-----------------------------------------------------------------------------
(* A step that leaves no scan in progress. *)
LEMMA NotScanning ==
  ASSUME TypeOK, code' = code, sq' \in Queues, segs' \in Tables,
         vars' \in SUBSET Int, csip' \in Addresses,
         pc' \in {"load", "segments", "seed", "next", "done", "aborted"}
  PROVE  IInv'
BY TableTypes
   DEF IInv, TypeOK, QueueConsistent, RollbackOwnsItsRange, Queues

(* A step to the next instruction in line. *)
LEMMA AdvanceType ==
  ASSUME IInv, NEW i \in Decoded, Fits(i), sq' = Claimed(i), code' = code,
         segs' \in Tables, vars' \in SUBSET Int, Advance(i)
  PROVE  IInv'
<1>1. /\ TypeOK /\ csip \in Addresses /\ csip.lin \in Int /\ csip.seg \in Int
      /\ csip.lin \in Byte /\ i.len \in Nat \ {0} /\ PointBelongs(sq, sq.cur)
      /\ sq.cur.addr.lin \in Byte /\ sq.cur.addr.lin \in Int /\ pc = "scan"
  BY AtInstruction DEF IInv
<1>2. /\ sq' \in Queues /\ Grows(sq, sq') /\ sq'.cur = sq.cur
      /\ \A b \in Byte : sq'.visited[b] =
           IF b \in csip.lin..(csip.lin + i.len - 1) THEN sq.cur.idx ELSE sq.visited[b]
  BY ClaimedType
<1>3. CASE csip' = csip /\ pc' = "aborted"
  BY <1>1, <1>2, <1>3, NotScanning
<1>4. CASE /\ csip.lin + i.len - csip.seg < SegSize
           /\ csip' = [csip EXCEPT !.lin = @ + i.len] /\ pc' = "scan"
  <2>1. /\ csip' \in Addresses /\ csip'.lin = csip.lin + i.len
        /\ csip'.seg = csip.seg
    BY <1>1, <1>4 DEF Addresses
  <2>2. TypeOK'
    BY <1>1, <1>2, <1>4, <2>1, TableTypes DEF TypeOK, Queues
  <2>3. QueueConsistent'
    BY <1>2 DEF QueueConsistent, Queues
  <2>4. PointBelongs(sq', sq'.cur)
    BY <1>1, <1>2, GrowsKeepsPoints
  <2>5. /\ csip.seg = sq.cur.addr.seg /\ csip.lin >= sq.cur.addr.lin
        /\ InSegment(csip.lin, csip.seg)
        /\ \A b \in sq.cur.addr.lin..(csip.lin - 1) : sq.visited[b] = sq.cur.idx
    BY <1>1 DEF IInv, RollbackOwnsItsRange
  <2>6. ASSUME NEW b \in sq.cur.addr.lin..(csip.lin + i.len - 1)
        PROVE  sq'.visited[b] = sq.cur.idx
    <3>1. b \in Byte
      BY <1>1, SizeAssumption DEF Byte, Fits
    <3>2. CASE b < csip.lin
      BY <1>1, <1>2, <2>5, <3>1, <3>2
    <3>3. CASE ~(b < csip.lin)
      BY <1>1, <1>2, <3>1, <3>3
    <3>4. QED
      BY <3>2, <3>3
  <2>7. csip'.lin >= sq'.cur.addr.lin /\ InSegment(csip'.lin, csip'.seg)
    BY <1>1, <1>2, <1>4, <2>1, <2>5, SizeAssumption DEF InSegment
  <2>8. RollbackOwnsItsRange'
    <3>1. \A b \in sq'.cur.addr.lin..(csip'.lin - 1) : sq'.visited[b] = sq'.cur.idx
      <4>1. sq'.cur.addr.lin..(csip'.lin - 1) = sq.cur.addr.lin..(csip.lin + i.len - 1)
        BY <1>1, <1>2, <2>1
      <4>2. QED
        BY <1>2, <2>6, <4>1
    <3>2. csip'.seg = sq'.cur.addr.seg
      BY <1>2, <2>1, <2>5
    <3>3. QED
      BY <2>4, <2>7, <3>1, <3>2 DEF RollbackOwnsItsRange
  <2>9. QED
    BY <1>2, <1>4, <2>2, <2>3, <2>8 DEF IInv
<1>5. QED
  BY <1>3, <1>4 DEF Advance

LEMMA InvariantAtStart == Init => IInv
<1> SUFFICES ASSUME Init PROVE IInv
  OBVIOUS
<1>1. << >> \in Tables
  BY DEF Tables, Distinct
<1>2. Register(<< >>, "CODE", Entry.seg) \in Tables
  BY <1>1, RegisterType, EntryAssumption DEF SegTypes, Addresses
<1>3. segs \in Tables
  BY <1>2, RegisterType, EntryAssumption DEF Init, SegTypes
<1>4. sq \in Queues
  BY EmptyQueueType DEF Init
<1>5. InvalidAddr \in Addresses
  BY DEF InvalidAddr, Addresses
<1>6. QED
  BY <1>3, <1>4, <1>5, TableTypes
     DEF Init, IInv, TypeOK, QueueConsistent, RollbackOwnsItsRange, Queues

LEMMA InvariantKept == IInv /\ [Next]_state => IInv'
<1> SUFFICES ASSUME IInv, [Next]_state PROVE IInv'
  OBVIOUS
<1>1. /\ TypeOK /\ sq \in Queues /\ segs \in Tables /\ csip \in Addresses
      /\ vars \in SUBSET Int
  BY QueueOfInvariant DEF IInv, TypeOK
<1>2. << >> \in Tables
  BY DEF Tables, Distinct
<1>3. Entry \in Addresses /\ Entry.seg \in Int
  BY EntryAssumption DEF Addresses
<1>4. CASE BeginSeeding
  BY <1>1, <1>2, <1>4, EmptyQueueType, NotScanning DEF BeginSeeding
<1>5. ASSUME NEW s \in SeedSegs, SeedSegment(s)
      PROVE  IInv'
  <2>1. s.name \in Names \cup {NoName} /\ s.type \in SegTypes /\ s.addr \in Int
    BY SeedAssumption DEF Segments
  <2>2. segs' \in Tables
    BY <1>1, <1>5, <2>1, StoreSegmentType DEF SeedSegment
  <2>3. QED
    BY <1>1, <1>5, <2>2, NotScanning DEF SeedSegment
<1>6. CASE SeedEntrySegment
  <2>1. segs' \in Tables
    BY <1>1, <1>3, <1>6, RegisterType DEF SeedEntrySegment, SegTypes
  <2>2. QED
    BY <1>1, <1>6, <2>1, NotScanning DEF SeedEntrySegment
<1>7. ASSUME NEW a \in SeedPoints, SeedRoutine(a)
      PROVE  IInv'
  <2>1. sq' \in Queues
    BY <1>1, <1>7, SeedAssumption, SaveCallType DEF SeedRoutine
  <2>2. QED
    BY <1>1, <1>7, <2>1, NotScanning DEF SeedRoutine
<1>8. CASE SeedStart
  <2>1. sq' \in Queues
    BY <1>1, <1>8, EntryAssumption, SaveCallType DEF SeedStart
  <2>2. vars' \in SUBSET Int
    BY <1>8, SeedAssumption DEF SeedStart, IInv, TypeOK
  <2>3. QED
    BY <1>1, <1>8, <2>1, <2>2, NotScanning DEF SeedStart
<1>9. CASE StartAtEntry
  <2>1. sq' \in Queues
    BY <1>9, EntryAssumption, SeededQueueType DEF StartAtEntry
  <2>2. QED
    BY <1>1, <1>9, <2>1, NotScanning DEF StartAtEntry
<1>10. CASE TakePoint
  <2> DEFINE head == Head(sq.queue)
  <2>1. /\ sq' \in Queues /\ sq'.cur = head /\ PointBelongs(sq', head)
        /\ head \in Points
    BY <1>1, <1>10, NextPointType DEF TakePoint
  <2>2. csip' = head.addr /\ csip' \in Addresses /\ csip'.seg \in Int /\ csip'.lin \in Int
    BY <1>10, <2>1 DEF TakePoint, Points, Addresses
  <2>3. segs' \in Tables
    BY <1>1, <1>10, <2>2, RegisterType DEF TakePoint, SegTypes
  <2>4. code' = code /\ vars' = vars /\ pc' = "scan"
    BY <1>10 DEF TakePoint
  <2> HIDE DEF head
  <2>5. TypeOK' /\ QueueConsistent'
    BY <1>1, <2>1, <2>2, <2>3, <2>4, TableTypes DEF TypeOK, QueueConsistent, Queues
  <2>6. RollbackOwnsItsRange'
    BY <2>1, <2>2 DEF RollbackOwnsItsRange, PointBelongs
  <2>7. QED
    BY <2>3, <2>5, <2>6 DEF IInv
<1>11. CASE Finish
  BY <1>1, <1>11, NotScanning DEF Finish
<1>12. CASE LeaveImage
  BY <1>1, <1>12, NotScanning DEF LeaveImage
<1>13. CASE HaltScan
  BY <1>1, <1>13, NotScanning DEF HaltScan
<1>14. CASE RollBack
  <2>1. sq' \in Queues
    BY <1>14, RolledBack
  <2>2. QED
    BY <1>1, <1>14, <2>1, NotScanning DEF RollBack
<1>15. CASE Straddle
  BY <1>1, <1>15, NotScanning DEF Straddle
<1>16. CASE ScanPlain
  <2>1. PICK i \in Decoded : /\ Fits(i) /\ sq' = Claimed(i) /\ DataReference(i)
                             /\ Advance(i) /\ code' = code /\ segs' = segs
    BY <1>16 DEF ScanPlain
  <2>2. QED
    BY <1>1, <2>1, DataReferenceType, AdvanceType
<1>17. CASE ScanMov
  <2>1. PICK i \in Decoded : /\ Fits(i) /\ sq' = Claimed(i) /\ DataReference(i)
                             /\ Advance(i) /\ code' = code
                             /\ segs' \in {segs, Register(segs, i.type, i.seg)}
    BY <1>17 DEF ScanMov
  <2>2. segs' \in Tables
    BY <1>1, <2>1, AtInstruction, RegisterType
  <2>3. QED
    BY <2>1, <2>2, DataReferenceType, AdvanceType
<1>18. CASE ScanReturn
  <2>1. PICK i \in Decoded : sq' = Claimed(i) /\ DataReference(i)
    BY <1>18 DEF ScanReturn
  <2>2. sq' \in Queues /\ vars' \in SUBSET Int
    BY <2>1, ClaimedType, DataReferenceType
  <2>3. QED
    BY <1>1, <1>18, <2>2, NotScanning DEF ScanReturn
<1>19. CASE ScanJump
  <2>1. PICK i \in Decoded :
          /\ sq' = ClaimNops(SaveBranch(Claimed(i), JumpDest(i), FALSE, TRUE), i)
          /\ DataReference(i)
    BY <1>19 DEF ScanJump
  <2>2. sq' \in Queues
    BY <2>1, JumpDestType, BranchSaved, ClaimNopsType
  <2>3. QED
    BY <1>1, <1>19, <2>1, <2>2, DataReferenceType, NotScanning DEF ScanJump
<1>20. CASE FarJumpOverflow
  <2>1. PICK i \in Decoded : sq' = Claimed(i) /\ DataReference(i)
    BY <1>20 DEF FarJumpOverflow
  <2>2. sq' \in Queues /\ vars' \in SUBSET Int
    BY <2>1, ClaimedType, DataReferenceType
  <2>3. QED
    BY <1>1, <1>20, <2>2, NotScanning DEF FarJumpOverflow
<1>21. CASE ScanConditional
  <2>1. PICK i \in Decoded :
          /\ SplitAfter(i, SaveBranch(Claimed(i), NearDest(i.to), FALSE, TRUE))
          /\ DataReference(i)
    BY <1>21 DEF ScanConditional
  <2>2. NearDest(i.to) \in Addresses
    BY AtInstruction, NearDestType
  <2>3. sq' \in Queues /\ pc' \in {"next", "aborted"}
    BY <2>1, <2>2, BranchSaved, SplitAfterType
  <2>4. QED
    BY <1>1, <1>21, <2>1, <2>3, DataReferenceType, NotScanning DEF ScanConditional
<1>22. CASE ScanCall
  <2>1. PICK i \in Decoded :
          /\ \E dest \in CallDests(i) :
               SplitAfter(i, SaveBranch(Claimed(i), dest, TRUE, i.kind # "callfar"))
          /\ DataReference(i)
    BY <1>22 DEF ScanCall
  <2>2. PICK dest \in CallDests(i) :
          /\ SplitAfter(i, SaveBranch(Claimed(i), dest, TRUE, i.kind # "callfar"))
          /\ DataReference(i)
    BY <2>1
  <2>3. sq' \in Queues /\ pc' \in {"next", "aborted"}
    BY <2>2, CallDestsType, BranchSaved, SplitAfterType
  <2>4. QED
    BY <1>1, <1>22, <2>2, <2>3, DataReferenceType, NotScanning DEF ScanCall
<1>23. CASE UNCHANGED state
  BY <1>23 DEF state, IInv, TypeOK, QueueConsistent, RollbackOwnsItsRange
<1>24. QED
  BY <1>4, <1>5, <1>6, <1>7, <1>8, <1>9, <1>10, <1>11, <1>12, <1>13, <1>14, <1>15,
     <1>16, <1>17, <1>18, <1>19, <1>20, <1>21, <1>22, <1>23 DEF Next, Seed, Scan

LEMMA InvariantHolds == Spec => []IInv
BY InvariantAtStart, InvariantKept, PTL DEF Spec

-----------------------------------------------------------------------------
(* The exploration never leaves the types of the analyzer's members: no    *)
(* byte outside the map is written, whatever the image.                    *)
THEOREM TypeCorrect == Spec => []TypeOK
BY InvariantHolds, PTL DEF IInv

(* Queue, entrypoints and byte map agree with each other at every step:    *)
(* indexing entrypoints by a queued point's or a byte's routine is safe.   *)
THEOREM QueueStaysConsistent == Spec => []QueueConsistent
BY InvariantHolds, PTL DEF IInv

(* What a failed decode marks bad was claimed by the scan that failed, and *)
(* the assertion start <= csip holds there.                                *)
THEOREM RollbackOnlyOwn == Spec => []RollbackOwnsItsRange
BY InvariantHolds, PTL DEF IInv

-----------------------------------------------------------------------------
(* Near branches, modulo the reach of a segment.                           *)

LEMMA Quotient ==
  ASSUME NEW x \in Int, NEW n \in Nat \ {0}
  PROVE  x \div n \in Int /\ x = n * (x \div n) + (x % n)
OBVIOUS

LEMMA MultipleModulo ==
  ASSUME NEW k \in Int, NEW n \in Nat \ {0}
  PROVE  (n * k) % n = 0
OBVIOUS

(* Wrapping an address inside its segment moves it by whole segments. *)
LEMMA WrapByWhole ==
  ASSUME NEW seg \in Int, NEW lin \in Int
  PROVE  (Wrap(seg, lin).lin - lin) % SegSize = 0
<1> DEFINE x == lin - seg
           k == -(x \div SegSize)
<1>1. SegSize \in Nat \ {0} /\ x \in Int
  BY SizeAssumption
<1>2. x \div SegSize \in Int /\ x = SegSize * (x \div SegSize) + (x % SegSize)
  BY <1>1, Quotient
<1>3. Wrap(seg, lin).lin = seg + (x % SegSize) /\ x % SegSize \in Int
  BY <1>1, ModuloBounds DEF Wrap
<1>4. k \in Int /\ Wrap(seg, lin).lin - lin = SegSize * k
  BY <1>1, <1>2, <1>3
<1> HIDE DEF k, x
<1>5. QED
  BY <1>1, <1>4, MultipleModulo

LEMMA NearDestTarget ==
  ASSUME NEW seg \in Int, NEW to \in Int, to # NoAddr, Wrap(seg, to).lin \in Byte
  PROVE  Wrap(seg, to).lin \in NearTargets(to)
BY WrapByWhole DEF NearTargets

LEMMA NextTarget ==
  ASSUME NEW to \in Byte
  PROVE  to \in NearTargets(to)
<1>1. to \in Int /\ to # NoAddr
  BY SizeAssumption DEF Byte, NoAddr
<1>2. to - to = SegSize * 0
  BY <1>1, SizeAssumption
<1>3. (to - to) % SegSize = 0
  BY <1>2, SizeAssumption, MultipleModulo
<1>4. QED
  BY <1>1, <1>3 DEF NearTargets

-----------------------------------------------------------------------------
(* What a scan adds to the queue: only points control may go to from the   *)
(* instruction that was decoded.                                           *)

Traced ==
  IF \E i \in Decoded : i.kind # "bad" /\ Fits(i) THEN Successors(code, csip.lin) ELSE {}

LEMMA JumpDestTraced ==
  ASSUME IInv, NEW i \in Decoded, i.kind \in {"jmp", "jmpfar"},
         IsValid(JumpDest(i)), JumpDest(i).lin \in Byte
  PROVE  JumpDest(i).lin \in Successors(code, csip.lin)
<1>1. csip.seg \in Int /\ i = code[csip.lin] /\ i.to \in Int
  BY AtInstruction
<1>2. i.to # NoAddr
  BY DEF JumpDest, IsValid
<1>3. CASE i.kind = "jmp"
  BY <1>1, <1>2, <1>3, NearDestTarget DEF JumpDest, NearDest, Successors
<1>4. CASE i.kind = "jmpfar"
  BY <1>1, <1>2, <1>4 DEF JumpDest, LinearAddr, Successors
<1>5. QED
  BY <1>3, <1>4

LEMMA BranchDestTraced ==
  ASSUME IInv, NEW i \in Decoded, i.kind = "jcc",
         IsValid(NearDest(i.to)), NearDest(i.to).lin \in Byte
  PROVE  NearDest(i.to).lin \in Successors(code, csip.lin)
<1>1. csip.seg \in Int /\ i = code[csip.lin] /\ i.to \in Int
  BY AtInstruction
<1>2. i.to # NoAddr
  BY DEF NearDest, IsValid
<1>3. QED
  BY <1>1, <1>2, NearDestTarget DEF NearDest, Successors

LEMMA CallDestTraced ==
  ASSUME IInv, NEW i \in Decoded, i.kind \in {"call", "calli", "callfar"},
         NEW dest \in CallDests(i), IsValid(dest), dest.lin \in Byte
  PROVE  dest.lin \in Successors(code, csip.lin)
<1>1. csip.seg \in Int /\ i = code[csip.lin] /\ i.to \in Int
  BY AtInstruction
<1>2. CASE i.kind = "calli"
  BY <1>1, <1>2 DEF Successors
<1>3. CASE i.kind = "callfar"
  <2>1. CASE i.to # NoAddr
    BY <1>1, <1>3, <2>1 DEF CallDests, Successors
  <2>2. CASE i.to = NoAddr
    BY <1>3, <2>2 DEF CallDests, NearDest, IsValid
  <2>3. QED
    BY <2>1, <2>2
<1>4. CASE i.kind = "call"
  <2>1. dest = NearDest(i.to)
    BY <1>4 DEF CallDests
  <2>2. i.to # NoAddr
    BY <2>1 DEF NearDest, IsValid
  <2>3. QED
    BY <1>1, <1>4, <2>1, <2>2, NearDestTarget DEF NearDest, Successors
<1>5. QED
  BY <1>2, <1>3, <1>4

LEMMA FallThroughTraced ==
  ASSUME IInv, NEW i \in Decoded, i.kind \in {"jcc", "call", "calli", "callfar"},
         Wrap(csip.seg, csip.lin + i.len).lin \in Byte
  PROVE  Wrap(csip.seg, csip.lin + i.len).lin \in Successors(code, csip.lin)
<1>1. /\ csip.seg \in Int /\ i = code[csip.lin] /\ csip.lin \in Byte
      /\ csip.lin \in Int /\ i.len \in Nat \ {0}
  BY AtInstruction
<1>2. csip.lin + i.len \in Int /\ csip.lin + i.len # NoAddr
  BY <1>1, SizeAssumption DEF NoAddr, Byte
<1>3. Wrap(csip.seg, csip.lin + i.len).lin \in NearTargets(csip.lin + i.len)
  BY <1>1, <1>2, NearDestTarget
<1>4. QED
  BY <1>1, <1>3 DEF Successors

LEMMA FallThroughAdds ==
  ASSUME NEW q \in Queues, NEW dest, dest.lin \in Byte, NEW at, dest.lin \in at,
         q.cur.idx \in DOMAIN q.entrypoints
  PROVE  Grows(q, FallThrough(q, dest)) /\ Adds(q, FallThrough(q, dest), at)
<1> DEFINE r == ClearRoutineIdx(q, dest.lin)
<1>1. r \in Queues /\ Grows(q, r)
  BY ClearRoutineIdxType
<1>2. r.queue = q.queue /\ r.entrypoints = q.entrypoints /\ r.cur.idx \in DOMAIN r.entrypoints
  BY <1>1 DEF ClearRoutineIdx, Queues, ScanQueues, Grows
<1> HIDE DEF r
<1>3. Grows(r, SaveJump(r, dest)) /\ Adds(r, SaveJump(r, dest), {dest.lin})
  BY <1>1, <1>2, SaveJumpType, SaveJumpAdds
<1>4. Adds(q, r, at) /\ Adds(r, SaveJump(r, dest), at)
  BY <1>2, <1>3, AddsNothing, AddsMore
<1>5. Adds(q, SaveJump(r, dest), at) /\ Grows(q, SaveJump(r, dest))
  BY <1>1, <1>3, <1>4, AddsTransitive, GrowsTransitive
<1>6. Adds(q, q, at) /\ Grows(q, q)
  BY AddsNothing DEF Grows
<1>7. QED
  BY <1>5, <1>6 DEF FallThrough, r
LEMMA SavedAdds ==
  ASSUME IInv, NEW i \in Decoded, NEW dest \in Addresses, NEW call \in BOOLEAN,
         NEW near \in BOOLEAN, NEW at,
         call /\ IsValid(dest) => InSegment(dest.lin, dest.seg),
         IsValid(dest) /\ dest.lin \in Byte => dest.lin \in at
  PROVE  LET saved == SaveBranch(Claimed(i), dest, call, near)
         IN  /\ saved \in Queues /\ saved.cur.idx \in DOMAIN saved.entrypoints
             /\ Grows(sq, saved) /\ Adds(sq, saved, at)
<1> DEFINE saved == SaveBranch(Claimed(i), dest, call, near)
<1>1. /\ Claimed(i) \in Queues /\ Grows(sq, Claimed(i))
      /\ Claimed(i).cur.idx \in DOMAIN Claimed(i).entrypoints
  BY ClaimedType
<1>2. Claimed(i).queue = sq.queue /\ Claimed(i).entrypoints = sq.entrypoints
  BY AtInstruction DEF Claimed, SetRoutineIdx, Queues, ScanQueues
<1>3. /\ saved \in Queues /\ Grows(Claimed(i), saved)
      /\ Adds(Claimed(i), saved, at)
  BY <1>1, SaveBranchType, SaveBranchAdds
<1>4. Adds(sq, saved, at) /\ Grows(sq, saved)
  BY <1>1, <1>2, <1>3, AddsNothing, AddsTransitive, GrowsTransitive
<1>5. saved.cur.idx \in DOMAIN saved.entrypoints
  BY <1>1, <1>3 DEF Grows
<1>6. QED
  BY <1>3, <1>4, <1>5

LEMMA SplitAdds ==
  ASSUME IInv, NEW i \in Decoded, i.kind \in {"jcc", "call", "calli", "callfar"},
         NEW saved \in Queues, saved.cur.idx \in DOMAIN saved.entrypoints,
         Grows(sq, saved), Adds(sq, saved, Successors(code, csip.lin)),
         SplitAfter(i, saved)
  PROVE  Grows(sq, sq') /\ Adds(sq, sq', Successors(code, csip.lin))
<1> DEFINE next == Wrap(csip.seg, csip.lin + i.len)
<1>1. CASE next.lin \in Byte
  <2>1. sq' = FallThrough(saved, next)
    BY <1>1 DEF SplitAfter
  <2>2. next.lin \in Successors(code, csip.lin)
    BY <1>1, FallThroughTraced
  <2> HIDE DEF next
  <2>3. Grows(saved, sq') /\ Adds(saved, sq', Successors(code, csip.lin))
    BY <1>1, <2>1, <2>2, FallThroughAdds
  <2>4. QED
    BY <2>3, AddsTransitive, GrowsTransitive
<1>2. CASE next.lin \notin Byte
  BY <1>2 DEF SplitAfter
<1>3. QED
  BY <1>1, <1>2

LEMMA ClaimNopsAdds ==
  ASSUME NEW q \in Queues, NEW i, NEW at
  PROVE  Grows(q, ClaimNops(q, i)) /\ Adds(q, ClaimNops(q, i), at)
<1> DEFINE r == ClaimNops(q, i)
<1>1. r.queue = q.queue /\ r.entrypoints = q.entrypoints /\ r.cur = q.cur
  BY DEF ClaimNops, Queues, ScanQueues
<1> HIDE DEF r
<1>2. QED
  BY <1>1, AddsNothing DEF Grows, r

(* No step of a scan takes anything out of the queue, and what it adds is  *)
(* where control may go from the instruction decoded.                      *)
LEMMA ScanAdds ==
  ASSUME IInv, Scan
  PROVE  Grows(sq, sq') /\ Adds(sq, sq', Traced)
<1>1. sq \in Queues
  BY QueueOfInvariant DEF IInv
<1>2. ASSUME sq'.queue = sq.queue, sq'.entrypoints = sq.entrypoints, sq'.cur = sq.cur
      PROVE  Grows(sq, sq') /\ Adds(sq, sq', Traced)
  BY <1>2, AddsNothing DEF Grows
<1>3. ASSUME NEW i \in Decoded, sq' = Claimed(i)
      PROVE  Grows(sq, sq') /\ Adds(sq, sq', Traced)
  BY <1>1, <1>2, <1>3 DEF Claimed, SetRoutineIdx, Queues, ScanQueues
<1>4. ASSUME NEW i \in Decoded, Fits(i), i.kind # "bad"
      PROVE  Traced = Successors(code, csip.lin)
  BY <1>4 DEF Traced
<1>5. CASE LeaveImage \/ HaltScan \/ Straddle
  BY <1>2, <1>5 DEF LeaveImage, HaltScan, Straddle
<1>6. CASE RollBack
  BY <1>2, <1>6, RolledBack
<1>7. CASE ScanPlain \/ ScanMov \/ ScanReturn \/ FarJumpOverflow
  BY <1>3, <1>7 DEF ScanPlain, ScanMov, ScanReturn, FarJumpOverflow
<1>8. CASE ScanJump
  <2>1. PICK i \in Decoded :
          /\ Fits(i) /\ i.kind \in {"jmp", "jmpfar"}
          /\ sq' = ClaimNops(SaveBranch(Claimed(i), JumpDest(i), FALSE, TRUE), i)
    BY <1>8 DEF ScanJump
  <2> DEFINE saved == SaveBranch(Claimed(i), JumpDest(i), FALSE, TRUE)
  <2>2. /\ saved \in Queues /\ Grows(sq, saved)
        /\ Adds(sq, saved, Successors(code, csip.lin))
    BY <2>1, JumpDestType, JumpDestTraced, SavedAdds
  <2> HIDE DEF saved
  <2>3. Grows(saved, sq') /\ Adds(saved, sq', Successors(code, csip.lin))
    BY <2>1, <2>2, ClaimNopsAdds DEF saved
  <2>4. Grows(sq, sq') /\ Adds(sq, sq', Successors(code, csip.lin))
    BY <2>2, <2>3, AddsTransitive, GrowsTransitive
  <2>5. QED
    BY <1>4, <2>1, <2>4
<1>9. CASE ScanConditional
  <2>1. PICK i \in Decoded :
          /\ Fits(i) /\ i.kind = "jcc"
          /\ SplitAfter(i, SaveBranch(Claimed(i), NearDest(i.to), FALSE, TRUE))
    BY <1>9 DEF ScanConditional
  <2> DEFINE saved == SaveBranch(Claimed(i), NearDest(i.to), FALSE, TRUE)
  <2>2. NearDest(i.to) \in Addresses
    BY AtInstruction, NearDestType
  <2>3. /\ saved \in Queues /\ saved.cur.idx \in DOMAIN saved.entrypoints
        /\ Grows(sq, saved) /\ Adds(sq, saved, Successors(code, csip.lin))
    BY <2>1, <2>2, BranchDestTraced, SavedAdds
  <2> HIDE DEF saved
  <2>4. Grows(sq, sq') /\ Adds(sq, sq', Successors(code, csip.lin))
    BY <2>1, <2>3, SplitAdds DEF saved
  <2>5. QED
    BY <1>4, <2>1, <2>4
<1>10. CASE ScanCall
  <2>1. PICK i \in Decoded :
          /\ Fits(i) /\ i.kind \in {"call", "calli", "callfar"}
          /\ \E dest \in CallDests(i) :
               SplitAfter(i, SaveBranch(Claimed(i), dest, TRUE, i.kind # "callfar"))
    BY <1>10 DEF ScanCall
  <2>2. PICK dest \in CallDests(i) :
          SplitAfter(i, SaveBranch(Claimed(i), dest, TRUE, i.kind # "callfar"))
    BY <2>1
  <2> DEFINE saved == SaveBranch(Claimed(i), dest, TRUE, i.kind # "callfar")
  <2>3. /\ saved \in Queues /\ saved.cur.idx \in DOMAIN saved.entrypoints
        /\ Grows(sq, saved) /\ Adds(sq, saved, Successors(code, csip.lin))
    BY <2>1, CallDestsType, CallDestTraced, SavedAdds
  <2> HIDE DEF saved
  <2>4. Grows(sq, sq') /\ Adds(sq, sq', Successors(code, csip.lin))
    BY <2>1, <2>2, <2>3, SplitAdds DEF saved
  <2>5. QED
    BY <1>4, <2>1, <2>4
<1>11. QED
  BY <1>5, <1>6, <1>7, <1>8, <1>9, <1>10 DEF Scan

-----------------------------------------------------------------------------
(* Every routine's segment ends up in the table.                           *)

(* A routine whose segment is not in the table yet waits in the queue. *)
KnownOrQueued ==
  \A id \in DOMAIN sq.entrypoints :
    LET seg == sq.entrypoints[id].addr.seg
    IN seg \in Byte => HasSegment(segs, seg) \/ QueuesCall(sq, id)

EmptyWhenDone == pc = "done" => sq.queue = << >>

LEMMA KnownOrQueuedStays ==
  ASSUME KnownOrQueued, NEW at, Grows(sq, sq'), Adds(sq, sq', at),
         \A a : HasSegment(segs, a) => HasSegment(segs', a)
  PROVE  KnownOrQueued'
<1> SUFFICES ASSUME NEW id \in DOMAIN sq'.entrypoints, sq'.entrypoints[id].addr.seg \in Byte
             PROVE  HasSegment(segs', sq'.entrypoints[id].addr.seg) \/ QueuesCall(sq', id)
  BY DEF KnownOrQueued
<1>1. CASE id \in DOMAIN sq.entrypoints
  <2>1. sq'.entrypoints[id].addr.seg = sq.entrypoints[id].addr.seg
    BY <1>1 DEF Grows
  <2>2. \/ HasSegment(segs, sq.entrypoints[id].addr.seg)
        \/ QueuesCall(sq, id)
    BY <1>1, <2>1 DEF KnownOrQueued
  <2>3. QED
    BY <2>1, <2>2, AddsKeepsCalls
<1>2. CASE id \notin DOMAIN sq.entrypoints
  BY <1>2 DEF Adds
<1>3. QED
  BY <1>1, <1>2
LEMMA RegisterKeepsAddresses ==
  ASSUME NEW table \in Tables, NEW type \in SegTypes, NEW addr \in Int,
         NEW a, HasSegment(table, a) \/ (a = addr /\ addr \in Byte)
  PROVE  HasSegment(Register(table, type, addr), a)
BY StoreSegmentKeepsAddresses DEF Register

LEMMA ScanKeepsSegments ==
  ASSUME IInv, Scan, NEW a, HasSegment(segs, a)
  PROVE  HasSegment(segs', a)
<1>1. CASE segs' = segs
  BY <1>1
<1>2. CASE ScanMov
  <2>1. PICK i \in Decoded : segs' \in {segs, Register(segs, i.type, i.seg)}
    BY <1>2 DEF ScanMov
  <2>2. segs \in Tables /\ i.type \in SegTypes /\ i.seg \in Int
    BY <2>1, AtInstruction DEF IInv
  <2>3. QED
    BY <2>1, <2>2, RegisterKeepsAddresses
<1>3. QED
  BY <1>1, <1>2 DEF Scan, LeaveImage, HaltScan, RollBack, Straddle, ScanPlain,
       ScanReturn, ScanJump, FarJumpOverflow, ScanConditional, ScanCall

LEMMA SegmentsInvariant ==
  IInv /\ KnownOrQueued /\ EmptyWhenDone /\ [Next]_state => (KnownOrQueued /\ EmptyWhenDone)'
<1> SUFFICES ASSUME IInv, KnownOrQueued, EmptyWhenDone, [Next]_state
             PROVE  KnownOrQueued' /\ EmptyWhenDone'
  OBVIOUS
<1>1. sq \in Queues /\ segs \in Tables
  BY QueueOfInvariant DEF IInv
<1>2. CASE BeginSeeding
  BY <1>2 DEF BeginSeeding, EmptyQueue, KnownOrQueued, EmptyWhenDone
<1>3. ASSUME NEW s \in SeedSegs, SeedSegment(s)
      PROVE  KnownOrQueued' /\ EmptyWhenDone'
  <2>1. s.name \in Names \cup {NoName} /\ s.type \in SegTypes /\ s.addr \in Int
    BY SeedAssumption DEF Segments
  <2>2. \A a : HasSegment(segs, a) => HasSegment(segs', a)
    BY <1>1, <1>3, <2>1, StoreSegmentKeepsAddresses DEF SeedSegment
  <2>3. sq' = sq /\ pc' = "segments"
    BY <1>3 DEF SeedSegment
  <2>4. QED
    BY <2>2, <2>3 DEF KnownOrQueued, EmptyWhenDone
<1>4. CASE SeedEntrySegment
  <2>1. \A a : HasSegment(segs, a) => HasSegment(segs', a)
    BY <1>1, <1>4, EntryAssumption, RegisterKeepsAddresses
       DEF SeedEntrySegment, SegTypes, Addresses
  <2>2. sq' = sq /\ pc' = "seed"
    BY <1>4 DEF SeedEntrySegment
  <2>3. QED
    BY <2>1, <2>2 DEF KnownOrQueued, EmptyWhenDone
<1>5. ASSUME NEW a \in SeedPoints, SeedRoutine(a)
      PROVE  KnownOrQueued' /\ EmptyWhenDone'
  <2>1. sq' = SaveCall(sq, a, FALSE) /\ segs' = segs /\ pc' = "seed"
    BY <1>5 DEF SeedRoutine
  <2>2. Grows(sq, sq') /\ Adds(sq, sq', {a.lin})
    BY <1>1, <2>1, SeedAssumption, SaveCallType, SaveCallAdds
  <2>3. QED
    BY <2>1, <2>2, KnownOrQueuedStays DEF EmptyWhenDone
<1>6. CASE SeedStart
  <2>1. sq' = SaveCall(sq, Entry, TRUE) /\ segs' = segs /\ pc' = "next"
    BY <1>6 DEF SeedStart
  <2>2. Grows(sq, sq') /\ Adds(sq, sq', {Entry.lin})
    BY <1>1, <2>1, EntryAssumption, SaveCallType, SaveCallAdds
  <2>3. QED
    BY <2>1, <2>2, KnownOrQueuedStays DEF EmptyWhenDone
<1>7. CASE StartAtEntry
  <2>1. sq' = SeededQueue(Entry, 1) /\ pc' = "next"
    BY <1>7 DEF StartAtEntry
  <2>2. /\ DOMAIN sq'.entrypoints = {1}
        /\ 1 \in DOMAIN sq'.queue /\ sq'.queue[1].call /\ sq'.queue[1].idx = 1
    BY <2>1 DEF SeededQueue, EmptyQueue
  <2>3. QED
    BY <2>1, <2>2 DEF KnownOrQueued, EmptyWhenDone, QueuesCall
<1>8. CASE TakePoint
  <2> DEFINE head == Head(sq.queue)
  <2>1. /\ sq.queue # << >> /\ sq' = NextPoint(sq) /\ pc' = "scan"
        /\ segs' = Register(segs, "CODE", head.addr.seg)
    BY <1>8 DEF TakePoint
  <2>2. head \in Points /\ PointBelongs(sq', head)
    BY <1>1, <2>1, NextPointType
  <2>3. head.addr.seg \in Int
    BY <2>2 DEF Points, Addresses
  <2>4. /\ \A a : HasSegment(segs, a) => HasSegment(segs', a)
        /\ head.addr.seg \in Byte => HasSegment(segs', head.addr.seg)
    BY <1>1, <2>1, <2>3, RegisterKeepsAddresses DEF SegTypes
  <2>5. /\ sq'.entrypoints = sq.entrypoints
        /\ head = sq.queue[1]
        /\ \A i \in DOMAIN sq.queue : i # 1 => i - 1 \in DOMAIN sq'.queue /\ sq'.queue[i - 1] = sq.queue[i]
    <3>1. sq.queue \in Seq(Points) /\ Len(sq.queue) \in Nat /\ sq \in ScanQueues
      BY <1>1 DEF Queues, ScanQueues
    <3>2. sq'.entrypoints = sq.entrypoints /\ sq'.queue = Tail(sq.queue)
      BY <2>1, <3>1 DEF NextPoint, ScanQueues
    <3>3. QED
      BY <2>1, <3>1, <3>2
  <2> HIDE DEF head
  <2>6. ASSUME NEW id \in DOMAIN sq'.entrypoints, sq'.entrypoints[id].addr.seg \in Byte
        PROVE  HasSegment(segs', sq'.entrypoints[id].addr.seg) \/ QueuesCall(sq', id)
    <3>1. CASE HasSegment(segs, sq.entrypoints[id].addr.seg)
      BY <2>4, <2>5, <3>1
    <3>2. CASE QueuesCall(sq, id)
      <4>1. PICK i \in DOMAIN sq.queue : sq.queue[i].call /\ sq.queue[i].idx = id
        BY <3>2 DEF QueuesCall
      <4>2. CASE i = 1
        <5>1. head.idx = id
          BY <2>5, <4>1, <4>2
        <5>2. head.addr.seg = sq'.entrypoints[id].addr.seg
          BY <2>2, <5>1 DEF PointBelongs
        <5>3. QED
          BY <2>4, <2>6, <5>2
      <4>3. CASE i # 1
        BY <2>5, <4>1, <4>3 DEF QueuesCall
      <4>4. QED
        BY <4>2, <4>3
    <3>3. QED
      BY <2>5, <2>6, <3>1, <3>2 DEF KnownOrQueued
  <2>7. QED
    BY <2>1, <2>6 DEF KnownOrQueued, EmptyWhenDone
<1>9. CASE Finish
  BY <1>9 DEF Finish, KnownOrQueued, EmptyWhenDone
<1>10. CASE Scan
  <2>1. Grows(sq, sq') /\ Adds(sq, sq', Traced)
    BY <1>10, ScanAdds
  <2>2. KnownOrQueued'
    BY <1>10, <2>1, ScanKeepsSegments, KnownOrQueuedStays
  <2>3. pc' # "done"
    BY <1>10 DEF Scan, LeaveImage, HaltScan, RollBack, Straddle, ScanPlain, ScanMov,
         ScanReturn, ScanJump, FarJumpOverflow, ScanConditional, ScanCall, Advance, SplitAfter
  <2>4. QED
    BY <2>2, <2>3 DEF EmptyWhenDone
<1>11. CASE UNCHANGED state
  BY <1>11 DEF state, KnownOrQueued, EmptyWhenDone
<1>12. QED
  BY <1>2, <1>3, <1>4, <1>5, <1>6, <1>7, <1>8, <1>9, <1>10, <1>11 DEF Next, Seed

LEMMA SegmentsHold == Spec => [](KnownOrQueued /\ EmptyWhenDone)
<1>1. Init => KnownOrQueued /\ EmptyWhenDone
  BY DEF Init, EmptyQueue, KnownOrQueued, EmptyWhenDone
<1>2. QED
  BY <1>1, InvariantHolds, SegmentsInvariant, PTL DEF Spec

(* When exploration is over the segment of every routine found is in the   *)
(* table: a routine waits in the queue until its call is taken, taking it  *)
(* registers its segment, and storeSegment never loses an address.         *)
THEOREM RoutineSegmentsRegistered == Spec => []RoutineSegmentsKnown
<1>1. KnownOrQueued /\ EmptyWhenDone => RoutineSegmentsKnown
  BY DEF KnownOrQueued, EmptyWhenDone, RoutineSegmentsKnown, QueuesCall
<1>2. QED
  BY <1>1, SegmentsHold, PTL

-----------------------------------------------------------------------------
(* The history adds nothing to what the exploration does. *)
LEMMA HistoryOnly == [NextH]_history => [Next]_state
BY DEF NextH, SeedH, history, state, Next, Seed

LEMMA HistoryExplores == SpecH => Spec
<1>1. InitH => Init
  BY DEF InitH
<1>2. QED
  BY <1>1, HistoryOnly, PTL DEF SpecH, Spec

LEMMA InvariantOfHistory == SpecH => [](IInv /\ KnownOrQueued /\ EmptyWhenDone)
BY HistoryExplores, InvariantHolds, SegmentsHold, PTL

-----------------------------------------------------------------------------
(* How one step of a scan changes the owners of the bytes.                 *)

(* The bytes a decoded instruction may claim. *)
Claims(i, b) ==
  \/ b \in csip.lin..(csip.lin + i.len - 1)
  \/ i.kind \in {"jmp", "jmpfar"} /\ b \in NopsAfter(i)

LEMMA FallThroughOwners ==
  ASSUME NEW q \in Queues, NEW dest, dest.lin \in Byte, NEW b \in Byte,
         q.cur.idx \in DOMAIN q.entrypoints
  PROVE  FallThrough(q, dest).visited[b] \in {q.visited[b], NULL_ROUTINE}
<1> DEFINE r == ClearRoutineIdx(q, dest.lin)
<1>1. r \in Queues /\ Grows(q, r)
  BY ClearRoutineIdxType
<1>2. r.visited[b] \in {q.visited[b], NULL_ROUTINE} /\ r.cur.idx \in DOMAIN r.entrypoints
  BY <1>1 DEF ClearRoutineIdx, Queues, ScanQueues, Grows
<1> HIDE DEF r
<1>3. SaveJump(r, dest).visited = r.visited
  BY <1>1, <1>2, SaveJumpType
<1>4. QED
  BY <1>2, <1>3 DEF FallThrough, r

LEMMA SplitOwners ==
  ASSUME NEW i, NEW saved \in Queues, saved.cur.idx \in DOMAIN saved.entrypoints,
         SplitAfter(i, saved), NEW b \in Byte
  PROVE  sq'.visited[b] \in {saved.visited[b], NULL_ROUTINE}
BY FallThroughOwners DEF SplitAfter

LEMMA SavedOwners ==
  ASSUME IInv, NEW i \in Decoded, NEW dest \in Addresses, NEW call \in BOOLEAN,
         NEW near \in BOOLEAN,
         call /\ IsValid(dest) => InSegment(dest.lin, dest.seg)
  PROVE  LET saved == SaveBranch(Claimed(i), dest, call, near)
         IN  /\ saved \in Queues /\ saved.cur.idx \in DOMAIN saved.entrypoints
             /\ saved.visited = Claimed(i).visited /\ saved.cur = sq.cur
<1> DEFINE saved == SaveBranch(Claimed(i), dest, call, near)
<1>1. /\ Claimed(i) \in Queues /\ Claimed(i).cur.idx \in DOMAIN Claimed(i).entrypoints
      /\ Claimed(i).cur = sq.cur
  BY ClaimedType
<1>2. saved \in Queues /\ Grows(Claimed(i), saved) /\ saved.visited = Claimed(i).visited
  BY <1>1, SaveBranchType
<1>3. QED
  BY <1>1, <1>2 DEF Grows

(* An instruction decoded and claimed: its bytes are given to the routine  *)
(* scanned, NOPs after a jump too; what else changes is wiped, or bad when *)
(* the search is rolled back.                                              *)
LEMMA DecodedOwners ==
  ASSUME IInv, Scan, NEW i \in Decoded, i.kind # "bad", Fits(i), NEW b \in Byte
  PROVE  \/ sq'.visited[b] = NULL_ROUTINE
         \/ Claims(i, b) /\ sq'.visited[b] = sq.cur.idx
         \/ b \notin csip.lin..(csip.lin + i.len - 1) /\ sq'.visited[b] = sq.visited[b]
         \/ b \in sq.cur.addr.lin..csip.lin /\ sq'.visited[b] = BAD_ROUTINE
<1>1. i = code[csip.lin] /\ pc = "scan" /\ csip.lin \in Byte /\ ~Blocked /\ Decoded = {i}
  BY DEF Decoded
<1>2. Claimed(i).visited[b] =
        IF b \in csip.lin..(csip.lin + i.len - 1) THEN sq.cur.idx ELSE sq.visited[b]
  BY ClaimedType
<1>3. CASE sq' = Claimed(i)
  BY <1>2, <1>3 DEF Claims
<1>4. CASE ScanJump
  <2>1. /\ i.kind \in {"jmp", "jmpfar"}
        /\ sq' = ClaimNops(SaveBranch(Claimed(i), JumpDest(i), FALSE, TRUE), i)
    BY <1>1, <1>4 DEF ScanJump
  <2> DEFINE saved == SaveBranch(Claimed(i), JumpDest(i), FALSE, TRUE)
  <2>2. saved \in Queues /\ saved.visited = Claimed(i).visited /\ saved.cur = sq.cur
    BY JumpDestType, SavedOwners
  <2> HIDE DEF saved
  <2>3. sq'.visited[b] = IF b \in NopsAfter(i) THEN saved.cur.idx ELSE saved.visited[b]
    BY <2>1, <2>2 DEF ClaimNops, saved, Queues, ScanQueues
  <2>4. QED
    BY <1>2, <2>1, <2>2, <2>3 DEF Claims
<1>5. CASE ScanConditional
  <2>1. SplitAfter(i, SaveBranch(Claimed(i), NearDest(i.to), FALSE, TRUE))
    BY <1>1, <1>5 DEF ScanConditional
  <2> DEFINE saved == SaveBranch(Claimed(i), NearDest(i.to), FALSE, TRUE)
  <2>2. NearDest(i.to) \in Addresses
    BY AtInstruction, NearDestType
  <2>3. /\ saved \in Queues /\ saved.cur.idx \in DOMAIN saved.entrypoints
        /\ saved.visited = Claimed(i).visited
    BY <2>2, SavedOwners
  <2> HIDE DEF saved
  <2>4. sq'.visited[b] \in {saved.visited[b], NULL_ROUTINE}
    BY <2>1, <2>3, SplitOwners DEF saved
  <2>5. QED
    BY <1>2, <2>3, <2>4 DEF Claims
<1>6. CASE ScanCall
  <2>1. \E dest \in CallDests(i) :
          SplitAfter(i, SaveBranch(Claimed(i), dest, TRUE, i.kind # "callfar"))
    BY <1>1, <1>6 DEF ScanCall
  <2>2. PICK dest \in CallDests(i) :
          SplitAfter(i, SaveBranch(Claimed(i), dest, TRUE, i.kind # "callfar"))
    BY <2>1
  <2> DEFINE saved == SaveBranch(Claimed(i), dest, TRUE, i.kind # "callfar")
  <2>3. /\ saved \in Queues /\ saved.cur.idx \in DOMAIN saved.entrypoints
        /\ saved.visited = Claimed(i).visited
    BY CallDestsType, SavedOwners
  <2> HIDE DEF saved
  <2>4. sq'.visited[b] \in {saved.visited[b], NULL_ROUTINE}
    BY <2>2, <2>3, SplitOwners DEF saved
  <2>5. QED
    BY <1>2, <2>3, <2>4 DEF Claims
<1>7. CASE RollBack
  BY <1>1, <1>7, RolledBack DEF Claims
<1>8. sq' = Claimed(i) \/ ScanJump \/ ScanConditional \/ ScanCall \/ RollBack
  BY <1>1 DEF Scan, LeaveImage, HaltScan, Straddle, ScanPlain, ScanMov,
       ScanReturn, FarJumpOverflow
<1>9. QED
  BY <1>3, <1>4, <1>5, <1>6, <1>7, <1>8

(* A step that decodes nothing, or fails to, gives no byte to a routine.   *)
LEMMA UndecodedOwners ==
  ASSUME IInv, Scan, ~Decodes, NEW b \in Byte
  PROVE  /\ sq'.visited[b] \in {sq.visited[b], BAD_ROUTINE}
         /\ sq'.queue = sq.queue /\ sq'.entrypoints = sq.entrypoints /\ sq'.cur = sq.cur
<1>1. CASE sq' = sq
  BY <1>1
<1>2. CASE RollBack
  BY <1>2, RolledBack DEF Decodes
<1>3. QED
  BY <1>1, <1>2 DEF Scan, Decodes, LeaveImage, HaltScan, Straddle, ScanPlain, ScanMov,
     ScanReturn, ScanJump, FarJumpOverflow, ScanConditional, ScanCall
-----------------------------------------------------------------------------
(* The refinement of CodeReach.                                            *)

(* What waits to be scanned is where control may go from what was scanned, *)
(* and nothing is scanned before seeding is over.                          *)
QueuedReachable ==
  /\ pc \in {"load", "segments", "seed"} => scanned = {}
  /\ \A i \in DOMAIN sq.queue : sq.queue[i].addr.lin \in Walk!Frontier
  /\ pc = "scan" /\ csip.lin \in Byte => csip.lin \in Walk!Frontier

(* CodeReach speaks of the same image as the exploration. *)
LEMMA WalkOfImage ==
  ASSUME NEW c, NEW b
  PROVE  Walk!Successors(c, b) = Successors(c, b)
BY DEF Walk!Successors, Successors, Walk!NearTargets, NearTargets,
       Walk!FarImmediate, FarImmediate, Walk!Byte, Byte, Walk!NoAddr, NoAddr

LEMMA InFrontier ==
  ASSUME NEW d
  PROVE  d \in Walk!Frontier <=> d \in roots \/ \E b \in scanned : d \in Successors(code, b)
BY WalkOfImage DEF Walk!Frontier

LEMMA InFrontierNext ==
  ASSUME NEW d
  PROVE  d \in Walk!Frontier' <=>
           d \in roots' \/ \E b \in scanned' : d \in Successors(code', b)
BY WalkOfImage DEF Walk!Frontier

LEMMA FrontierGrows ==
  ASSUME code' = code, roots \subseteq roots', scanned \subseteq scanned'
  PROVE  Walk!Frontier \subseteq Walk!Frontier'
BY InFrontier, InFrontierNext

(* A step of a scan leaves only reachable points behind. *)
LEMMA ScanReachable ==
  ASSUME IInv, QueuedReachable, Scan, roots' = roots,
         scanned' = IF Decodes THEN scanned \cup {csip.lin} ELSE scanned
  PROVE  QueuedReachable'
<1>1. pc = "scan" /\ code' = code /\ pc' \in {"scan", "next", "aborted"}
  BY DEF Scan, Decoded, LeaveImage, HaltScan, RollBack, Straddle, ScanPlain, ScanMov,
         ScanReturn, ScanJump, FarJumpOverflow, ScanConditional, ScanCall, Advance, SplitAfter
<1>2. Walk!Frontier \subseteq Walk!Frontier'
  BY <1>1, FrontierGrows
<1>3. Decodes => Successors(code, csip.lin) \subseteq Walk!Frontier'
  BY <1>1, InFrontierNext
<1>4. Traced \subseteq Walk!Frontier'
  BY <1>3 DEF Traced, Decodes
<1>5. Adds(sq, sq', Traced)
  BY ScanAdds
<1>6. \A i \in DOMAIN sq'.queue : sq'.queue[i].addr.lin \in Walk!Frontier'
  BY <1>2, <1>4, <1>5 DEF Adds, QueuedReachable
<1>7. ASSUME pc' = "scan", csip'.lin \in Byte
      PROVE  csip'.lin \in Walk!Frontier'
  <2>1. PICK i \in Decoded : /\ Fits(i) /\ Advance(i)
                             /\ i.kind \in {"op", "nop", "int", "mov"}
    BY <1>7 DEF Scan, LeaveImage, HaltScan, RollBack, Straddle, ScanPlain, ScanMov,
       ScanReturn, ScanJump, FarJumpOverflow, ScanConditional, ScanCall, SplitAfter
  <2>2. i = code[csip.lin] /\ csip \in Addresses
    BY <2>1, AtInstruction
  <2>3. csip'.lin = csip.lin + i.len
    BY <1>7, <2>1, <2>2 DEF Advance, Addresses
  <2>4. csip.lin + i.len \in NearTargets(csip.lin + i.len)
    BY <1>7, <2>3, NextTarget
  <2>5. csip'.lin \in Successors(code, csip.lin)
    BY <2>1, <2>2, <2>3, <2>4 DEF Successors
  <2>6. Decodes
    BY <2>1 DEF Decodes
  <2>7. QED
    BY <1>3, <2>5, <2>6
<1>8. QED
  BY <1>1, <1>6, <1>7 DEF QueuedReachable
(* Seeding and the outer loop, as far as the queue goes. *)
LEMMA TakenPoint ==
  ASSUME IInv, TakePoint
  PROVE  /\ sq'.entrypoints = sq.entrypoints /\ sq'.visited = sq.visited
         /\ sq'.cur = sq.queue[1] /\ csip' = sq.queue[1].addr /\ 1 \in DOMAIN sq.queue
         /\ \A i \in DOMAIN sq'.queue : \E j \in DOMAIN sq.queue : sq'.queue[i] = sq.queue[j]
         /\ \A i \in DOMAIN sq.queue : i # 1 => \E j \in DOMAIN sq'.queue : sq'.queue[j] = sq.queue[i]
         /\ PointBelongs(sq', sq'.cur)
<1>1. sq \in Queues /\ sq.queue # << >> /\ sq' = NextPoint(sq) /\ csip' = Head(sq.queue).addr
  BY QueueOfInvariant DEF TakePoint, IInv
<1>2. sq.queue \in Seq(Points) /\ Len(sq.queue) \in Nat /\ sq \in ScanQueues
  BY <1>1 DEF Queues, ScanQueues
<1>3. /\ sq'.entrypoints = sq.entrypoints /\ sq'.visited = sq.visited
      /\ sq'.queue = Tail(sq.queue) /\ sq'.cur = Head(sq.queue)
  BY <1>1, <1>2 DEF NextPoint, ScanQueues
<1>4. Head(sq.queue) = sq.queue[1] /\ 1 \in DOMAIN sq.queue
  BY <1>1, <1>2
<1>5. \A i \in DOMAIN sq'.queue : i + 1 \in DOMAIN sq.queue /\ sq'.queue[i] = sq.queue[i + 1]
  BY <1>2, <1>3
<1>6. \A i \in DOMAIN sq.queue : i # 1 => i - 1 \in DOMAIN sq'.queue /\ sq'.queue[i - 1] = sq.queue[i]
  BY <1>2, <1>3
<1>7. PointBelongs(sq', sq'.cur)
  BY <1>1, <1>3, NextPointType
<1>8. QED
  BY <1>1, <1>3, <1>4, <1>5, <1>6, <1>7

LEMMA SeededCall ==
  ASSUME IInv, NEW a \in Addresses, NEW near \in BOOLEAN, a.lin \in Byte,
         InSegment(a.lin, a.seg), sq' = SaveCall(sq, a, near)
  PROVE  Grows(sq, sq') /\ Adds(sq, sq', {a.lin}) /\ sq'.visited = sq.visited
BY QueueOfInvariant, SaveCallType, SaveCallAdds DEF IInv

LEMMA SeededEntry ==
  ASSUME sq' = SeededQueue(Entry, 1)
  PROVE  /\ DOMAIN sq'.queue = {1} /\ DOMAIN sq'.entrypoints = {1}
         /\ sq'.queue[1].addr = Entry /\ sq'.queue[1].call /\ sq'.queue[1].idx = 1
         /\ sq'.entrypoints[1].addr = Entry /\ sq'.visited = [b \in Byte |-> NULL_ROUTINE]
BY DEF SeededQueue, EmptyQueue

LEMMA QueuedReachableStep ==
  IInv /\ QueuedReachable /\ [NextH]_history => QueuedReachable'
<1> SUFFICES ASSUME IInv, QueuedReachable, [NextH]_history PROVE QueuedReachable'
  OBVIOUS
<1>1. CASE UNCHANGED history
  BY <1>1, InFrontier, InFrontierNext DEF history, state, QueuedReachable
<1>2. CASE BeginSeeding /\ UNCHANGED <<roots, scanned>>
  BY <1>2 DEF BeginSeeding, EmptyQueue, QueuedReachable
<1>3. CASE /\ SeedEntrySegment \/ \E s \in SeedSegs : SeedSegment(s)
           /\ UNCHANGED <<roots, scanned>>
  <2>1. /\ sq' = sq /\ code' = code /\ pc \in {"segments", "seed"}
        /\ pc' \in {"segments", "seed"}
    BY <1>3 DEF SeedEntrySegment, SeedSegment
  <2>2. QED
    BY <1>3, <2>1, InFrontier, InFrontierNext DEF QueuedReachable
<1>4. ASSUME NEW a \in Addresses, NEW near \in BOOLEAN, a.lin \in Byte,
             InSegment(a.lin, a.seg), sq' = SaveCall(sq, a, near), code' = code,
             pc = "seed", pc' \in {"seed", "next"},
             roots' = roots \cup {a.lin}, scanned' = scanned
      PROVE  QueuedReachable'
  <2>1. Adds(sq, sq', {a.lin})
    BY <1>4, SeededCall
  <2>2. a.lin \in Walk!Frontier' /\ Walk!Frontier \subseteq Walk!Frontier'
    BY <1>4, InFrontierNext, FrontierGrows
  <2>3. \A i \in DOMAIN sq'.queue : sq'.queue[i].addr.lin \in Walk!Frontier'
    BY <2>1, <2>2 DEF Adds, QueuedReachable
  <2>4. QED
    BY <1>4, <2>3 DEF QueuedReachable
<1>5. ASSUME NEW a \in SeedPoints, SeedRoutine(a), roots' = roots \cup {a.lin}, scanned' = scanned
      PROVE  QueuedReachable'
  BY <1>4, <1>5, SeedAssumption DEF SeedRoutine
<1>6. CASE SeedStart /\ roots' = roots \cup {Entry.lin} /\ scanned' = scanned
  BY <1>4, <1>6, EntryAssumption DEF SeedStart
<1>7. CASE StartAtEntry /\ roots' = roots \cup {Entry.lin} /\ scanned' = scanned
  <2>1. /\ DOMAIN sq'.queue = {1} /\ sq'.queue[1].addr = Entry /\ pc' = "next"
    BY <1>7, SeededEntry DEF StartAtEntry
  <2>2. Entry.lin \in Walk!Frontier'
    BY <1>7, InFrontierNext
  <2>3. QED
    BY <2>1, <2>2 DEF QueuedReachable
<1>8. CASE TakePoint /\ UNCHANGED <<roots, scanned>>
  <2>1. /\ code' = code /\ pc' = "scan" /\ csip' = sq.queue[1].addr /\ 1 \in DOMAIN sq.queue
        /\ \A i \in DOMAIN sq'.queue : \E j \in DOMAIN sq.queue : sq'.queue[i] = sq.queue[j]
    BY <1>8, TakenPoint DEF TakePoint
  <2>2. Walk!Frontier \subseteq Walk!Frontier'
    BY <1>8, <2>1, FrontierGrows
  <2>3. QED
    BY <2>1, <2>2 DEF QueuedReachable
<1>9. CASE Finish /\ UNCHANGED <<roots, scanned>>
  <2>1. code' = code /\ sq' = sq /\ pc' = "done"
    BY <1>9 DEF Finish
  <2>2. QED
    BY <1>9, <2>1, FrontierGrows DEF QueuedReachable
<1>10. CASE /\ Scan /\ roots' = roots
            /\ scanned' = IF Decodes THEN scanned \cup {csip.lin} ELSE scanned
  BY <1>10, ScanReachable
<1>11. ~Decodes \/ pc = "scan"
  BY DEF Decodes, Decoded
<1>12. ASSUME TakePoint \/ Finish
       PROVE  pc = "next"
  BY <1>12 DEF TakePoint, Finish
<1>13. QED
  BY <1>1, <1>2, <1>3, <1>5, <1>6, <1>7, <1>8, <1>9, <1>10, <1>11, <1>12
     DEF NextH, SeedH

LEMMA QueuedReachableHolds == SpecH => [](IInv /\ QueuedReachable)
<1>1. InitH => QueuedReachable
  BY DEF InitH, Init, EmptyQueue, QueuedReachable
<1>2. QED
  BY <1>1, InvariantOfHistory, QueuedReachableStep, PTL DEF SpecH
(* A step of the exploration is a step of CodeReach or a stutter: seeding  *)
(* adds roots, decoding an instruction reaches it, all else is unseen.     *)
LEMMA StepReaches ==
  IInv /\ QueuedReachable /\ [NextH]_history => [Walk!ReachNext]_(Walk!reachVars)
<1> SUFFICES ASSUME IInv, QueuedReachable, [NextH]_history
             PROVE  [Walk!ReachNext]_(Walk!reachVars)
  OBVIOUS
<1> USE DEF Walk!reachVars
<1>1. code' = code
  BY HistoryOnly DEF Next, Seed, Scan, BeginSeeding, SeedSegment, SeedEntrySegment,
     SeedRoutine, SeedStart, StartAtEntry, TakePoint, Finish, LeaveImage, HaltScan,
     RollBack, Straddle, ScanPlain, ScanMov, ScanReturn, ScanJump, FarJumpOverflow,
     ScanConditional, ScanCall, state
<1>2. CASE UNCHANGED <<roots, scanned>>
  BY <1>1, <1>2
<1>3. ASSUME NEW b \in Byte, scanned = {}, roots' = roots \cup {b}, scanned' = scanned
      PROVE  Walk!ReachNext
  BY <1>1, <1>3 DEF Walk!ReachNext, Walk!AddRoot, Walk!Byte, Byte
<1>4. ASSUME NEW a \in SeedPoints, SeedRoutine(a), roots' = roots \cup {a.lin}, scanned' = scanned
      PROVE  Walk!ReachNext
  BY <1>3, <1>4, SeedAssumption DEF SeedRoutine, QueuedReachable
<1>5. CASE (SeedStart \/ StartAtEntry) /\ roots' = roots \cup {Entry.lin} /\ scanned' = scanned
  BY <1>3, <1>5, EntryAssumption DEF SeedStart, StartAtEntry, QueuedReachable
<1>6. CASE Decodes /\ roots' = roots /\ scanned' = scanned \cup {csip.lin}
  <2>1. PICK i \in Decoded : i.kind # "bad"
    BY <1>6 DEF Decodes
  <2>2. pc = "scan" /\ csip.lin \in Byte /\ i = code[csip.lin]
    BY <2>1 DEF Decoded
  <2>3. csip.lin \in Walk!Frontier
    BY <2>2 DEF QueuedReachable
  <2>4. Walk!Reach(csip.lin)
    BY <1>1, <1>6, <2>1, <2>2, <2>3 DEF Walk!Reach
  <2>5. QED
    BY <2>2, <2>4 DEF Walk!ReachNext, Walk!Byte, Byte
<1>7. QED
  BY <1>2, <1>4, <1>5, <1>6 DEF NextH, SeedH, history

(* The exploration only looks at code that control can reach from its      *)
(* roots along the branches traced, in some order the walk of CodeReach    *)
(* allows, whatever the queue, the claims and the wipes do.                *)
THEOREM ExplorationReaches == SpecH => ImplementsReach
<1>1. InitH => Walk!ReachInit
  BY ProgramAssumption DEF InitH, Init, Walk!ReachInit, Walk!Images, Images,
     Walk!Instructions, Instructions, Walk!WellFormed, WellFormed, Walk!Byte, Byte,
     Walk!Kinds, Kinds, Walk!NoAddr, NoAddr, Walk!InSegment, InSegment
<1>2. QED
  BY <1>1, QueuedReachableHolds, StepReaches, PTL DEF SpecH, ImplementsReach, Walk!ReachSpec

-----------------------------------------------------------------------------
(* Who owns which bytes.                                                   *)

LEMMA PaddingGrows ==
  ASSUME code' = code, scanned \subseteq scanned', NEW b, PaddingNop(b)
  PROVE  PaddingNop(b)'
BY DEF PaddingNop

(* What a decoded instruction claims is its own bytes or padding after it. *)
LEMMA ClaimsAreCode ==
  ASSUME IInv, NEW i \in Decoded, NEW b \in Byte, Claims(i, b), code' = code,
         csip.lin \in scanned'
  PROVE  PaddingNop(b)' \/ \E s \in scanned' : s = csip.lin /\ b \in Extent(s)'
<1>1. i = code[csip.lin] /\ csip.lin \in Int /\ i.len \in Nat \ {0} /\ b \in Int
  BY AtInstruction, SizeAssumption DEF Byte
<1>2. CASE b \in csip.lin..(csip.lin + i.len - 1)
  BY <1>1, <1>2 DEF Extent
<1>3. CASE i.kind \in {"jmp", "jmpfar"} /\ b \in NopsAfter(i)
  <2>1. /\ b >= csip.lin + i.len
        /\ \A c \in (csip.lin + i.len)..b : code[c].kind = "nop"
    BY <1>3 DEF NopsAfter
  <2>2. code[b].kind = "nop" /\ csip.lin < b
    BY <1>1, <2>1
  <2>3. PaddingNop(b)'
    BY <1>1, <1>3, <2>1, <2>2 DEF PaddingNop
  <2>4. QED
    BY <2>3
<1>4. QED
  BY <1>2, <1>3 DEF Claims
(* The facts about one step that the invariants on owners share. *)
LEMMA ScanHistory ==
  ASSUME IInv, Scan,
         scanned' = IF Decodes THEN scanned \cup {csip.lin} ELSE scanned
  PROVE  /\ code' = code /\ pc = "scan" /\ scanned \subseteq scanned'
         /\ Decodes => csip.lin \in scanned'
BY DEF Scan, Decoded, LeaveImage, HaltScan, RollBack, Straddle, ScanPlain, ScanMov,
   ScanReturn, ScanJump, FarJumpOverflow, ScanConditional, ScanCall

LEMMA OwnedBytesStep ==
  IInv /\ OwnedBytesAreCode /\ [NextH]_history => OwnedBytesAreCode'
<1> SUFFICES ASSUME IInv, OwnedBytesAreCode, [NextH]_history PROVE OwnedBytesAreCode'
  OBVIOUS
<1>1. ASSUME code' = code, scanned' = scanned, sq'.visited = sq.visited
      PROVE  OwnedBytesAreCode'
  BY <1>1, PaddingGrows DEF OwnedBytesAreCode, Extent
<1>2. ASSUME sq'.visited = [b \in Byte |-> NULL_ROUTINE]
      PROVE  OwnedBytesAreCode'
  BY <1>2 DEF OwnedBytesAreCode, NULL_ROUTINE
<1>3. CASE BeginSeeding
  BY <1>2, <1>3 DEF BeginSeeding, EmptyQueue
<1>4. CASE StartAtEntry
  BY <1>2, <1>4, SeededEntry DEF StartAtEntry
<1>5. ASSUME NEW a \in SeedPoints, SeedRoutine(a), scanned' = scanned
      PROVE  OwnedBytesAreCode'
  <2>1. sq'.visited = sq.visited /\ code' = code
    BY <1>5, SeedAssumption, SeededCall DEF SeedRoutine
  <2>2. QED
    BY <1>1, <1>5, <2>1
<1>6. CASE SeedStart /\ scanned' = scanned
  <2>1. sq'.visited = sq.visited /\ code' = code
    BY <1>6, EntryAssumption, SeededCall DEF SeedStart
  <2>2. QED
    BY <1>1, <1>6, <2>1
<1>7. CASE TakePoint /\ scanned' = scanned
  <2>1. sq'.visited = sq.visited /\ code' = code
    BY <1>7, TakenPoint DEF TakePoint
  <2>2. QED
    BY <1>1, <1>7, <2>1
<1>8. CASE /\ \/ SeedEntrySegment \/ Finish \/ UNCHANGED history
              \/ \E s \in SeedSegs : SeedSegment(s)
           /\ scanned' = scanned
  BY <1>1, <1>8 DEF SeedEntrySegment, SeedSegment, Finish, history, state
<1>9. CASE Scan /\ scanned' = IF Decodes THEN scanned \cup {csip.lin} ELSE scanned
  <2>1. /\ code' = code /\ scanned \subseteq scanned'
        /\ Decodes => csip.lin \in scanned'
    BY <1>9, ScanHistory
  <2> SUFFICES ASSUME NEW b \in Byte, sq'.visited[b] > NULL_ROUTINE
               PROVE  PaddingNop(b)' \/ \E s \in scanned' : b \in Extent(s)'
    BY DEF OwnedBytesAreCode
  <2>2. CASE sq'.visited[b] = sq.visited[b]
    <3>1. PaddingNop(b) \/ \E s \in scanned : b \in Extent(s)
      BY <2>2 DEF OwnedBytesAreCode
    <3>2. QED
      BY <2>1, <3>1, PaddingGrows DEF Extent
  <2>3. ASSUME NEW i \in Decoded, i.kind # "bad", Fits(i), Claims(i, b)
        PROVE  PaddingNop(b)' \/ \E s \in scanned' : b \in Extent(s)'
    <3>1. csip.lin \in scanned'
      BY <2>1, <2>3 DEF Decodes
    <3>2. QED
      BY <2>1, <2>3, <3>1, ClaimsAreCode
  <2>4. CASE Decodes
    <3>1. PICK i \in Decoded : i.kind # "bad" /\ Fits(i)
      BY <2>4 DEF Decodes
    <3>2. \/ sq'.visited[b] = NULL_ROUTINE
          \/ Claims(i, b)
          \/ sq'.visited[b] = sq.visited[b]
          \/ sq'.visited[b] = BAD_ROUTINE
      BY <1>9, <3>1, DecodedOwners
    <3>3. QED
      BY <2>2, <2>3, <3>1, <3>2 DEF NULL_ROUTINE, BAD_ROUTINE
  <2>5. CASE ~Decodes
    <3>1. sq'.visited[b] \in {sq.visited[b], BAD_ROUTINE}
      BY <1>9, <2>5, UndecodedOwners
    <3>2. QED
      BY <2>2, <3>1 DEF BAD_ROUTINE, NULL_ROUTINE
  <2>6. QED
    BY <2>4, <2>5
<1>10. ~Decodes \/ pc = "scan"
  BY DEF Decodes, Decoded
<1>11. ASSUME TakePoint \/ Finish
       PROVE  pc = "next"
  BY <1>11 DEF TakePoint, Finish
<1>12. QED
  BY <1>3, <1>4, <1>5, <1>6, <1>7, <1>8, <1>9, <1>10, <1>11 DEF NextH, SeedH, history

(* No routine owns a byte that was not reached: a byte belongs to a        *)
(* routine as part of an instruction that was scanned, or as padding NOPs  *)
(* after a scanned jump.                                                   *)
THEOREM OwnedBytesReached == SpecH => []OwnedBytesAreCode
<1>1. InitH => OwnedBytesAreCode
  BY DEF InitH, Init, EmptyQueue, OwnedBytesAreCode, NULL_ROUTINE
<1>2. QED
  BY <1>1, InvariantOfHistory, OwnedBytesStep, PTL DEF SpecH
-----------------------------------------------------------------------------
(* Entrypoints.                                                            *)

EpOf(id) == sq.entrypoints[id].addr.lin

(* A routine has its first byte, or nobody has, or an instruction that     *)
(* overlaps it or the claiming of padding took it.                         *)
Kept(id) ==
  \/ sq.visited[EpOf(id)] \in {id, NULL_ROUTINE, BAD_ROUTINE}
  \/ PaddingNop(EpOf(id))
  \/ \E s \in scanned \ {EpOf(id)} : EpOf(id) \in Extent(s)

(* The scan in progress is that of the call, and still at its start. *)
CallAtHand(id) ==
  pc = "scan" /\ sq.cur.call /\ sq.cur.idx = id /\ csip.lin = EpOf(id)

(* A routine that does not have its first byte yet is still to be called. *)
KeptOrCalled ==
  pc # "aborted" =>
    \A id \in DOMAIN sq.entrypoints : Kept(id) \/ QueuesCall(sq, id) \/ CallAtHand(id)

LEMMA EntrypointInImage ==
  ASSUME IInv, NEW id \in DOMAIN sq.entrypoints
  PROVE  /\ EpOf(id) \in Byte /\ id # NULL_ROUTINE
         /\ IsEntrypoint(sq, EpOf(id)) = id
<1>1. sq \in Queues /\ EntrypointsNumbered(sq) /\ sq.entrypoints \in Seq(Entrypoints)
  BY QueueOfInvariant DEF IInv, Queues, Consistent, ScanQueues
<1>2. KnownEntrypoint(sq, EpOf(id))
  BY DEF KnownEntrypoint, EpOf
<1>3. /\ IsEntrypoint(sq, EpOf(id)) \in DOMAIN sq.entrypoints
      /\ sq.entrypoints[IsEntrypoint(sq, EpOf(id))].addr.lin = EpOf(id)
  BY <1>1, <1>2, IsEntrypointFinds
<1>4. QED
  BY <1>1, <1>3 DEF EntrypointsNumbered, EpOf, NULL_ROUTINE

(* Steps that give no byte to anybody. *)
LEMMA KeptStays ==
  ASSUME NEW id, Kept(id), code' = code, scanned \subseteq scanned',
         EpOf(id)' = EpOf(id),
         sq'.visited[EpOf(id)] \in {sq.visited[EpOf(id)], NULL_ROUTINE, BAD_ROUTINE, id}
  PROVE  Kept(id)'
<1>1. CASE sq.visited[EpOf(id)] \in {id, NULL_ROUTINE, BAD_ROUTINE}
  BY <1>1 DEF Kept
<1>2. CASE PaddingNop(EpOf(id))
  <2>1. PaddingNop(EpOf(id))'
    BY <1>2 DEF PaddingNop
  <2>2. QED
    BY <2>1 DEF Kept
<1>3. CASE \E s \in scanned \ {EpOf(id)} : EpOf(id) \in Extent(s)
  BY <1>3 DEF Kept, Extent
<1>4. QED
  BY <1>1, <1>2, <1>3 DEF Kept

LEMMA NewRoutinesQueued ==
  ASSUME KeptOrCalled, pc # "aborted", pc # "scan", NEW at,
         Grows(sq, sq'), Adds(sq, sq', at), sq'.visited = sq.visited,
         code' = code, scanned' = scanned
  PROVE  KeptOrCalled'
<1> SUFFICES ASSUME NEW id \in DOMAIN sq'.entrypoints
             PROVE  Kept(id)' \/ QueuesCall(sq', id)
  BY DEF KeptOrCalled
<1>1. CASE id \in DOMAIN sq.entrypoints
  <2>1. EpOf(id)' = EpOf(id)
    BY <1>1 DEF Grows, EpOf
  <2>2. Kept(id) \/ QueuesCall(sq, id)
    BY <1>1 DEF KeptOrCalled, CallAtHand
  <2>3. QED
    BY <2>1, <2>2, KeptStays, AddsKeepsCalls
<1>2. CASE id \notin DOMAIN sq.entrypoints
  BY <1>2 DEF Adds
<1>3. QED
  BY <1>1, <1>2

LEMMA ScanKeeps ==
  ASSUME IInv, KeptOrCalled, Scan, pc' # "aborted",
         scanned' = IF Decodes THEN scanned \cup {csip.lin} ELSE scanned,
         NEW id \in DOMAIN sq.entrypoints, ~QueuesCall(sq, id)
  PROVE  Kept(id)'
<1>1. /\ code' = code /\ pc = "scan" /\ scanned \subseteq scanned'
      /\ Decodes => csip.lin \in scanned'
  BY ScanHistory
<1>2. /\ EpOf(id) \in Byte /\ id # NULL_ROUTINE /\ IsEntrypoint(sq, EpOf(id)) = id
  BY EntrypointInImage
<1>3. EpOf(id)' = EpOf(id)
  BY ScanAdds DEF Grows, EpOf
<1>4. Kept(id) \/ CallAtHand(id)
  BY <1>1 DEF KeptOrCalled
<1>5. CASE Decodes
  <2>1. PICK i \in Decoded : i.kind # "bad" /\ Fits(i)
    BY <1>5 DEF Decodes
  <2>2. /\ ~Blocked /\ csip.lin \in Int /\ i.len \in Nat \ {0}
    BY <2>1, AtInstruction DEF Decoded
  <2>3. \/ sq'.visited[EpOf(id)] = NULL_ROUTINE
        \/ Claims(i, EpOf(id)) /\ sq'.visited[EpOf(id)] = sq.cur.idx
        \/ /\ EpOf(id) \notin csip.lin..(csip.lin + i.len - 1)
           /\ sq'.visited[EpOf(id)] = sq.visited[EpOf(id)]
        \/ sq'.visited[EpOf(id)] = BAD_ROUTINE
    BY <1>2, <2>1, DecodedOwners
  <2>4. CASE sq'.visited[EpOf(id)] \in {NULL_ROUTINE, BAD_ROUTINE, id}
    BY <1>3, <2>4 DEF Kept
  <2>5. CASE /\ EpOf(id) \notin csip.lin..(csip.lin + i.len - 1)
             /\ sq'.visited[EpOf(id)] = sq.visited[EpOf(id)]
    <3>1. csip.lin # EpOf(id)
      BY <2>2, <2>5
    <3>2. Kept(id)
      BY <1>4, <3>1 DEF CallAtHand
    <3>3. QED
      BY <1>1, <1>3, <2>5, <3>2, KeptStays
  <2>6. CASE Claims(i, EpOf(id)) /\ sq.cur.idx # id
    <3>1. csip.lin # EpOf(id)
      BY <1>2, <2>2, <2>6 DEF Blocked
    <3>2. csip.lin \in scanned'
      BY <1>1, <1>5
    <3>3. \A b \in Byte : Claims(i, b) =>
            PaddingNop(b)' \/ \E s \in scanned' : s = csip.lin /\ b \in Extent(s)'
      BY <1>1, <2>1, <3>2, ClaimsAreCode
    <3>4. PICK b \in Byte : b = EpOf(id)
      BY <1>2
    <3>5. b = EpOf(id)' /\ (PaddingNop(b)' \/ \E s \in scanned' : s # b /\ b \in Extent(s)')
      BY <1>3, <2>6, <3>1, <3>3, <3>4
    <3>6. QED
      BY <3>5 DEF Kept, PaddingNop, Extent
  <2>7. QED
    BY <2>3, <2>4, <2>5, <2>6
<1>6. CASE ~Decodes
  <2>1. sq'.visited[EpOf(id)] \in {sq.visited[EpOf(id)], BAD_ROUTINE}
    BY <1>2, <1>6, UndecodedOwners
  <2>2. CASE Kept(id)
    BY <1>1, <1>3, <2>1, <2>2, KeptStays
  <2>3. CASE CallAtHand(id)
    <3>1. csip.lin = EpOf(id) /\ csip.lin \in Byte /\ sq.cur.call /\ sq.cur.idx = id
      BY <1>2, <2>3 DEF CallAtHand
    <3>2. HaltScan \/ RollBack
      BY <1>6, <3>1 DEF Decodes, Scan, LeaveImage, Straddle, ScanPlain, ScanMov,
         ScanReturn, ScanJump, FarJumpOverflow, ScanConditional, ScanCall
    <3>3. CASE HaltScan
      <4>1. sq.visited[EpOf(id)] = BAD_ROUTINE /\ sq' = sq
        BY <1>2, <3>1, <3>3 DEF HaltScan, Blocked
      <4>2. QED
        BY <1>3, <4>1 DEF Kept
    <3>4. CASE RollBack
      <4>1. PICK i \in Decoded : TRUE
        BY <3>4 DEF RollBack
      <4>2. /\ sq.cur.addr.lin \in Int /\ csip.lin \in Int
            /\ csip.lin >= sq.cur.addr.lin
        BY <4>1, AtInstruction DEF IInv, RollbackOwnsItsRange
      <4>3. sq'.visited[csip.lin] = BAD_ROUTINE
        BY <3>1, <3>4, <4>2, RolledBack
      <4>4. QED
        BY <1>3, <3>1, <4>3 DEF Kept
    <3>5. QED
      BY <3>2, <3>3, <3>4
  <2>4. QED
    BY <1>4, <2>2, <2>3
<1>7. QED
  BY <1>5, <1>6
LEMMA KeptOrCalledStep ==
  IInv /\ KeptOrCalled /\ [NextH]_history => KeptOrCalled'
<1> SUFFICES ASSUME IInv, KeptOrCalled, [NextH]_history PROVE KeptOrCalled'
  OBVIOUS
<1>1. CASE BeginSeeding
  BY <1>1 DEF BeginSeeding, EmptyQueue, KeptOrCalled
<1>2. CASE StartAtEntry
  <2>1. /\ DOMAIN sq'.queue = {1} /\ DOMAIN sq'.entrypoints = {1}
        /\ sq'.queue[1].call /\ sq'.queue[1].idx = 1
    BY <1>2, SeededEntry DEF StartAtEntry
  <2>2. QED
    BY <2>1 DEF KeptOrCalled, QueuesCall
<1>3. ASSUME NEW a \in SeedPoints, SeedRoutine(a), scanned' = scanned
      PROVE  KeptOrCalled'
  <2>1. /\ Grows(sq, sq') /\ Adds(sq, sq', {a.lin}) /\ sq'.visited = sq.visited
        /\ code' = code /\ pc = "seed"
    BY <1>3, SeedAssumption, SeededCall DEF SeedRoutine
  <2>2. QED
    BY <1>3, <2>1, NewRoutinesQueued
<1>4. CASE SeedStart /\ scanned' = scanned
  <2>1. /\ Grows(sq, sq') /\ Adds(sq, sq', {Entry.lin}) /\ sq'.visited = sq.visited
        /\ code' = code /\ pc = "seed"
    BY <1>4, EntryAssumption, SeededCall DEF SeedStart
  <2>2. QED
    BY <1>4, <2>1, NewRoutinesQueued
<1>5. CASE TakePoint /\ scanned' = scanned
  <2>1. /\ sq'.entrypoints = sq.entrypoints /\ sq'.visited = sq.visited
        /\ sq'.cur = sq.queue[1] /\ csip' = sq.queue[1].addr
        /\ \A i \in DOMAIN sq.queue : i # 1 => \E j \in DOMAIN sq'.queue : sq'.queue[j] = sq.queue[i]
        /\ PointBelongs(sq', sq'.cur)
        /\ pc = "next" /\ pc' = "scan" /\ code' = code
    BY <1>5, TakenPoint DEF TakePoint
  <2> SUFFICES ASSUME NEW id \in DOMAIN sq'.entrypoints
               PROVE  Kept(id)' \/ QueuesCall(sq', id) \/ CallAtHand(id)'
    BY DEF KeptOrCalled
  <2>2. EpOf(id)' = EpOf(id)
    BY <2>1 DEF EpOf
  <2>3. Kept(id) \/ QueuesCall(sq, id)
    BY <2>1 DEF KeptOrCalled, CallAtHand
  <2>4. CASE Kept(id)
    BY <1>5, <2>1, <2>2, <2>4, KeptStays
  <2>5. CASE QueuesCall(sq, id)
    <3>1. PICK i \in DOMAIN sq.queue : sq.queue[i].call /\ sq.queue[i].idx = id
      BY <2>5 DEF QueuesCall
    <3>2. CASE i = 1
      <4>1. sq'.cur.call /\ sq'.cur.idx = id /\ csip' = sq'.cur.addr
        BY <2>1, <3>1, <3>2
      <4>2. sq'.cur.addr.lin = sq'.entrypoints[id].addr.lin
        BY <2>1, <4>1 DEF PointBelongs
      <4>3. csip'.lin = EpOf(id)'
        BY <4>1, <4>2 DEF EpOf
      <4>4. QED
        BY <2>1, <4>1, <4>3 DEF CallAtHand
    <3>3. CASE i # 1
      BY <2>1, <3>1, <3>3 DEF QueuesCall
    <3>4. QED
      BY <3>2, <3>3
  <2>6. QED
    BY <2>3, <2>4, <2>5
<1>6. CASE /\ SeedEntrySegment \/ Finish \/ \E s \in SeedSegs : SeedSegment(s)
           /\ scanned' = scanned
  <2>1. /\ sq' = sq /\ code' = code /\ pc \notin {"scan", "aborted"}
    BY <1>6 DEF SeedEntrySegment, Finish, SeedSegment
  <2>2. Grows(sq, sq') /\ Adds(sq, sq', {})
    BY <2>1, AddsNothing DEF Grows
  <2>3. QED
    BY <1>6, <2>1, <2>2, NewRoutinesQueued
<1>7. CASE /\ Scan
           /\ scanned' = IF Decodes THEN scanned \cup {csip.lin} ELSE scanned
  <2> SUFFICES ASSUME pc' # "aborted", NEW id \in DOMAIN sq'.entrypoints
               PROVE  Kept(id)' \/ QueuesCall(sq', id)
    BY DEF KeptOrCalled
  <2>1. Grows(sq, sq') /\ Adds(sq, sq', Traced)
    BY <1>7, ScanAdds
  <2>2. CASE QueuesCall(sq, id)
    BY <2>1, <2>2, AddsKeepsCalls
  <2>3. CASE id \notin DOMAIN sq.entrypoints
    BY <2>1, <2>3 DEF Adds
  <2>4. CASE id \in DOMAIN sq.entrypoints /\ ~QueuesCall(sq, id)
    BY <1>7, <2>4, ScanKeeps
  <2>5. QED
    BY <2>2, <2>3, <2>4
<1>8. CASE UNCHANGED history
  BY <1>8 DEF history, state, KeptOrCalled, Kept, CallAtHand, EpOf, PaddingNop, Extent
<1>9. ~Decodes \/ pc = "scan"
  BY DEF Decodes, Decoded
<1>10. ASSUME TakePoint \/ Finish
       PROVE  pc = "next"
  BY <1>10 DEF TakePoint, Finish
<1>11. QED
  BY <1>1, <1>2, <1>3, <1>4, <1>5, <1>6, <1>7, <1>8, <1>9, <1>10 DEF NextH, SeedH

LEMMA KeptOrCalledHolds == SpecH => []KeptOrCalled
<1>1. InitH => KeptOrCalled
  BY DEF InitH, Init, EmptyQueue, KeptOrCalled
<1>2. QED
  BY <1>1, InvariantOfHistory, KeptOrCalledStep, PTL DEF SpecH

(* No routine ends up with the entrypoint of another one, but by an        *)
(* instruction that overlaps it or by the claiming of padding: the         *)
(* protection of unvisited entrypoints and the precedence of calls are     *)
(* enough, in whatever order points are taken and bytes wiped.             *)
THEOREM EntrypointsStayKept == SpecH => []EntrypointsKept
<1>1. KeptOrCalled /\ EmptyWhenDone => EntrypointsKept
  BY DEF KeptOrCalled, EmptyWhenDone, QueuesCall, CallAtHand, Kept, EpOf, EntrypointsKept
<1>2. QED
  BY <1>1, KeptOrCalledHolds, InvariantOfHistory, PTL
-----------------------------------------------------------------------------
(* Completeness, for a program whose whole control flow the walk can see:  *)
(* one segment with base 0, no interrupt that may end it, no call whose    *)
(* destination is not in the instruction.                                  *)

OneSegment ==
  /\ CodeSize <= SegSize
  /\ Entry.seg = 0 /\ \A a \in SeedPoints : a.seg = 0
  /\ \A p \in Programs : \A b \in Byte :
       /\ p[b].kind \notin {"int", "calli"}
       /\ p[b].kind = "callfar" => p[b].seg = 0

LEMMA SmallMultiple ==
  ASSUME NEW m \in Int, NEW n \in Nat \ {0}, n * m < n, -n < n * m
  PROVE  m = 0
<1>1. m >= 1 => n * m >= n
  OBVIOUS
<1>2. m <= -1 => n * m <= -n
  OBVIOUS
<1>3. QED
  BY <1>1, <1>2

LEMMA SameResidue ==
  ASSUME NEW d \in Int, NEW t \in Int, NEW n \in Nat \ {0}, 0 <= d, d < n,
         (d - t) % n = 0
  PROVE  t % n = d
<1> DEFINE k == (d - t) \div n
           l == t \div n
           r == t % n
<1>1. d - t \in Int /\ k \in Int /\ d - t = n * k + ((d - t) % n)
  BY Quotient
<1>2. l \in Int /\ t = n * l + r /\ r \in Int /\ 0 <= r /\ r < n
  BY Quotient, ModuloBounds
<1> HIDE DEF k, l, r
<1>3. d - t = n * k
  BY <1>1
<1>4. k + l \in Int /\ n * (k + l) = n * k + n * l
  BY <1>1, <1>2
<1>5. d - r = n * (k + l)
  BY <1>2, <1>3, <1>4
<1>6. k + l = 0
  BY <1>2, <1>4, <1>5, SmallMultiple
<1>7. n * (k + l) = 0
  BY <1>6
<1>8. d = r
  BY <1>2, <1>5, <1>7
<1>9. QED
  BY <1>8 DEF r

(* In a program of one segment a near branch has one target. *)
LEMMA OneTarget ==
  ASSUME OneSegment, NEW t \in Int, NEW d \in NearTargets(t)
  PROVE  Wrap(0, t).lin = d
<1>1. /\ d \in Int /\ 0 <= d /\ d < SegSize /\ (d - t) % SegSize = 0
      /\ SegSize \in Nat \ {0}
  BY SizeAssumption DEF NearTargets, Byte, OneSegment
<1>2. t % SegSize = d
  BY <1>1, SameResidue
<1>3. t - 0 = t
  OBVIOUS
<1>4. QED
  BY <1>1, <1>2, <1>3 DEF Wrap

-----------------------------------------------------------------------------
(* The queue has a point at every destination saved, unless there was a    *)
(* reason not to.                                                          *)

PlacedAt(q, lin) == \E j \in DOMAIN q.queue : q.queue[j].addr.lin = lin

LEMMA AddsKeepsPlaces ==
  ASSUME NEW q, NEW r, NEW at, Adds(q, r, at), NEW lin, PlacedAt(q, lin)
  PROVE  PlacedAt(r, lin)
BY DEF Adds, PlacedAt

LEMMA SaveJumpPlaces ==
  ASSUME NEW q \in Queues, NEW dest,
         InSegment(dest.lin, q.entrypoints[q.cur.idx].addr.seg)
  PROVE  q.visited[dest.lin] # NULL_ROUTINE \/ PlacedAt(SaveJump(q, dest), dest.lin)
<1> DEFINE point == [addr |-> [seg |-> q.entrypoints[q.cur.idx].addr.seg, lin |-> dest.lin],
                     idx |-> q.cur.idx, call |-> FALSE]
           r == SaveJump(q, dest)
<1>1. /\ q \in ScanQueues /\ q.queue \in Seq(Points)
      /\ Len(q.queue) \in Nat /\ DOMAIN q.queue = 1..Len(q.queue)
  BY DEF Queues, ScanQueues
<1>2. CASE q.visited[dest.lin] # NULL_ROUTINE
  BY <1>2
<1>3. CASE HasPoint(q, dest.lin, FALSE)
  <2>1. PlacedAt(q, dest.lin)
    BY <1>3 DEF HasPoint, PlacedAt
  <2>2. QED
    BY <2>1, SaveJumpAdds, AddsKeepsPlaces
<1>4. CASE q.visited[dest.lin] = NULL_ROUTINE /\ ~HasPoint(q, dest.lin, FALSE)
  <2>1. r = [q EXCEPT !.queue = <<point>> \o q.queue]
    BY <1>4 DEF SaveJump
  <2>2. r.queue = <<point>> \o q.queue
    BY <1>1, <2>1 DEF ScanQueues
  <2>3. point.addr.lin = dest.lin
    OBVIOUS
  <2> HIDE DEF point, r
  <2>4. 1 \in DOMAIN r.queue /\ r.queue[1] = point
    BY <1>1, <2>2
  <2>5. QED
    BY <2>3, <2>4 DEF PlacedAt, r
<1>5. QED
  BY <1>2, <1>3, <1>4

LEMMA SaveCallPlaces ==
  ASSUME NEW q \in Queues, NEW dest, NEW near
  PROVE  KnownEntrypoint(q, dest.lin) \/ PlacedAt(SaveCall(q, dest, near), dest.lin)
<1> SUFFICES ASSUME ~KnownEntrypoint(q, dest.lin)
             PROVE  PlacedAt(SaveCall(q, dest, near), dest.lin)
  OBVIOUS
<1>1. IsEntrypoint(q, dest.lin) = NULL_ROUTINE
  BY DEF IsEntrypoint
<1>2. CASE HasPoint(q, dest.lin, TRUE)
  BY <1>1, <1>2 DEF SaveCall, HasPoint, PlacedAt
<1>3. CASE ~HasPoint(q, dest.lin, TRUE)
  <2> DEFINE point == [addr |-> dest, idx |-> RoutineCount(q) + 1, call |-> TRUE]
             r == NewRoutine(q, dest, near)
  <2>1. q \in ScanQueues /\ q.queue \in Seq(Points) /\ Len(q.queue) \in Nat
    BY DEF Queues, ScanQueues
  <2>2. r.queue = Append(q.queue, point)
    BY <2>1 DEF NewRoutine, ScanQueues
  <2>3. point.addr.lin = dest.lin
    OBVIOUS
  <2> HIDE DEF point, r
  <2>4. Len(q.queue) + 1 \in DOMAIN r.queue /\ r.queue[Len(q.queue) + 1] = point
    BY <2>1, <2>2
  <2>5. PlacedAt(r, dest.lin)
    BY <2>3, <2>4 DEF PlacedAt
  <2>6. QED
    BY <1>1, <1>3, <2>5 DEF SaveCall, r
<1>4. QED
  BY <1>2, <1>3

(* A routine only saveCall's result knows starts at the destination.       *)
LEMMA SaveCallEntrypoints ==
  ASSUME NEW q \in Queues, NEW dest \in Addresses, NEW near \in BOOLEAN,
         NEW id \in DOMAIN SaveCall(q, dest, near).entrypoints,
         id \notin DOMAIN q.entrypoints
  PROVE  SaveCall(q, dest, near).entrypoints[id].addr = dest
<1>1. q \in ScanQueues /\ q.entrypoints \in Seq(Entrypoints) /\ Len(q.entrypoints) \in Nat
      /\ DOMAIN q.entrypoints = 1..Len(q.entrypoints)
  BY DEF Queues, ScanQueues
<1>2. ASSUME NEW k
      PROVE  DOMAIN UpdateNear(q, k, near).entrypoints = DOMAIN q.entrypoints
  BY <1>1 DEF UpdateNear, ScanQueues
<1>3. SaveCall(q, dest, near) = NewRoutine(q, dest, near)
  BY <1>2 DEF SaveCall
<1> DEFINE new == [addr |-> dest, idx |-> RoutineCount(q) + 1, near |-> near]
<1>4. NewRoutine(q, dest, near).entrypoints = Append(q.entrypoints, new)
  BY <1>1 DEF NewRoutine, ScanQueues
<1>5. new.addr = dest
  OBVIOUS
<1> HIDE DEF new
<1>6. id = Len(q.entrypoints) + 1 /\ Append(q.entrypoints, new)[id] = new
  BY <1>1, <1>3, <1>4
<1>7. QED
  BY <1>3, <1>4, <1>5, <1>6
-----------------------------------------------------------------------------
(* What is still to be explored is in the queue.                           *)

Covered(b) ==
  code[b].kind = "bad" \/ PaddingNop(b) \/ \E s \in scanned : b \in Extent(s)

BaseZero == \A id \in DOMAIN sq.entrypoints : sq.entrypoints[id].addr.seg = 0

BadCovered == \A b \in Byte : sq.visited[b] = BAD_ROUTINE => Covered(b)

EntrypointsReachable == \A id \in DOMAIN sq.entrypoints : EpOf(id) \in Walk!Frontier

CallsPending ==
  pc # "aborted" =>
    \A id \in DOMAIN sq.entrypoints :
      Covered(EpOf(id)) \/ QueuesCall(sq, id) \/ CallAtHand(id)

FrontierPending ==
  pc # "aborted" =>
    \A b \in Walk!Frontier :
      Covered(b) \/ PlacedAt(sq, b) \/ (pc = "scan" /\ csip.lin = b)

Pending ==
  IInv /\ OwnedBytesAreCode /\ BaseZero /\ BadCovered /\ EntrypointsReachable
  /\ CallsPending /\ FrontierPending

LEMMA CoveredStays ==
  ASSUME code' = code, scanned \subseteq scanned', NEW b, Covered(b)
  PROVE  Covered(b)'
BY PaddingGrows DEF Covered, Extent

LEMMA VisitedCovered ==
  ASSUME Pending, NEW b \in Byte, sq.visited[b] # NULL_ROUTINE
  PROVE  Covered(b)
<1>1. CASE sq.visited[b] = BAD_ROUTINE
  BY <1>1 DEF Pending, BadCovered
<1>2. CASE sq.visited[b] # BAD_ROUTINE
  <2>1. /\ sq.visited[b] \in DOMAIN sq.entrypoints
        /\ sq.entrypoints \in Seq(Entrypoints)
    BY <1>2 DEF Pending, IInv, TypeOK, QueueConsistent, Consistent, OwnersKnown, ScanQueues
  <2>2. sq.visited[b] > NULL_ROUTINE
    BY <2>1 DEF NULL_ROUTINE
  <2>3. QED
    BY <2>2 DEF Pending, OwnedBytesAreCode, Covered
<1>3. QED
  BY <1>1, <1>2

(* A call in the queue is at its routine's entrypoint. *)
LEMMA CallPlaced ==
  ASSUME IInv, NEW id, QueuesCall(sq, id)
  PROVE  PlacedAt(sq, EpOf(id))
<1>1. PICK i \in DOMAIN sq.queue : sq.queue[i].call /\ sq.queue[i].idx = id
  BY DEF QueuesCall
<1>2. PointBelongs(sq, sq.queue[i])
  BY DEF IInv, QueueConsistent, Consistent
<1>3. sq.queue[i].addr.lin = EpOf(id)
  BY <1>1, <1>2 DEF PointBelongs, EpOf
<1>4. QED
  BY <1>3 DEF PlacedAt

LEMMA ScanInBaseZero ==
  ASSUME Pending, pc = "scan"
  PROVE  csip.seg = 0 /\ sq.entrypoints[sq.cur.idx].addr.seg = 0
BY DEF Pending, IInv, RollbackOwnsItsRange, PointBelongs, BaseZero

(* Entrypoints are only added by calls, in the one segment. *)
LEMMA BaseZeroScan ==
  ASSUME OneSegment, Pending, Scan
  PROVE  BaseZero'
<1>1. CASE sq'.entrypoints = sq.entrypoints
  BY <1>1 DEF Pending, BaseZero
<1>2. CASE ScanCall
  <2>1. PICK i \in Decoded :
          /\ i.kind \in {"call", "calli", "callfar"}
          /\ \E dest \in CallDests(i) :
               SplitAfter(i, SaveBranch(Claimed(i), dest, TRUE, i.kind # "callfar"))
    BY <1>2 DEF ScanCall
  <2>2. PICK dest \in CallDests(i) :
          SplitAfter(i, SaveBranch(Claimed(i), dest, TRUE, i.kind # "callfar"))
    BY <2>1
  <2> DEFINE near == i.kind # "callfar"
             saved == SaveBranch(Claimed(i), dest, TRUE, near)
  <2>3. /\ dest \in Addresses /\ pc = "scan" /\ i = code[csip.lin] /\ csip.lin \in Byte
        /\ code \in Programs /\ Claimed(i) \in Queues
        /\ Claimed(i).entrypoints = sq.entrypoints
        /\ saved \in Queues /\ Grows(sq, saved)
    <3>1. dest \in Addresses /\ (IsValid(dest) => InSegment(dest.lin, dest.seg))
      BY CallDestsType DEF Pending
    <3>2. saved \in Queues /\ Grows(sq, saved)
      BY <2>1, <3>1, CallDestTraced, SavedAdds DEF Pending
    <3>3. Claimed(i) \in Queues /\ Claimed(i).entrypoints = sq.entrypoints
      BY ClaimedType, AtInstruction DEF Pending, Claimed, SetRoutineIdx, Queues, ScanQueues
    <3>4. pc = "scan" /\ i = code[csip.lin] /\ csip.lin \in Byte
      BY AtInstruction DEF Pending
    <3>5. code \in Programs
      BY DEF Pending, IInv, TypeOK
    <3> HIDE DEF saved
    <3>6. QED
      BY <3>1, <3>2, <3>3, <3>4, <3>5
  <2>4. sq'.entrypoints = saved.entrypoints
    <3> HIDE DEF saved
    <3>1. saved \in ScanQueues /\ SplitAfter(i, saved)
      BY <2>2, <2>3 DEF Queues, saved
    <3>2. ASSUME NEW d
          PROVE  FallThrough(saved, d).entrypoints = saved.entrypoints
      BY <3>1 DEF FallThrough, SaveJump, ClearRoutineIdx, ScanQueues
    <3>3. QED
      BY <3>1, <3>2 DEF SplitAfter
  <2>5. IsValid(dest) => dest.seg = 0
    <3>1. csip.seg = 0
      BY <2>3, ScanInBaseZero
    <3>2. i.kind # "calli" /\ (i.kind = "callfar" => i.seg = 0)
      BY <2>3 DEF OneSegment
    <3>3. QED
      BY <3>1, <3>2 DEF CallDests, NearDest, Wrap, IsValid
  <2>6. ASSUME NEW id \in DOMAIN saved.entrypoints
        PROVE  saved.entrypoints[id].addr.seg = 0
    <3>1. CASE id \in DOMAIN sq.entrypoints
      BY <2>3, <3>1 DEF Grows, Pending, BaseZero
    <3>2. CASE id \notin DOMAIN sq.entrypoints
      <4>1. IsValid(dest) /\ saved = SaveCall(Claimed(i), dest, near)
        BY <2>3, <2>6, <3>2 DEF SaveBranch
      <4>2. near \in BOOLEAN
        OBVIOUS
      <4> HIDE DEF near, saved
      <4>3. /\ Claimed(i) \in Queues /\ dest \in Addresses
            /\ id \in DOMAIN SaveCall(Claimed(i), dest, near).entrypoints
            /\ id \notin DOMAIN Claimed(i).entrypoints
        BY <2>3, <2>6, <3>2, <4>1
      <4>4. SaveCall(Claimed(i), dest, near).entrypoints[id].addr = dest
        BY <4>2, <4>3, SaveCallEntrypoints
      <4>5. QED
        BY <2>5, <4>1, <4>4
    <3>3. QED
      BY <3>1, <3>2
  <2> HIDE DEF saved
  <2>7. QED
    BY <2>4, <2>6 DEF BaseZero
<1>3. ASSUME ~ScanCall
      PROVE  sq'.entrypoints = sq.entrypoints
  <2>1. sq \in ScanQueues
    BY DEF Pending, IInv, TypeOK
  <2>2. ASSUME NEW i, NEW dest
        PROVE  SaveBranch(Claimed(i), dest, FALSE, TRUE).entrypoints = sq.entrypoints
    BY <2>1 DEF SaveBranch, SaveJump, Claimed, SetRoutineIdx, ScanQueues
  <2>3. ASSUME NEW q, NEW d
        PROVE  FallThrough(q, d).entrypoints = q.entrypoints
    BY DEF FallThrough, SaveJump, ClearRoutineIdx, ScanQueues
  <2>4. ASSUME NEW q, NEW i
        PROVE  ClaimNops(q, i).entrypoints = q.entrypoints
    BY DEF ClaimNops
  <2>5. ASSUME NEW i
        PROVE  Claimed(i).entrypoints = sq.entrypoints
    BY <2>1 DEF Claimed, SetRoutineIdx, ScanQueues
  <2>6. CASE RollBack
    BY <2>6, RolledBack DEF Pending
  <2>7. CASE ScanJump
    <3>1. PICK i \in Decoded :
            sq' = ClaimNops(SaveBranch(Claimed(i), JumpDest(i), FALSE, TRUE), i)
      BY <2>7 DEF ScanJump
    <3>2. QED
      BY <2>2, <2>4, <3>1
  <2>8. CASE ScanConditional
    <3>1. PICK i \in Decoded :
            SplitAfter(i, SaveBranch(Claimed(i), NearDest(i.to), FALSE, TRUE))
      BY <2>8 DEF ScanConditional
    <3>2. QED
      BY <2>2, <2>3, <3>1 DEF SplitAfter
  <2>9. CASE ScanPlain \/ ScanMov \/ ScanReturn \/ FarJumpOverflow
    BY <2>5, <2>9 DEF ScanPlain, ScanMov, ScanReturn, FarJumpOverflow
  <2>10. QED
    BY <1>3, <2>6, <2>7, <2>8, <2>9 DEF Scan, LeaveImage, HaltScan, Straddle
<1>4. QED
  BY <1>1, <1>2, <1>3
(* What a failed decode marks bad was scanned before, or is what failed.   *)
LEMMA BadCoveredScan ==
  ASSUME Pending, Scan,
         scanned' = IF Decodes THEN scanned \cup {csip.lin} ELSE scanned
  PROVE  BadCovered'
<1>1. code' = code /\ scanned \subseteq scanned'
  BY ScanHistory DEF Pending
<1> SUFFICES ASSUME NEW b \in Byte, sq'.visited[b] = BAD_ROUTINE
             PROVE  Covered(b)'
  BY DEF BadCovered
<1>2. CASE sq.visited[b] # NULL_ROUTINE
  BY <1>1, <1>2, VisitedCovered, CoveredStays
<1>3. CASE sq.visited[b] = NULL_ROUTINE
  <2>1. sq' # sq
    BY <1>3 DEF BAD_ROUTINE, NULL_ROUTINE
  <2>2. PICK i \in Decoded : TRUE
    BY <2>1 DEF Scan, LeaveImage, HaltScan, RollBack, Straddle, ScanPlain, ScanMov,
       ScanReturn, ScanJump, FarJumpOverflow, ScanConditional, ScanCall
  <2>3. /\ i = code[csip.lin] /\ pc = "scan" /\ Decoded = {i}
        /\ sq.cur.addr.lin \in Int /\ csip.lin \in Int /\ i.len \in Nat \ {0}
        /\ sq.cur.idx \in DOMAIN sq.entrypoints /\ sq.entrypoints \in Seq(Entrypoints)
    BY <2>2, AtInstruction DEF Pending, Decoded, Queues, ScanQueues
  <2>4. b \in sq.cur.addr.lin..csip.lin
    <3>1. CASE i.kind # "bad" /\ Fits(i)
      <4>1. \/ sq'.visited[b] = NULL_ROUTINE
            \/ sq'.visited[b] = sq.cur.idx
            \/ sq'.visited[b] = sq.visited[b]
            \/ b \in sq.cur.addr.lin..csip.lin
        BY <3>1, DecodedOwners DEF Pending
      <4>2. QED
        BY <1>3, <2>3, <4>1 DEF NULL_ROUTINE, BAD_ROUTINE
    <3>2. CASE ~(i.kind # "bad" /\ Fits(i))
      <4>1. RollBack
        BY <2>1, <2>3, <3>2 DEF Scan, LeaveImage, HaltScan, Straddle, ScanPlain, ScanMov,
           ScanReturn, ScanJump, FarJumpOverflow, ScanConditional, ScanCall
      <4>2. QED
        BY <1>3, <2>3, <3>2, <4>1, RolledBack DEF Pending, NULL_ROUTINE, BAD_ROUTINE
    <3>3. QED
      BY <3>1, <3>2
  <2>5. \A c \in sq.cur.addr.lin..(csip.lin - 1) : sq.visited[c] = sq.cur.idx
    BY <2>3 DEF Pending, IInv, RollbackOwnsItsRange
  <2>6. b = csip.lin
    BY <1>3, <2>3, <2>4, <2>5 DEF NULL_ROUTINE
  <2>7. CASE i.kind = "bad"
    BY <1>1, <2>3, <2>6, <2>7 DEF Covered
  <2>8. CASE i.kind # "bad" /\ Fits(i)
    <3>1. b \in scanned' /\ b \in Extent(b)'
      BY <1>1, <2>3, <2>6, <2>8 DEF Decodes, Extent
    <3>2. QED
      BY <3>1 DEF Covered
  <2>9. CASE i.kind # "bad" /\ ~Fits(i)
    BY <2>1, <2>3, <2>9 DEF Scan, LeaveImage, HaltScan, RollBack, Straddle, ScanPlain,
       ScanMov, ScanReturn, ScanJump, FarJumpOverflow, ScanConditional, ScanCall
  <2>10. QED
    BY <2>7, <2>8, <2>9
<1>4. QED
  BY <1>2, <1>3

(* A scan that ends at csip has covered it, unless something stopped it    *)
(* before decoding.                                                        *)
LEMMA HandCovered ==
  ASSUME Pending, Scan, pc' # "aborted", NEW b, b = csip.lin,
         scanned' = IF Decodes THEN scanned \cup {csip.lin} ELSE scanned
  PROVE  Covered(b)' \/ (HaltScan /\ b \in Byte)
<1>1. /\ code' = code /\ scanned \subseteq scanned'
      /\ Decodes => csip.lin \in scanned'
  BY ScanHistory DEF Pending
<1>2. CASE Decodes
  <2>1. PICK i \in Decoded : TRUE
    BY <1>2 DEF Decodes
  <2>2. i = code[csip.lin] /\ csip.lin \in Int /\ i.len \in Nat \ {0}
    BY <2>1, AtInstruction DEF Pending
  <2>3. b \in scanned' /\ b \in Extent(b)'
    BY <1>1, <1>2, <2>2 DEF Extent
  <2>4. QED
    BY <2>3 DEF Covered
<1>3. CASE ~Decodes /\ RollBack
  <2>1. code[b].kind = "bad"
    BY <1>3 DEF RollBack, Decoded, Decodes
  <2>2. QED
    BY <1>1, <2>1 DEF Covered
<1>4. CASE ~Decodes /\ ~RollBack
  BY <1>4 DEF Decodes, Scan, LeaveImage, HaltScan, Straddle, ScanPlain, ScanMov,
     ScanReturn, ScanJump, FarJumpOverflow, ScanConditional, ScanCall
<1>5. QED
  BY <1>2, <1>3, <1>4

LEMMA CallsPendingScan ==
  ASSUME Pending, Scan,
         scanned' = IF Decodes THEN scanned \cup {csip.lin} ELSE scanned
  PROVE  CallsPending'
<1>1. code' = code /\ scanned \subseteq scanned' /\ pc = "scan"
  BY ScanHistory DEF Pending
<1>2. Grows(sq, sq') /\ Adds(sq, sq', Traced)
  BY ScanAdds DEF Pending
<1> SUFFICES ASSUME pc' # "aborted", NEW id \in DOMAIN sq'.entrypoints
             PROVE  Covered(EpOf(id))' \/ QueuesCall(sq', id)
  BY DEF CallsPending
<1>3. CASE id \notin DOMAIN sq.entrypoints
  BY <1>2, <1>3 DEF Adds
<1>4. CASE id \in DOMAIN sq.entrypoints
  <2>1. PICK b : b = EpOf(id)
    OBVIOUS
  <2>2. EpOf(id)' = b
    BY <1>2, <1>4, <2>1 DEF Grows, EpOf
  <2>3. Covered(b)' => Covered(EpOf(id))'
    BY <2>2 DEF Covered, PaddingNop, Extent
  <2>4. CASE Covered(EpOf(id))
    <3>1. Covered(b)
      BY <2>1, <2>4 DEF Covered, PaddingNop, Extent
    <3>2. QED
      BY <1>1, <2>3, <3>1, CoveredStays
  <2>5. CASE QueuesCall(sq, id)
    BY <1>2, <2>5, AddsKeepsCalls
  <2>6. CASE CallAtHand(id)
    <3>1. b = csip.lin /\ sq.cur.call /\ sq.cur.idx = id
      BY <2>1, <2>6 DEF CallAtHand
    <3>2. CASE HaltScan
      <4>1. b \in Byte /\ IsEntrypoint(sq, b) = id
        BY <1>4, <2>1, EntrypointInImage DEF Pending
      <4>2. sq.visited[b] = BAD_ROUTINE
        BY <3>1, <3>2, <4>1 DEF HaltScan, Blocked
      <4>3. Covered(b)
        BY <4>1, <4>2 DEF Pending, BadCovered
      <4>4. QED
        BY <1>1, <2>3, <4>3, CoveredStays
    <3>3. CASE ~HaltScan
      BY <2>3, <3>1, <3>3, HandCovered
    <3>4. QED
      BY <3>2, <3>3
  <2>7. QED
    BY <1>1, <1>4, <2>4, <2>5, <2>6 DEF Pending, CallsPending
<1>5. QED
  BY <1>3, <1>4
(* Bytes already visited, or claimed by the instruction decoded, are       *)
(* covered after the step.                                                 *)
LEMMA ClaimedCovered ==
  ASSUME Pending, Scan, Decodes, NEW i \in Decoded, NEW d \in Byte,
         Claimed(i).visited[d] # NULL_ROUTINE,
         scanned' = IF Decodes THEN scanned \cup {csip.lin} ELSE scanned
  PROVE  Covered(d)'
<1>1. /\ code' = code /\ scanned \subseteq scanned' /\ csip.lin \in scanned'
  BY ScanHistory DEF Pending
<1>2. CASE sq.visited[d] # NULL_ROUTINE
  BY <1>1, <1>2, VisitedCovered, CoveredStays
<1>3. CASE d \in csip.lin..(csip.lin + i.len - 1)
  <2>1. PICK s \in scanned' : s = csip.lin
    BY <1>1
  <2>2. i = code'[s]
    BY <1>1, <2>1 DEF Decoded
  <2>3. d \in Extent(s)'
    BY <1>3, <2>1, <2>2 DEF Extent
  <2>4. QED
    BY <2>1, <2>3 DEF Covered
<1>4. Claimed(i).visited[d] = IF d \in csip.lin..(csip.lin + i.len - 1)
                              THEN sq.cur.idx ELSE sq.visited[d]
  BY ClaimedType DEF Pending
<1>5. QED
  BY <1>2, <1>3, <1>4

(* The destination of a branch is queued, covered or an entrypoint. *)
LEMMA BranchPlaced ==
  ASSUME OneSegment, Pending, Scan, Decodes, NEW i \in Decoded, NEW dest \in Addresses,
         dest.lin \in Byte, NEW call \in BOOLEAN, NEW near \in BOOLEAN,
         scanned' = IF Decodes THEN scanned \cup {csip.lin} ELSE scanned
  PROVE  \/ PlacedAt(SaveBranch(Claimed(i), dest, call, near), dest.lin)
         \/ Covered(dest.lin)'
         \/ call /\ KnownEntrypoint(sq, dest.lin)
<1> DEFINE q == Claimed(i)
<1>1. q \in Queues /\ Grows(sq, q) /\ q.cur = sq.cur /\ q.entrypoints = sq.entrypoints
  BY ClaimedType, AtInstruction DEF Pending, Claimed, SetRoutineIdx, Queues, ScanQueues
<1>2. q.visited[dest.lin] # NULL_ROUTINE => Covered(dest.lin)'
  <2>1. PICK d \in Byte : d = dest.lin
    OBVIOUS
  <2>2. QED
    BY <2>1, ClaimedCovered
<1>3. pc = "scan" /\ q.entrypoints[q.cur.idx].addr.seg = 0
  BY <1>1, ScanInBaseZero DEF Decodes, Decoded
<1>4. InSegment(dest.lin, 0)
  BY SizeAssumption DEF OneSegment, InSegment, Byte
<1>5. IsValid(dest)
  BY SizeAssumption DEF IsValid, InvalidAddr, Byte
<1>6. KnownEntrypoint(q, dest.lin) => KnownEntrypoint(sq, dest.lin)
  BY <1>1 DEF KnownEntrypoint
<1> HIDE DEF q
<1>7. CASE call
  BY <1>1, <1>5, <1>6, <1>7, SaveCallPlaces DEF SaveBranch, q
<1>8. CASE ~call
  <2>1. q.visited[dest.lin] # NULL_ROUTINE \/ PlacedAt(SaveJump(q, dest), dest.lin)
    BY <1>1, <1>3, <1>4, SaveJumpPlaces
  <2>2. QED
    BY <1>2, <1>5, <1>8, <2>1 DEF SaveBranch, q
<1>9. QED
  BY <1>7, <1>8
(* So is the fall-through of a call or a conditional jump. *)
LEMMA SplitPlaced ==
  ASSUME OneSegment, Pending, Scan, Decodes, pc' # "aborted", NEW i \in Decoded,
         NEW saved \in Queues, Grows(sq, saved), saved.visited = Claimed(i).visited,
         SplitAfter(i, saved), NEW d, d = Wrap(csip.seg, csip.lin + i.len).lin,
         scanned' = IF Decodes THEN scanned \cup {csip.lin} ELSE scanned
  PROVE  Covered(d)' \/ PlacedAt(sq', d)
<1> DEFINE next == Wrap(csip.seg, csip.lin + i.len)
           r == ClearRoutineIdx(saved, next.lin)
<1>1. next.lin = d /\ d \in Byte /\ sq' = FallThrough(saved, next)
  BY DEF SplitAfter
<1>2. saved.visited[d] # NULL_ROUTINE => Covered(d)'
  BY <1>1, ClaimedCovered
<1>3. /\ sq.cur.idx \in DOMAIN sq.entrypoints /\ sq.entrypoints \in Seq(Entrypoints)
      /\ pc = "scan" /\ sq.entrypoints[sq.cur.idx].addr.seg = 0
  BY AtInstruction, ScanInBaseZero DEF Pending, Queues, ScanQueues
<1>4. saved.cur = sq.cur /\ saved.entrypoints[saved.cur.idx].addr.seg = 0
  BY <1>3 DEF Grows
<1> HIDE DEF next
<1>5. r \in Queues /\ Grows(saved, r) /\ r.visited[d] \in {saved.visited[d], NULL_ROUTINE}
  BY <1>1, ClearRoutineIdxType DEF ClearRoutineIdx, Queues, ScanQueues
<1>6. r.entrypoints[r.cur.idx].addr.seg = 0
  BY <1>3, <1>4, <1>5 DEF Grows
<1> HIDE DEF r
<1>7. InSegment(next.lin, r.entrypoints[r.cur.idx].addr.seg)
  BY <1>1, <1>6, SizeAssumption DEF OneSegment, InSegment, Byte
<1>8. r.visited[next.lin] # NULL_ROUTINE \/ PlacedAt(SaveJump(r, next), next.lin)
  BY <1>5, <1>7, SaveJumpPlaces
<1>9. CASE saved.visited[next.lin] = saved.cur.idx
  BY <1>1, <1>2, <1>3, <1>4, <1>9 DEF NULL_ROUTINE
<1>10. CASE saved.visited[next.lin] # saved.cur.idx
  <2>1. sq' = SaveJump(r, next)
    BY <1>1, <1>10 DEF FallThrough, r
  <2>2. QED
    BY <1>1, <1>2, <1>5, <1>8, <2>1
<1>11. QED
  BY <1>9, <1>10

(* Wherever control may go from the instruction decoded will be looked at. *)
LEMMA SuccessorPending ==
  ASSUME OneSegment, Pending, Scan, Decodes, pc' # "aborted",
         NEW d \in Successors(code, csip.lin),
         scanned' = IF Decodes THEN scanned \cup {csip.lin} ELSE scanned
  PROVE  \/ Covered(d)' \/ PlacedAt(sq', d) \/ KnownEntrypoint(sq, d)
         \/ pc' = "scan" /\ csip'.lin = d
<1>1. PICK i \in Decoded : i.kind # "bad" /\ Fits(i)
  BY DEF Decodes
<1>2. /\ i = code[csip.lin] /\ pc = "scan" /\ csip.lin \in Byte /\ ~Blocked
      /\ Decoded = {i}
  BY <1>1 DEF Decoded
<1>3. /\ csip.seg = 0 /\ csip.lin \in Int /\ i.len \in Nat \ {0} /\ i.to \in Int
      /\ i.seg \in Int /\ i \in Instructions /\ csip.lin >= 0
      /\ i.kind \notin {"int", "calli"} /\ code \in Programs
  <2>1. /\ csip.lin \in Int /\ i.len \in Nat \ {0} /\ i.to \in Int
        /\ i.seg \in Int /\ i \in Instructions
    BY AtInstruction DEF Pending
  <2>2. code \in Programs
    BY DEF Pending, IInv, TypeOK
  <2>3. QED
    BY <1>2, <2>1, <2>2, ScanInBaseZero, SizeAssumption DEF OneSegment, Byte
<1>4. ASSUME NEW t \in Int, d \in NearTargets(t)
      PROVE  Wrap(csip.seg, t).lin = d /\ t # NoAddr /\ d \in Byte
  BY <1>3, <1>4, OneTarget DEF NearTargets
<1>5. ASSUME NEW dest \in Addresses, dest.lin = d, d \in Byte,
             NEW call \in BOOLEAN, NEW near \in BOOLEAN, NEW at,
             Adds(SaveBranch(Claimed(i), dest, call, near), sq', at)
      PROVE  Covered(d)' \/ PlacedAt(sq', d) \/ KnownEntrypoint(sq, d)
  BY <1>1, <1>5, BranchPlaced, AddsKeepsPlaces
<1>6. CASE ScanPlain \/ ScanMov
  <2>1. Advance(i) /\ i.kind \in {"op", "nop", "mov"}
    BY <1>2, <1>3, <1>6 DEF ScanPlain, ScanMov
  <2>2. /\ pc' = "scan" /\ csip.lin + i.len < SegSize
        /\ csip' = [csip EXCEPT !.lin = csip.lin + i.len]
    BY <1>3, <2>1 DEF Advance
  <2>3. csip'.lin = csip.lin + i.len
    BY <2>2 DEF Pending, IInv, TypeOK, Addresses
  <2>4. d \in NearTargets(csip.lin + i.len)
    BY <1>2, <2>1 DEF Successors
  <2>5. /\ d \in Int /\ 0 <= d /\ d < SegSize /\ SegSize \in Nat \ {0}
        /\ (d - (csip.lin + i.len)) % SegSize = 0
    BY <2>4, SizeAssumption DEF NearTargets, Byte, OneSegment
  <2> DEFINE t == csip.lin + i.len
  <2>6. t \in Int /\ 0 <= t /\ t < SegSize
    BY <1>3, <2>2
  <2>7. t % SegSize = d
    BY <2>5, <2>6, SameResidue
  <2> HIDE DEF t
  <2>8. (t - t) % SegSize = 0
    BY <2>5, <2>6
  <2>9. t % SegSize = t
    BY <2>5, <2>6, <2>8, SameResidue
  <2>10. QED
    BY <2>2, <2>3, <2>7, <2>9 DEF t
<1>7. CASE ScanReturn
  BY <1>2, <1>3, <1>7 DEF ScanReturn, Successors
<1>8. CASE ScanJump
  <2>1. /\ i.kind \in {"jmp", "jmpfar"}
        /\ sq' = ClaimNops(SaveBranch(Claimed(i), JumpDest(i), FALSE, TRUE), i)
    BY <1>2, <1>8 DEF ScanJump
  <2>2. JumpDest(i) \in Addresses
    BY <1>1, JumpDestType DEF Pending
  <2>3. JumpDest(i).lin = d /\ d \in Byte
    <3>1. CASE i.kind = "jmp"
      <4>1. d \in NearTargets(i.to)
        BY <1>2, <3>1 DEF Successors
      <4>2. QED
        BY <1>3, <1>4, <3>1, <4>1 DEF JumpDest, NearDest
    <3>2. CASE i.kind = "jmpfar"
      <4>1. i.to # NoAddr /\ d = FarImmediate(i) /\ d \in Byte
        BY <1>2, <3>2 DEF Successors
      <4>2. QED
        BY <3>2, <4>1 DEF JumpDest, LinearAddr
    <3>3. QED
      BY <2>1, <3>1, <3>2
  <2>4. SaveBranch(Claimed(i), JumpDest(i), FALSE, TRUE) \in Queues
    BY <1>1, <2>2, SavedOwners DEF Pending
  <2>5. Adds(SaveBranch(Claimed(i), JumpDest(i), FALSE, TRUE), sq', {})
    BY <2>1, <2>4, ClaimNopsAdds
  <2>6. QED
    BY <1>5, <2>2, <2>3, <2>5
<1>9. ASSUME NEW dest \in Addresses, NEW near \in BOOLEAN, NEW call \in BOOLEAN,
             call /\ IsValid(dest) => InSegment(dest.lin, dest.seg),
             IsValid(dest) /\ dest.lin \in Byte => dest.lin \in Successors(code, csip.lin),
             SplitAfter(i, SaveBranch(Claimed(i), dest, call, near)),
             \/ d = dest.lin /\ d \in Byte
             \/ d \in NearTargets(csip.lin + i.len)
      PROVE  Covered(d)' \/ PlacedAt(sq', d) \/ KnownEntrypoint(sq, d)
  <2> DEFINE saved == SaveBranch(Claimed(i), dest, call, near)
             next == Wrap(csip.seg, csip.lin + i.len)
  <2>1. /\ saved \in Queues /\ Grows(sq, saved) /\ saved.cur.idx \in DOMAIN saved.entrypoints
        /\ saved.visited = Claimed(i).visited
    BY <1>1, <1>9, SavedAdds, SavedOwners DEF Pending
  <2>2. next.lin \in Byte /\ sq' = FallThrough(saved, next)
    BY <1>9 DEF SplitAfter
  <2>3. Adds(saved, sq', {next.lin})
    <3> HIDE DEF saved, next
    <3>1. QED
      BY <2>1, <2>2, FallThroughAdds
  <2>4. CASE d = dest.lin /\ d \in Byte
    BY <1>5, <1>9, <2>3, <2>4
  <2>5. CASE d \in NearTargets(csip.lin + i.len)
    <3>1. d = next.lin
      BY <1>3, <1>4, <2>5
    <3> HIDE DEF saved
    <3>2. SplitAfter(i, saved)
      BY <1>9 DEF saved
    <3>3. QED
      BY <1>1, <2>1, <3>1, <3>2, SplitPlaced
  <2>6. QED
    BY <1>9, <2>4, <2>5
<1>10. CASE ScanConditional
  <2>1. /\ i.kind = "jcc"
        /\ SplitAfter(i, SaveBranch(Claimed(i), NearDest(i.to), FALSE, TRUE))
    BY <1>2, <1>10 DEF ScanConditional
  <2>2. NearDest(i.to) \in Addresses
    BY <1>1, <1>3, NearDestType DEF Pending
  <2>3. d \in NearTargets(i.to) \/ d \in NearTargets(csip.lin + i.len)
    BY <1>2, <2>1 DEF Successors
  <2>4. d \in NearTargets(i.to) => d = NearDest(i.to).lin /\ d \in Byte
    BY <1>3, <1>4 DEF NearDest
  <2>5. IsValid(NearDest(i.to)) /\ NearDest(i.to).lin \in Byte =>
          NearDest(i.to).lin \in Successors(code, csip.lin)
    BY <1>1, <2>1, BranchDestTraced DEF Pending
  <2>6. QED
    BY <1>9, <2>1, <2>2, <2>3, <2>4, <2>5
<1>11. CASE ScanCall
  <2>1. /\ i.kind \in {"call", "callfar"}
        /\ \E dest \in CallDests(i) :
             SplitAfter(i, SaveBranch(Claimed(i), dest, TRUE, i.kind # "callfar"))
    BY <1>2, <1>3, <1>11 DEF ScanCall
  <2>2. PICK dest \in CallDests(i) :
          SplitAfter(i, SaveBranch(Claimed(i), dest, TRUE, i.kind # "callfar"))
    BY <2>1
  <2>3. dest \in Addresses /\ (IsValid(dest) => InSegment(dest.lin, dest.seg))
    BY <1>1, CallDestsType DEF Pending
  <2>4. IsValid(dest) /\ dest.lin \in Byte => dest.lin \in Successors(code, csip.lin)
    BY <1>1, <2>1, CallDestTraced DEF Pending
  <2>5. d \in NearTargets(csip.lin + i.len) \/ (d = dest.lin /\ d \in Byte)
    <3>1. CASE i.kind = "call"
      <4>1. dest = NearDest(i.to)
        BY <3>1 DEF CallDests
      <4>2. d \in NearTargets(i.to) \/ d \in NearTargets(csip.lin + i.len)
        BY <1>2, <3>1 DEF Successors
      <4>3. d \in NearTargets(i.to) => d = dest.lin /\ d \in Byte
        BY <1>3, <1>4, <4>1 DEF NearDest
      <4>4. QED
        BY <4>2, <4>3
    <3>2. CASE i.kind = "callfar"
      <4>1. d \in NearTargets(csip.lin + i.len) \/ (d = i.to /\ d \in Byte)
        BY <1>2, <3>2 DEF Successors
      <4>2. d = i.to /\ d \in Byte => i.to # NoAddr
        BY SizeAssumption DEF Byte, NoAddr
      <4>3. i.to # NoAddr => dest = [seg |-> i.seg, lin |-> i.to]
        BY <3>2 DEF CallDests
      <4>4. QED
        BY <4>1, <4>2, <4>3
    <3>3. QED
      BY <2>1, <3>1, <3>2
  <2>6. (i.kind # "callfar") \in BOOLEAN
    OBVIOUS
  <2>7. QED
    BY <1>9, <2>2, <2>3, <2>4, <2>5, <2>6
<1>12. ScanPlain \/ ScanMov \/ ScanReturn \/ ScanJump \/ ScanConditional \/ ScanCall
  <2>1. i.kind # "trap"
    BY <1>2 DEF Successors
  <2>2. QED
    BY <1>1, <1>2, <2>1 DEF Scan, LeaveImage, HaltScan, RollBack, Straddle, FarJumpOverflow
<1>13. QED
  BY <1>6, <1>7, <1>8, <1>10, <1>11, <1>12
LEMMA FrontierPendingScan ==
  ASSUME OneSegment, Pending, Scan, roots' = roots,
         scanned' = IF Decodes THEN scanned \cup {csip.lin} ELSE scanned
  PROVE  FrontierPending'
<1>1. code' = code /\ scanned \subseteq scanned' /\ pc = "scan"
  BY ScanHistory DEF Pending
<1>2. Adds(sq, sq', Traced)
  BY ScanAdds DEF Pending
<1> SUFFICES ASSUME pc' # "aborted", NEW b \in Walk!Frontier'
             PROVE  Covered(b)' \/ PlacedAt(sq', b) \/ (pc' = "scan" /\ csip'.lin = b)
  BY DEF FrontierPending
<1>3. CASE b \in Walk!Frontier
  <2>1. Covered(b) \/ PlacedAt(sq, b) \/ csip.lin = b
    BY <1>1, <1>3 DEF Pending, FrontierPending
  <2>2. CASE Covered(b)
    BY <1>1, <2>2, CoveredStays
  <2>3. CASE PlacedAt(sq, b)
    BY <1>2, <2>3, AddsKeepsPlaces
  <2>4. CASE csip.lin = b
    <3>1. CASE HaltScan /\ b \in Byte
      <4>1. CASE sq.visited[b] # NULL_ROUTINE
        BY <1>1, <3>1, <4>1, VisitedCovered, CoveredStays
      <4>2. CASE sq.visited[b] = NULL_ROUTINE
        <5>1. /\ IsEntrypoint(sq, b) # NULL_ROUTINE
              /\ IsEntrypoint(sq, b) # sq.cur.idx
          BY <2>4, <3>1, <4>2 DEF HaltScan, Blocked, NULL_ROUTINE, BAD_ROUTINE
        <5>2. KnownEntrypoint(sq, b)
          BY <5>1 DEF IsEntrypoint
        <5>3. PICK id \in DOMAIN sq.entrypoints : id = IsEntrypoint(sq, b) /\ EpOf(id) = b
          BY <5>2, QueueOfInvariant, IsEntrypointFinds DEF Pending, IInv, EpOf
        <5>4. Covered(EpOf(id)) \/ QueuesCall(sq, id) \/ CallAtHand(id)
          BY <1>1, <5>3 DEF Pending, CallsPending
        <5>5. CASE Covered(EpOf(id))
          <6>1. Covered(b)
            BY <5>3, <5>5 DEF Covered, PaddingNop, Extent
          <6>2. QED
            BY <1>1, <6>1, CoveredStays
        <5>6. CASE QueuesCall(sq, id)
          <6>1. PlacedAt(sq, b)
            BY <5>3, <5>6, CallPlaced DEF Pending
          <6>2. QED
            BY <1>2, <6>1, AddsKeepsPlaces
        <5>7. CASE CallAtHand(id)
          BY <5>1, <5>3, <5>7 DEF CallAtHand
        <5>8. QED
          BY <5>4, <5>5, <5>6, <5>7
      <4>3. QED
        BY <4>1, <4>2
    <3>2. CASE ~(HaltScan /\ b \in Byte)
      BY <2>4, <3>2, HandCovered
    <3>3. QED
      BY <3>1, <3>2
  <2>5. QED
    BY <2>1, <2>2, <2>3, <2>4
<1>4. CASE b \notin Walk!Frontier
  <2>1. Decodes /\ b \in Successors(code, csip.lin)
    BY <1>1, <1>4, InFrontier, InFrontierNext
  <2>2. \/ Covered(b)' \/ PlacedAt(sq', b) \/ KnownEntrypoint(sq, b)
        \/ pc' = "scan" /\ csip'.lin = b
    BY <2>1, SuccessorPending
  <2>3. ~KnownEntrypoint(sq, b)
    BY <1>4 DEF KnownEntrypoint, Pending, EntrypointsReachable, EpOf
  <2>4. QED
    BY <2>2, <2>3
<1>5. QED
  BY <1>3, <1>4

LEMMA EntrypointsReachableStep ==
  ASSUME EntrypointsReachable, NEW at, Grows(sq, sq'), Adds(sq, sq', at),
         \A d \in at : d \in Walk!Frontier',
         code' = code, roots \subseteq roots', scanned \subseteq scanned'
  PROVE  EntrypointsReachable'
<1>1. Walk!Frontier \subseteq Walk!Frontier'
  BY FrontierGrows
<1> SUFFICES ASSUME NEW id \in DOMAIN sq'.entrypoints
             PROVE  sq'.entrypoints[id].addr.lin \in Walk!Frontier'
  BY DEF EntrypointsReachable, EpOf
<1>2. CASE id \in DOMAIN sq.entrypoints
  BY <1>1, <1>2 DEF EntrypointsReachable, EpOf, Grows
<1>3. CASE id \notin DOMAIN sq.entrypoints
  BY <1>3 DEF Adds
<1>4. QED
  BY <1>2, <1>3

(* Seeding, and the end of the outer loop. *)
LEMMA PendingOutside ==
  ASSUME Pending, pc \notin {"scan", "aborted"}, NEW at, Grows(sq, sq'), Adds(sq, sq', at),
         \A d \in at : d \in Walk!Frontier',
         \A d \in Walk!Frontier' : d \in Walk!Frontier \/ PlacedAt(sq', d),
         sq'.visited = sq.visited, code' = code, roots \subseteq roots', scanned' = scanned
  PROVE  BadCovered' /\ EntrypointsReachable' /\ CallsPending' /\ FrontierPending'
<1>1. \A b : Covered(b) => Covered(b)'
  BY CoveredStays
<1>2. BadCovered'
  BY <1>1 DEF Pending, BadCovered
<1>3. EntrypointsReachable'
  BY EntrypointsReachableStep DEF Pending
<1>4. ASSUME NEW id \in DOMAIN sq'.entrypoints
      PROVE  Covered(EpOf(id))' \/ QueuesCall(sq', id)
  <2>1. CASE id \notin DOMAIN sq.entrypoints
    BY <2>1 DEF Adds
  <2>2. CASE id \in DOMAIN sq.entrypoints
    <3>1. EpOf(id)' = EpOf(id)
      BY <2>2 DEF Grows, EpOf
    <3>2. Covered(EpOf(id)) \/ QueuesCall(sq, id)
      BY <2>2 DEF Pending, CallsPending, CallAtHand
    <3>3. Covered(EpOf(id)) => Covered(EpOf(id))'
      BY <3>1 DEF Covered, PaddingNop, Extent
    <3>4. QED
      BY <3>2, <3>3, AddsKeepsCalls
  <2>3. QED
    BY <2>1, <2>2
<1>5. ASSUME NEW b \in Walk!Frontier'
      PROVE  Covered(b)' \/ PlacedAt(sq', b)
  <2>1. CASE b \in Walk!Frontier
    <3>1. Covered(b) \/ PlacedAt(sq, b)
      BY <2>1 DEF Pending, FrontierPending
    <3>2. QED
      BY <1>1, <3>1, AddsKeepsPlaces
  <2>2. QED
    BY <2>1
<1>6. QED
  BY <1>2, <1>3, <1>4, <1>5 DEF CallsPending, FrontierPending
LEMMA PendingSeeded ==
  ASSUME Pending, pc = "seed", pc' \in {"seed", "next"},
         NEW a \in Addresses, NEW near \in BOOLEAN, a.lin \in Byte, a.seg = 0,
         InSegment(a.lin, a.seg), sq' = SaveCall(sq, a, near), code' = code,
         roots' = roots \cup {a.lin}, scanned' = scanned
  PROVE  BaseZero' /\ BadCovered' /\ EntrypointsReachable' /\ CallsPending' /\ FrontierPending'
<1>1. sq \in Queues
  BY QueueOfInvariant DEF Pending, IInv
<1>2. Grows(sq, sq') /\ Adds(sq, sq', {a.lin}) /\ sq'.visited = sq.visited
  BY SeededCall DEF Pending
<1>3. a.lin \in Walk!Frontier'
  BY InFrontierNext
<1>4. ASSUME NEW d \in Walk!Frontier'
      PROVE  d \in Walk!Frontier \/ PlacedAt(sq', d)
  <2>1. d \in Walk!Frontier \/ d = a.lin
    BY InFrontier, InFrontierNext
  <2>2. KnownEntrypoint(sq, a.lin) \/ PlacedAt(sq', a.lin)
    BY <1>1, SaveCallPlaces
  <2>3. KnownEntrypoint(sq, a.lin) => a.lin \in Walk!Frontier
    BY DEF KnownEntrypoint, Pending, EntrypointsReachable, EpOf
  <2>4. QED
    BY <2>1, <2>2, <2>3
<1>5. BadCovered' /\ EntrypointsReachable' /\ CallsPending' /\ FrontierPending'
  BY <1>2, <1>3, <1>4, PendingOutside
<1>6. ASSUME NEW id \in DOMAIN sq'.entrypoints
      PROVE  sq'.entrypoints[id].addr.seg = 0
  <2>1. CASE id \in DOMAIN sq.entrypoints
    BY <1>2, <2>1 DEF Grows, Pending, BaseZero
  <2>2. CASE id \notin DOMAIN sq.entrypoints
    BY <1>1, <2>2, SaveCallEntrypoints
  <2>3. QED
    BY <2>1, <2>2
<1>7. QED
  BY <1>5, <1>6 DEF BaseZero

LEMMA PendingTaken ==
  ASSUME Pending, TakePoint, roots' = roots, scanned' = scanned
  PROVE  BaseZero' /\ BadCovered' /\ EntrypointsReachable' /\ CallsPending' /\ FrontierPending'
<1>1. /\ sq'.entrypoints = sq.entrypoints /\ sq'.visited = sq.visited
      /\ sq'.cur = sq.queue[1] /\ csip' = sq.queue[1].addr
      /\ \A i \in DOMAIN sq.queue : i # 1 => \E j \in DOMAIN sq'.queue : sq'.queue[j] = sq.queue[i]
      /\ PointBelongs(sq', sq'.cur)
      /\ pc = "next" /\ pc' = "scan" /\ code' = code
  BY TakenPoint DEF TakePoint, Pending
<1>2. \A b : Covered(b) => Covered(b)'
  BY <1>1, CoveredStays
<1>3. BaseZero' /\ BadCovered'
  BY <1>1, <1>2 DEF Pending, BaseZero, BadCovered
<1>4. Walk!Frontier \subseteq Walk!Frontier' /\ Walk!Frontier' \subseteq Walk!Frontier
  BY <1>1, InFrontier, InFrontierNext
<1>5. EntrypointsReachable'
  BY <1>1, <1>4 DEF Pending, EntrypointsReachable, EpOf
<1>6. ASSUME NEW id \in DOMAIN sq'.entrypoints
      PROVE  Covered(EpOf(id))' \/ QueuesCall(sq', id) \/ CallAtHand(id)'
  <2>1. EpOf(id)' = EpOf(id)
    BY <1>1 DEF EpOf
  <2>2. Covered(EpOf(id)) => Covered(EpOf(id))'
    BY <1>1, <2>1 DEF Covered, PaddingNop, Extent
  <2>3. Covered(EpOf(id)) \/ QueuesCall(sq, id)
    BY <1>1 DEF Pending, CallsPending, CallAtHand
  <2>4. CASE QueuesCall(sq, id)
    <3>1. PICK i \in DOMAIN sq.queue : sq.queue[i].call /\ sq.queue[i].idx = id
      BY <2>4 DEF QueuesCall
    <3>2. CASE i = 1
      <4>1. sq'.cur.call /\ sq'.cur.idx = id /\ csip' = sq'.cur.addr
        BY <1>1, <3>1, <3>2
      <4>2. csip'.lin = EpOf(id)'
        BY <1>1, <4>1 DEF PointBelongs, EpOf
      <4>3. QED
        BY <1>1, <4>1, <4>2 DEF CallAtHand
    <3>3. CASE i # 1
      BY <1>1, <3>1, <3>3 DEF QueuesCall
    <3>4. QED
      BY <3>2, <3>3
  <2>5. QED
    BY <2>2, <2>3, <2>4
<1>7. ASSUME NEW b \in Walk!Frontier'
      PROVE  Covered(b)' \/ PlacedAt(sq', b) \/ (pc' = "scan" /\ csip'.lin = b)
  <2>1. Covered(b) \/ PlacedAt(sq, b)
    BY <1>1, <1>4 DEF Pending, FrontierPending
  <2>2. CASE PlacedAt(sq, b)
    BY <1>1, <2>2 DEF PlacedAt
  <2>3. QED
    BY <1>2, <2>1, <2>2
<1>8. QED
  BY <1>3, <1>5, <1>6, <1>7 DEF CallsPending, FrontierPending

(* Nothing is given or scanned before the exploration starts. *)
Fresh == pc = "load" => roots = {} /\ scanned = {}

LEMMA FreshStep == Fresh /\ [NextH]_history => Fresh'
<1> SUFFICES ASSUME Fresh, [NextH]_history PROVE Fresh'
  OBVIOUS
<1>1. CASE UNCHANGED history
  BY <1>1 DEF history, state, Fresh
<1>2. CASE NextH
  <2>1. pc' # "load"
    BY <1>2 DEF NextH, SeedH, BeginSeeding, SeedSegment, SeedEntrySegment, SeedRoutine,
       SeedStart, StartAtEntry, TakePoint, Finish, Scan, LeaveImage, HaltScan, RollBack,
       Straddle, ScanPlain, ScanMov, ScanReturn, ScanJump, FarJumpOverflow,
       ScanConditional, ScanCall, Advance, SplitAfter
  <2>2. QED
    BY <2>1 DEF Fresh
<1>3. QED
  BY <1>1, <1>2

LEMMA PendingStep ==
  ASSUME OneSegment, Pending, Fresh, [NextH]_history
  PROVE  Pending'
<1>1. IInv' /\ OwnedBytesAreCode'
  BY HistoryOnly, InvariantKept, OwnedBytesStep DEF Pending
<1> SUFFICES BaseZero' /\ BadCovered' /\ EntrypointsReachable' /\ CallsPending' /\ FrontierPending'
  BY <1>1 DEF Pending
<1>2. CASE UNCHANGED history
  <2>1. /\ sq' = sq /\ code' = code /\ roots' = roots /\ scanned' = scanned
        /\ pc' = pc /\ csip' = csip
    BY <1>2 DEF history, state
  <2>2. Walk!Frontier' = Walk!Frontier
    BY <2>1 DEF Walk!Frontier
  <2>3. QED
    BY <2>1, <2>2 DEF Pending, BaseZero, BadCovered, EntrypointsReachable, CallsPending,
       FrontierPending, Covered, PaddingNop, Extent, EpOf, CallAtHand
<1>3. CASE BeginSeeding /\ UNCHANGED <<roots, scanned>>
  <2>1. /\ sq' = EmptyQueue /\ roots' = {} /\ scanned' = {}
    BY <1>3 DEF BeginSeeding, Fresh
  <2>2. Walk!Frontier' = {}
    BY <2>1, InFrontierNext
  <2>3. QED
    BY <2>1, <2>2 DEF EmptyQueue, BaseZero, BadCovered, EntrypointsReachable, CallsPending,
       FrontierPending, NULL_ROUTINE, BAD_ROUTINE
<1>4. CASE StartAtEntry /\ roots' = roots \cup {Entry.lin} /\ scanned' = scanned
  <2>1. roots' = {Entry.lin} /\ scanned' = {} /\ pc' = "next"
    BY <1>4 DEF StartAtEntry, Fresh
  <2>2. /\ DOMAIN sq'.queue = {1} /\ DOMAIN sq'.entrypoints = {1}
        /\ sq'.queue[1].addr = Entry /\ sq'.queue[1].call /\ sq'.queue[1].idx = 1
        /\ sq'.entrypoints[1].addr = Entry /\ sq'.visited = [b \in Byte |-> NULL_ROUTINE]
    BY <1>4, SeededEntry DEF StartAtEntry
  <2>3. \A d : d \in Walk!Frontier' <=> d = Entry.lin
    BY <2>1, InFrontierNext
  <2>4. BaseZero'
    BY <2>2 DEF BaseZero, OneSegment
  <2>5. BadCovered'
    BY <2>2 DEF BadCovered, NULL_ROUTINE, BAD_ROUTINE
  <2>6. EntrypointsReachable'
    BY <2>2, <2>3 DEF EntrypointsReachable, EpOf
  <2>7. CallsPending' /\ FrontierPending'
    BY <2>2, <2>3 DEF CallsPending, FrontierPending, QueuesCall, PlacedAt
  <2>8. QED
    BY <2>4, <2>5, <2>6, <2>7
<1>5. CASE /\ SeedEntrySegment \/ Finish \/ \E s \in SeedSegs : SeedSegment(s)
           /\ UNCHANGED <<roots, scanned>>
  <2>1. /\ sq' = sq /\ code' = code /\ pc \notin {"scan", "aborted"}
    BY <1>5 DEF SeedEntrySegment, Finish, SeedSegment
  <2>2. Grows(sq, sq') /\ Adds(sq, sq', {})
    BY <2>1, AddsNothing DEF Grows
  <2>3. \A d \in Walk!Frontier' : d \in Walk!Frontier
    BY <1>5, <2>1, InFrontier, InFrontierNext
  <2>4. BaseZero'
    BY <2>1 DEF Pending, BaseZero
  <2>5. QED
    BY <1>5, <2>1, <2>2, <2>3, <2>4, PendingOutside
<1>6. ASSUME NEW a \in SeedPoints, SeedRoutine(a), roots' = roots \cup {a.lin}, scanned' = scanned
      PROVE  BaseZero' /\ BadCovered' /\ EntrypointsReachable' /\ CallsPending' /\ FrontierPending'
  BY <1>6, SeedAssumption, PendingSeeded DEF SeedRoutine, OneSegment
<1>7. CASE SeedStart /\ roots' = roots \cup {Entry.lin} /\ scanned' = scanned
  BY <1>7, EntryAssumption, PendingSeeded DEF SeedStart, OneSegment
<1>8. CASE TakePoint /\ UNCHANGED <<roots, scanned>>
  BY <1>8, PendingTaken
<1>9. CASE /\ Scan /\ roots' = roots
           /\ scanned' = IF Decodes THEN scanned \cup {csip.lin} ELSE scanned
  <2>1. Grows(sq, sq') /\ Adds(sq, sq', Traced)
    BY <1>9, ScanAdds DEF Pending
  <2>2. code' = code /\ scanned \subseteq scanned' /\ (Decodes => csip.lin \in scanned')
    BY <1>9, ScanHistory DEF Pending
  <2>3. \A d \in Traced : d \in Walk!Frontier'
    BY <2>2, InFrontierNext DEF Traced, Decodes
  <2>4. EntrypointsReachable'
    BY <1>9, <2>1, <2>2, <2>3, EntrypointsReachableStep DEF Pending
  <2>5. QED
    BY <1>9, <2>4, BaseZeroScan, BadCoveredScan, CallsPendingScan, FrontierPendingScan
<1>10. ~Decodes \/ pc = "scan"
  BY DEF Decodes, Decoded
<1>11. ASSUME TakePoint \/ Finish
       PROVE  pc = "next"
  BY <1>11 DEF TakePoint, Finish
<1>12. QED
  BY <1>2, <1>3, <1>4, <1>5, <1>6, <1>7, <1>8, <1>9, <1>10, <1>11 DEF NextH, SeedH

(* In a program of one segment whose control flow is all in its            *)
(* instructions, exploration leaves no reachable code unexplored: whatever *)
(* is wiped was scanned and stays so, and what is dropped as visited, as   *)
(* queued or as another routine's entrypoint is covered or still queued.   *)
THEOREM ExploredCompletely == OneSegment => (SpecH => []ExploredAll)
<1> SUFFICES ASSUME OneSegment PROVE SpecH => []ExploredAll
  OBVIOUS
<1>1. InitH => Pending /\ Fresh
  <2>1. InitH => IInv
    BY InvariantAtStart DEF InitH
  <2>2. InitH => \A d : d \notin Walk!Frontier
    BY InFrontier DEF InitH
  <2>3. QED
    BY <2>1, <2>2 DEF InitH, Init, EmptyQueue, Pending, Fresh, OwnedBytesAreCode, BaseZero,
       BadCovered, EntrypointsReachable, CallsPending, FrontierPending, NULL_ROUTINE,
       BAD_ROUTINE
<1>2. Pending /\ Fresh /\ [NextH]_history => (Pending /\ Fresh)'
  BY PendingStep, FreshStep
<1>3. Pending /\ EmptyWhenDone => ExploredAll
  BY DEF Pending, FrontierPending, EmptyWhenDone, PlacedAt, ExploredAll, Covered
<1>4. QED
  BY <1>1, <1>2, <1>3, InvariantOfHistory, PTL DEF SpecH

-----------------------------------------------------------------------------
(* The map built behind an exploration: findSegment.                        *)

(* A table whose segments are in the order of their bases.                 *)
Listed(table) ==
  /\ \E n \in Nat : DOMAIN table = 1..n
  /\ \A i \in DOMAIN table : table[i].addr \in Byte
  /\ \A i, j \in DOMAIN table : i <= j => table[i].addr <= table[j].addr

Bases(table) == {table[i].addr : i \in DOMAIN table}
Holding(table, off) == {s \in Bases(table) : Build!InSegment(off, s)}
Behind(table, off) == {s \in Bases(table) : s > off}

(* The map has the segments of the exploration, in their order. *)
LEMMA MapTableIs ==
  ASSUME segs \in Tables
  PROVE  Listed(MapTable) /\ Bases(MapTable) = Bases(segs)
<1>1. /\ segs \in Seq(Segments) /\ \A i \in DOMAIN segs : segs[i].addr \in Byte
  BY DEF Tables, Distinct
<1>2. PICK n \in Nat : segs \in [1..n -> Segments]
  BY <1>1
<1>3. DOMAIN segs = 1..n
  BY <1>2
<1>4. \A x \in Segments : x.addr \in Int
  BY DEF Segments
<1> DEFINE o == InBaseOrder(segs)
<1>5. o \in [1..n -> Segments] /\ \A j, k \in 1..n : j <= k => o[j].addr <= o[k].addr
  BY <1>2, <1>4, InBaseOrderIs
<1>6. ASSUME NEW k \in 1..n
      PROVE  /\ \E i \in 1..n : o[k] = segs[i]
             /\ \E i \in 1..n : o[i] = segs[k]
  BY <1>2, <1>4, InBaseOrderHas
<1> HIDE DEF o
<1>7. DOMAIN o = 1..n
  BY <1>5
<1>8. Listed(o)
  BY <1>1, <1>3, <1>5, <1>6, <1>7 DEF Listed
<1>9. \A x \in Bases(o) : x \in Bases(segs)
  <2> SUFFICES ASSUME NEW k \in 1..n PROVE o[k].addr \in Bases(segs)
    BY <1>7 DEF Bases
  <2>1. PICK i \in 1..n : o[k] = segs[i]
    BY <1>6
  <2>2. QED
    BY <1>3, <2>1 DEF Bases
<1>10. \A x \in Bases(segs) : x \in Bases(o)
  <2> SUFFICES ASSUME NEW k \in 1..n PROVE segs[k].addr \in Bases(o)
    BY <1>3 DEF Bases
  <2>1. PICK i \in 1..n : o[i] = segs[k]
    BY <1>6
  <2>2. QED
    BY <1>7, <2>1 DEF Bases
<1>11. QED
  BY <1>8, <1>9, <1>10 DEF MapTable, o

LEMMA BasesInImage ==
  ASSUME NEW table, Listed(table)
  PROVE  Bases(table) \subseteq Byte
BY DEF Listed, Bases

(* The last of the list is the one with the highest base. *)
LEMMA FindSegmentIs ==
  ASSUME NEW table, Listed(table), NEW off \in Nat, Holding(table, off) # {}
  PROVE  /\ Build!FindSegment(table, off) \in Holding(table, off)
         /\ \A t \in Holding(table, off) : t <= Build!FindSegment(table, off)
<1> DEFINE S == Build!Containing(table, off)
<1>1. PICK n \in Nat : DOMAIN table = 1..n
  BY DEF Listed
<1>2. S \subseteq Nat /\ S # {} /\ S \subseteq DOMAIN table /\ \A s \in S : s <= n
  BY <1>1 DEF Build!Containing, Holding, Bases
<1>3. \A t \in Holding(table, off) : \E i \in S : t = table[i].addr
  BY DEF Build!Containing, Holding, Bases
<1>4. \A i \in S : table[i].addr \in Holding(table, off)
  BY DEF Build!Containing, Holding, Bases
<1>5. Build!FindSegment(table, off)
        = IF S = {} THEN Build!NoSegment ELSE table[CHOOSE i \in S : \A j \in S : j <= i].addr
  BY DEF Build!FindSegment
<1> HIDE DEF S
<1>6. \E i \in S : \A j \in S : i >= j
  BY <1>1, <1>2, GreatestExists
<1>7. \E i \in S : \A j \in S : j <= i
  BY <1>2, <1>6
<1>8. PICK i \in S : (\A j \in S : j <= i) /\ Build!FindSegment(table, off) = table[i].addr
  BY <1>2, <1>5, <1>7
<1>9. \A j \in S : table[j].addr <= table[i].addr
  BY <1>2, <1>8 DEF Listed
<1>10. QED
  BY <1>3, <1>4, <1>8, <1>9

LEMMA FindSegmentPastIs ==
  ASSUME NEW table, Listed(table), NEW off \in Nat, Behind(table, off) # {}
  PROVE  Build!FindSegmentPast(table, off) \in Byte
<1> DEFINE S == Build!Past(table, off)
<1>1. S \subseteq Nat /\ S # {} /\ S \subseteq DOMAIN table
  BY DEF Listed, Build!Past, Behind, Bases
<1>2. Build!FindSegmentPast(table, off)
        = IF S = {} THEN Build!NoSegment ELSE table[CHOOSE i \in S : \A j \in S : i <= j].addr
  BY DEF Build!FindSegmentPast
<1> HIDE DEF S
<1>3. \E s \in S : \A t \in S : s <= t
  BY <1>1, LeastExists
<1>4. QED
  BY <1>1, <1>2, <1>3 DEF Listed

LEMMA NoneHeld ==
  ASSUME NEW table, NEW off
  PROVE  /\ Holding(table, off) = {} <=> Build!Containing(table, off) = {}
         /\ Behind(table, off) = {} <=> Build!Past(table, off) = {}
BY DEF Holding, Behind, Bases, Build!Containing, Build!Past

LEMMA NoSegmentIs ==
  ASSUME NEW table, Listed(table), NEW off \in Nat
  PROVE  Build!FindSegment(table, off) = Build!NoSegment <=> Holding(table, off) = {}
<1>1. Build!NoSegment \notin Byte
  BY SizeAssumption DEF Build!NoSegment, Byte
<1>2. Holding(table, off) \subseteq Byte
  BY BasesInImage DEF Holding
<1>3. QED
  BY <1>1, <1>2, FindSegmentIs, NoneHeld DEF Build!FindSegment

(* Another segment begins to contain the bytes only where it begins.       *)
LEMMA NewSegmentBegins ==
  ASSUME NEW table, Listed(table), NEW k \in Nat \ {0},
         Holding(table, k - 1) # {}, Holding(table, k) # {},
         Build!FindSegment(table, k) # Build!FindSegment(table, k - 1)
  PROVE  Build!FindSegment(table, k) = k
<1> DEFINE s == Build!FindSegment(table, k - 1)
           t == Build!FindSegment(table, k)
<1>1. k - 1 \in Nat /\ k \in Nat
  OBVIOUS
<1>2. /\ s \in Holding(table, k - 1)
      /\ \A x \in Holding(table, k - 1) : x <= s
  BY <1>1, FindSegmentIs
<1>3. /\ t \in Holding(table, k)
      /\ \A x \in Holding(table, k) : x <= t
  BY <1>1, FindSegmentIs
<1>4. s \in Nat /\ t \in Nat
  BY <1>2, <1>3, BasesInImage, SizeAssumption DEF Holding, Byte
<1> HIDE DEF s, t
<1>5. CASE t < k
  <2>1. t \in Holding(table, k - 1)
    BY <1>3, <1>4, <1>5, SizeAssumption DEF Holding, Build!InSegment
  <2>2. t < s
    BY <2>1, <1>2, <1>4 DEF s, t
  <2>3. s \notin Holding(table, k)
    BY <2>2, <1>3, <1>4
  <2>4. FALSE
    BY <2>2, <2>3, <1>2, <1>3, <1>4, SizeAssumption DEF Holding, Build!InSegment
  <2>5. QED
    BY <2>4
<1>6. t <= k
  BY <1>3, <1>4 DEF Holding, Build!InSegment
<1>7. QED
  BY <1>4, <1>5, <1>6 DEF t

(* Behind a byte in no segment that no segment follows there is none.      *)
LEMMA NothingBehind ==
  ASSUME NEW table, Listed(table), NEW k \in Nat, NEW b \in Nat, b >= k,
         Holding(table, k) = {}, Behind(table, k) = {}
  PROVE  Holding(table, b) = {}
<1> SUFFICES ASSUME NEW s \in Holding(table, b) PROVE FALSE
  OBVIOUS
<1>1. s \in Bases(table) /\ s \in Nat /\ b - s < SegSize
  BY BasesInImage, SizeAssumption DEF Holding, Build!InSegment, Byte
<1>2. s <= k
  BY <1>1 DEF Behind
<1>3. s \in Holding(table, k)
  BY <1>1, <1>2, SizeAssumption DEF Holding, Build!InSegment
<1>4. QED
  BY <1>3
-----------------------------------------------------------------------------
(* The map's shape.                                                        *)

Ranges(blocks) == \A b \in blocks : b.lo \in Byte /\ b.hi \in Byte /\ b.lo <= b.hi

Shaped(m) ==
  /\ m \in Build!Maps /\ m.start = 0
  /\ m.off \in 0..CodeSize
  /\ m.open = Build!InvalidAddr \/ m.open.lin \in 0..CodeSize
  /\ Ranges(m.blocks)

(* Closing a block changes the blocks, the status and what was before.     *)
Closed(m, c) ==
  /\ c \in Build!Maps /\ Ranges(c.blocks)
  /\ c.start = m.start
  /\ c.off = m.off /\ c.open = m.open /\ c.seg = m.seg /\ c.only = m.only
  /\ c.curId = m.curId /\ c.prevId = m.prevId /\ c.curBlockId = m.curBlockId

LEMMA OwnerType ==
  ASSUME NEW m \in Build!Maps
  PROVE  Build!OwnerOf(m) \in Int /\ Build!KindOf(m) \in Build!BlockKinds
BY DEF Build!Maps, Build!OwnerOf, Build!KindOf, Build!BlockKinds, Build!RoutineIds,
       Build!NULL_ROUTINE

LEMMA CloseBlockType ==
  ASSUME NEW m \in Build!Maps, m.open = Build!InvalidAddr \/ m.open.lin \in 0..CodeSize,
         Ranges(m.blocks), NEW next \in 0..CodeSize
  PROVE  Closed(m, Build!CloseBlock(m, sq, next))
<1> DEFINE c == Build!CloseBlock(m, sq, next)
           b == [kind |-> Build!KindOf(m), idx |-> Build!OwnerOf(m),
                 lo |-> m.open.lin, hi |-> next - 1]
           f == [m EXCEPT !.status = "failed"]
           g == [m EXCEPT !.blocks = IF Build!Known(m) THEN @ ELSE @ \cup {b},
                          !.prevBlockId = m.curBlockId]
<1>1. Closed(m, m)
  BY DEF Closed
<1>2. Closed(m, f)
  BY DEF Closed, Build!Maps
<1>3. ASSUME Build!IsValid(m.open), next >= m.open.lin, next # m.open.lin
      PROVE  Closed(m, g)
  <2>1. m.open.lin \in 0..CodeSize
    BY <1>3 DEF Build!IsValid
  <2>2. b.lo \in Byte /\ b.hi \in Byte /\ b.lo <= b.hi
    BY <1>3, <2>1, SizeAssumption DEF Byte
  <2>3. b \in Build!Blocks
    BY <2>2, OwnerType, SizeAssumption DEF Build!Blocks, Build!RoutineIds, Byte
  <2> DEFINE bs == IF Build!Known(m) THEN m.blocks ELSE m.blocks \cup {b}
  <2> HIDE DEF b
  <2>4. bs \in SUBSET Build!Blocks /\ Ranges(bs)
    BY <2>2, <2>3 DEF Build!Maps, Ranges
  <2>5. m.curBlockId \in Build!RoutineIds
    BY DEF Build!Maps
  <2>6. g = [m EXCEPT !.blocks = bs, !.prevBlockId = m.curBlockId]
    OBVIOUS
  <2> HIDE DEF bs, g
  <2>7. g \in Build!Maps
    BY <2>4, <2>5, <2>6 DEF Build!Maps
  <2>8. g.blocks = bs
    BY <2>6 DEF Build!Maps
  <2>9. QED
    BY <2>4, <2>6, <2>7, <2>8 DEF Closed, Build!Maps
<1>4. c = m \/ c = f \/ (c = g /\ Build!IsValid(m.open) /\ next # m.open.lin /\ ~(next < m.open.lin))
  BY DEF Build!CloseBlock
<1>5. Build!IsValid(m.open) => m.open.lin \in Int
  BY DEF Build!IsValid
<1> HIDE DEF c, f, g
<1>6. QED
  BY <1>1, <1>2, <1>3, <1>4, <1>5 DEF c

LEMMA FirstOpen == Build!LinearAddr(0) = [seg |-> 0, lin |-> 0]
<1>1. 0 \div SegSize = 0
  BY SizeAssumption
<1>2. QED
  BY <1>1, SizeAssumption DEF Build!LinearAddr

LEMMA NewMapShaped == Shaped(Build!NewMap(FALSE, 0))
BY SizeAssumption, FirstOpen
   DEF Shaped, Ranges, Build!NewMap, Build!Maps, Build!Addresses, Build!RoutineIds,
       Build!NULL_ROUTINE, Build!NoSegment, Build!InvalidAddr, Build!Blocks
LEMMA ClosedShaped ==
  ASSUME NEW m, Shaped(m), NEW next \in 0..CodeSize
  PROVE  LET c == Build!CloseBlock(m, sq, next)
         IN  Shaped(c) /\ Closed(m, c)
BY CloseBlockType DEF Shaped, Closed

LEMMA SkipGapType ==
  ASSUME NEW m, Shaped(m), m.off \in Byte, NEW table, Listed(table),
         Build!FindSegment(table, m.off) # Build!NoSegment
           \/ Build!FindSegmentPast(table, m.off) # Build!NoSegment
  PROVE  LET s == Build!SkipGap(m, sq, table) IN Shaped(s) /\ s.off \in Byte
<1> DEFINE c == Build!CloseBlock(m, sq, m.off)
<1>1. m.off \in 0..CodeSize /\ m.off \in Nat
  BY SizeAssumption DEF Shaped, Byte
<1>2. Shaped(c) /\ c.off = m.off
  BY <1>1, ClosedShaped DEF Closed
<1> HIDE DEF c
<1>3. CASE Build!FindSegment(table, m.off) # Build!NoSegment
  BY <1>3 DEF Build!SkipGap
<1>4. CASE Build!FindSegment(table, m.off) = Build!NoSegment
  <2> DEFINE past == Build!FindSegmentPast(table, m.off)
  <2>1. past \in Byte
    BY <1>1, <1>4, FindSegmentPastIs, NoneHeld DEF Build!FindSegmentPast
  <2>2. past \in 0..CodeSize
    BY <2>1, SizeAssumption DEF Byte
  <2> HIDE DEF past
  <2>3. Build!SkipGap(m, sq, table) = [c EXCEPT !.open = Build!InvalidAddr, !.off = past]
    BY <1>4 DEF Build!SkipGap, c, past
  <2> DEFINE r == [c EXCEPT !.open = Build!InvalidAddr, !.off = past]
  <2>4. Build!InvalidAddr \in Build!Addresses /\ past \in Int
    BY <2>2 DEF Build!Addresses, Build!InvalidAddr
  <2>5. /\ r \in Build!Maps /\ r.off = past /\ r.open = Build!InvalidAddr
        /\ r.blocks = c.blocks /\ r.start = c.start
    BY <1>2, <2>4 DEF Shaped, Build!Maps
  <2> HIDE DEF r
  <2>6. Build!SkipGap(m, sq, table) = r
    BY <2>3 DEF r
  <2>7. QED
    BY <1>2, <2>1, <2>2, <2>5, <2>6 DEF Shaped
<1>5. QED
  BY <1>3, <1>4

LEMMA ChangeSegmentType ==
  ASSUME NEW m, Shaped(m), m.off \in Byte, NEW seg \in Int
  PROVE  LET s == Build!ChangeSegment(m, sq, seg) IN Shaped(s) /\ s.off = m.off
<1> DEFINE c == Build!CloseBlock(m, sq, m.off)
           o == IF m.curId = m.prevId THEN [seg |-> seg, lin |-> m.off] ELSE Build!InvalidAddr
<1>1. m.off \in 0..CodeSize
  BY DEF Shaped
<1>2. Shaped(c) /\ c.off = m.off
  BY <1>1, ClosedShaped DEF Closed
<1>3. o \in Build!Addresses /\ (o = Build!InvalidAddr \/ o.lin \in 0..CodeSize)
  BY <1>1 DEF Build!Addresses, Build!InvalidAddr
<1> HIDE DEF c, o
<1>4. Build!ChangeSegment(m, sq, seg) \in
        {m, [m EXCEPT !.seg = seg], [c EXCEPT !.seg = seg, !.open = o]}
  BY DEF Build!ChangeSegment, c, o
<1>5. QED
  BY <1>2, <1>3, <1>4 DEF Shaped, Build!Maps

LEMMA ChangeOwnerType ==
  ASSUME NEW m, Shaped(m), m.off \in Byte
  PROVE  LET s == Build!ChangeOwner(m, sq) IN Shaped(s) /\ s.off = m.off
<1> DEFINE c == IF m.off = m.start THEN m ELSE Build!CloseBlock(m, sq, m.off)
           o == [seg |-> m.seg, lin |-> m.off]
<1>1. m.off \in 0..CodeSize /\ m \in Build!Maps
  BY DEF Shaped
<1>2. Shaped(c) /\ c.off = m.off
  BY <1>1, ClosedShaped DEF Closed
<1>3. o \in Build!Addresses /\ o.lin \in 0..CodeSize /\ m.curId \in Build!RoutineIds
  BY <1>1 DEF Build!Addresses, Build!Maps
<1> HIDE DEF c, o
<1>4. Build!ChangeOwner(m, sq) \in
        {m, [c EXCEPT !.open = o, !.curBlockId = m.curId, !.prevId = m.curId]}
  BY DEF Build!ChangeOwner, c, o
<1>5. QED
  BY <1>2, <1>3, <1>4 DEF Shaped, Build!Maps

LEMMA MapByteType ==
  ASSUME Shaped(cm), sq \in Queues, Listed(MapTable), ~Build!LastByteMapped(cm, sq, MapTable)
  PROVE  Shaped(Build!MapByte(cm, sq, MapTable))
<1> DEFINE read == [cm EXCEPT !.curId = sq.visited[cm.off]]
           skipped == Build!SkipGap(read, sq, MapTable)
           entered == Build!ChangeSegment(skipped, sq, Build!FindSegment(MapTable, skipped.off))
           split == Build!ChangeOwner(entered, sq)
<1>1. cm.off \in Byte
  BY DEF Build!LastByteMapped, Queues, ScanQueues
<1>2. Shaped(read) /\ read.off = cm.off
  BY <1>1 DEF Shaped, Build!Maps, Queues, ScanQueues, RoutineIds, Build!RoutineIds
<1> HIDE DEF read
<1>3. Shaped(skipped) /\ skipped.off \in Byte
  BY <1>1, <1>2, SkipGapType DEF Build!LastByteMapped
<1> HIDE DEF skipped
<1>4. Build!FindSegment(MapTable, skipped.off) \in Int
  <2>1. skipped.off \in Nat
    BY <1>3, SizeAssumption DEF Byte
  <2>2. CASE Holding(MapTable, skipped.off) = {}
    BY <2>2, NoneHeld DEF Build!FindSegment, Build!NoSegment
  <2>3. CASE Holding(MapTable, skipped.off) # {}
    BY <2>1, <2>3, FindSegmentIs, BasesInImage, SizeAssumption DEF Holding, Byte
  <2>4. QED
    BY <2>2, <2>3
<1>5. Shaped(entered) /\ entered.off \in Byte
  BY <1>3, <1>4, ChangeSegmentType
<1> HIDE DEF entered
<1>6. Shaped(split) /\ split.off \in Byte
  BY <1>5, ChangeOwnerType
<1> HIDE DEF split
<1>7. split.off + 1 \in 0..CodeSize
  BY <1>6, SizeAssumption DEF Byte
<1>8. Build!MapByte(cm, sq, MapTable) = [split EXCEPT !.off = @ + 1]
  BY DEF Build!MapByte, read, skipped, entered, split
<1>9. QED
  BY <1>6, <1>7, <1>8 DEF Shaped, Build!Maps

(* Exploration's map ends where its byte map does. *)
LEMMA EndOfImage ==
  ASSUME Shaped(cm), sq \in Queues, cm.off \notin DOMAIN sq.visited
  PROVE  cm.off = CodeSize
<1>1. cm.off \in 0..CodeSize /\ cm.off \notin Byte
  BY DEF Shaped, Queues, ScanQueues
<1>2. QED
  BY <1>1, SizeAssumption DEF Byte

LEMMA FinishMapType ==
  ASSUME Shaped(cm), sq \in Queues
  PROVE  Shaped(Build!FinishMap(cm, sq, CodeSize))
<1> DEFINE read == IF cm.off \in DOMAIN sq.visited
                   THEN [cm EXCEPT !.curId = sq.visited[cm.off]] ELSE cm
           closed == Build!CloseBlock(read, sq, cm.off)
<1>1. Shaped(read) /\ cm.off \in 0..CodeSize
  BY DEF Shaped, Build!Maps, Queues, ScanQueues, RoutineIds, Build!RoutineIds
<1> HIDE DEF read
<1>2. Shaped(closed)
  BY <1>1, ClosedShaped
<1> HIDE DEF closed
<1>3. Build!FinishMap(cm, sq, CodeSize) \in {closed, [closed EXCEPT !.status = "mapped"]}
  <2>1. cm.off \notin DOMAIN sq.visited => cm.off = CodeSize
    BY EndOfImage
  <2>2. QED
    BY <2>1 DEF Build!FinishMap, read, closed
<1>4. QED
  BY <1>2, <1>3 DEF Shaped, Build!Maps
-----------------------------------------------------------------------------
(* What the blocks say while the bytes are walked over.                    *)

(* The segments leave no gap before code: a byte in no segment is behind   *)
(* all of them, and no routine owns it.  Over a gap the walk is wrong (the *)
(* owner is read before it, see ExploreMapGap).                            *)
SegmentsCover ==
  \A b \in Byte :
    \/ Holding(segs, b) # {}
    \/ Behind(segs, b) = {} /\ sq.visited[b] <= NULL_ROUTINE

EntryAt(lin) == \E r \in DOMAIN sq.entrypoints : sq.entrypoints[r].addr.lin = lin

(* Code that its routine's segment does not reach. *)
Straddling ==
  \E b \in Byte : /\ sq.visited[b] > NULL_ROUTINE
                  /\ ~InSegment(b, sq.entrypoints[sq.visited[b]].addr.seg)

(* A block has the owner of its bytes, or none and the routine around it.  *)
Told(b) ==
  /\ b.kind = "reachable" =>
       b.idx > NULL_ROUTINE /\ \A x \in BlockBytes(b) : sq.visited[x] = b.idx
  /\ b.kind # "reachable" => \A x \in BlockBytes(b) : sq.visited[x] <= NULL_ROUTINE
  /\ b.kind = "unreachable" => sq.visited[b.lo - 1] = b.idx /\ sq.visited[b.hi + 1] = b.idx

(* The bytes before n are parted into blocks that begin at entrypoints.    *)
Parted(blocks, n) ==
  /\ \A b \in blocks : b.hi < n /\ Told(b)
  /\ \A a, b \in blocks : a # b => BlockBytes(a) \cap BlockBytes(b) = {}
  /\ \A x \in 0..(n - 1) : \E b \in blocks : x \in BlockBytes(b)
  /\ \A x \in 0..(n - 1) : EntryAt(x) => \E b \in blocks : b.lo = x

(* The bytes from the open place up to k have one owner, no entrypoint but *)
(* the first and one segment.                                              *)
OpenTo(m, k) ==
  /\ m.open.lin \in 0..(k - 1)
  /\ \A x \in (m.open.lin)..(k - 1) : sq.visited[x] = m.curBlockId
  /\ \A x \in (m.open.lin + 1)..(k - 1) : ~EntryAt(x)
  /\ m.prevId = m.curBlockId
  /\ m.prevBlockId = IF m.open.lin = 0 THEN NULL_ROUTINE ELSE sq.visited[m.open.lin - 1]
  /\ m.open.seg = m.seg /\ m.seg <= m.open.lin /\ m.seg \in Nat
  /\ Holding(MapTable, k - 1) # {} /\ m.seg = Build!FindSegment(MapTable, k - 1)

Walking(m, k) ==
  /\ Shaped(m) /\ ~m.only /\ m.status = "mapping"
  /\ k \in 1..CodeSize /\ OpenTo(m, k) /\ Parted(m.blocks, m.open.lin)

(* Closing the open block parts the bytes up to k, or fails for code that  *)
(* its routine's segment does not reach.                                   *)
LEMMA CloseBlockParts ==
  ASSUME sq \in Queues, Listed(MapTable), NEW m, NEW k, Walking(m, k),
         m.curId > NULL_ROUTINE /\ m.curBlockId <= NULL_ROUTINE
           => k \in Byte /\ sq.visited[k] = m.curId
  PROVE  LET c == Build!CloseBlock(m, sq, k)
         IN  \/ c.status = "failed" /\ Straddling
             \/ /\ c.status = "mapping" /\ Parted(c.blocks, k)
                /\ c.prevBlockId = sq.visited[k - 1]
<1> DEFINE lo == m.open.lin
           hi == k - 1
           r == Build!OwnerOf(m)
           b == [kind |-> Build!KindOf(m), idx |-> r, lo |-> lo, hi |-> hi]
           home == Build!HomeOf(m, sq)
<1>1. /\ m \in Build!Maps /\ Ranges(m.blocks) /\ k \in Nat \ {0} /\ k <= CodeSize
      /\ lo \in Nat /\ lo < k /\ lo \in Byte /\ hi \in Byte /\ hi \in Nat /\ lo <= hi
      /\ m.status = "mapping" /\ ~m.only /\ m.curBlockId \in Int /\ m.prevBlockId \in Int
      /\ m.curId \in Int /\ m.seg \in Nat
  BY SizeAssumption DEF Walking, Shaped, OpenTo, Build!Maps, Build!RoutineIds, Byte
<1>2. sq.visited \in [Byte -> Int] /\ OwnersKnown(sq) /\ EntrypointsNumbered(sq)
  BY DEF Queues, ScanQueues, Consistent, RoutineIds
<1>3. Build!IsValid(m.open) /\ k # lo /\ ~(k < lo)
  BY <1>1 DEF Build!IsValid, Build!InvalidAddr
<1>4. \A x \in lo..hi : x \in Byte /\ sq.visited[x] = m.curBlockId
  BY <1>1, SizeAssumption DEF Walking, OpenTo, Byte
<1>5. InSegment(lo, m.seg) /\ InSegment(hi, m.seg) /\ Build!InSegment(hi, m.open.seg)
  <2>1. m.seg \in Holding(MapTable, hi) /\ m.open.seg = m.seg /\ m.seg <= lo
    BY <1>1, FindSegmentIs DEF Walking, OpenTo
  <2>2. hi - m.seg < SegSize /\ hi >= m.seg
    BY <2>1 DEF Holding, Build!InSegment
  <2>3. QED
    BY <1>1, <2>1, <2>2, SizeAssumption DEF InSegment, Build!InSegment
<1>6. \/ b.kind = "reachable" /\ r = m.curBlockId /\ m.curBlockId > NULL_ROUTINE
      \/ /\ b.kind = "unreachable" /\ r = m.prevBlockId /\ m.prevBlockId > NULL_ROUTINE
         /\ m.curBlockId <= NULL_ROUTINE /\ m.curId = m.prevBlockId
      \/ b.kind = "unclaimed" /\ r = NULL_ROUTINE /\ m.curBlockId <= NULL_ROUTINE
  BY <1>1 DEF Build!KindOf, Build!OwnerOf, NULL_ROUTINE, Build!NULL_ROUTINE
<1>7. ASSUME b.kind = "unreachable"
      PROVE  /\ lo - 1 \in Byte /\ sq.visited[lo - 1] = r
             /\ hi + 1 \in Byte /\ sq.visited[hi + 1] = r /\ r > NULL_ROUTINE
  <2>1. r = m.prevBlockId /\ r > NULL_ROUTINE /\ m.curBlockId <= NULL_ROUTINE /\ m.curId = r
    BY <1>6, <1>7
  <2>2. k \in Byte /\ sq.visited[k] = r /\ hi + 1 = k
    BY <2>1, <1>1
  <2>3. lo # 0 /\ sq.visited[lo - 1] = r
    BY <2>1 DEF Walking, OpenTo, NULL_ROUTINE
  <2>4. QED
    BY <1>1, <2>1, <2>2, <2>3, SizeAssumption DEF Byte
<1>8. Told(b)
  <2> USE DEF BlockBytes
  <2>1. BlockBytes(b) = lo..hi
    OBVIOUS
  <2>2. QED
    BY <1>4, <1>6, <1>7, <2>1 DEF Told
<1>9. CASE Build!Fits(lo, hi, home)
  <2>1. Build!CloseBlock(m, sq, k) =
          [m EXCEPT !.blocks = @ \cup {b}, !.prevBlockId = m.curBlockId]
    BY <1>1, <1>3, <1>5, <1>9 DEF Build!CloseBlock, Build!Known
  <2> DEFINE c == Build!CloseBlock(m, sq, k)
  <2>2. c.status = "mapping" /\ c.blocks = m.blocks \cup {b} /\ c.prevBlockId = sq.visited[k - 1]
    BY <1>1, <1>4, <2>1 DEF Build!Maps
  <2> HIDE DEF c
  <2>3. b.lo = lo /\ b.hi = hi /\ BlockBytes(b) = lo..hi
    BY DEF BlockBytes
  <2>4. \A a \in m.blocks : /\ a.hi < lo /\ Told(a) /\ a.lo \in Nat /\ a.hi \in Nat
                            /\ a.hi < k /\ BlockBytes(a) \cap (lo..hi) = {}
    <3>1. \A a \in m.blocks : a.hi < lo /\ Told(a) /\ a.lo \in Byte /\ a.hi \in Byte
      BY <1>1 DEF Walking, Parted, Ranges
    <3>2. QED
      BY <1>1, <3>1, SizeAssumption DEF BlockBytes, Byte
  <2> HIDE DEF b
  <2>5. \A a \in c.blocks : a.hi < k /\ Told(a)
    BY <1>1, <1>8, <2>2, <2>3, <2>4
  <2>6. \A a, d \in c.blocks : a # d => BlockBytes(a) \cap BlockBytes(d) = {}
    <3>1. \A a, d \in m.blocks : a # d => BlockBytes(a) \cap BlockBytes(d) = {}
      BY DEF Walking, Parted
    <3>2. QED
      BY <2>2, <2>3, <2>4, <3>1
  <2>7. \A x \in 0..(k - 1) : \E a \in c.blocks : x \in BlockBytes(a)
    <3>1. \A x \in 0..(lo - 1) : \E a \in m.blocks : x \in BlockBytes(a)
      BY DEF Walking, Parted
    <3>2. \A x \in 0..(k - 1) : x \in 0..(lo - 1) \/ x \in lo..hi
      BY <1>1
    <3>3. QED
      BY <2>2, <2>3, <3>1, <3>2
  <2>8. \A x \in 0..(k - 1) : EntryAt(x) => \E a \in c.blocks : a.lo = x
    <3>1. \A x \in 0..(lo - 1) : EntryAt(x) => \E a \in m.blocks : a.lo = x
      BY DEF Walking, Parted
    <3>2. \A x \in (lo + 1)..(k - 1) : ~EntryAt(x)
      BY DEF Walking, OpenTo
    <3>3. \A x \in 0..(k - 1) : x \in 0..(lo - 1) \/ x = lo \/ x \in (lo + 1)..(k - 1)
      BY <1>1
    <3>4. QED
      BY <2>2, <2>3, <3>1, <3>2, <3>3
  <2>9. QED
    BY <2>2, <2>5, <2>6, <2>7, <2>8 DEF c, Parted
<1>10. CASE ~Build!Fits(lo, hi, home)
  <2>1. Build!CloseBlock(m, sq, k).status = "failed"
    BY <1>1, <1>3, <1>5, <1>10 DEF Build!CloseBlock, Build!Maps
  <2>2. r # NULL_ROUTINE /\ home = sq.entrypoints[r].addr.seg
    BY <1>5, <1>10 DEF Build!HomeOf, Build!Fits, InSegment, Build!InSegment, Walking, OpenTo,
                       NULL_ROUTINE, Build!NULL_ROUTINE
  <2>3. ~InSegment(lo, home) \/ ~InSegment(hi, home)
    BY <1>10 DEF Build!Fits, InSegment, Build!InSegment
  <2>4. CASE b.kind = "reachable"
    <3>1. \A x \in lo..hi : x \in Byte /\ sq.visited[x] = r /\ r > NULL_ROUTINE
      BY <1>4, <1>6, <2>4
    <3>2. lo \in lo..hi /\ hi \in lo..hi
      BY <1>1
    <3>3. QED
      BY <2>1, <2>2, <2>3, <3>1, <3>2 DEF Straddling
  <2>5. CASE b.kind = "unreachable"
    <3>1. sq.visited[lo - 1] = r /\ sq.visited[hi + 1] = r /\ r \in DOMAIN sq.entrypoints
      BY <1>2, <1>7, <2>5 DEF OwnersKnown, BAD_ROUTINE, NULL_ROUTINE
    <3>2. home \in Int
      <4>1. sq.entrypoints \in Seq(Entrypoints)
        BY DEF Queues, ScanQueues
      <4>2. sq.entrypoints[r] \in Entrypoints
        BY <3>1, <4>1
      <4>3. QED
        BY <2>2, <4>2 DEF Entrypoints, Addresses
    <3>3. ~InSegment(lo - 1, home) \/ ~InSegment(hi + 1, home)
      BY <1>1, <2>3, <3>2, SizeAssumption DEF InSegment
    <3>4. QED
      BY <1>7, <2>1, <2>2, <2>5, <3>1, <3>3 DEF Straddling
  <2>6. QED
    BY <1>6, <2>2, <2>4, <2>5
<1>11. QED
  BY <1>9, <1>10
(* A block opened at k. *)
LEMMA OpenedAt ==
  ASSUME Listed(MapTable), NEW k \in Byte, Holding(MapTable, k) # {},
         NEW n, Shaped(n), ~n.only, n.status = "mapping",
         n.seg = Build!FindSegment(MapTable, k), n.open.seg = n.seg, n.open.lin = k,
         n.prevId = n.curBlockId, n.curBlockId = sq.visited[k],
         n.prevBlockId = IF k = 0 THEN NULL_ROUTINE ELSE sq.visited[k - 1],
         Parted(n.blocks, k)
  PROVE  Walking(n, k + 1)
<1>1. k \in Nat /\ k + 1 \in 1..CodeSize /\ (k + 1) - 1 = k
  BY SizeAssumption DEF Byte
<1>2. n.seg \in Holding(MapTable, k)
  BY <1>1, FindSegmentIs
<1>3. n.seg \in Nat /\ n.seg <= k
  BY <1>1, <1>2, BasesInImage, SizeAssumption DEF Holding, Build!InSegment, Byte
<1>4. k \in 0..k /\ k..k = {k} /\ (k + 1)..k = {}
  BY <1>1
<1>5. OpenTo(n, k + 1)
  BY <1>1, <1>3, <1>4 DEF OpenTo
<1>6. QED
  BY <1>1, <1>5 DEF Walking

(* A block that goes on at k. *)
LEMMA OpenGoesOn ==
  ASSUME NEW m, NEW k \in Byte, Walking(m, k), Holding(MapTable, k) # {},
         m.seg = Build!FindSegment(MapTable, k), sq.visited[k] = m.curBlockId, ~EntryAt(k),
         NEW n, Shaped(n), n.only = m.only, n.status = m.status, n.open = m.open,
         n.seg = m.seg, n.blocks = m.blocks, n.prevId = m.prevId,
         n.curBlockId = m.curBlockId, n.prevBlockId = m.prevBlockId
  PROVE  Walking(n, k + 1)
<1>1. k \in Nat /\ k + 1 \in 1..CodeSize /\ (k + 1) - 1 = k /\ k \in 1..CodeSize
  BY SizeAssumption DEF Byte, Walking
<1>2. m.open.lin \in 0..(k - 1) /\ m.open.lin \in Nat
  BY DEF Walking, OpenTo
<1>3. \A x \in (m.open.lin)..k : x = k \/ x \in (m.open.lin)..(k - 1)
  BY <1>1, <1>2
<1>4. \A x \in (m.open.lin + 1)..k : x = k \/ x \in (m.open.lin + 1)..(k - 1)
  BY <1>1, <1>2
<1>5. OpenTo(n, k + 1)
  BY <1>1, <1>2, <1>3, <1>4 DEF Walking, OpenTo
<1>6. QED
  BY <1>1, <1>5 DEF Walking

LEMMA EntrypointSeen ==
  ASSUME sq \in Queues, NEW k, Build!IsEntrypoint(sq, k) = Build!NULL_ROUTINE
  PROVE  ~EntryAt(k)
<1>1. EntrypointsNumbered(sq) /\ DOMAIN sq.entrypoints \subseteq Nat \ {0}
  BY DEF Queues, Consistent, ScanQueues
<1>2. SUFFICES ASSUME NEW i \in DOMAIN sq.entrypoints, sq.entrypoints[i].addr.lin = k
               PROVE  FALSE
  BY DEF EntryAt
<1>3. \A j \in DOMAIN sq.entrypoints : sq.entrypoints[j].addr.lin = k => i = j
  BY <1>1, <1>2 DEF EntrypointsNumbered
<1>4. i <= i
  BY <1>1
<1> DEFINE c == CHOOSE x \in DOMAIN sq.entrypoints :
                  /\ sq.entrypoints[x].addr.lin = k
                  /\ \A j \in DOMAIN sq.entrypoints : sq.entrypoints[j].addr.lin = k => x <= j
<1>5. c \in DOMAIN sq.entrypoints
  BY <1>2, <1>3, <1>4
<1>6. Build!IsEntrypoint(sq, k) = sq.entrypoints[c].idx
  BY <1>2 DEF Build!IsEntrypoint, Build!KnownEntrypoint
<1> HIDE DEF c
<1>7. sq.entrypoints[c].idx = c
  BY <1>1, <1>5 DEF EntrypointsNumbered
<1>8. QED
  BY <1>1, <1>5, <1>6, <1>7 DEF Build!NULL_ROUTINE
-----------------------------------------------------------------------------
(* One byte.                                                               *)

(* The walk has got past one more byte, or was stopped by such code.       *)
Walked(n, k) ==
  /\ Shaped(n) /\ ~n.only
  /\ \/ n.status = "failed" /\ Straddling
     \/ /\ n.status = "mapping" /\ n.off = k + 1 /\ Walking(n, k + 1)
        /\ n.curId = n.curBlockId

(* A byte that is in a segment: no gap is skipped. *)
LEMMA MapByteInSegment ==
  ASSUME sq \in Queues, Listed(MapTable), NEW k \in Byte, cm.off = k, Shaped(cm),
         Holding(MapTable, k) # {}
  PROVE  LET t == Build!FindSegment(MapTable, k)
             read == [cm EXCEPT !.curId = sq.visited[k]]
             entered == Build!ChangeSegment(read, sq, t)
             split == Build!ChangeOwner(entered, sq)
         IN  /\ Build!MapByte(cm, sq, MapTable) = [split EXCEPT !.off = @ + 1]
             /\ Shaped(read) /\ read.off = k /\ read.curId = sq.visited[k]
             /\ Shaped(entered) /\ entered.off = k
             /\ Shaped(split) /\ split.off = k
             /\ t \in Byte /\ t <= k /\ Build!InSegment(k, t)
<1> DEFINE t == Build!FindSegment(MapTable, k)
           read == [cm EXCEPT !.curId = sq.visited[k]]
           entered == Build!ChangeSegment(read, sq, t)
           split == Build!ChangeOwner(entered, sq)
<1>1. k \in Nat
  BY SizeAssumption DEF Byte
<1>2. t \in Holding(MapTable, k) /\ t # Build!NoSegment
  BY <1>1, FindSegmentIs, NoSegmentIs
<1>3. t \in Byte /\ t <= k /\ t \in Int /\ Build!InSegment(k, t)
  BY <1>1, <1>2, BasesInImage, SizeAssumption DEF Holding, Build!InSegment, Byte
<1> HIDE DEF t
<1>4. Shaped(read) /\ read.off = k /\ read.curId = sq.visited[k]
  BY DEF Shaped, Build!Maps, Queues, ScanQueues, RoutineIds, Build!RoutineIds
<1> HIDE DEF read
<1>5. Build!SkipGap(read, sq, MapTable) = read
  BY <1>2, <1>4 DEF Build!SkipGap, t
<1>6. Shaped(entered) /\ entered.off = k
  BY <1>3, <1>4, ChangeSegmentType
<1>7. Build!MapByte(cm, sq, MapTable) = [split EXCEPT !.off = @ + 1]
  BY <1>4, <1>5 DEF Build!MapByte, split, entered, read, t
<1> HIDE DEF entered
<1>8. Shaped(split) /\ split.off = k
  BY <1>6, ChangeOwnerType
<1>9. QED
  BY <1>3, <1>4, <1>6, <1>7, <1>8 DEF entered, split, read, t

LEMMA OffAdvanced ==
  ASSUME NEW m, Shaped(m), m.off \in Byte, NEW n, n = [m EXCEPT !.off = @ + 1]
  PROVE  /\ Shaped(n) /\ n.off = m.off + 1
         /\ n.open = m.open /\ n.seg = m.seg /\ n.curId = m.curId /\ n.prevId = m.prevId
         /\ n.curBlockId = m.curBlockId /\ n.prevBlockId = m.prevBlockId
         /\ n.blocks = m.blocks /\ n.only = m.only /\ n.status = m.status
<1>1. m.off + 1 \in 0..CodeSize
  BY SizeAssumption DEF Byte
<1>2. QED
  BY <1>1 DEF Shaped, Build!Maps

LEMMA FirstByteMapped ==
  ASSUME sq \in Queues, Listed(MapTable), cm = Build!NewMap(FALSE, 0),
         Holding(MapTable, 0) # {}
  PROVE  Walked(Build!MapByte(cm, sq, MapTable), 0)
<1> DEFINE t == Build!FindSegment(MapTable, 0)
           read == [cm EXCEPT !.curId = sq.visited[0]]
           entered == Build!ChangeSegment(read, sq, t)
           split == Build!ChangeOwner(entered, sq)
           n == Build!MapByte(cm, sq, MapTable)
<1>1. 0 \in Byte /\ cm.off = 0 /\ Shaped(cm)
  BY NewMapShaped, SizeAssumption DEF Byte, Build!NewMap
<1>2. /\ n = [split EXCEPT !.off = @ + 1]
      /\ Shaped(read) /\ read.off = 0 /\ read.curId = sq.visited[0]
      /\ Shaped(entered) /\ entered.off = 0 /\ Shaped(split) /\ split.off = 0
      /\ t \in Byte /\ t <= 0 /\ Build!InSegment(0, t)
  BY <1>1, MapByteInSegment
<1>3. t = 0
  BY <1>2, SizeAssumption DEF Byte
<1>4. /\ read.open = [seg |-> 0, lin |-> 0] /\ read.seg = -1 /\ read.prevId = NULL_ROUTINE
      /\ read.curBlockId = NULL_ROUTINE /\ read.prevBlockId = NULL_ROUTINE
      /\ read.blocks = {} /\ ~read.only /\ read.status = "mapping" /\ read \in Build!Maps
  BY <1>2, FirstOpen DEF Build!NewMap, Build!NoSegment, Build!NULL_ROUTINE, NULL_ROUTINE, Shaped
<1> HIDE DEF read, t
<1>5. entered = [read EXCEPT !.seg = 0]
  BY <1>2, <1>3, <1>4 DEF Build!ChangeSegment, entered, Build!IsValid, Build!InvalidAddr
<1>6. /\ entered.open = [seg |-> 0, lin |-> 0] /\ entered.seg = 0
      /\ entered.prevId = NULL_ROUTINE /\ entered.curId = sq.visited[0]
      /\ entered.curBlockId = NULL_ROUTINE /\ entered.prevBlockId = NULL_ROUTINE
      /\ entered.blocks = {} /\ ~entered.only /\ entered.status = "mapping"
      /\ entered \in Build!Maps
  BY <1>2, <1>4, <1>5 DEF Build!Maps
<1> HIDE DEF entered
<1>7. /\ split.open = [seg |-> 0, lin |-> 0] /\ split.seg = 0
      /\ split.prevId = sq.visited[0] /\ split.curBlockId = sq.visited[0]
      /\ split.curId = sq.visited[0]
      /\ split.prevBlockId = NULL_ROUTINE
      /\ split.blocks = {} /\ ~split.only /\ split.status = "mapping"
  <2>1. CASE entered.curId = entered.prevId /\ Build!IsEntrypoint(sq, entered.off) = Build!NULL_ROUTINE
    <3>1. split = entered
      BY <2>1 DEF Build!ChangeOwner
    <3>2. QED
      BY <1>6, <2>1, <3>1
  <2>2. CASE ~(entered.curId = entered.prevId /\ Build!IsEntrypoint(sq, entered.off) = Build!NULL_ROUTINE)
    <3>1. split = [entered EXCEPT !.open = [seg |-> 0, lin |-> 0],
                    !.curBlockId = sq.visited[0], !.prevId = sq.visited[0]]
      BY <1>2, <1>6, <2>2 DEF Build!ChangeOwner, Shaped
    <3>2. QED
      BY <1>6, <3>1 DEF Build!Maps
  <2>3. QED
    BY <2>1, <2>2
<1> HIDE DEF split, n
<1>8. /\ Shaped(n) /\ n.off = 0 + 1 /\ n.open = split.open /\ n.seg = split.seg
      /\ n.curId = split.curId /\ n.prevId = split.prevId /\ n.curBlockId = split.curBlockId
      /\ n.prevBlockId = split.prevBlockId /\ n.blocks = split.blocks
      /\ n.only = split.only /\ n.status = split.status
  BY <1>1, <1>2, OffAdvanced
<1>9. /\ Shaped(n) /\ ~n.only /\ n.status = "mapping" /\ n.off = 0 + 1
      /\ n.seg = 0 /\ n.open.seg = n.seg /\ n.open.lin = 0
      /\ n.prevId = n.curBlockId /\ n.curBlockId = sq.visited[0] /\ n.curId = n.curBlockId
      /\ n.prevBlockId = NULL_ROUTINE /\ n.blocks = {}
  BY <1>7, <1>8
<1>10. Parted(n.blocks, 0)
  BY <1>9 DEF Parted
<1>11. n.seg = Build!FindSegment(MapTable, 0)
  BY <1>3, <1>9 DEF t
<1>12. Walking(n, 0 + 1)
  BY <1>1, <1>9, <1>10, <1>11, OpenedAt
<1>13. Walked(n, 0)
  BY <1>9, <1>12 DEF Walked
<1>14. QED
  BY <1>13 DEF n
LEMMA LaterByteMapped ==
  ASSUME sq \in Queues, Listed(MapTable), NEW k \in Byte, cm.off = k, Walking(cm, k),
         Holding(MapTable, k) # {}
  PROVE  Walked(Build!MapByte(cm, sq, MapTable), k)
<1> DEFINE t == Build!FindSegment(MapTable, k)
           read == [cm EXCEPT !.curId = sq.visited[k]]
           entered == Build!ChangeSegment(read, sq, t)
           split == Build!ChangeOwner(entered, sq)
           n == Build!MapByte(cm, sq, MapTable)
           stays == read.curId = read.prevId /\ Build!IsEntrypoint(sq, k) = Build!NULL_ROUTINE
<1>1. k \in 1..CodeSize /\ k \in Nat \ {0} /\ k # 0 /\ Shaped(cm) /\ k \in 0..CodeSize
  BY DEF Walking, Shaped
<1>2. /\ n = [split EXCEPT !.off = @ + 1]
      /\ Shaped(read) /\ read.off = k /\ read.curId = sq.visited[k]
      /\ Shaped(entered) /\ entered.off = k /\ Shaped(split) /\ split.off = k
      /\ t \in Byte /\ t <= k /\ Build!InSegment(k, t)
  BY <1>1, MapByteInSegment
<1>3. /\ read.open = cm.open /\ read.seg = cm.seg /\ read.prevId = cm.prevId
      /\ read.curBlockId = cm.curBlockId /\ read.prevBlockId = cm.prevBlockId
      /\ read.blocks = cm.blocks /\ read.only = cm.only /\ read.status = cm.status
  BY <1>1 DEF Shaped, Build!Maps
<1> HIDE DEF read, t
<1>4. Walking(read, k)
  BY <1>2, <1>3 DEF Walking, OpenTo
<1>5. /\ ~read.only /\ read.status = "mapping" /\ read.prevId = read.curBlockId
      /\ read.open.lin \in Nat /\ read.open.lin < k /\ read.seg <= read.open.lin
      /\ read.seg \in Nat /\ read.open.seg = read.seg
      /\ Holding(MapTable, k - 1) # {} /\ read.seg = Build!FindSegment(MapTable, k - 1)
  BY <1>1, <1>4 DEF Walking, OpenTo
<1> DEFINE c == Build!CloseBlock(read, sq, k)
<1>6. /\ Shaped(c) /\ Closed(read, c) /\ c \in Build!Maps
      /\ \/ c.status = "failed" /\ Straddling
         \/ /\ c.status = "mapping" /\ Parted(c.blocks, k)
            /\ c.prevBlockId = sq.visited[k - 1]
  BY <1>1, <1>2, <1>4, ClosedShaped, CloseBlockParts DEF Shaped
<1> HIDE DEF c
<1>7. ~c.only /\ c.off = k /\ c.curId = sq.visited[k] /\ c.prevId = c.curBlockId
      /\ c.prevId = read.prevId /\ c.seg = read.seg
  BY <1>2, <1>5, <1>6 DEF Closed
(* The owner and the segment stay: the block goes on. *)
<1>8. CASE t = read.seg /\ stays
  <2>1. split = read
    BY <1>2, <1>8 DEF split, entered, Build!ChangeSegment, Build!ChangeOwner
  <2>2. ~EntryAt(k) /\ sq.visited[k] = read.curBlockId
    BY <1>2, <1>5, <1>8, EntrypointSeen
  <2> HIDE DEF split, n
  <2>3. /\ Shaped(n) /\ n.off = k + 1 /\ n.open = read.open /\ n.seg = read.seg
        /\ n.prevId = read.prevId /\ n.curBlockId = read.curBlockId /\ n.curId = read.curId
        /\ n.prevBlockId = read.prevBlockId /\ n.blocks = read.blocks
        /\ n.only = read.only /\ n.status = read.status
    BY <1>2, <2>1, OffAdvanced
  <2>4. Walking(n, k + 1)
    BY <1>4, <1>8, <2>2, <2>3, OpenGoesOn DEF t
  <2>5. Walked(n, k)
    BY <1>5, <1>8, <2>3, <2>4 DEF Walked
  <2>6. QED
    BY <2>5 DEF n
(* In every other case the block is closed and the next one opened.        *)
<1>9. SUFFICES ASSUME ~(t = read.seg /\ stays)
               PROVE  /\ ~split.only /\ split.status = c.status /\ split.blocks = c.blocks
                      /\ split.prevBlockId = c.prevBlockId
                      /\ split.seg = t /\ split.open.seg = t /\ split.open.lin = k
                      /\ split.prevId = split.curBlockId /\ split.curBlockId = sq.visited[k]
                      /\ split.curId = sq.visited[k]
  <2> HIDE DEF split, n
  <2>1. /\ Shaped(n) /\ n.off = k + 1 /\ n.open = split.open /\ n.seg = split.seg
        /\ n.prevId = split.prevId /\ n.curBlockId = split.curBlockId
        /\ n.curId = split.curId
        /\ n.prevBlockId = split.prevBlockId /\ n.blocks = split.blocks
        /\ n.only = split.only /\ n.status = split.status
    BY <1>2, OffAdvanced
  <2>2. ASSUME ~(t = read.seg /\ stays) PROVE Walked(n, k)
    <3>1. /\ ~n.only /\ n.status = c.status /\ n.blocks = c.blocks
          /\ n.prevBlockId = c.prevBlockId
          /\ n.seg = t /\ n.open.seg = n.seg /\ n.open.lin = k
          /\ n.prevId = n.curBlockId /\ n.curBlockId = sq.visited[k]
          /\ n.curId = n.curBlockId
      BY <1>9, <2>1, <2>2
    <3>2. CASE c.status = "failed" /\ Straddling
      BY <2>1, <3>1, <3>2 DEF Walked
    <3>3. CASE c.status = "mapping" /\ Parted(c.blocks, k) /\ c.prevBlockId = sq.visited[k - 1]
      <4>1. n.prevBlockId = IF k = 0 THEN NULL_ROUTINE ELSE sq.visited[k - 1]
        BY <1>1, <3>1, <3>3
      <4>2. Walking(n, k + 1)
        BY <2>1, <3>1, <3>3, <4>1, OpenedAt DEF t
      <4>3. QED
        BY <2>1, <3>1, <3>3, <4>2 DEF Walked
    <3>4. QED
      BY <1>6, <3>2, <3>3
  <2>3. QED
    BY <1>8, <2>2 DEF n
<1> DEFINE o == [seg |-> t, lin |-> k]
           r == [c EXCEPT !.open = o, !.curBlockId = sq.visited[k], !.prevId = sq.visited[k]]
<1>10. CASE t = read.seg
  <2>1. entered = read
    BY <1>10 DEF entered, Build!ChangeSegment
  <2>2. split = r
    BY <1>1, <1>2, <1>9, <1>10, <2>1 DEF split, Build!ChangeOwner, c, Shaped
  <2> HIDE DEF split, o
  <2>3. o.seg = t /\ o.lin = k /\ c.seg = t
    BY <1>7, <1>10 DEF o
  <2>4. QED
    BY <1>6, <1>7, <2>2, <2>3 DEF Build!Maps
<1>11. CASE t # read.seg
  <2>1. t = k
    BY <1>1, <1>5, <1>11, NewSegmentBegins DEF t
  <2>2. ~Build!InSegment(read.open.lin, t)
    BY <1>1, <1>5, <2>1 DEF Build!InSegment
  <2> DEFINE p == IF read.curId = read.prevId THEN o ELSE Build!InvalidAddr
  <2>3. entered = [c EXCEPT !.seg = t, !.open = p]
    BY <1>2, <1>11, <2>2 DEF entered, Build!ChangeSegment, c
  <2> HIDE DEF o
  <2>4. o.seg = t /\ o.lin = k
    BY DEF o
  <2> HIDE DEF p
  <2>5. /\ entered.seg = t /\ entered.open = p /\ ~entered.only /\ entered.status = c.status
        /\ entered.blocks = c.blocks /\ entered.prevBlockId = c.prevBlockId
        /\ entered.curId = sq.visited[k] /\ entered.prevId = entered.curBlockId
        /\ entered.prevId = read.prevId /\ entered \in Build!Maps
    <3>1. entered \in Build!Maps
      BY <1>2 DEF Shaped
    <3>2. QED
      BY <1>6, <1>7, <2>3, <3>1 DEF Build!Maps
  <2>6. Build!CloseBlock(entered, sq, k) = entered
    BY <1>6, <2>4, <2>5 DEF Build!CloseBlock, Build!IsValid, p
  <2>7. CASE stays
    <3>1. split = entered
      BY <1>2, <2>5, <2>7 DEF split, Build!ChangeOwner
    <3>2. p = o
      BY <2>7 DEF p
    <3>3. QED
      BY <1>2, <2>4, <2>5, <2>7, <3>1, <3>2
  <2>8. CASE ~stays
    <3>1. split = [entered EXCEPT !.open = o, !.curBlockId = sq.visited[k],
                     !.prevId = sq.visited[k]]
      BY <1>1, <1>2, <2>5, <2>6, <2>8 DEF split, Build!ChangeOwner, o
    <3> HIDE DEF split, entered
    <3>2. QED
      BY <2>4, <2>5, <3>1 DEF Build!Maps
  <2>9. QED
    BY <2>7, <2>8
<1>12. QED
  BY <1>10, <1>11
-----------------------------------------------------------------------------
(* The end of the walk.                                                    *)

(* The map is finished: all the bytes that have an owner are in its blocks. *)
Finished(blocks) ==
  /\ Ranges(blocks)
  /\ \E k \in 0..CodeSize : /\ Parted(blocks, k)
                            /\ \A b \in Byte : b >= k => sq.visited[b] <= NULL_ROUTINE

LEMMA LastByteReached ==
  ASSUME sq \in Queues, segs \in Tables, Listed(MapTable), SegmentsCover, Shaped(cm),
         Build!LastByteMapped(cm, sq, MapTable)
  PROVE  \A b \in Byte : b >= cm.off => sq.visited[b] <= NULL_ROUTINE
<1>1. sq.visited \in [Byte -> Int] /\ cm.off \in Nat /\ cm.off <= CodeSize
  BY SizeAssumption DEF Queues, ScanQueues, RoutineIds, Shaped
<1>2. CASE cm.off \notin DOMAIN sq.visited
  BY <1>1, <1>2, SizeAssumption DEF Byte
<1>3. CASE /\ Build!FindSegment(MapTable, cm.off) = Build!NoSegment
           /\ Build!FindSegmentPast(MapTable, cm.off) = Build!NoSegment
  <2>1. Holding(MapTable, cm.off) = {}
    BY <1>1, <1>3, NoSegmentIs
  <2>2. Build!NoSegment \notin Byte
    BY SizeAssumption DEF Build!NoSegment, Byte
  <2>3. Behind(MapTable, cm.off) = {}
    BY <1>1, <1>3, <2>2, FindSegmentPastIs
  <2> SUFFICES ASSUME NEW b \in Byte, b >= cm.off PROVE sq.visited[b] <= NULL_ROUTINE
    OBVIOUS
  <2>4. Holding(MapTable, b) = {}
    <3>1. cm.off \in Nat /\ b \in Nat /\ b >= cm.off
      BY <1>1, SizeAssumption DEF Byte
    <3>2. QED
      BY <2>1, <2>3, <3>1, NothingBehind
  <2>5. Holding(segs, b) = {}
    BY <2>4, MapTableIs DEF Holding
  <2>6. QED
    BY <2>5 DEF SegmentsCover
<1>4. QED
  BY <1>2, <1>3 DEF Build!LastByteMapped

LEMMA MapEnds ==
  ASSUME sq \in Queues, segs \in Tables, Listed(MapTable), SegmentsCover, Shaped(cm),
         Build!LastByteMapped(cm, sq, MapTable),
         cm = Build!NewMap(FALSE, 0) \/ (Walking(cm, cm.off) /\ cm.curId = cm.curBlockId)
  PROVE  LET n == Build!FinishMap(cm, sq, CodeSize)
         IN  \/ n.status = "failed" /\ Straddling
             \/ n.status = "mapped" /\ Finished(n.blocks)
<1> DEFINE k == cm.off
           read == IF k \in DOMAIN sq.visited THEN [cm EXCEPT !.curId = sq.visited[k]] ELSE cm
           c == Build!CloseBlock(read, sq, k)
           n == Build!FinishMap(cm, sq, CodeSize)
<1>1. \A b \in Byte : b >= k => sq.visited[b] <= NULL_ROUTINE
  BY LastByteReached
<1>2. k \in 0..CodeSize /\ cm \in Build!Maps /\ k \in Nat
  BY DEF Shaped
<1>3. sq.visited \in [Byte -> Int]
  BY DEF Queues, ScanQueues, RoutineIds
<1>4. /\ Shaped(read) /\ read.off = k /\ read.open = cm.open /\ read.seg = cm.seg
      /\ read.prevId = cm.prevId /\ read.curBlockId = cm.curBlockId
      /\ read.prevBlockId = cm.prevBlockId /\ read.blocks = cm.blocks
      /\ read.only = cm.only /\ read.status = cm.status
  BY <1>3 DEF Shaped, Build!Maps, Build!RoutineIds
<1>5. n = IF c.status = "failed" THEN c ELSE [c EXCEPT !.status = "mapped"]
  <2>1. k \notin DOMAIN sq.visited => k = CodeSize
    BY EndOfImage
  <2>2. QED
    BY <2>1 DEF Build!FinishMap
<1>6. k \in DOMAIN sq.visited => read.curId <= NULL_ROUTINE
  BY <1>1, <1>2, <1>3
<1>7. k \notin DOMAIN sq.visited => read.curId = cm.curId
  OBVIOUS
<1> HIDE DEF read
<1>8. Shaped(c)
  BY <1>2, <1>4, ClosedShaped
<1> HIDE DEF c
<1>9. CASE cm = Build!NewMap(FALSE, 0)
  <2>1. k = 0 /\ read.open.lin = 0 /\ read.blocks = {} /\ read.status = "mapping"
    BY <1>4, <1>9, FirstOpen DEF Build!NewMap
  <2>2. c = read
    BY <2>1 DEF c, Build!CloseBlock
  <2>3. n.status = "mapped" /\ n.blocks = {}
    BY <1>4, <1>5, <2>1, <2>2 DEF Shaped, Build!Maps
  <2>4. Finished({})
    <3>1. Parted({}, 0)
      BY DEF Parted
    <3>2. QED
      BY <1>1, <1>2, <2>1, <3>1 DEF Finished, Ranges
  <2>5. QED
    BY <2>3, <2>4
<1>10. CASE Walking(cm, k) /\ cm.curId = cm.curBlockId
  <2>1. Walking(read, k)
    BY <1>4, <1>10 DEF Walking, OpenTo
  <2>2. read.curId > NULL_ROUTINE /\ read.curBlockId <= NULL_ROUTINE
          => k \in Byte /\ sq.visited[k] = read.curId
    <3>1. read.curId \in Int /\ read.curBlockId \in Int
      BY <1>4 DEF Shaped, Build!Maps, Build!RoutineIds
    <3>2. read.curId <= NULL_ROUTINE \/ read.curId = read.curBlockId
      BY <1>4, <1>6, <1>7, <1>10
    <3>3. QED
      BY <3>1, <3>2 DEF NULL_ROUTINE
  <2>3. \/ c.status = "failed" /\ Straddling
        \/ c.status = "mapping" /\ Parted(c.blocks, k)
    BY <2>1, <2>2, CloseBlockParts DEF c
  <2>4. n.blocks = c.blocks /\ (c.status # "failed" => n.status = "mapped")
    BY <1>5, <1>8 DEF Shaped, Build!Maps
  <2>5. c.status = "failed" => n.status = "failed"
    BY <1>5
  <2> HIDE DEF n, k
  <2>6. CASE c.status = "failed" /\ Straddling
    BY <2>5, <2>6 DEF n
  <2>7. CASE c.status = "mapping" /\ Parted(c.blocks, k)
    <3>1. Finished(c.blocks)
      BY <1>1, <1>2, <1>8, <2>7 DEF Finished, Shaped
    <3>2. n.status = "mapped" /\ n.blocks = c.blocks
      BY <2>4, <2>7
    <3>3. QED
      BY <3>1, <3>2 DEF n
  <2>8. QED
    BY <2>3, <2>6, <2>7
<1>11. QED
  BY <1>9, <1>10
-----------------------------------------------------------------------------
(* The invariant of the walk over the bytes.                               *)

Progress ==
  \/ cm = Build!NewMap(FALSE, 0)
  \/ cm.status = "mapping" /\ Walking(cm, cm.off) /\ cm.curId = cm.curBlockId
  \/ cm.status = "failed" /\ Straddling
  \/ cm.status = "mapped" /\ Finished(cm.blocks)

MapInv ==
  /\ IInv /\ Shaped(cm)
  /\ pc # "done" => cm = Build!NewMap(FALSE, 0)
  /\ SegmentsCover => Progress

LEMMA ExplorationOver == Next => pc # "done"
BY DEF Next, Seed, BeginSeeding, SeedSegment, SeedEntrySegment, SeedRoutine, SeedStart,
       StartAtEntry, TakePoint, Finish, Scan, LeaveImage, HaltScan, RollBack, Straddle,
       ScanPlain, ScanMov, ScanReturn, ScanJump, FarJumpOverflow, ScanConditional, ScanCall,
       Decoded

LEMMA MapStarts == InitM => MapInv
BY InvariantAtStart, NewMapShaped DEF InitM, MapInv, Progress

LEMMA ByteProgress ==
  ASSUME MapInv, SegmentsCover, pc = "done", cm.status = "mapping",
         ~Build!LastByteMapped(cm, sq, MapTable)
  PROVE  Walked(Build!MapByte(cm, sq, MapTable), cm.off)
<1>1. sq \in Queues /\ segs \in Tables /\ Listed(MapTable) /\ Shaped(cm) /\ Progress
  BY QueueOfInvariant, MapTableIs DEF MapInv, IInv
<1>2. cm.off \in Byte /\ cm.off \in Nat
  BY <1>1, SizeAssumption DEF Build!LastByteMapped, Queues, ScanQueues, Byte
<1>3. Holding(MapTable, cm.off) # {}
  <2>1. Holding(segs, cm.off) # {} \/ Behind(segs, cm.off) = {}
    BY <1>2 DEF SegmentsCover
  <2>2. Holding(MapTable, cm.off) # {} \/ Behind(MapTable, cm.off) = {}
    BY <1>1, <2>1, MapTableIs DEF Holding, Behind
  <2>3. QED
    BY <2>2, NoneHeld DEF Build!LastByteMapped, Build!FindSegment, Build!FindSegmentPast
<1>4. CASE cm = Build!NewMap(FALSE, 0)
  <2>1. cm.off = 0
    BY <1>4 DEF Build!NewMap
  <2>2. QED
    BY <1>1, <1>3, <1>4, <2>1, FirstByteMapped
<1>5. CASE Walking(cm, cm.off)
  BY <1>1, <1>2, <1>3, <1>5, LaterByteMapped
<1>6. QED
  BY <1>1, <1>4, <1>5 DEF Progress

LEMMA EndProgress ==
  ASSUME MapInv, SegmentsCover, pc = "done", cm.status = "mapping",
         Build!LastByteMapped(cm, sq, MapTable)
  PROVE  LET n == Build!FinishMap(cm, sq, CodeSize)
         IN  \/ n.status = "failed" /\ Straddling
             \/ n.status = "mapped" /\ Finished(n.blocks)
<1>1. sq \in Queues /\ segs \in Tables /\ Listed(MapTable) /\ Shaped(cm) /\ Progress
  BY QueueOfInvariant, MapTableIs DEF MapInv, IInv
<1>2. cm = Build!NewMap(FALSE, 0) \/ (Walking(cm, cm.off) /\ cm.curId = cm.curBlockId)
  BY <1>1 DEF Progress
<1>3. QED
  BY <1>1, <1>2, MapEnds

(* Nothing but the map is looked at here.                                  *)
LEMMA StateKept ==
  ASSUME sq' = sq, segs' = segs
  PROVE  /\ SegmentsCover' = SegmentsCover /\ Straddling' = Straddling
         /\ MapTable' = MapTable
BY DEF SegmentsCover, Straddling, MapTable

LEMMA MapKept == MapInv /\ [NextM]_mapState => MapInv'
<1> SUFFICES ASSUME MapInv, [NextM]_mapState PROVE MapInv'
  OBVIOUS
<1>1. IInv /\ Shaped(cm) /\ sq \in Queues /\ Listed(MapTable)
  BY QueueOfInvariant, MapTableIs DEF MapInv, IInv
<1>2. ASSUME UNCHANGED mapState PROVE MapInv'
  <2>1. IInv' /\ sq' = sq /\ segs' = segs /\ pc' = pc /\ cm' = cm
    BY <1>1, <1>2, InvariantKept DEF mapState, state
  <2>2. SegmentsCover' = SegmentsCover /\ Straddling' = Straddling /\ MapTable' = MapTable
    BY <2>1, StateKept
  <2>3. Walking(cm, cm.off) => Walking(cm, cm.off)'
    BY <2>1, <2>2 DEF Walking, Shaped, OpenTo, Parted, Told, EntryAt
  <2>4. Finished(cm.blocks) => Finished(cm.blocks)'
    BY <2>1 DEF Finished, Parted, Told, EntryAt
  <2>5. Shaped(cm)'
    BY <1>1, <2>1 DEF Shaped
  <2>6. QED
    BY <2>1, <2>2, <2>3, <2>4, <2>5 DEF MapInv, Progress
<1>3. ASSUME Explore PROVE MapInv'
  <2>1. pc # "done" /\ cm' = cm /\ [Next]_state
    BY <1>3, ExplorationOver DEF Explore
  <2>2. IInv' /\ cm = Build!NewMap(FALSE, 0) /\ cm' = Build!NewMap(FALSE, 0)
    BY <1>1, <2>1, InvariantKept DEF MapInv
  <2>3. Shaped(cm')
    BY <1>1, <2>1
  <2>4. QED
    BY <2>2, <2>3 DEF MapInv, Progress, Shaped
<1>4. ASSUME pc = "done", cm.status = "mapping", UNCHANGED state, Shaped(cm'),
             SegmentsCover =>
               \/ cm'.status = "mapping" /\ Walking(cm', cm'.off) /\ cm'.curId = cm'.curBlockId
               \/ cm'.status = "failed" /\ Straddling
               \/ cm'.status = "mapped" /\ Finished(cm'.blocks)
      PROVE  MapInv'
  <2>1. IInv' /\ sq' = sq /\ segs' = segs /\ pc' = "done"
    BY <1>1, <1>4, InvariantKept DEF state
  <2>2. SegmentsCover' = SegmentsCover /\ Straddling' = Straddling /\ MapTable' = MapTable
    BY <2>1, StateKept
  <2>3. Walking(cm', cm'.off) => Walking(cm, cm.off)'
    BY <2>1, <2>2 DEF Walking, Shaped, OpenTo, Parted, Told, EntryAt
  <2>4. Finished(cm'.blocks) => Finished(cm.blocks)'
    BY <2>1 DEF Finished, Parted, Told, EntryAt
  <2>5. Shaped(cm)'
    BY <1>4 DEF Shaped
  <2>6. QED
    BY <1>4, <2>1, <2>2, <2>3, <2>4, <2>5 DEF MapInv, Progress
<1>5. ASSUME MapNextByte PROVE MapInv'
  <2>1. /\ pc = "done" /\ cm.status = "mapping" /\ UNCHANGED state
        /\ ~Build!LastByteMapped(cm, sq, MapTable) /\ cm' = Build!MapByte(cm, sq, MapTable)
    BY <1>5 DEF MapNextByte
  <2>2. Shaped(cm')
    BY <1>1, <2>1, MapByteType
  <2>3. SegmentsCover => Walked(cm', cm.off)
    BY <2>1, ByteProgress
  <2>4. QED
    BY <1>4, <2>1, <2>2, <2>3 DEF Walked
<1>6. ASSUME MapEnd PROVE MapInv'
  <2>1. /\ pc = "done" /\ cm.status = "mapping" /\ UNCHANGED state
        /\ Build!LastByteMapped(cm, sq, MapTable) /\ cm' = Build!FinishMap(cm, sq, CodeSize)
    BY <1>6 DEF MapEnd
  <2>2. Shaped(cm')
    BY <1>1, <2>1, FinishMapType
  <2>3. QED
    BY <1>4, <2>1, <2>2, EndProgress
<1>7. QED
  BY <1>2, <1>3, <1>5, <1>6 DEF NextM

LEMMA MapInvariant == SpecM => []MapInv
BY MapStarts, MapKept, PTL DEF SpecM
-----------------------------------------------------------------------------
(* What the map says.                                                      *)

(* For every image: the constructor of the map keeps its members' types,   *)
(* and every block it records is a range of bytes of the image, whatever   *)
(* gaps the segments leave (blocksFromQueue, closeBlock).                  *)
THEOREM MapTyped == SpecM => []MapTypeOK
<1>1. MapInv => MapTypeOK
  BY DEF MapInv, Shaped, Ranges, MapTypeOK
<1>2. QED
  BY <1>1, MapInvariant, PTL

LEMMA FinishedFacts ==
  ASSUME MapInv, SegmentsCover, cm.status = "mapped"
  PROVE  /\ Finished(cm.blocks)
         /\ sq.visited \in [Byte -> Int] /\ EntrypointsNumbered(sq)
         /\ \A r \in DOMAIN sq.entrypoints : r \in Nat /\ r > NULL_ROUTINE
<1>1. Finished(cm.blocks)
  BY DEF MapInv, Progress, Build!NewMap
<1>2. sq \in Queues
  BY QueueOfInvariant DEF MapInv, IInv
<1>3. QED
  BY <1>1, <1>2 DEF Queues, ScanQueues, Consistent, RoutineIds, NULL_ROUTINE

(* The block of a byte that a routine owns is its reachable code. *)
LEMMA BlockOfOwned ==
  ASSUME MapInv, SegmentsCover, cm.status = "mapped",
         NEW x \in Byte, sq.visited[x] > NULL_ROUTINE
  PROVE  /\ \E b \in BlocksOf("reachable", sq.visited[x]) : x \in BlockBytes(b)
         /\ EntryAt(x) => \E b \in BlocksOf("reachable", sq.visited[x]) : b.lo = x
<1>1. PICK k \in 0..CodeSize : /\ Parted(cm.blocks, k)
                               /\ \A b \in Byte : b >= k => sq.visited[b] <= NULL_ROUTINE
  BY FinishedFacts DEF Finished
<1>2. x \in 0..(k - 1)
  BY <1>1, FinishedFacts, SizeAssumption DEF Byte, NULL_ROUTINE
<1>3. ASSUME NEW b \in cm.blocks, x \in BlockBytes(b)
      PROVE  b \in BlocksOf("reachable", sq.visited[x])
  <2>1. Told(b)
    BY <1>1 DEF Parted
  <2>2. b.kind = "reachable"
    BY <1>3, <2>1, FinishedFacts DEF Told, NULL_ROUTINE
  <2>3. QED
    BY <1>3, <2>1, <2>2 DEF Told, BlocksOf
<1>4. \E b \in cm.blocks : x \in BlockBytes(b)
  BY <1>1, <1>2 DEF Parted
<1>5. EntryAt(x) => \E b \in cm.blocks : b.lo = x
  BY <1>1, <1>2 DEF Parted
<1>6. \A b \in cm.blocks : b.lo = x => x \in BlockBytes(b)
  <2>1. \A b \in cm.blocks : b.lo \in Byte /\ b.hi \in Byte /\ b.lo <= b.hi
    BY FinishedFacts DEF Finished, Ranges
  <2>2. QED
    BY <2>1, SizeAssumption DEF BlockBytes, Byte
<1>7. QED
  BY <1>3, <1>4, <1>5, <1>6

(* For every image whose segments cover its code: the map's blocks are     *)
(* disjoint, and the reachable blocks of a routine are the bytes the       *)
(* exploration left it, no more and no fewer.                              *)
THEOREM BlocksAreOwned == SpecM => [](SegmentsCover => BlocksMatchOwners)
<1>1. ASSUME MapInv, SegmentsCover, cm.status = "mapped"
      PROVE  /\ \A a, b \in cm.blocks : a # b => BlockBytes(a) \cap BlockBytes(b) = {}
             /\ \A r \in DOMAIN sq.entrypoints :
                  UNION {BlockBytes(b) : b \in BlocksOf("reachable", r)} = Owned(r)
  <2>1. PICK k \in 0..CodeSize : Parted(cm.blocks, k)
    BY <1>1, FinishedFacts DEF Finished
  <2>2. Ranges(cm.blocks)
    BY <1>1, FinishedFacts DEF Finished
  <2>3. ASSUME NEW r \in DOMAIN sq.entrypoints
        PROVE  UNION {BlockBytes(b) : b \in BlocksOf("reachable", r)} = Owned(r)
    <3>1. ASSUME NEW b \in BlocksOf("reachable", r), NEW x \in BlockBytes(b)
          PROVE  x \in Owned(r)
      <4>1. b \in cm.blocks /\ b.kind = "reachable" /\ b.idx = r
        BY <3>1 DEF BlocksOf
      <4>2. x \in Byte
        BY <2>2, <3>1, <4>1, SizeAssumption DEF Ranges, BlockBytes, Byte
      <4>3. QED
        BY <2>1, <3>1, <4>1, <4>2 DEF Parted, Told, Owned
    <3>2. ASSUME NEW x \in Owned(r)
          PROVE  \E b \in BlocksOf("reachable", r) : x \in BlockBytes(b)
      <4>1. x \in Byte /\ sq.visited[x] = r /\ r > NULL_ROUTINE
        BY <1>1, <3>2, FinishedFacts DEF Owned
      <4>2. QED
        BY <1>1, <4>1, BlockOfOwned
    <3>3. QED
      BY <3>1, <3>2
  <2>4. QED
    BY <2>1, <2>3 DEF Parted
<1>2. MapInv => (SegmentsCover => BlocksMatchOwners)
  BY <1>1 DEF BlocksMatchOwners
<1>3. QED
  BY <1>2, MapInvariant, PTL

(* For every such image: a routine that still owns its entrypoint has a    *)
(* block that begins there, which recalculateExtents starts from.          *)
THEOREM MainBlocksExist == SpecM => [](SegmentsCover => MainBlockExists)
<1>1. ASSUME MapInv, SegmentsCover, cm.status = "mapped",
             NEW r \in DOMAIN sq.entrypoints, sq.visited[sq.entrypoints[r].addr.lin] = r
      PROVE  \E b \in BlocksOf("reachable", r) : b.lo = sq.entrypoints[r].addr.lin
  <2> DEFINE ep == sq.entrypoints[r].addr.lin
  <2>1. ep \in Byte /\ r > NULL_ROUTINE /\ EntryAt(ep)
    BY <1>1, FinishedFacts DEF EntrypointsNumbered, EntryAt
  <2>2. sq.visited[ep] = r
    BY <1>1
  <2> HIDE DEF ep
  <2>3. \E b \in BlocksOf("reachable", r) : b.lo = ep
    BY <1>1, <2>1, <2>2, BlockOfOwned
  <2>4. QED
    BY <2>3 DEF ep
<1>2. MapInv => (SegmentsCover => MainBlockExists)
  BY <1>1 DEF MainBlockExists
<1>3. QED
  BY <1>2, MapInvariant, PTL

(* For every such image: a block that is given to a routine without being  *)
(* its code has that routine's code right before it and right behind it.   *)
THEOREM GivenIsSurrounded == SpecM => [](SegmentsCover => UnreachableIsSurrounded)
<1>1. ASSUME MapInv, SegmentsCover, cm.status = "mapped",
             NEW b \in cm.blocks, b.kind = "unreachable"
      PROVE  /\ \A x \in BlockBytes(b) : sq.visited[x] \in {NULL_ROUTINE, BAD_ROUTINE}
             /\ sq.visited[b.lo - 1] = b.idx /\ sq.visited[b.hi + 1] = b.idx
  <2>1. Told(b) /\ b.lo \in Byte /\ b.hi \in Byte
    BY <1>1, FinishedFacts DEF Finished, Parted, Ranges
  <2>2. \A x \in BlockBytes(b) : x \in Byte /\ sq.visited[x] <= NULL_ROUTINE
    BY <1>1, <2>1, SizeAssumption DEF Told, BlockBytes, Byte
  <2>3. OwnersKnown(sq)
    BY <1>1, QueueOfInvariant DEF MapInv, IInv, Queues, Consistent
  <2>4. \A x \in BlockBytes(b) : sq.visited[x] \in {NULL_ROUTINE, BAD_ROUTINE}
    BY <1>1, <2>2, <2>3, FinishedFacts DEF OwnersKnown, NULL_ROUTINE
  <2>5. QED
    BY <1>1, <2>1, <2>4 DEF Told
<1>2. MapInv => (SegmentsCover => UnreachableIsSurrounded)
  BY <1>1 DEF UnreachableIsSurrounded
<1>3. QED
  BY <1>2, MapInvariant, PTL

(* For every such image: the only reason for having no map is code that    *)
(* the segment of its routine's entrypoint does not reach (closeBlock's    *)
(* move of the block's ends).                                              *)
THEOREM OnlyStraddlingFails == SpecM => [](SegmentsCover => MapFailsOnlyOnStraddle)
<1>1. MapInv => (SegmentsCover => MapFailsOnlyOnStraddle)
  BY DEF MapInv, Progress, MapFailsOnlyOnStraddle, Straddling, Build!NewMap
<1>2. QED
  BY <1>1, MapInvariant, PTL
=============================================================================
