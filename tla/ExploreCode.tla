---------------------------- MODULE ExploreCode ----------------------------
(***************************************************************************)
(* Code exploration (analysis.cpp): Analyzer::seedQueue and                *)
(* Analyzer::exploreCode, the walk over a loaded image that finds routine  *)
(* boundaries without executing anything.                                  *)
(*                                                                         *)
(* The image is a constant of a behaviour: code says which instruction     *)
(* decoding finds at each byte, and every program of Programs is an        *)
(* initial state.  One action is one pass through the inner loop, with     *)
(* every call it makes on the queue, the segment table and the variables,  *)
(* or one step of seeding or of taking a search point.                     *)
(*                                                                         *)
(* Abstracted: register and stack tracing.  Where the code asks whether a  *)
(* register is known, and what it holds, the model takes every answer: an  *)
(* indirect call has any destination or none, a mov or pop into a segment  *)
(* register registers the segment or does not, a memory operand is         *)
(* recorded or not, a DOS interrupt ends the routine or returns.           *)
(***************************************************************************)
EXTENDS ScanQueue, SegmentTable

CONSTANTS Programs,    \* the images considered, functions of Byte
          Entry,       \* the entrypoint of the executable
          StackSeg,    \* the base of its initial stack segment
          SeedPoints,  \* entrypoints of the map seedQueue may be given
          SeedSegs,    \* segments of that map, as SegmentTable has them
          SeedVars     \* linear addresses of its variables

ASSUME ProgramAssumption ==
  Programs \subseteq Images

ASSUME EntryAssumption ==
  /\ Entry \in Addresses /\ Entry.lin \in Byte /\ InSegment(Entry.lin, Entry.seg)
  /\ StackSeg \in Int

ASSUME SeedAssumption ==
  /\ \A a \in SeedPoints : /\ a \in Addresses /\ a.lin \in Byte
                           /\ InSegment(a.lin, a.seg)
  /\ \A s \in SeedSegs : s \in Segments
  /\ SeedVars \subseteq Int

VARIABLES code,   \* the loaded image, never written
          sq,     \* Analyzer::scanQueue
          segs,   \* Executable::segments
          vars,   \* Analyzer::vars, linear addresses of data references
          csip,   \* the instruction about to be looked at
          pc      \* seed, next, scan, done or aborted

state == <<code, sq, segs, vars, csip, pc>>

(* Registering a segment without a name of its own. *)
Register(table, type, addr) ==
  StoreSegment(table, NoName, type, addr)

(* The types of the variables: Analyzer's and Executable's members. *)
TypeOK ==
  /\ code \in Programs
  /\ sq \in ScanQueues
  /\ segs \in Seq(Segments)
  /\ vars \in SUBSET Int
  /\ csip \in Addresses
  /\ pc \in {"load", "segments", "seed", "next", "scan", "done", "aborted"}

(* Loading registers the segments of the entrypoint and of the stack. *)
Init ==
  /\ code \in Programs
  /\ sq = EmptyQueue
  /\ segs = Register(Register(<< >>, "CODE", Entry.seg), "STACK", StackSeg)
  /\ vars = {}
  /\ csip = InvalidAddr
  /\ pc = "load"

-----------------------------------------------------------------------------
(* seedQueue, which mzmap calls first when it is given a linker map: the   *)
(* map's segments replace those the loader registered, and its routines    *)
(* become calls to scan.                                                   *)

BeginSeeding ==
  /\ pc = "load"
  /\ sq' = EmptyQueue /\ segs' = << >>
  /\ pc' = "segments"
  /\ UNCHANGED <<code, vars, csip>>

SeedSegment(s) ==
  /\ pc = "segments"
  /\ segs' = StoreSegment(segs, s.name, s.type, s.addr)
  /\ UNCHANGED <<code, sq, vars, csip, pc>>

SeedEntrySegment ==
  /\ pc = "segments"
  /\ segs' = Register(segs, "CODE", Entry.seg)
  /\ pc' = "seed"
  /\ UNCHANGED <<code, sq, vars, csip>>

SeedRoutine(a) ==
  /\ pc = "seed"
  /\ sq' = SaveCall(sq, a, FALSE)
  /\ UNCHANGED <<code, segs, vars, csip, pc>>

SeedStart ==
  /\ pc = "seed"
  /\ sq' = SaveCall(sq, Entry, TRUE)
  /\ vars' = vars \cup SeedVars
  /\ pc' = "next"
  /\ UNCHANGED <<code, segs, csip>>

(* exploreCode without a map seeds the queue with the entrypoint. *)
StartAtEntry ==
  /\ pc = "load"
  /\ sq' = SeededQueue(Entry, 1)
  /\ pc' = "next"
  /\ UNCHANGED <<code, segs, vars, csip>>

-----------------------------------------------------------------------------
(* The outer loop.                                                         *)

(* Mutated form: the segment of the search point is not registered. *)
TakePointNoSegment ==
  /\ pc = "next" /\ sq.queue # << >>
  /\ sq' = NextPoint(sq)
  /\ csip' = Head(sq.queue).addr
  /\ pc' = "scan"
  /\ UNCHANGED <<code, segs, vars>>

TakePoint ==
  /\ pc = "next" /\ sq.queue # << >>
  /\ sq' = NextPoint(sq)
  /\ csip' = Head(sq.queue).addr
  /\ segs' = Register(segs, "CODE", Head(sq.queue).addr.seg)
  /\ pc' = "scan"
  /\ UNCHANGED <<code, vars>>

Finish ==
  /\ pc = "next" /\ sq.queue = << >>
  /\ pc' = "done"
  /\ UNCHANGED <<code, sq, segs, vars, csip>>

-----------------------------------------------------------------------------
(* The inner loop, up to decoding.                                         *)

(* Mutated forms: entrypoints of other routines are not looked for; a call *)
(* has no precedence.                                                      *)
BlockedIgnoringEntrypoints ==
  LET owner == sq.visited[csip.lin]
  IN \/ owner = BAD_ROUTINE
     \/ owner # NULL_ROUTINE /\ ~sq.cur.call

BlockedForCallsToo ==
  LET entrypoint == IsEntrypoint(sq, csip.lin)
  IN \/ sq.visited[csip.lin] # NULL_ROUTINE
     \/ entrypoint # NULL_ROUTINE /\ entrypoint # sq.cur.idx

(* Why a scan stops before decoding: bad bytes; bytes of any routine, when *)
(* the scan did not start at a call; another routine's entrypoint.         *)
Blocked ==
  LET owner == sq.visited[csip.lin]
      entrypoint == IsEntrypoint(sq, csip.lin)
  IN \/ owner = BAD_ROUTINE
     \/ owner # NULL_ROUTINE /\ ~sq.cur.call
     \/ entrypoint # NULL_ROUTINE /\ entrypoint # sq.cur.idx

LeaveImage ==
  /\ pc = "scan" /\ csip.lin \notin Byte
  /\ pc' = "aborted"
  /\ UNCHANGED <<code, sq, segs, vars, csip>>

HaltScan ==
  /\ pc = "scan" /\ csip.lin \in Byte /\ Blocked
  /\ pc' = "next"
  /\ UNCHANGED <<code, sq, segs, vars, csip>>

-----------------------------------------------------------------------------
(* The inner loop, one decoded instruction.                                *)

(* The instruction at csip, when the scan gets as far as decoding it. *)
Decoded ==
  IF pc = "scan" /\ csip.lin \in Byte /\ ~Blocked THEN {code[csip.lin]} ELSE {}

Fits(i) == csip.lin + i.len <= CodeSize

(* The instruction's bytes claimed for the routine being scanned. *)
Claimed(i) == SetRoutineIdx(sq, csip.lin, i.len, sq.cur.idx)

(* Everything from the start of this search up to csip. *)
MarkedBad(q) ==
  SetRoutineIdx(q, q.cur.addr.lin, csip.lin - q.cur.addr.lin + 1, BAD_ROUTINE)

(* A byte that does not decode, or an instruction touchedRegs does not     *)
(* know (INT3, INTO), which is claimed by then: the search is bad up to    *)
(* the instruction's first byte, whoever owned it.                         *)
RollBack ==
  /\ \E i \in Decoded : \/ i.kind = "bad" /\ sq' = MarkedBad(sq)
                        \/ i.kind = "trap" /\ Fits(i) /\ sq' = MarkedBad(Claimed(i))
  /\ pc' = "next"
  /\ UNCHANGED <<code, segs, vars, csip>>

(* processDataReference: the segment register may be unknown. *)
DataReference(i) ==
  vars' \in IF i.mem = NoAddr THEN {vars} ELSE {vars, vars \cup {i.mem}}

(* setRoutineIdx refuses an instruction that runs over the end (ArgError). *)
Straddle ==
  /\ \E i \in Decoded : i.kind # "bad" /\ ~Fits(i)
  /\ pc' = "aborted"
  /\ UNCHANGED <<code, sq, segs, vars, csip>>

(* advanceGuard: no advance past the segment's last offset (AddressError). *)
Advance(i) ==
  IF csip.lin + i.len - csip.seg < SegSize
  THEN csip' = [csip EXCEPT !.lin = @ + i.len] /\ pc' = "scan"
  ELSE csip' = csip /\ pc' = "aborted"

ScanPlain ==
  \E i \in Decoded :
    /\ Fits(i) /\ i.kind \in {"op", "nop", "int"}
    /\ sq' = Claimed(i)
    /\ DataReference(i)
    /\ Advance(i)
    /\ UNCHANGED <<code, segs>>

(* applyMov and applyPop into a segment register, value known or not. *)
ScanMov ==
  \E i \in Decoded :
    /\ Fits(i) /\ i.kind = "mov"
    /\ sq' = Claimed(i)
    /\ segs' \in {segs, Register(segs, i.type, i.seg)}
    /\ DataReference(i)
    /\ Advance(i)
    /\ UNCHANGED code

ScanReturn ==
  \E i \in Decoded :
    /\ Fits(i) /\ i.kind \in {"ret", "int"}
    /\ sq' = Claimed(i)
    /\ DataReference(i)
    /\ pc' = "next"
    /\ UNCHANGED <<code, segs, csip>>

-----------------------------------------------------------------------------
(* Branches.                                                               *)

NearDest(to) == IF to = NoAddr THEN InvalidAddr ELSE Wrap(csip.seg, to)

JumpDest(i) ==
  IF i.to = NoAddr THEN InvalidAddr
  ELSE IF i.kind = "jmpfar" THEN LinearAddr(FarImmediate(i))
  ELSE NearDest(i.to)

(* A near call through a register or memory goes anywhere in the segment   *)
(* the register tracing says, or nowhere known.                            *)
CallDests(i) ==
  CASE i.kind = "calli" -> {NearDest(t) : t \in Byte \cup {NoAddr}}
    [] i.kind = "callfar" /\ i.to # NoAddr -> {[seg |-> i.seg, lin |-> i.to]}
    [] OTHER -> {NearDest(i.to)}

(* Mutated form: the byte after the last NOP is claimed as well. *)
NopsAfterOneMore(i) ==
  {b \in Byte : /\ b >= csip.lin + i.len /\ InSegment(b, csip.seg)
                /\ \A c \in (csip.lin + i.len)..(b - 1) : code[c].kind = "nop"}

(* claimNops: the NOPs after the instruction, as far as they go. *)
NopsAfter(i) ==
  {b \in Byte : /\ b >= csip.lin + i.len /\ InSegment(b, csip.seg)
                /\ \A c \in (csip.lin + i.len)..b : code[c].kind = "nop"}

ClaimNops(q, i) ==
  [q EXCEPT !.visited =
     [b \in Byte |-> IF b \in NopsAfter(i) THEN q.cur.idx ELSE q.visited[b]]]

ScanJump ==
  \E i \in Decoded :
    /\ Fits(i)
    /\ \/ i.kind = "jmp"
       \/ i.kind = "jmpfar" /\ (i.to # NoAddr => FarImmediate(i) < MemTotal)
    /\ sq' = ClaimNops(SaveBranch(Claimed(i), JumpDest(i), FALSE, TRUE), i)
    /\ DataReference(i)
    /\ pc' = "next"
    /\ UNCHANGED <<code, segs, csip>>

(* Address(Offset) refuses an address past the address space (MemoryError). *)
FarJumpOverflow ==
  \E i \in Decoded :
    /\ Fits(i)
    /\ i.kind = "jmpfar" /\ i.to # NoAddr /\ FarImmediate(i) >= MemTotal
    /\ sq' = Claimed(i)
    /\ DataReference(i)
    /\ pc' = "aborted"
    /\ UNCHANGED <<code, segs, csip>>

(* Mutated form: the routine's own bytes are wiped and scanned again too. *)
FallThroughAlways(q, dest) == SaveJump(ClearRoutineIdx(q, dest.lin), dest)

(* What follows a call or a conditional jump becomes a search point of its *)
(* own unless this routine has it already; whoever owned it loses the run  *)
(* of bytes that starts there.                                             *)
FallThrough(q, dest) ==
  IF q.visited[dest.lin] = q.cur.idx THEN q
  ELSE SaveJump(ClearRoutineIdx(q, dest.lin), dest)

(* Mutated form: the fall-through is one byte further. *)
SplitAfterOneMore(i, saved) ==
  LET next == Wrap(csip.seg, csip.lin + i.len + 1)
  IN IF next.lin \in Byte
     THEN sq' = FallThrough(saved, next) /\ pc' = "next"
     ELSE sq' = saved /\ pc' = "aborted"

(* The fall-through past the image's last byte is out of the byte map's    *)
(* range (assert in getRoutineIdx).                                        *)
SplitAfter(i, saved) ==
  LET next == Wrap(csip.seg, csip.lin + i.len)
  IN IF next.lin \in Byte
     THEN sq' = FallThrough(saved, next) /\ pc' = "next"
     ELSE sq' = saved /\ pc' = "aborted"

ScanConditional ==
  \E i \in Decoded :
    /\ Fits(i) /\ i.kind = "jcc"
    /\ SplitAfter(i, SaveBranch(Claimed(i), NearDest(i.to), FALSE, TRUE))
    /\ DataReference(i)
    /\ UNCHANGED <<code, segs, csip>>

ScanCall ==
  \E i \in Decoded :
    /\ Fits(i) /\ i.kind \in {"call", "calli", "callfar"}
    /\ \E dest \in CallDests(i) :
         SplitAfter(i, SaveBranch(Claimed(i), dest, TRUE, i.kind # "callfar"))
    /\ DataReference(i)
    /\ UNCHANGED <<code, segs, csip>>

-----------------------------------------------------------------------------
Seed == \/ BeginSeeding
        \/ \E s \in SeedSegs : SeedSegment(s)
        \/ SeedEntrySegment
        \/ \E a \in SeedPoints : SeedRoutine(a)
        \/ SeedStart
        \/ StartAtEntry

Scan == \/ LeaveImage \/ HaltScan \/ RollBack \/ Straddle
        \/ ScanPlain \/ ScanMov \/ ScanReturn
        \/ ScanJump \/ FarJumpOverflow \/ ScanConditional \/ ScanCall

Next == Seed \/ TakePoint \/ Finish \/ Scan

Spec == Init /\ [][Next]_state

(* exploreCode is a sequential loop: while it can step, it does. *)
FairSpec == Spec /\ WF_state(Next)

-----------------------------------------------------------------------------
(* Properties.                                                             *)

(* The queue, the entrypoints and the byte map agree with each other after *)
(* any sequence of saveCall, saveJump, nextPoint and wipes.                *)
QueueConsistent == Consistent(sq)

(* A scan runs forward through the segment of its routine, and every byte  *)
(* between its start and csip is its own: what a failed decode rolls back  *)
(* (start <= csip is asserted there) was claimed by this very scan.        *)
RollbackOwnsItsRange ==
  pc = "scan" =>
    /\ PointBelongs(sq, sq.cur)
    /\ csip.seg = sq.cur.addr.seg
    /\ csip.lin >= sq.cur.addr.lin
    /\ InSegment(csip.lin, csip.seg)
    /\ \A b \in sq.cur.addr.lin..(csip.lin - 1) : sq.visited[b] = sq.cur.idx

(* Exploration is over for every image: the wiping of claimed bytes before *)
(* a fall-through and the reclaiming of bytes by calls never chase each    *)
(* other for ever.                                                         *)
Terminates == <>(pc \in {"done", "aborted"})

(* Every routine the queue has a call to gets its entrypoint, whoever owns *)
(* it until then and however many jumps cut in at the front of the queue,  *)
(* unless the place turns out bad or the exploration is given up.          *)
CallQueued(r) == \E i \in DOMAIN sq.queue : sq.queue[i].call /\ sq.queue[i].idx = r

EveryCallTakesItsEntrypoint ==
  \A r \in 1..CodeSize :
    CallQueued(r) ~> \/ pc = "aborted"
                     \/ /\ r \in DOMAIN sq.entrypoints
                        /\ sq.visited[sq.entrypoints[r].addr.lin] \in {r, BAD_ROUTINE}

(* Once the exploration is over, the code of every routine lies in a       *)
(* segment the table knows: the code map is built segment by segment.      *)
RoutineSegmentsKnown ==
  pc = "done" =>
    \A i \in DOMAIN sq.entrypoints :
      LET seg == sq.entrypoints[i].addr.seg
      IN seg \in Byte => HasSegment(segs, seg)

(* A direct call to a routine already known records how it was called, as  *)
(* saveCall does for all but the newest ("Could not locate routine         *)
(* entrypoint by index", scanq.cpp:164, of an index that is in the list).  *)
CallRecordsNearness ==
  [][ScanCall /\ code[csip.lin].kind # "calli" =>
       LET i == code[csip.lin]
           id == IsEntrypoint(sq, i.to)
       IN id # NULL_ROUTINE => sq'.entrypoints[id].near = (i.kind = "call")]_state

(* "traces jump/call destinations" (README.md:68): a far jump inside       *)
(* the image does not end the exploration.                                 *)
FarJumpsTraced == [][~FarJumpOverflow]_state
=============================================================================
