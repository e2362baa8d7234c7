---------------------------- MODULE CompareCode ----------------------------
(***************************************************************************)
(* The comparison of a target executable with a reference one              *)
(* (Analyzer::compareCode and comparisonLoop, analysis.cpp): a walk over   *)
(* the reference, instruction by instruction and location by location,     *)
(* that carries along the place in the target which should hold the same   *)
(* code, and the equivalences met so far.                                  *)
(*                                                                         *)
(* A comparison is given by a case: the two images, the routine map of the *)
(* reference, the entrypoints a map of the target names, and the options.  *)
(* A routine is known by its position in the map, its name in the code.    *)
(***************************************************************************)
EXTENDS ScanQueue, SegmentTable, OffsetMap, SequencesExt

CONSTANTS Programs,    \* what is compared: ref and tgt, the two images, and their
                       \* entrypoints entry and tentry
          RefMaps,     \* maps of the reference: routines rmap, the segment types
                       \* rsegs by base, and the target entrypoints tmap of the
                       \* routines a map of the target names too
          Options      \* of the comparison

(* A place in the image, in reach of its segment.                          *)
Located == {a \in [seg : Nat, lin : Byte] : InSegment(a.lin, a.seg)}

(* What the decoder makes of the bytes at some place: a displacement is a  *)
(* word, the destination of a far call is in its segment.                  *)
Decodes(i) ==
  /\ i.len \in Nat \ {0} /\ i.to \in Int /\ i.ofs \in Nat
  /\ i.kind = "callfar" => i.seg \in Nat /\ (i.to # NoAddr => InSegment(i.to, i.seg))

(* A map is one of the executable it is given for.                         *)
OfImage(r) ==
  /\ [seg |-> r.seg, lin |-> r.extents.b] \in Located
  /\ r.near \in BOOLEAN
  /\ r.reach \in Seq([b : Byte, e : Int]) /\ r.unreach \in Seq([b : Byte, e : Int])

BlockBytes(b) == b.b..b.e

Holds(r, lin) ==
  lin \in BlockBytes(r.extents) \/ \E i \in DOMAIN r.reach : lin \in BlockBytes(r.reach[i])

(* Loading a map refuses routines that share a byte (colidesBlock); a      *)
(* listing is not checked. *)
RoutinesApart(rts) ==
  \A m, n \in DOMAIN rts : \A x \in Byte : Holds(rts[m], x) /\ Holds(rts[n], x) => m = n

(* Nothing refuses a block of a routine that ends before it begins.        *)
BlocksValid(rts) ==
  \A n \in DOMAIN rts : \A i \in DOMAIN rts[n].reach : rts[n].reach[i].b <= rts[n].reach[i].e

ASSUME CaseAssumption ==
  /\ \A p \in Programs : /\ \A x \in Byte : Decodes(p.ref[x]) /\ Decodes(p.tgt[x])
                         /\ p.entry \in Located /\ p.tentry \in Located
  /\ \A m \in RefMaps :
       /\ m.dataSegs \in Nat
       /\ DOMAIN m.rmap = 1..Len(m.rmap) /\ Len(m.rmap) \in Nat
       /\ \A n \in DOMAIN m.rmap : OfImage(m.rmap[n])
       /\ \A n \in DOMAIN m.rmap : m.tmap[n] \in Located \cup {InvalidAddr}
       /\ \A s \in DOMAIN m.rsegs : m.rsegs[s] \in SegTypes
  /\ \A o \in Options : o.refSkip \in Nat /\ o.tgtSkip \in Nat

VARIABLES case,      \* what is compared
          sq, tq,    \* scanQueue and tgtQueue
          tnames,    \* routine named by each entrypoint of tq, 0 if none
          tsegs,     \* the segments of the target
          off,       \* offMap
          rout,      \* routine: its position in the map, 0 outside of it
          block,     \* compareBlock
          tid,       \* the id bytes of the target are marked with
          rc, tc,    \* refCsip and tgtCsip
          skip,      \* counters and origins of the skips going on
          compared,  \* comparedSize
          entered,   \* routineNames
          excluded,  \* excludedNames
          phase,     \* "next", "compare" or "done"
          result,    \* "match", "mismatch" or "error"
          hist       \* history the properties read, nothing the code keeps

vars == <<case, sq, tq, tnames, tsegs, off, rout, block, tid, rc, tc, skip, compared,
          entered, excluded, phase, result, hist>>

target == <<tq, tnames, tsegs>>
place == <<rout, block, tid>>
skips == <<skip, compared>>
seen == <<entered, excluded>>

VISITED_ID == 1

-----------------------------------------------------------------------------
(* What a comparison asks of an instruction.  Instructions that are no     *)
(* branch have a name that stands for class and operand types, an          *)
(* immediate val, and an offset ofs if mem names the segment register of a *)
(* memory operand.                                                         *)

NoBlock == [b |-> -1, e |-> -2]

IsCall(i) == i.kind \in {"call", "calli", "callfar"}
IsJump(i) == i.kind \in {"jmp", "jcc"}
IsBranch(i) == IsCall(i) \/ IsJump(i)
IsReturn(i) == i.kind = "ret"

(* getBranch, with no register known: an indirect call goes nowhere. *)
BranchDest(i, at) ==
  IF i.kind \in {"jmp", "jcc", "call"} THEN Wrap(at.seg, i.to)
  ELSE IF i.kind = "callfar" THEN [seg |-> i.seg, lin |-> i.to]
  ELSE InvalidAddr

(* The immediate a near branch is encoded with. *)
Displacement(i, at) == i.to - (at.lin + i.len)

SameOperands(r, rat, t, tat) ==
  IF r.kind \in {"jmp", "jcc", "call"} THEN Displacement(r, rat) = Displacement(t, tat)
  ELSE IF r.kind = "callfar" THEN r.seg = t.seg /\ r.to = t.to
  ELSE r.val = t.val /\ r.ofs = t.ofs

(* Operand sizes tell a short jump from a near one. *)
SameForm(r, t) ==
  /\ r.kind = t.kind /\ r.name = t.name /\ r.mem = t.mem
  /\ r.kind = "jmp" => r.len = t.len

(* Instruction::match. *)
InstructionMatch(r, rat, t, tat) ==
  IF ~SameForm(r, t) THEN "MISMATCH"
  ELSE IF SameOperands(r, rat, t, tat) THEN "FULL" ELSE "DIFF"

(* The variants known for the reference instructions (INSTR_VARIANT), as   *)
(* sequences of names.                                                     *)
Variants(name) ==
  CASE name = "add sp,2" -> << <<"pop cx">>, <<"inc sp", "inc sp">> >>
    [] name = "add sp,4" -> << <<"pop cx", "pop cx">> >>
    [] name = "sub ax,ax" -> << <<"xor ax,ax">> >>
    [] OTHER -> << >>

(* Where the target is after the instructions v from at, if it holds them. *)
AfterVariant(tgt, v, at) ==
  FoldLeft(LAMBDA a, n : IF a \in Byte /\ tgt[a].name = n THEN a + tgt[a].len ELSE -1,
           at, v)

MatchingVariants(r, at) ==
  {k \in DOMAIN Variants(r.name) : AfterVariant(case.tgt, Variants(r.name)[k], at) # -1}

-----------------------------------------------------------------------------
(* instructionsMatch: the result, the equivalences it leaves and the       *)
(* place in the target, which a variant moves.  Results that only differ   *)
(* in how a line is coloured (DIFFVAL, DIFFTGT) are one.                   *)

Verdict(res, map, at) == [res |-> res, off |-> map, tc |-> at]

VariantMatch(r) ==
  IF case.opt.variant /\ MatchingVariants(r, tc.lin) # {}
  THEN LET k == CHOOSE k \in MatchingVariants(r, tc.lin) :
                  \A l \in MatchingVariants(r, tc.lin) : k <= l
       IN Verdict("VARIANT", off,
                  [tc EXCEPT !.lin = AfterVariant(case.tgt, Variants(r.name)[k], tc.lin)])
  ELSE Verdict("MISMATCH", off, tc)

IsAssembly == rout # 0 /\ case.rmap[rout].asm

(* The offset of a memory operand is matched in the map of its segment     *)
(* register; a branch through a table in the code segment goes unmatched.  *)
OffsetMatch(r, t) ==
  CASE r.mem = "CS" /\ IsBranch(r) -> Accept(off)
    [] r.mem = "CS" -> CodeMatch(off, LinearAddr(r.ofs), LinearAddr(t.ofs))
    [] r.mem \in {"DS", "ES"} -> DataMatch(off, r.ofs, t.ofs)
    [] r.mem = "SS" -> StackMatch(off, r.ofs, t.ofs)
    [] OTHER -> Accept(off)

BranchMatch(r, t, map) ==
  LET rd == BranchDest(r, rc)
      td == BranchDest(t, tc)
      m == CodeMatch(map, rd, td)
  IN IF ~IsBranch(r) \/ ~IsValid(rd) \/ ~IsValid(td) THEN Verdict("DIFF", map, tc)
     ELSE IF ~m.ok THEN Verdict("MISMATCH", map, tc)
     ELSE Verdict(IF rd.lin = td.lin THEN "MATCH" ELSE "DIFF", m.map, tc)

InstructionsMatch(r, t) ==
  LET ins == InstructionMatch(r, rc, t, tc)
      m == OffsetMatch(r, t)
  IN IF case.opt.ignoreDiff THEN Verdict("MATCH", off, tc)
     ELSE IF ins # "FULL" /\ case.opt.strict THEN Verdict("MISMATCH", off, tc)
     ELSE IF ins = "MISMATCH" /\ r.kind = "jmp" /\ t.kind = "jmp" /\ r.len # t.len
     THEN IF case.opt.variant \/ IsAssembly
          THEN Verdict("VARIANT", off, [tc EXCEPT !.lin = @ + t.len])
          ELSE Verdict("MISMATCH", off, tc)
     ELSE IF ins = "MISMATCH" THEN VariantMatch(r)
     ELSE IF ~m.ok THEN Verdict("MISMATCH", off, tc)
     ELSE IF ins = "FULL" THEN Verdict("MATCH", m.map, tc)
     ELSE BranchMatch(r, t, m.map)

-----------------------------------------------------------------------------
(* The routine map of the reference.  Blocks of a routine are in the order *)
(* of the map, which is not always that of their addresses.                *)

Routine(n) == case.rmap[n]
WithMap == case.rmap # << >>
HasTargetMap == \E n \in DOMAIN case.tmap : IsValid(case.tmap[n])
IsExcluded(r) == r.ignore \/ (r.asm /\ ~case.opt.checkAsm)

FirstIn(S) == CHOOSE n \in S : \A m \in S : n <= m

(* CodeMap::getRoutine: the first routine that holds the address. *)
RoutineAt(lin) ==
  LET S == {n \in DOMAIN case.rmap : Holds(Routine(n), lin)}
  IN IF S = {} THEN 0 ELSE FirstIn(S)

FirstBlock(blocks, Test(_)) ==
  LET S == {i \in DOMAIN blocks : Test(blocks[i])}
  IN IF S = {} THEN NoBlock ELSE blocks[FirstIn(S)]

BlockContaining(r, lin) ==
  LET inside(b) == lin \in BlockBytes(b)
  IN IF FirstBlock(r.reach, inside) # NoBlock THEN FirstBlock(r.reach, inside)
     ELSE FirstBlock(r.unreach, inside)

(* Mutated form: the block after the one that follows at once. *)
NextReachableApart(r, lin) == FirstBlock(r.reach, LAMBDA b : b.b > lin)

NextReachable(r, lin) == FirstBlock(r.reach, LAMBDA b : b.b >= lin)

Entry(r) == [seg |-> r.seg, lin |-> r.extents.b]

(* calculateStats, as far as it decides what comes next. *)
Missed(names) == {n \in DOMAIN case.rmap : ~IsExcluded(Routine(n)) /\ n \notin names}

(* The entrypoints of the routines S are queued, in the order of the map.  *)
SaveRoutines(q, S, near) ==
  LET saved[n \in 0..Len(case.rmap)] ==
        IF n = 0 THEN q
        ELSE IF n \in S THEN SaveCall(saved[n - 1], Entry(Routine(n)), near[n])
        ELSE saved[n - 1]
  IN saved[Len(case.rmap)]

(* Mutated form: nothing is added to the queue. *)
CheckMissedNone(q, names) == q

(* checkMissedRoutines, when the queue has run empty. *)
CheckMissed(q, names) ==
  IF q.queue # << >> THEN q
  ELSE SaveRoutines(q, Missed(names), [n \in DOMAIN case.rmap |-> Routine(n).near])

-----------------------------------------------------------------------------
(* The target location of a reference address nothing is known about.      *)

(* getUnvisited.  A block is closed one byte late when it ends right       *)
(* before a visited last byte, and one of only the last byte never opens.  *)
Unvisited(q) ==
  LET last == CodeSize - 1
      isRun(b, e) == /\ \A x \in b..e : q.visited[x] = NULL_ROUTINE
                     /\ b > 0 => q.visited[b - 1] # NULL_ROUTINE
                     /\ e < last => q.visited[e + 1] # NULL_ROUTINE
  IN {[b |-> p[1], e |-> IF p[2] = last - 1 THEN last ELSE p[2]] :
        p \in {r \in Byte \X Byte : r[1] <= r[2] /\ r[1] # last /\ isRun(r[1], r[2])}}

(* The instructions of the reference from lin on, one after the other. *)
Starts(lin) ==
  FoldLeft(LAMBDA at, k : LET x == Last(at)
                          IN IF x \in Byte THEN Append(at, x + case.ref[x].len) ELSE at,
           <<lin>>, [k \in 1..CodeSize |-> k])

(* Memory::find of the patterns of the first k instructions: the first     *)
(* place in the block where the same ones follow, up to their values.      *)
FoundIn(u, starts, k) ==
  LET here(a) == \A j \in 1..k :
                   LET x == a + (starts[j] - starts[1])
                   IN /\ x \in Byte /\ SameForm(case.ref[starts[j]], case.tgt[x])
                      /\ case.ref[starts[j]].len = case.tgt[x].len
                      /\ x + case.tgt[x].len - 1 <= u.e
      S == {a \in BlockBytes(u) : here(a)}
  IN IF S = {} THEN {} ELSE {FirstIn(S)}

FoundAnywhere(starts, k) == UNION {FoundIn(u, starts, k) : u \in Unvisited(tq)}

(* findTargetLocation: instructions are added to the pattern until it is   *)
(* found in one place, in none, or the block ends.  Of several places the  *)
(* first is taken.                                                         *)
Candidates(blk, lin) ==
  LET s == Starts(lin)
      inside == {k \in DOMAIN s : s[k] \in Byte /\ s[k] + case.ref[s[k]].len - 1 \in BlockBytes(blk)}
      enough == {k \in inside : Cardinality(FoundAnywhere(s, k)) <= 1}
  IN IF inside = {} THEN {}
     ELSE FoundAnywhere(s, IF enough = {} THEN Cardinality(inside) ELSE FirstIn(enough))

(* The last of the target's segments that reaches lin (getSegment). *)
SegmentsOver(lin) == {s \in {tsegs[i].addr : i \in DOMAIN tsegs} : InSegment(lin, s)}

TargetAt(lin) ==
  [seg |-> CHOOSE s \in SegmentsOver(lin) : \A o \in SegmentsOver(lin) : o <= s, lin |-> lin]

-----------------------------------------------------------------------------
(* The target queue also keeps the names of its entrypoints.               *)

TargetCall(q, names, dest, near, name) ==
  LET p == SaveCall(q, dest, near)
  IN IF ~IsValid(dest) THEN <<q, names>>
     ELSE <<p, IF RoutineCount(p) > RoutineCount(q) THEN Append(names, name) ELSE names>>

(* getEntrypoint by name; an id of 0 where there is none. *)
TargetId(names, name) ==
  LET S == {i \in DOMAIN names : names[i] = name}
  IN IF S = {} \/ name = 0 THEN NULL_ROUTINE ELSE FirstIn(S)

-----------------------------------------------------------------------------
(* The initial state is where compareCode starts: mzdiff seeds the queue   *)
(* from the map of the reference if there is a map of the target.          *)

NoSkip == [ref |-> 0, tgt |-> 0, rorg |-> InvalidAddr, torg |-> InvalidAddr]

Seeded ==
  SaveRoutines(EmptyQueue,
               {n \in DOMAIN case.rmap : ~IsExcluded(Routine(n)) /\ ~Routine(n).external},
               [n \in DOMAIN case.rmap |-> FALSE])

Init ==
  /\ \E p \in Programs, m \in RefMaps, o \in Options :
       case = [ref |-> p.ref, tgt |-> p.tgt, entry |-> p.entry, tentry |-> p.tentry,
               rmap |-> m.rmap, rsegs |-> m.rsegs, dataSegs |-> m.dataSegs,
               tmap |-> m.tmap, opt |-> o]
  /\ sq = IF HasTargetMap /\ Seeded.queue # << >> THEN Seeded
          ELSE SeededQueue(case.entry, VISITED_ID)
  /\ tq = SeededQueue(case.tentry, VISITED_ID)
  /\ tnames = << RoutineAt(case.entry.lin) >>
  /\ tsegs = StoreSegment(<< >>, NoName, "CODE", case.tentry.seg)
  /\ off = SetCode(NewOffsetMap(case.dataSegs), case.entry, case.tentry)
  /\ rout = 0 /\ block = NoBlock /\ tid = NULL_ROUTINE
  /\ rc = InvalidAddr /\ tc = InvalidAddr
  /\ skip = NoSkip
  /\ compared = 0
  /\ entered = {} /\ excluded = {}
  /\ phase = "next" /\ result = "none"
  /\ hist = [pairs |-> {}, guessed |-> {}, last |-> "none", frame |-> 0,
             back |-> {}, short |-> {}, strayed |-> FALSE]

-----------------------------------------------------------------------------
(* The outer loop: the next location is taken from the queue.              *)

Done(res) == phase' = "done" /\ result' = res

Finish ==
  /\ phase = "next" /\ sq.queue = << >>
  /\ Done("match")
  /\ UNCHANGED <<case, sq, target, off, place, rc, tc, skips, seen, hist>>

(* A location is being considered, unless --nocall leaves it there once    *)
(* the entrypoint was compared.                                            *)
Point == Head(sq.queue)
StopsHere ==
  /\ case.opt.noCall /\ Point.addr.lin # case.entry.lin
  /\ sq.visited[case.entry.lin] = VISITED_ID
PastStop(a) == IsValid(case.opt.stop) /\ a.lin >= case.opt.stop.lin

(* Mutated form: a routine is compared once. *)
UnseenRoutine == WithMap => RoutineAt(Point.addr.lin) \notin entered
Unseen == sq.visited[Point.addr.lin] = NULL_ROUTINE

Considering == phase = "next" /\ sq.queue # << >> /\ ~StopsHere

StopAfterEntry ==
  /\ phase = "next" /\ sq.queue # << >> /\ StopsHere
  /\ sq' = NextPoint(sq)
  /\ Done("match")
  /\ UNCHANGED <<case, target, off, place, rc, tc, skips, seen, hist>>

(* Taking a location forgets the stack offsets if it was called.  Mutated  *)
(* form: it does not.                                                      *)
TakeKeepingStack ==
  /\ Considering
  /\ sq' = NextPoint(sq) /\ rc' = Point.addr
  /\ off' = off
  /\ UNCHANGED case

Take ==
  /\ Considering
  /\ sq' = NextPoint(sq) /\ rc' = Point.addr
  /\ off' = IF Point.call THEN ResetStack(off) ELSE off
  /\ UNCHANGED case

ReachStop ==
  /\ Take /\ PastStop(Point.addr)
  /\ Done("match")
  /\ UNCHANGED <<skips, target, place, tc, seen, hist>>

SkipCompared ==
  /\ Take /\ ~PastStop(Point.addr) /\ ~Unseen
  /\ hist' = [hist EXCEPT !.last = "skipped"]
  /\ UNCHANGED <<skips, target, place, tc, seen, phase, result>>

(* A location to compare, and the routine the map has there. *)
Here == RoutineAt(Point.addr.lin)
Compares == Take /\ ~PastStop(Point.addr) /\ Unseen
KnownTarget == GetCode(off, Point.addr)
HereBlock == BlockContaining(Routine(Here), Point.addr.lin)

NotInMap ==
  /\ Compares /\ WithMap /\ Here = 0
  /\ rout' = 0 /\ tc' = KnownTarget
  /\ Done("mismatch")
  /\ UNCHANGED <<skips, target, block, tid, seen, hist>>

InMap == Compares /\ WithMap /\ Here # 0 /\ rout' = Here /\ entered' = entered \cup {Here}

(* The address is within the extents, but in no block of the routine. *)
NoBlockThere ==
  /\ InMap /\ HereBlock = NoBlock
  /\ block' = HereBlock /\ tc' = KnownTarget
  /\ Done("mismatch")
  /\ UNCHANGED <<skips, target, tid, excluded, hist>>

SkipExcluded ==
  /\ InMap /\ HereBlock # NoBlock /\ IsExcluded(Routine(Here))
  /\ block' = HereBlock /\ tc' = KnownTarget
  /\ excluded' = excluded \cup {Here}
  /\ hist' = [hist EXCEPT !.last = "skipped"]
  /\ UNCHANGED <<skips, target, tid, phase, result>>

Wanted == InMap /\ HereBlock # NoBlock /\ ~IsExcluded(Routine(Here)) /\ block' = HereBlock

(* comparisonLoop begins.  The counters of skips start over, the origins   *)
(* stay what they were.                                                    *)
Begin(at) ==
  /\ tc' = at
  /\ tsegs' = StoreSegment(tsegs, NoName, "CODE", at.seg)
  /\ skip' = [skip EXCEPT !.ref = 0, !.tgt = 0] /\ UNCHANGED compared
  /\ phase' = "compare" /\ tid' = TargetId(tnames', rout')
  /\ UNCHANGED <<excluded, result>>

EnterKnown ==
  /\ Wanted /\ IsValid(KnownTarget)
  /\ UNCHANGED <<tq, tnames>>
  /\ Begin(KnownTarget)
  /\ hist' = [hist EXCEPT !.last = "compared"]

(* The target queue learns of a routine whose place was looked up. *)
EnterFound(at) ==
  LET called == TargetCall(tq, tnames, at, Routine(Here).near, Here)
      isEntry == Point.addr.lin = Routine(Here).extents.b
  IN /\ tq' = IF isEntry THEN called[1] ELSE tq
     /\ tnames' = IF isEntry THEN called[2] ELSE tnames
     /\ Begin(at)

NamedTarget ==
  IF Point.addr.lin = Routine(Here).extents.b THEN case.tmap[Here] ELSE InvalidAddr

EnterByName ==
  /\ Wanted /\ ~IsValid(KnownTarget) /\ IsValid(NamedTarget)
  /\ EnterFound(NamedTarget)
  /\ hist' = [hist EXCEPT !.last = "compared"]

Searching == Wanted /\ ~IsValid(KnownTarget) /\ ~IsValid(NamedTarget)
Found == Candidates(HereBlock, Point.addr.lin)

EnterBySearch ==
  /\ Searching /\ Found # {}
  /\ SegmentsOver(FirstIn(Found)) # {}
  /\ EnterFound(TargetAt(FirstIn(Found)))
  /\ hist' = [hist EXCEPT !.last = "compared"]

(* A place that is not found, or that no segment reaches, is an error      *)
(* thrown out of compareCode; where all of the target was visited nothing  *)
(* is looked for, which is a mismatch.                                     *)
SearchFails ==
  /\ Searching
  /\ IF Found = {} THEN TRUE ELSE SegmentsOver(FirstIn(Found)) = {}
  /\ tc' = KnownTarget
  /\ Done(IF Unvisited(tq) = {} THEN "mismatch" ELSE "error")
  /\ UNCHANGED <<skips, target, tid, excluded, hist>>

EnterWithoutMap ==
  /\ Compares /\ ~WithMap
  /\ rout' = 0 /\ tc' = KnownTarget
  /\ skip' = [skip EXCEPT !.ref = 0, !.tgt = 0] /\ UNCHANGED compared
  /\ phase' = "compare" /\ tid' = TargetId(tnames, 0)
  /\ hist' = [hist EXCEPT !.last = "compared"]
  /\ UNCHANGED <<target, block, seen, result>>

-----------------------------------------------------------------------------
(* comparisonLoop: one step is one pair of instructions.                   *)

R == case.ref[rc.lin]
T == case.tgt[tc.lin]
Inside == rc.lin \in Byte /\ tc.lin \in Byte
Skipping == skip.ref > 0 \/ skip.tgt > 0

(* The loop is left: where nothing is queued, routines the walk missed     *)
(* are.                                                                    *)
LeaveLoop(q) ==
  /\ sq' = CheckMissed(q, entered)
  /\ phase' = "next" /\ UNCHANGED result

LeaveImage ==
  /\ phase = "compare" /\ ~Inside
  /\ IF Skipping THEN Done("mismatch") /\ UNCHANGED sq ELSE LeaveLoop(sq)
  /\ hist' = [hist EXCEPT !.short = @ \cup {rout}]
  /\ UNCHANGED <<case, target, off, place, rc, tc, skips, seen>>

(* The decoder throws, or the bytes of an instruction end past the image.  *)
Undecodable ==
  \/ R.kind = "bad" \/ T.kind = "bad"
  \/ rc.lin + R.len > CodeSize \/ tc.lin + T.len > CodeSize

DecodeFails ==
  /\ phase = "compare" /\ Inside /\ Undecodable
  /\ Done("error")
  /\ UNCHANGED <<case, sq, target, off, place, rc, tc, skips, seen, hist>>

Compared == /\ phase = "compare" /\ Inside /\ ~Undecodable
            /\ UNCHANGED <<case, place, seen>>

(* Both bytes maps are marked.  A routine the target queue has no name for *)
(* marks with the id of no routine, and so wipes what was there.           *)
MarkedRef == SetRoutineIdx(sq, rc.lin, R.len, VISITED_ID)
MarkedTgt == SetRoutineIdx(tq, tc.lin, T.len, tid)

(* skipAllowed: in the reference first, then in the target; returns stay.  *)
(* Mutated form: the counter is looked at before it counts.                *)
MaySkipRefLate == skip.ref <= case.opt.refSkip /\ ~IsReturn(R)
MaySkipRef == skip.ref + 1 <= case.opt.refSkip /\ ~IsReturn(R)
MaySkipTgt == skip.tgt + 1 <= case.opt.tgtSkip /\ ~IsReturn(T)

Mismatch ==
  /\ Compared
  /\ InstructionsMatch(R, T).res = "MISMATCH" /\ ~MaySkipRef /\ ~MaySkipTgt
  /\ sq' = MarkedRef /\ tq' = MarkedTgt
  /\ Done("mismatch")
  /\ UNCHANGED <<tnames, tsegs, off, rc, tc, skips, hist>>

(* What follows from a pair of branches, skipped over or not: a call is    *)
(* queued for comparison, its destinations and those of a pair of jumps    *)
(* become equivalent.  fail is the loop's return, error a call the byte    *)
(* map of the target has no place for.                                     *)
Outcome(q, p, names, map, fail, error) ==
  [sq |-> q, tq |-> p, names |-> names, off |-> map, fail |-> fail, error |-> error]

RefDest == BranchDest(R, rc)
TgtDest == BranchDest(T, tc)

FollowCall(map) ==
  LET q == SaveBranch(MarkedRef, RefDest, TRUE, R.kind = "call")
      fresh == RoutineCount(q) > RoutineCount(sq)
      m == CodeMatch(map, RefDest, TgtDest)
      called == RoutineAt(RefDest.lin)
      named == TargetCall(MarkedTgt, tnames, TgtDest, T.kind # "callfar", called)
      here == MarkedTgt
  IN IF fresh /\ ~m.ok THEN Outcome(q, here, tnames, map, TRUE, FALSE)
     ELSE IF called = 0 THEN Outcome(q, here, tnames, IF fresh THEN m.map ELSE map, FALSE, FALSE)
     ELSE IF IsValid(TgtDest) /\ TgtDest.lin \notin Byte
     THEN Outcome(q, here, tnames, IF fresh THEN m.map ELSE map, FALSE, TRUE)
     ELSE Outcome(q, named[1], named[2], IF fresh THEN m.map ELSE map, FALSE, FALSE)

FollowJump(map) ==
  LET m == CodeMatch(map, RefDest, TgtDest)
      known == IsValid(RefDest) /\ IsValid(TgtDest)
  IN Outcome(MarkedRef, MarkedTgt, tnames, IF known THEN m.map ELSE map,
             known /\ ~m.ok, FALSE)

(* Mutated form: what branches lead to is not held against the map.        *)
FollowUnchecked(skipped, map) == Outcome(MarkedRef, MarkedTgt, tnames, map, FALSE, FALSE)

Follow(skipped, map) ==
  IF ~case.opt.noCall /\ IsCall(R) /\ IsCall(T) THEN FollowCall(map)
  ELSE IF IsJump(R) /\ IsJump(T) /\ ~skipped THEN FollowJump(map)
  ELSE Outcome(MarkedRef, MarkedTgt, tnames, map, FALSE, FALSE)

(* The segment of a far call is registered with the target; an operand     *)
(* that is no far address reads as segment 0.                              *)
FarSegment ==
  IF R.kind = "callfar" /\ WithMap /\ R.seg \in DOMAIN case.rsegs
  THEN StoreSegment(tsegs, NoName, case.rsegs[R.seg], IF T.kind = "callfar" THEN T.seg ELSE 0)
  ELSE tsegs

(* checkComparisonStop: the position at has left the block or reached the  *)
(* stop address.  The routine's next block is queued in front, and if its  *)
(* place in the target is not known it is guessed to be as far away as in  *)
(* the reference.                                                          *)
PastBlock(at) == block # NoBlock /\ at.lin > block.e
NextBlock(at) == NextReachable(Routine(rout), at.lin)
HasNext(at) == PastBlock(at) /\ NextBlock(at) # NoBlock
Guess(at, tat) == Wrap(tat.seg, tat.lin + (NextBlock(at).b - at.lin))
BlockAddr(b) == [seg |-> Routine(rout).seg, lin |-> b.b]
Guesses(at, map) == HasNext(at) /\ ~IsValid(GetCode(map, BlockAddr(NextBlock(at))))

(* Mutated form: the guess replaces what is known.                         *)
GuessAlways(map, at, tat) ==
  IF HasNext(at) THEN SetCode(map, BlockAddr(NextBlock(at)), Guess(at, tat)) ELSE map

QueueNext(q, at) == IF HasNext(at) THEN SaveJump(q, BlockAddr(NextBlock(at))) ELSE q
WithGuess(map, at, tat) ==
  IF Guesses(at, map) THEN SetCode(map, BlockAddr(NextBlock(at)), Guess(at, tat)) ELSE map

(* The rest of a step whose instructions passed: branches are followed,    *)
(* the positions become at and tat, and the loop may end.                  *)
Proceed(skipped, map, at, tat, note) ==
  LET f == Follow(skipped, map)
      stops == PastBlock(at) \/ PastStop(at)
      q == QueueNext(f.sq, at)
  IN /\ tq' = f.tq /\ tnames' = f.names
     /\ IF f.fail \/ f.error
        THEN /\ Done(IF f.error THEN "error" ELSE "mismatch")
             /\ sq' = f.sq /\ off' = f.off /\ hist' = note
             /\ UNCHANGED <<tsegs, rc, tc, compared>>
        ELSE /\ tsegs' = FarSegment
             /\ rc' = at /\ tc' = tat
             /\ compared' = compared + (at.lin - rc.lin)
             /\ off' = WithGuess(f.off, at, tat)
             /\ hist' = [note EXCEPT !.guessed =
                           IF Guesses(at, f.off) THEN @ \cup {NextBlock(at).b} ELSE @]
             /\ IF stops THEN LeaveLoop(q)
                ELSE sq' = q /\ UNCHANGED <<phase, result>>

SkipRef ==
  /\ Compared
  /\ InstructionsMatch(R, T).res = "MISMATCH" /\ MaySkipRef
  /\ skip' = [skip EXCEPT !.ref = @ + 1, !.rorg = IF skip.ref = 0 THEN rc ELSE @]
  /\ Proceed(TRUE, off, [rc EXCEPT !.lin = @ + R.len], tc, hist)

(* A skip in the target allows the reference its skips again, and takes it *)
(* back to where they began.  That may be in a location compared before,   *)
(* as the origins of the skips outlive it.                                 *)
Rewound == IF IsValid(skip.rorg) THEN skip.rorg ELSE rc
Strays == block # NoBlock /\ Rewound.lin \notin BlockBytes(block)

SkipTgt ==
  /\ Compared
  /\ InstructionsMatch(R, T).res = "MISMATCH" /\ ~MaySkipRef /\ MaySkipTgt
  /\ skip' = [skip EXCEPT !.ref = 0, !.tgt = @ + 1, !.torg = IF skip.tgt = 0 THEN tc ELSE @]
  /\ Proceed(TRUE, off, Rewound, [tc EXCEPT !.lin = @ + T.len],
             [hist EXCEPT !.back = {p \in hist.pairs : p[1].lin >= Rewound.lin /\ p[1].lin < rc.lin},
                          !.strayed = @ \/ Strays])

(* Only a match ends the skips going on. *)
SkipsAfter(res) == IF res = "MATCH" /\ Skipping THEN NoSkip ELSE skip

Accepted ==
  LET v == InstructionsMatch(R, T)
  IN /\ Compared /\ v.res # "MISMATCH"
     /\ skip' = SkipsAfter(v.res)
     /\ Proceed(FALSE, v.off, [rc EXCEPT !.lin = @ + R.len],
                IF v.res = "VARIANT" THEN v.tc ELSE [tc EXCEPT !.lin = @ + T.len],
                [hist EXCEPT !.pairs = @ \cup {<<rc, tc>>},
                             !.frame = IF v.off.stack = off.stack THEN @ ELSE rout])

-----------------------------------------------------------------------------
Next == \/ Finish \/ StopAfterEntry \/ ReachStop \/ SkipCompared
        \/ NotInMap \/ NoBlockThere \/ SkipExcluded
        \/ EnterKnown \/ EnterByName \/ EnterBySearch \/ SearchFails \/ EnterWithoutMap
        \/ LeaveImage \/ DecodeFails \/ Mismatch \/ SkipRef \/ SkipTgt \/ Accepted
        \/ (phase = "done" /\ UNCHANGED vars)

Spec == Init /\ [][Next]_vars

-----------------------------------------------------------------------------
(* A map laid out like the code it is of, which nothing checks: its        *)
(* blocks are apart and in the order of their addresses, a segment that    *)
(* reaches a routine reaches all of it, and there are places S where the   *)
(* instructions are, one behind the other in a block.                      *)

BlocksOf(r) == ToSet(r.reach) \cup ToSet(r.unreach)
Owns(r, x) == x \in BlockBytes(r.extents) \/ \E b \in BlocksOf(r) : x \in BlockBytes(b)

BlocksApart(rts) ==
  /\ \A m, n \in DOMAIN rts : \A x \in Byte : Owns(rts[m], x) /\ Owns(rts[n], x) => m = n
  /\ \A n \in DOMAIN rts : \A b, c \in BlocksOf(rts[n]) :
       b # c => BlockBytes(b) \cap BlockBytes(c) = {}

BlocksInOrder(rts) ==
  \A n \in DOMAIN rts :
    /\ rts[n].extents.b <= rts[n].extents.e
    /\ \A i, j \in DOMAIN rts[n].reach : i < j => rts[n].reach[i].b < rts[n].reach[j].b

(* The segments that code is called with. *)
Frames(ref, entry, rts) ==
  {entry.seg} \cup {rts[n].seg : n \in DOMAIN rts}
              \cup {ref[x].seg : x \in {y \in Byte : ref[y].kind = "callfar"}}

FramesReach(ref, entry, rts) ==
  \A s \in Frames(ref, entry, rts) : \A n \in DOMAIN rts : \A x, y \in Byte :
    Owns(rts[n], x) /\ Owns(rts[n], y) /\ InSegment(x, s) => InSegment(y, s)

Instructed(ref, entry, rts, S) ==
  /\ entry.lin \in S
  /\ \A n \in DOMAIN rts :
       rts[n].extents.b \in S /\ \A i \in DOMAIN rts[n].reach : rts[n].reach[i].b \in S
  /\ \A x \in S :
       LET next == x + ref[x].len
       IN /\ \A y \in S : x < y => next <= y
          /\ \A n \in DOMAIN rts : \A b \in BlocksOf(rts[n]) :
               {x, next} \subseteq BlockBytes(b) => next \in S
          /\ \A s \in Frames(ref, entry, rts) :
               LET dest == BranchDest(ref[x], [seg |-> s, lin |-> x]).lin
               IN IsCall(ref[x]) /\ InSegment(x, s) /\ dest \in Byte => dest \in S

LaidOut(ref, entry, rts) ==
  /\ BlocksValid(rts) /\ BlocksApart(rts) /\ BlocksInOrder(rts)
  /\ FramesReach(ref, entry, rts)
  /\ \E S \in SUBSET Byte : Instructed(ref, entry, rts, S)

MapsLaidOut == \A p \in Programs, m \in RefMaps : LaidOut(p.ref, p.entry, m.rmap)

-----------------------------------------------------------------------------
(* Properties.                                                             *)

(* The comparison went through to its end and found no difference. *)
Complete == result = "match" /\ ~case.opt.noCall /\ ~IsValid(case.opt.stop)

(* Both queues stay consistent, whatever the comparison puts into them, and *)
(* every entrypoint of the target has its name (scanq.cpp saveCall).       *)
CompareTypeOK ==
  /\ Consistent(sq) /\ Consistent(tq)
  /\ Len(tnames) = RoutineCount(tq)
  /\ skip.ref <= case.opt.refSkip /\ skip.tgt <= case.opt.tgtSkip

(* No two reference addresses stand for one target address, except for     *)
(* places checkComparisonStop guessed with setCode, which looks at nothing *)
(* (analysis.cpp:1105).                                                    *)
CodeOneToOne ==
  LET met == [x \in DOMAIN off.code \ hist.guessed |-> off.code[x].lin]
  IN OneToOne(met)

(* What a comparison has found an address to stand for it never changes:   *)
(* neither a guess nor a later branch replaces it.                         *)
CodeMapStable ==
  [][\A x \in DOMAIN off.code : x \in DOMAIN off'.code /\ off'.code[x] = off.code[x]]_vars

(* Across all routines of a comparison, data offsets keep to as many       *)
(* partners, in either direction, as there are data segments.              *)
DataBounded == DataWithinSegments(off)

(* Stack offsets that decide about an instruction were met in the same     *)
(* routine, never in its caller or in the one compared before.             *)
StackOfRoutine == phase = "compare" /\ off.stack # << >> => hist.frame = rout

(* Where the branches at a pair of places lead is equivalent.              *)
LeadAlike(p) ==
  LET to == BranchDest(case.ref[p[1].lin], p[1]).lin
  IN /\ to \in DOMAIN off.code
     /\ off.code[to].lin = BranchDest(case.tgt[p[2].lin], p[2]).lin

(* Two jumps that were compared with each other lead to equivalent places, *)
(* however much later either place was mapped, unless the comparison       *)
(* failed.                                                                 *)
JumpsFollowMap ==
  result # "mismatch" =>
    \A p \in hist.pairs :
      IsJump(case.ref[p[1].lin]) /\ IsJump(case.tgt[p[2].lin]) => LeadAlike(p)

(* Where a comparison without differences compared its last location, every *)
(* routine of the map was compared or at least queued: a routine nothing   *)
(* calls is added by checkMissedRoutines.                                  *)
MissedAreQueued ==
  Complete /\ WithMap /\ hist.last = "compared" =>
    \A n \in Missed(entered) : KnownEntrypoint(sq, Routine(n).extents.b)

(* A comparison without differences that compared the entry of a routine   *)
(* compared each reachable block behind it.  Two things end a routine      *)
(* early: a place outside of the image of the target, which counts as      *)
(* successful (analysis.cpp:1138), and a skip in the target that takes the *)
(* reference back to another location (analysis.cpp:1061).                 *)
BlocksCompared ==
  Complete /\ ~hist.strayed =>
    \A n \in entered \ (excluded \cup hist.short) :
      LET entry == Routine(n).extents.b
          blocks == {b \in ToSet(Routine(n).reach) : b.b >= entry}
      IN sq.visited[entry] = VISITED_ID =>
           \A b \in blocks : sq.visited[b.b] = VISITED_ID

(* A comparison without differences compared every entrypoint that was     *)
(* ever queued, but those of excluded routines: none is lost in a place    *)
(* where the walk leaves a block or a routine.  One whose place in the     *)
(* target is outside of the image counts as successful (analysis.cpp:1138). *)
QueuedCompared ==
  Complete =>
    \A i \in DOMAIN sq.entrypoints :
      LET a == sq.entrypoints[i].addr.lin
      IN \/ sq.visited[a] = VISITED_ID
         \/ WithMap /\ RoutineAt(a) \in excluded
         \/ a \in DOMAIN off.code /\ off.code[a].lin \notin Byte

-----------------------------------------------------------------------------
(* What comments say of a comparison and the code does not do.             *)

(* "before terminating, check for any routines missed from the reference   *)
(* map" (analysis.cpp:779): no success without them.                       *)
MissedCompared == Complete /\ WithMap => Missed(entered) = {}

(* The offset map keeps code addresses "(calls, jumps)" so as "to make     *)
(* sure they are consistent" (analysis.h 25-26): two calls compared with   *)
(* each other lead to equivalent places.                                   *)
CallsFollowMap ==
  result # "mismatch" =>
    \A p \in hist.pairs :
      case.ref[p[1].lin].kind = "call" /\ case.tgt[p[2].lin].kind = "call" => LeadAlike(p)

(* "rewind reference position if it was skipped before" (analysis.cpp      *)
(* 1060): the reference is taken back over skipped instructions, never     *)
(* over one that was found to match.                                       *)
RewindKeepsMatches == hist.back = {}
=============================================================================
