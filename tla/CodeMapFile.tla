---------------------------- MODULE CodeMapFile ----------------------------
(***************************************************************************)
(* The code map as its files have it (codemap.cpp, routine.cpp): what one  *)
(* line of a map file does to the map, the order a map is put in when it   *)
(* is complete, the lines it is saved as, and the totals of its summary.   *)
(*                                                                         *)
(* Routines are a set, as the map sorts them by their entrypoint.  A block *)
(* is a range of linear addresses; its segment is that of its routine.     *)
(* Names are kept where lines refer to each other by them.                 *)
(***************************************************************************)
EXTENDS Blocks

CONSTANT SegReach     \* bytes a 16-bit offset reaches, 64K in the code

Tags == {"ignore", "complete", "external", "detached", "assembly", "duplicate"}

NewFile == [size |-> 0, segs |-> << >>, routines |-> {}, vars |-> {},
            unclaimed |-> {}, ida |-> FALSE]

BlocksOf(r) == r.reach \cup r.unreach

SegsAt(m, addr) == {i \in DOMAIN m.segs : m.segs[i].addr = addr}
SegsNamed(m, name) == {i \in DOMAIN m.segs : m.segs[i].name = name}
First(m, is) == m.segs[CHOOSE i \in is : \A j \in is : i <= j]

-----------------------------------------------------------------------------
(* A line of a routine: its segment, its extents and its blocks as offsets *)
(* in it, and its annotations.                                             *)

At(addr, range) == Range2(addr + range.lo, addr + range.hi)

(* Routine::colides, extents and blocks alike. *)
ColidesWith(r, b) == Intersects(r, b) \/ \E x \in BlocksOf(r) : Intersects(x, b)

AnnotationsOf(line) ==
  line.tags \cup (IF line.tags \cap {"external", "detached"} # {} THEN {"ignore"} ELSE {})

LineRoutine(m, line) ==
  LET addr == First(m, SegsNamed(m, line.seg)).addr
      ext == At(addr, line)
      reach == {At(addr, b) : b \in line.reach}
      unreach == {At(addr, b) : b \in line.unreach}
  IN [seg |-> addr, near |-> line.near, lo |-> ext.lo, hi |-> ext.hi,
      reach |-> IF reach \cup unreach = {} /\ m.size # 0 /\ ext.hi < m.size
                THEN {ext} ELSE reach,
      unreach |-> unreach, tags |-> AnnotationsOf(line)]

(* Every block is held against the routines read so far, and against the   *)
(* blocks of its own line, but not against the extents of its own line.    *)
NoCollision(m, line) ==
  LET addr == First(m, SegsNamed(m, line.seg)).addr
      own == {<<k, b>> : k \in {"R"}, b \in line.reach}
             \cup {<<k, b>> : k \in {"U"}, b \in line.unreach}
  IN /\ \A b \in {Range2(line.lo, line.hi)} \cup line.reach \cup line.unreach :
          \A r \in m.routines : ~ColidesWith(r, At(addr, b))
     /\ \A x, y \in own : x # y => ~Intersects(At(addr, x[2]), At(addr, y[2]))

TagsAllowed(tags) ==
  /\ ~({"external", "detached"} \subseteq tags)
  /\ Cardinality(tags \cap {"complete", "ignore", "assembly"}) <= 1

(* Mutated form: annotations not checked. *)
LineAcceptedAnyTags(m, line) ==
  /\ SegsNamed(m, line.seg) # {}
  /\ line.lo <= line.hi
  /\ NoCollision(m, line)

LineAccepted(m, line) ==
  /\ SegsNamed(m, line.seg) # {}
  /\ line.lo <= line.hi
  /\ NoCollision(m, line)
  /\ TagsAllowed(AnnotationsOf(line))

WithRoutine(m, line) == [m EXCEPT !.routines = @ \cup {LineRoutine(m, line)}]

-----------------------------------------------------------------------------
(* The whole map.                                                          *)

(* checkOverlap: a block reaches past the size of the map or below its     *)
(* start, or has a byte of another block. *)
OutOfMap(m, load, b) == b.lo < load \/ b.hi - load >= m.size
AllBlocks(m) == UNION {{<<r, b>> : b \in BlocksOf(r)} : r \in m.routines}
Overlapping(m, load) ==
  \/ \E x \in AllBlocks(m) : OutOfMap(m, load, x[2])
  \/ \E x, y \in AllBlocks(m) : x # y /\ Intersects(x[2], y[2])

(* recalculateExtents: the main block and what follows it without a gap;   *)
(* one byte where there is no main block.                                  *)
MainBlock(r) == {b \in r.reach : b.lo = r.lo}

(* A block with those of a list coalesced into it, one after the other. *)
Coalesced(main, blocks) ==
  LET grown[i \in 0..Len(blocks)] ==
        IF i = 0 THEN main ELSE Coalesce(grown[i - 1], blocks[i])
  IN grown[Len(blocks)]

(* Mutated form: unreachable blocks end the extents. *)
ExtentsReachable(r) ==
  IF MainBlock(r) = {} THEN Range2(r.lo, r.lo)
  ELSE Coalesced(CHOOSE b \in MainBlock(r) : TRUE,
                 SortedBlocks({b \in r.reach : b.lo >= r.lo}))

Extents(r) ==
  IF MainBlock(r) = {} THEN Range2(r.lo, r.lo)
  ELSE Coalesced(CHOOSE b \in MainBlock(r) : TRUE,
                 SortedBlocks({b \in BlocksOf(r) : b.lo >= r.lo}))

DefaultSegs(m) == {i \in DOMAIN m.segs : m.segs[i].def}
DataSegs(m) == {i \in DOMAIN m.segs : m.segs[i].type = "DATA"}

(* The default segment is made the first data segment if it is not one. *)
WithDefault(m) ==
  IF DataSegs(m) = {} \/ (DefaultSegs(m) # {} /\ First(m, DefaultSegs(m)).type = "DATA")
  THEN m.segs
  ELSE LET i == CHOOSE i \in DataSegs(m) : \A j \in DataSegs(m) : i <= j
       IN [m.segs EXCEPT ![i].def = TRUE]

InOrder(m) ==
  [m EXCEPT
     !.routines = IF m.ida THEN @
                  ELSE {[r EXCEPT !.lo = Extents(r).lo, !.hi = Extents(r).hi] : r \in @},
     !.segs = InBaseOrder(WithDefault(m))]

-----------------------------------------------------------------------------
(* save and the way back.  What was relocated by load is moved back; the   *)
(* line names the first segment at the address.                            *)

(* Mutated form: unreachable blocks are not written. *)
LineOfReachable(m, r) ==
  [seg |-> First(m, SegsAt(m, r.seg)).name, near |-> r.near,
   lo |-> r.lo - r.seg, hi |-> r.hi - r.seg,
   reach |-> {Range2(b.lo - r.seg, b.hi - r.seg) : b \in r.reach}, unreach |-> {},
   tags |-> r.tags]

LineOf(m, r) ==
  LET back(b) == Range2(b.lo - r.seg, b.hi - r.seg)
      ext == back(r)
  IN [seg |-> First(m, SegsAt(m, r.seg)).name, near |-> r.near,
      lo |-> ext.lo, hi |-> ext.hi,
      reach |-> {back(b) : b \in r.reach}, unreach |-> {back(b) : b \in r.unreach},
      tags |-> r.tags]

(* The conditions under which routineString and varString give a line. *)
Savable(m, load) ==
  /\ \A r \in m.routines : ValidBlock(r) /\ r.seg >= load /\ SegsAt(m, r.seg) # {}
  /\ \A v \in m.vars : SegsAt(m, v.seg) # {}

HeaderOf(m) == [NewFile EXCEPT !.size = m.size, !.segs = m.segs, !.vars = m.vars]

(* Reading the saved lines again.  Collisions are mutual, so every line is *)
(* accepted after the others or some line is refused, whatever their order. *)
Reread(m) ==
  LET again(rs) == [HeaderOf(m) EXCEPT
                      !.routines = {LineRoutine(HeaderOf(m), LineOf(m, r)) : r \in rs}]
  IN [ok |-> \A r \in m.routines : LineAccepted(again(m.routines \ {r}), LineOf(m, r)),
      map |-> again(m.routines)]

-----------------------------------------------------------------------------
(* getSummary: sizes of extents by annotation, in code segments.           *)

IsCode(m, addr) == SegsAt(m, addr) # {} /\ First(m, SegsAt(m, addr)).type = "CODE"
SizeSum(bs) == Cardinality({p \in bs \X UNION {BytesOf(b) : b \in bs} :
                               ValidBlock(p[1]) /\ p[2] \in BytesOf(p[1])})
CodeRoutines(m) == {r \in m.routines : IsCode(m, r.seg)}
CodeUnclaimed(m) == {b \in m.unclaimed : IsCode(m, b.seg)}
Tagged(m, tag) == {r \in CodeRoutines(m) : tag \in r.tags}

CodeTotal(m) == SizeSum(CodeRoutines(m)) + SizeSum(CodeUnclaimed(m))

(* The consistency checks; a difference below zero is a LogicError.        *)
SummaryConsistent(m) ==
  LET size(tag) == SizeSum(Tagged(m, tag))
      count(tag) == Cardinality(Tagged(m, tag))
  IN /\ CodeTotal(m) <= m.size
     /\ size("external") <= size("ignore") /\ count("external") <= count("ignore")
     /\ size("detached") <= size("ignore") - size("external")
     /\ count("detached") <= count("ignore") - count("external")
     /\ size("complete") + size("ignore") + size("assembly") + SizeSum(CodeUnclaimed(m))
          <= CodeTotal(m)
     /\ count("complete") + count("ignore") + count("assembly")
          + Cardinality(m.routines \ CodeRoutines(m)) <= Cardinality(m.routines)
=============================================================================
