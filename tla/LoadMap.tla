------------------------------ MODULE LoadMap ------------------------------
(***************************************************************************)
(* Loading a code map (the constructor of CodeMap from a file): a map      *)
(* file, a linker map or an IDA listing is read line by line, the blocks   *)
(* are checked for overlap, the bytes no routine claims are made into      *)
(* blocks by the same walk that builds a map after an exploration, and the *)
(* map is put in order.  A loaded map may then be saved and read again.    *)
(*                                                                         *)
(* One action is one line; the actions may come in any order, as lines     *)
(* may.  Names are short enough to be numbers; what is relocated is        *)
(* relocated by load, the linear address of the load segment.              *)
(***************************************************************************)
EXTENDS CodeMapFile, Image

CONSTANTS Loads,          \* load segments, as linear addresses
          Sizes,          \* sizes a file may give the map
          SegLines,       \* segments of a map file
          RoutineLines,   \* routines of a map file
          Offsets,        \* offsets of publics and of listing lines
          LinkSegs,       \* segment definitions of a linker map
          IdaBases,       \* bases in the names of listing segments, or NoBase
          MaxSegs, MaxRoutines, MaxVars     \* bounds

NoBase == -1
Modes == {"segments", "groups", "publics", "none"}
LineTypes == {"CODE", "DATA", "STACK"}

(* A name says where it comes from: a map file, a linker map, or a listing *)
(* with a name that is its own or one that gives the base. *)
SegNames == {"s", "l", "name", "seg"} \X Nat

ASSUME LoadAssumption ==
  /\ SegReach = SegSize
  /\ \A l \in Loads : (l % ParaSize) = 0

(* Numbers in a file have no sign, and a line lists finitely many blocks. *)
ASSUME LinesAssumption ==
  /\ Loads \subseteq Nat /\ Sizes \subseteq Nat /\ Offsets \subseteq Nat
  /\ IdaBases \subseteq Nat \cup {NoBase} /\ MaxRoutines \in Nat
  /\ SegLines \subseteq [name : SegNames, type : LineTypes, addr : Nat, def : BOOLEAN]
  /\ LinkSegs \subseteq [name : SegNames, start : Nat, stop : Nat, length : Nat, type : LineTypes]
  /\ \A line \in RoutineLines :
       /\ line \in [seg : SegNames, near : BOOLEAN, lo : Nat, hi : Nat,
                    reach : SUBSET [lo : Nat, hi : Nat],
                    unreach : SUBSET [lo : Nat, hi : Nat], tags : SUBSET Tags]
       /\ IsFiniteSet(line.reach) /\ IsFiniteSet(line.unreach)

VARIABLES format,   \* "map", "link" or "ida"
          load,
          phase,    \* "reading", "mapping", "loaded" or "failed"
          map,
          pos,      \* where the reader of a linker map or a listing is
          sq, cm,   \* the byte map of the blocks, and the walk over it
          saved     \* the map that was saved, or NoMap

state == <<format, load, phase, map, pos, sq, cm, saved>>

Build == INSTANCE CodeMapBuild

NoMap == NewFile
NoSeg == [name |-> <<"none", 0>>, type |-> "NONE", addr |-> 0, def |-> FALSE]
NoProc == [name |-> 0, seg |-> 0, off |-> 0, near |-> TRUE]

(* The reader of a linker map has a mode, the largest stop so far and the  *)
(* segments that were used; that of a listing the segment and procedure    *)
(* that are open, the position and the offset of the line before.          *)
Start == [mode |-> "none", total |-> 0, used |-> {},
          seg |-> NoSeg, proc |-> NoProc, global |-> 0, prev |-> 0]

NoBytes == [visited |-> << >>, entrypoints |-> << >>]

Init ==
  /\ format \in {"map", "link", "ida"} /\ load \in Loads
  /\ phase = "reading" /\ pos = Start /\ saved = NoMap
  /\ map = [NewFile EXCEPT !.ida = (format = "ida")]
  /\ sq = NoBytes /\ cm = Build!NewMap(TRUE, load)

Reading(f) == phase = "reading" /\ format = f
Skip == UNCHANGED <<format, load, sq, cm, saved>>
Refuse == phase' = "failed" /\ map' = NewFile /\ pos' = Start
Parsed(m, p) == phase' = phase /\ map' = m /\ pos' = p

-----------------------------------------------------------------------------
(* loadFromMapFile.  The segments of a file have names of their own.       *)

MapSize ==
  /\ Reading("map")
  /\ \E n \in Sizes : Parsed([map EXCEPT !.size = n], pos)
  /\ Skip

MapSegment ==
  /\ Reading("map") /\ Len(map.segs) < MaxSegs
  /\ \E s \in SegLines :
       /\ SegsNamed(map, s.name) = {}
       /\ Parsed([map EXCEPT !.segs = Append(@, [s EXCEPT !.addr = @ + load])], pos)
  /\ Skip

MapVariable ==
  /\ Reading("map") /\ Cardinality(map.vars) < MaxVars
  /\ \E s \in SegLines, o \in Offsets :
       IF SegsNamed(map, s.name) = {} THEN Refuse
       ELSE LET addr == First(map, SegsNamed(map, s.name)).addr
            IN Parsed([map EXCEPT !.vars = @ \cup {[seg |-> addr, lin |-> addr + o]}], pos)
  /\ Skip

MapRoutine ==
  /\ Reading("map") /\ Cardinality(map.routines) < MaxRoutines
  /\ \E line \in RoutineLines :
       IF LineAccepted(map, line) THEN Parsed(WithRoutine(map, line), pos) ELSE Refuse
  /\ Skip

-----------------------------------------------------------------------------
(* loadFromLinkFile: nothing is relocated.                                 *)

Floor(lin) == lin - (lin % ParaSize)

LinkHeading ==
  /\ Reading("link")
  /\ \E mode \in Modes :
       mode # pos.mode /\ Parsed(map, [pos EXCEPT !.mode = mode])
  /\ Skip

(* Only the first segment at an address is kept. *)
LinkSegment ==
  /\ Reading("link") /\ pos.mode = "segments" /\ Len(map.segs) < MaxSegs
  /\ \E s \in LinkSegs :
       LET seg == [name |-> s.name, type |-> s.type, addr |-> Floor(s.start), def |-> FALSE]
       IN IF s.start > s.stop THEN Refuse
          ELSE IF s.length = 0 THEN Parsed(map, pos)
          ELSE Parsed(IF SegsAt(map, seg.addr) = {} /\ s.type \in {"CODE", "DATA"}
                      THEN [map EXCEPT !.segs = Append(@, seg)] ELSE map,
                      [pos EXCEPT !.total = Later(@, s.stop)])
  /\ Skip

(* DGROUP. *)
LinkGroup ==
  /\ Reading("link") /\ pos.mode = "groups"
  /\ \E s \in LinkSegs, o \in Offsets :
       IF o # 0 THEN Refuse
       ELSE LET default(t) == [t EXCEPT !.def = @ \/ t.addr = Floor(s.start)]
            IN Parsed([map EXCEPT !.segs = [i \in DOMAIN @ |-> default(@[i])]], pos)
  /\ Skip

LinkPublic ==
  /\ Reading("link") /\ pos.mode = "publics"
  /\ \E s \in LinkSegs, o \in Offsets :
       LET addr == Floor(s.start)
           lin == addr + o
           type == First(map, SegsAt(map, addr)).type
           use == [pos EXCEPT !.used = @ \cup
                     {t \in {First(map, SegsAt(map, addr))} : \A u \in @ : u.addr # addr}]
       IN IF SegsAt(map, addr) = {} THEN Parsed(map, pos)
          ELSE IF type = "CODE"
          THEN /\ Cardinality(map.routines) < MaxRoutines
               /\ IF \E r \in map.routines : lin \in BytesOf(r) THEN Parsed(map, pos)
                  ELSE Parsed([map EXCEPT !.routines = @ \cup
                          {[seg |-> addr, near |-> TRUE, lo |-> lin, hi |-> lin,
                            reach |-> {}, unreach |-> {}, tags |-> {}]}], use)
          ELSE /\ Cardinality(map.vars) < MaxVars
               /\ IF \E v \in map.vars : v.lin = lin THEN Parsed(map, pos)
                  ELSE Parsed([map EXCEPT !.vars = @ \cup {[seg |-> addr, lin |-> lin]}], use)
  /\ Skip

LinkMap ==
  [map EXCEPT !.size = pos.total,
              !.segs = InBaseOrder(SetToSeq(pos.used))]

-----------------------------------------------------------------------------
(* loadFromIdaFile.  A line moves the position by the distance of its      *)
(* offset from the line before, after what else it does.                   *)

Moved(p, off) == [p EXCEPT !.global = @ + (off - p.prev), !.prev = off]
Line(m, p, off) == IF off < p.prev THEN Refuse ELSE Parsed(m, Moved(p, off))

IdaLength ==
  /\ Reading("ida") /\ map.size = 0
  /\ \E n \in Sizes : Parsed([map EXCEPT !.size = n], pos)
  /\ Skip

(* Mutated form: a position at a paragraph stays there. *)
PaddedAligned(at) == at + ((ParaSize - (at % ParaSize)) % ParaSize)

(* Any position but the first is padded, one at a paragraph by a whole one. *)
Padded(at) == IF at = 0 THEN 0 ELSE at + (ParaSize - (at % ParaSize))

(* A name of the form seg and a number gives the base of the segment. *)
IdaSegment ==
  /\ Reading("ida") /\ Len(map.segs) < MaxSegs
  /\ \E base \in IdaBases, type \in {"CODE", "DATA"}, off \in Offsets :
       LET at == Padded(pos.global)
           addr == (IF base = NoBase THEN at ELSE base) + load
           seg == [name |-> IF base = NoBase THEN <<"name", Len(map.segs)>> ELSE <<"seg", base>>,
                   type |-> type, addr |-> addr, def |-> FALSE]
       IN IF pos.seg.type # "NONE" THEN Refuse
          ELSE Line(map, [pos EXCEPT !.global = at, !.seg = seg, !.prev = 0], off)
  /\ Skip

IdaEnds ==
  /\ Reading("ida") /\ pos.seg # NoSeg /\ pos.proc = NoProc
  /\ \E off \in Offsets :
       Line([map EXCEPT !.segs = Append(@, pos.seg)], [pos EXCEPT !.seg = NoSeg], off)
  /\ Skip

IdaProc ==
  /\ Reading("ida") /\ pos.seg # NoSeg /\ Cardinality(map.routines) < MaxRoutines
  /\ \E off \in Offsets, name \in 1..MaxRoutines, near \in BOOLEAN :
       IF pos.proc # NoProc THEN Refuse
       ELSE Line(map, [pos EXCEPT !.proc = [name |-> name, seg |-> pos.seg.addr,
                                            off |-> off, near |-> near]], off)
  /\ Skip

IdaEndp ==
  /\ Reading("ida") /\ pos.seg # NoSeg
  /\ \E off \in Offsets, name \in 1..MaxRoutines :
       LET p == pos.proc
           routine == [seg |-> p.seg, near |-> p.near, lo |-> p.seg + p.off,
                       hi |-> pos.seg.addr + off, reach |-> {}, unreach |-> {}, tags |-> {}]
       IN IF p = NoProc \/ p.name # name THEN Refuse
          ELSE Line([map EXCEPT !.routines = @ \cup {routine}],
                    [pos EXCEPT !.proc = NoProc], off)
  /\ Skip

IdaData ==
  /\ Reading("ida") /\ pos.seg # NoSeg /\ Cardinality(map.vars) < MaxVars
  /\ \E off \in Offsets :
       Line([map EXCEPT !.vars = @ \cup {[seg |-> pos.seg.addr, lin |-> pos.seg.addr + off]}],
            pos, off)
  /\ Skip

(* A line of another type. *)
IdaOther ==
  /\ Reading("ida") /\ pos.seg # NoSeg
  /\ \E off \in Offsets : Line(map, pos, off)
  /\ Skip

-----------------------------------------------------------------------------
(* The end of the file: the rest of the constructor.                       *)

(* The ranges marked in the bogus queue.  Mutated form: not the            *)
(* unreachable ones. *)
MarkedReachable(m) == IF m.ida THEN m.routines ELSE UNION {r.reach : r \in m.routines}
Marked(m) == IF m.ida THEN m.routines ELSE {x[2] : x \in AllBlocks(m)}

Visited(m) ==
  [b \in load..(load + m.size - 1) |->
     IF \E x \in Marked(m) : b \in BytesOf(x) THEN 1 ELSE Build!NULL_ROUTINE]

Construct(m) ==
  IF Overlapping(m, load) \/ \E x \in Marked(m) : OutOfMap(m, load, x)
  THEN phase' = "failed" /\ map' = NewFile /\ UNCHANGED <<sq, cm>>
  ELSE /\ phase' = "mapping" /\ map' = m
       /\ sq' = [NoBytes EXCEPT !.visited = Visited(m)]
       /\ cm' = Build!NewMap(TRUE, load)

EndOfFile ==
  /\ phase = "reading"
  /\ IF format = "map" /\ map.size = 0
     THEN phase' = "failed" /\ map' = NewFile /\ UNCHANGED <<sq, cm>>
     ELSE Construct(IF format = "link" THEN LinkMap ELSE map)
  /\ pos' = Start
  /\ UNCHANGED <<format, load, saved>>

(* The segments are still in the order of the file. *)
MapNextByte ==
  /\ phase = "mapping" /\ cm.status = "mapping" /\ ~Build!LastByteMapped(cm, sq, map.segs)
  /\ cm' = Build!MapByte(cm, sq, map.segs)
  /\ UNCHANGED <<format, load, phase, map, pos, sq, saved>>

(* An unclaimed block keeps the segment it was opened in, the first one of *)
(* all that of the place where the walk began. *)
Unclaimed(walk) ==
  {[lo |-> b.lo, hi |-> b.hi,
    seg |-> IF b.lo = load THEN LinearAddr(load).seg
            ELSE Build!FindSegment(map.segs, b.lo)] : b \in walk.blocks}

MapEnd ==
  /\ phase = "mapping"
  /\ cm.status = "failed" \/ Build!LastByteMapped(cm, sq, map.segs)
  /\ LET done == Build!FinishMap(cm, sq, load + map.size)
     IN IF done.status = "failed" THEN phase' = "failed" /\ map' = NewFile
        ELSE /\ phase' = "loaded"
             /\ map' = InOrder([map EXCEPT !.unclaimed = Unclaimed(done)])
  /\ sq' = NoBytes /\ cm' = Build!NewMap(TRUE, load)
  /\ UNCHANGED <<format, load, pos, saved>>

(* The tools save what they explored and listings they loaded, and read it *)
(* back as a map file with the same load segment.                          *)
SaveAndReload ==
  /\ phase = "loaded" /\ saved = NoMap /\ format # "link"
  /\ map.routines # {} /\ Savable(map, load)
  /\ saved' = map /\ format' = "map"
  /\ LET again == Reread(map)
     IN IF again.ok THEN Construct(again.map)
        ELSE phase' = "failed" /\ map' = NewFile /\ UNCHANGED <<sq, cm>>
  /\ UNCHANGED <<load, pos>>

Next ==
  \/ MapSize \/ MapSegment \/ MapVariable \/ MapRoutine
  \/ LinkHeading \/ LinkSegment \/ LinkGroup \/ LinkPublic
  \/ IdaLength \/ IdaSegment \/ IdaEnds \/ IdaProc \/ IdaEndp \/ IdaData \/ IdaOther
  \/ EndOfFile \/ MapNextByte \/ MapEnd \/ SaveAndReload

Spec == Init /\ [][Next]_state

-----------------------------------------------------------------------------
Done == phase = "loaded"

(* Every byte of the map lies in some segment, and so the walk over it     *)
(* meets no gap. *)
Covered == \A b \in load..(load + map.size - 1) :
             \E i \in DOMAIN map.segs : InSegment(b, map.segs[i].addr)

(* A byte of a loaded map is in one block: of one routine, or unclaimed.   *)
(* The blocks are held against each other in three places (each line,      *)
(* checkOverlap, the walk over the bytes), none of which sees them all.    *)
ClaimPartition ==
  Done /\ ~map.ida /\ Covered =>
    \A b \in load..(load + map.size - 1) :
      Cardinality({x \in AllBlocks(map) : b \in BytesOf(x[2])})
      + Cardinality({u \in map.unclaimed : b \in BytesOf(u)}) = 1

(* "The routine extents is the largest continuous block of instructions    *)
(* attributed to this routine and originating at the location determined   *)
(* to be the routine's entrypoint" (codemap.cpp:436), whatever extents the *)
(* file gave it.  Nothing rejects a block with its ends the wrong way      *)
(* round, and a routine with such a one at its entrypoint has no extents.  *)
ExtentsAreMainRun ==
  Done /\ ~map.ida =>
    \A r \in map.routines :
      LET own == UNION {BytesOf(b) : b \in BlocksOf(r)}
      IN MainBlock(r) # {} /\ (\A b \in MainBlock(r) : ValidBlock(b))
           => BytesOf(r) \subseteq own /\ r.hi + 1 \notin own

(* What a map was saved as is read back as the same map and is not         *)
(* refused, but for routines without a block at their entrypoint, whose    *)
(* extents the order cut down to a byte, and segments marked as the        *)
(* default one that do not hold data.  What is unclaimed is not saved: it  *)
(* is cut anew, by the segments in their order. *)
RoundTrip ==
  /\ saved # NoMap /\ ~saved.ida
  /\ \A r \in saved.routines : MainBlock(r) # {}
  /\ DefaultSegs(saved) \subseteq DataSegs(saved)
  => /\ phase # "failed"
     /\ Done => [map EXCEPT !.unclaimed = saved.unclaimed] = saved

(* The consistency checks of the summary hold for any map of which every   *)
(* routine has the block at its entrypoint and no byte lies outside the    *)
(* segments: its sizes add up whatever the annotations. *)
SummaryAddsUp ==
  Done /\ ~map.ida /\ Covered /\ (\A r \in map.routines : MainBlock(r) # {}) =>
    SummaryConsistent(map)

(* The segments of a listing do not run into each other: what a segment    *)
(* holds lies below the base guessed for any that comes after it, unless   *)
(* all its lines were at the first byte.  A segment some name may give the *)
(* base to is left out: that name puts it wherever it says. *)
IdaSegmentsApart ==
  Done /\ map.ida =>
    \A s, t \in ToSet(map.segs) :
      /\ s.name[1] = "name" /\ t.name[1] = "name" /\ s.name[2] < t.name[2]
      /\ s.addr # t.addr /\ s.addr - load \notin IdaBases
      => /\ \A r \in map.routines : r.seg = s.addr => r.hi < t.addr
         /\ \A v \in map.vars : v.seg = s.addr => v.lin < t.addr

(* "use a linker map from Microsoft C to seed initial location of          *)
(* routines" (README.md:85): the routines of a linker map are places of    *)
(* the image it was loaded for. *)
LinkRoutinesInImage ==
  Done /\ format = "link" => \A r \in map.routines : r.lo >= load

(* The consistency check of the summary (codemap.cpp:511) holds for every  *)
(* map that loads. *)
SummaryNeverThrows == Done /\ Covered => SummaryConsistent(map)
=============================================================================
