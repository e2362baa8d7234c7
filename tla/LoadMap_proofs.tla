--------------------------- MODULE LoadMap_proofs ---------------------------
(***************************************************************************)
(* Loading, ordering, saving and summing up code maps, for every set of    *)
(* lines a file may have, every size of image and of segment, and every    *)
(* load segment.                                                           *)
(***************************************************************************)
EXTENDS LoadMap, QueueTableLemmas

-----------------------------------------------------------------------------
(* Lists of what a set has, and the first of some segments.                *)

LEMMA SetToSeqIs ==
  ASSUME NEW S, IsFiniteSet(S)
  PROVE  /\ Cardinality(S) \in Nat
         /\ SetToSeq(S) \in [1..Cardinality(S) -> S]
         /\ \A x \in S : \E i \in 1..Cardinality(S) : SetToSeq(S)[i] = x
<1> DEFINE n == Cardinality(S)
           f == SetToSeq(S)
<1>1. n \in Nat /\ ExistsBijection(1..n, S)
  BY FS_CardinalityType
<1> HIDE DEF n
<1>2. PICK g \in Bijection(1..n, S) : TRUE
  BY <1>1 DEF ExistsBijection
<1>3. g \in [1..n -> S] /\ IsInjective(g)
  BY <1>2 DEF Bijection, Injection, IsInjective
<1>4. f = CHOOSE h \in [1..n -> S] : IsInjective(h)
  BY DEF SetToSeq, n
<1> HIDE DEF f
<1>5. f \in [1..n -> S] /\ IsInjective(f)
  BY <1>3, <1>4
<1>6. f \in Injection(1..n, S)
  BY <1>5 DEF Injection, IsInjective
<1>7. IsFiniteSet(1..n) /\ Cardinality(1..n) = Cardinality(S)
  BY <1>1, FS_Interval DEF n
<1>8. f \in Surjection(1..n, S)
  BY <1>6, <1>7, FS_Injection
<1>9. \A x \in S : \E i \in 1..n : f[i] = x
  BY <1>8 DEF Surjection
<1>10. QED
  BY <1>1, <1>5, <1>9 DEF f, n

LEMMA ImageFinite ==
  ASSUME NEW S, IsFiniteSet(S), NEW f, DOMAIN f = S
  PROVE  IsFiniteSet({f[x] : x \in S})
<1> DEFINE g == [x \in S |-> f[x]]
           T == {f[x] : x \in S}
<1>1. g \in Surjection(S, T)
  BY DEF Surjection
<1>2. QED
  BY <1>1, FS_Surjection

LEMMA FirstIs ==
  ASSUME NEW m, NEW is, is \subseteq Nat, is # {}
  PROVE  \E i \in is : First(m, is) = m.segs[i] /\ \A j \in is : i <= j
<1>1. \E i \in is : \A j \in is : i <= j
  BY LeastExists
<1>2. QED
  BY <1>1 DEF First
-----------------------------------------------------------------------------
(* Types.                                                                  *)

SegT == [name : SegNames, type : LineTypes, addr : Nat, def : BOOLEAN]
RangeT == [lo : Int, hi : Int]
RoutineT == [seg : Int, near : BOOLEAN, lo : Int, hi : Int,
             reach : SUBSET RangeT, unreach : SUBSET RangeT, tags : SUBSET Tags]
LineT == [seg : SegNames, near : BOOLEAN, lo : Int, hi : Int,
          reach : SUBSET RangeT, unreach : SUBSET RangeT, tags : SUBSET Tags]
VarT == [seg : Int, lin : Int]
UnclaimedT == [lo : Int, hi : Int, seg : Int]
MapT == [size : Nat, segs : Seq(SegT), routines : SUBSET RoutineT, vars : SUBSET VarT,
         unclaimed : SUBSET UnclaimedT, ida : BOOLEAN]
PosT == [mode : Modes, total : Nat, used : SUBSET SegT, seg : SegT \cup {NoSeg},
         proc : [name : Nat, seg : Nat, off : Nat, near : BOOLEAN], global : Nat, prev : Nat]

(* What an annotation implies is there, and none contradict each other.    *)
Settled(tags) ==
  /\ tags \cap {"external", "detached"} # {} => "ignore" \in tags
  /\ TagsAllowed(tags)

(* No block of a routine is both reachable and not. *)
Sound(r) ==
  /\ IsFiniteSet(r.reach) /\ IsFiniteSet(r.unreach)
  /\ \A b \in r.reach : b \in r.unreach => ~ValidBlock(b)
  /\ Settled(r.tags)

MapOK(m) == m \in MapT /\ IsFiniteSet(m.routines) /\ \A r \in m.routines : Sound(r)
PosOK(p) == p \in PosT /\ IsFiniteSet(p.used)

Typed ==
  /\ format \in {"map", "link", "ida"} /\ load \in Loads
  /\ phase \in {"reading", "mapping", "loaded", "failed"}
  /\ MapOK(map) /\ MapOK(saved) /\ PosOK(pos)
  /\ map.ida => format = "ida"
  /\ phase = "reading" => saved = NoMap /\ map.unclaimed = {} /\ map.ida = (format = "ida")

LEMMA NewFileOK == MapOK(NewFile) /\ ~NewFile.ida /\ NewFile.unclaimed = {}
BY FS_EmptySet DEF MapOK, NewFile, MapT

LEMMA StartOK == PosOK(Start)
<1>1. "none" \in Modes
  BY DEF Modes
<1>2. NoProc \in [name : Nat, seg : Nat, off : Nat, near : BOOLEAN]
  BY DEF NoProc
<1> HIDE DEF NoSeg, NoProc
<1>3. QED
  BY <1>1, <1>2, FS_EmptySet DEF PosOK, PosT, Start

LEMMA NoTags == Settled({})
<1>1. {} \cap {"complete", "ignore", "assembly"} = {} /\ Cardinality({}) = 0
  BY FS_EmptySet
<1>2. QED
  BY <1>1 DEF Settled, TagsAllowed

LEMMA SegmentsOfMap ==
  ASSUME NEW m, MapOK(m)
  PROVE  /\ DOMAIN m.segs \subseteq Nat
         /\ \A i \in DOMAIN m.segs : m.segs[i] \in SegT /\ m.segs[i].addr \in Nat
         /\ \E n \in Nat : DOMAIN m.segs = 1..n /\ m.segs \in [1..n -> SegT]
<1>1. m.segs \in Seq(SegT)
  BY DEF MapOK, MapT
<1>2. PICK n \in Nat : m.segs \in [1..n -> SegT]
  BY <1>1
<1>3. DOMAIN m.segs = 1..n
  BY <1>2
<1>4. \A i \in 1..n : m.segs[i] \in SegT /\ m.segs[i].addr \in Nat
  BY <1>2 DEF SegT
<1>5. QED
  BY <1>2, <1>3, <1>4

LEMMA FirstOfMap ==
  ASSUME NEW m, MapOK(m), NEW is, is \subseteq DOMAIN m.segs, is # {}
  PROVE  /\ First(m, is) \in SegT /\ First(m, is).addr \in Nat
         /\ \E i \in is : First(m, is) = m.segs[i] /\ \A j \in is : i <= j
<1>1. is \subseteq Nat
  BY SegmentsOfMap
<1>2. PICK i \in is : First(m, is) = m.segs[i] /\ \A j \in is : i <= j
  BY <1>1, FirstIs
<1>3. QED
  BY <1>2, SegmentsOfMap

(* A map with one of its members replaced. *)
LEMMA WithSize ==
  ASSUME NEW m, MapOK(m), NEW n \in Nat
  PROVE  /\ MapOK([m EXCEPT !.size = n])
         /\ [m EXCEPT !.size = n].unclaimed = m.unclaimed
         /\ [m EXCEPT !.size = n].ida = m.ida
BY DEF MapOK, MapT

LEMMA WithSegs ==
  ASSUME NEW m, MapOK(m), NEW s \in Seq(SegT)
  PROVE  /\ MapOK([m EXCEPT !.segs = s])
         /\ [m EXCEPT !.segs = s].unclaimed = m.unclaimed
         /\ [m EXCEPT !.segs = s].ida = m.ida
BY DEF MapOK, MapT

LEMMA WithVar ==
  ASSUME NEW m, MapOK(m), NEW v \in VarT
  PROVE  /\ MapOK([m EXCEPT !.vars = @ \cup {v}])
         /\ [m EXCEPT !.vars = @ \cup {v}].unclaimed = m.unclaimed
         /\ [m EXCEPT !.vars = @ \cup {v}].ida = m.ida
BY DEF MapOK, MapT

LEMMA WithOneMore ==
  ASSUME NEW m, MapOK(m), NEW r \in RoutineT, Sound(r)
  PROVE  /\ MapOK([m EXCEPT !.routines = @ \cup {r}])
         /\ [m EXCEPT !.routines = @ \cup {r}].unclaimed = m.unclaimed
         /\ [m EXCEPT !.routines = @ \cup {r}].ida = m.ida
<1>1. m \in MapT /\ IsFiniteSet(m.routines \cup {r})
  BY FS_AddElement DEF MapOK
<1>2. QED
  BY <1>1 DEF MapOK, MapT

(* A routine that is only a place. *)
LEMMA BareRoutine ==
  ASSUME NEW seg \in Int, NEW near \in BOOLEAN, NEW lo \in Int, NEW hi \in Int
  PROVE  LET r == [seg |-> seg, near |-> near, lo |-> lo, hi |-> hi,
                   reach |-> {}, unreach |-> {}, tags |-> {}]
         IN  r \in RoutineT /\ Sound(r)
BY FS_EmptySet, NoTags DEF RoutineT, Sound
-----------------------------------------------------------------------------
(* Reading.                                                                *)

LEMMA Numbers ==
  /\ Loads \subseteq Nat /\ Sizes \subseteq Nat /\ Offsets \subseteq Nat
  /\ IdaBases \subseteq Nat \cup {NoBase} /\ MaxRoutines \in Nat
  /\ SegLines \subseteq SegT
  /\ LinkSegs \subseteq [name : SegNames, start : Nat, stop : Nat, length : Nat, type : LineTypes]
BY LinesAssumption DEF SegT

LEMMA LinesAre ==
  ASSUME NEW line \in RoutineLines
  PROVE  line \in LineT /\ IsFiniteSet(line.reach) /\ IsFiniteSet(line.unreach)
<1>1. /\ line \in [seg : SegNames, near : BOOLEAN, lo : Nat, hi : Nat,
                   reach : SUBSET [lo : Nat, hi : Nat],
                   unreach : SUBSET [lo : Nat, hi : Nat], tags : SUBSET Tags]
      /\ IsFiniteSet(line.reach) /\ IsFiniteSet(line.unreach)
  BY LinesAssumption
<1>2. [lo : Nat, hi : Nat] \subseteq RangeT
  BY DEF RangeT
<1> DEFINE N == [lo : Nat, hi : Nat]
<1> HIDE DEF N
<1>3. line.reach \in SUBSET RangeT /\ line.unreach \in SUBSET RangeT
  BY <1>1, <1>2 DEF N
<1>4. QED
  BY <1>1, <1>3 DEF LineT

(* What a line of a map, or a step of another reader, may do.              *)
ReadOn == /\ phase' = phase /\ MapOK(map') /\ PosOK(pos')
          /\ map'.unclaimed = map.unclaimed /\ map'.ida = map.ida

LEMMA Taken ==
  ASSUME Typed, phase = "reading", Skip, Refuse \/ ReadOn
  PROVE  Typed'
<1>1. CASE Refuse
  BY <1>1, NewFileOK, StartOK DEF Typed, Skip, Refuse
<1>2. CASE ReadOn
  BY <1>2 DEF Typed, Skip, ReadOn
<1>3. QED
  BY <1>1, <1>2

LEMMA ColidesNot ==
  ASSUME NEW b, ~Intersects(b, b), b.lo \in Int, b.hi \in Int
  PROVE  ~ValidBlock(b)
BY DEF Intersects, ValidBlock, Later, Sooner

LEMMA AtIs ==
  ASSUME NEW addr \in Int, NEW b, b.lo \in Int, b.hi \in Int
  PROVE  At(addr, b) \in RangeT /\ At(addr, b).lo = addr + b.lo /\ At(addr, b).hi = addr + b.hi
BY DEF At, Range2, RangeT

LEMMA TagsSettled ==
  ASSUME NEW line, line.tags \in SUBSET Tags, TagsAllowed(AnnotationsOf(line))
  PROVE  AnnotationsOf(line) \in SUBSET Tags /\ Settled(AnnotationsOf(line))
<1>1. "ignore" \in Tags
  BY DEF Tags
<1>2. AnnotationsOf(line) \in SUBSET Tags
  BY <1>1 DEF AnnotationsOf
<1>3. AnnotationsOf(line) \cap {"external", "detached"} # {} => "ignore" \in AnnotationsOf(line)
  BY DEF AnnotationsOf
<1>4. QED
  BY <1>2, <1>3 DEF Settled

LEMMA LineRoutineOK ==
  ASSUME NEW m, MapOK(m), NEW line \in LineT,
         IsFiniteSet(line.reach), IsFiniteSet(line.unreach), LineAccepted(m, line)
  PROVE  LineRoutine(m, line) \in RoutineT /\ Sound(LineRoutine(m, line))
<1> DEFINE addr == First(m, SegsNamed(m, line.seg)).addr
           ext == At(addr, line)
           rs == {At(addr, b) : b \in line.reach}
           us == {At(addr, b) : b \in line.unreach}
           r == LineRoutine(m, line)
           reach == IF rs \cup us = {} /\ m.size # 0 /\ ext.hi < m.size THEN {ext} ELSE rs
<1>1. addr \in Int
  <2>1. SegsNamed(m, line.seg) \subseteq DOMAIN m.segs /\ SegsNamed(m, line.seg) # {}
    BY DEF SegsNamed, LineAccepted
  <2>2. QED
    BY <2>1, FirstOfMap
<1>2. /\ r.seg = addr /\ r.near = line.near /\ r.lo = ext.lo /\ r.hi = ext.hi
      /\ r.reach = reach /\ r.unreach = us /\ r.tags = AnnotationsOf(line)
      /\ r = [seg |-> addr, near |-> line.near, lo |-> ext.lo, hi |-> ext.hi,
              reach |-> reach, unreach |-> us, tags |-> AnnotationsOf(line)]
  BY DEF LineRoutine
<1>3. /\ line.lo \in Int /\ line.hi \in Int /\ line.near \in BOOLEAN /\ line.tags \in SUBSET Tags
      /\ line.reach \in SUBSET RangeT /\ line.unreach \in SUBSET RangeT
  BY DEF LineT
<1>4. \A b \in RangeT : b.lo \in Int /\ b.hi \in Int
  BY DEF RangeT
<1> HIDE DEF r, addr
<1>5. ext \in RangeT /\ ext.lo \in Int /\ ext.hi \in Int
  BY <1>1, <1>3, <1>4, AtIs
<1>6. rs \subseteq RangeT /\ us \subseteq RangeT
  BY <1>1, <1>3, <1>4, AtIs
<1>7. IsFiniteSet(rs) /\ IsFiniteSet(us) /\ IsFiniteSet(reach)
  <2> DEFINE f == [b \in line.reach |-> At(addr, b)]
             g == [b \in line.unreach |-> At(addr, b)]
  <2>0. rs = {f[b] : b \in line.reach} /\ us = {g[b] : b \in line.unreach}
    OBVIOUS
  <2>1. IsFiniteSet(rs) /\ IsFiniteSet(us)
    <3>1. DOMAIN f = line.reach /\ DOMAIN g = line.unreach
      OBVIOUS
    <3> HIDE DEF f, g
    <3>2. IsFiniteSet({f[b] : b \in line.reach}) /\ IsFiniteSet({g[b] : b \in line.unreach})
      BY <3>1, ImageFinite
    <3>3. QED
      BY <2>0, <3>2
  <2>2. IsFiniteSet({ext})
    BY FS_Singleton
  <2>3. QED
    BY <2>1, <2>2
<1>8. AnnotationsOf(line) \in SUBSET Tags /\ Settled(AnnotationsOf(line))
  BY <1>3, TagsSettled DEF LineAccepted
<1>9. ASSUME NEW x \in rs, x \in us PROVE ~ValidBlock(x)
  <2>1. PICK b \in line.reach : x = At(addr, b)
    OBVIOUS
  <2>2. PICK c \in line.unreach : x = At(addr, c)
    BY <1>9
  <2>3. <<"R", b>> # <<"U", c>>
    OBVIOUS
  <2>4. NoCollision(m, line)
    BY DEF LineAccepted
  <2> DEFINE own == {<<k, d>> : k \in {"R"}, d \in line.reach}
                    \cup {<<k, d>> : k \in {"U"}, d \in line.unreach}
  <2>5. \A y, z \in own : y # z => ~Intersects(At(addr, y[2]), At(addr, z[2]))
    BY <2>4 DEF NoCollision, addr
  <2>6. <<"R", b>> \in own /\ <<"U", c>> \in own
    OBVIOUS
  <2> HIDE DEF own
  <2>7. ~Intersects(At(addr, <<"R", b>>[2]), At(addr, <<"U", c>>[2]))
    BY <2>3, <2>5, <2>6
  <2>8. ~Intersects(x, x)
    BY <2>1, <2>2, <2>7
  <2>9. QED
    BY <2>8, <1>4, <1>6, ColidesNot
<1>10. \A b \in reach : b \in us => ~ValidBlock(b)
  BY <1>9
<1> HIDE DEF rs, us, ext, reach
<1>11. reach \in SUBSET RangeT
  BY <1>5, <1>6 DEF reach
<1>12. r \in RoutineT
  BY <1>1, <1>2, <1>3, <1>5, <1>6, <1>8, <1>11 DEF RoutineT
<1>13. Sound(r)
  BY <1>2, <1>7, <1>8, <1>10 DEF Sound
<1>14. QED
  BY <1>12, <1>13 DEF r
(* One line of a map file. *)
LEMMA MapLineTyped ==
  ASSUME Typed, MapSize \/ MapSegment \/ MapVariable \/ MapRoutine
  PROVE  Typed'
<1>1. phase = "reading" /\ Skip /\ MapOK(map) /\ PosOK(pos) /\ load \in Nat
  BY Numbers DEF Typed, MapSize, MapSegment, MapVariable, MapRoutine, Reading
<1>2. ASSUME NEW m, Parsed(m, pos), MapOK(m), m.unclaimed = map.unclaimed, m.ida = map.ida
      PROVE  ReadOn
  BY <1>1, <1>2 DEF Parsed, ReadOn
<1>3. CASE MapSize
  <2>1. PICK n \in Sizes : Parsed([map EXCEPT !.size = n], pos)
    BY <1>3 DEF MapSize
  <2>2. MapOK([map EXCEPT !.size = n])
    BY <1>1, Numbers, WithSize
  <2>3. ReadOn
    BY <1>1, <1>2, <2>1, <2>2, Numbers, WithSize
  <2>4. QED
    BY <1>1, <2>3, Taken
<1>4. CASE MapSegment
  <2>1. PICK s \in SegLines :
          Parsed([map EXCEPT !.segs = Append(@, [s EXCEPT !.addr = @ + load])], pos)
    BY <1>4 DEF MapSegment
  <2>2. [s EXCEPT !.addr = @ + load] \in SegT
    BY <1>1, Numbers DEF SegT
  <2> HIDE DEF SegT
  <2>3. Append(map.segs, [s EXCEPT !.addr = @ + load]) \in Seq(SegT)
    BY <1>1, <2>2 DEF MapOK, MapT
  <2>4. MapOK([map EXCEPT !.segs = Append(@, [s EXCEPT !.addr = @ + load])])
    BY <1>1, <2>3, WithSegs
  <2>5. ReadOn
    BY <1>1, <1>2, <2>1, <2>3, <2>4, WithSegs
  <2>6. QED
    BY <1>1, <2>5, Taken
<1>5. CASE MapVariable
  <2>1. PICK s \in SegLines, o \in Offsets :
          IF SegsNamed(map, s.name) = {} THEN Refuse
          ELSE LET addr == First(map, SegsNamed(map, s.name)).addr
               IN Parsed([map EXCEPT !.vars = @ \cup {[seg |-> addr, lin |-> addr + o]}], pos)
    BY <1>5 DEF MapVariable
  <2>2. CASE SegsNamed(map, s.name) = {}
    BY <1>1, <2>1, <2>2, Taken
  <2>3. CASE SegsNamed(map, s.name) # {}
    <3> DEFINE addr == First(map, SegsNamed(map, s.name)).addr
               v == [seg |-> addr, lin |-> addr + o]
    <3>1. addr \in Nat
      BY <1>1, <2>3, FirstOfMap DEF SegsNamed
    <3> HIDE DEF addr
    <3>2. v \in VarT
      BY <3>1, Numbers DEF VarT
    <3>3. Parsed([map EXCEPT !.vars = @ \cup {v}], pos)
      BY <2>1, <2>3 DEF addr
    <3> HIDE DEF v
    <3>4. MapOK([map EXCEPT !.vars = @ \cup {v}])
      BY <1>1, <3>2, WithVar
    <3>5. ReadOn
      BY <1>1, <1>2, <3>2, <3>3, <3>4, WithVar
    <3>6. QED
      BY <1>1, <3>5, Taken
  <2>4. QED
    BY <2>2, <2>3
<1>6. CASE MapRoutine
  <2>1. PICK line \in RoutineLines :
          IF LineAccepted(map, line) THEN Parsed(WithRoutine(map, line), pos) ELSE Refuse
    BY <1>6 DEF MapRoutine
  <2>2. CASE ~LineAccepted(map, line)
    BY <1>1, <2>1, <2>2, Taken
  <2>3. CASE LineAccepted(map, line)
    <3> DEFINE r == LineRoutine(map, line)
    <3>1. r \in RoutineT /\ Sound(r)
      BY <1>1, <2>3, LinesAre, LineRoutineOK
    <3>2. Parsed([map EXCEPT !.routines = @ \cup {r}], pos)
      BY <2>1, <2>3 DEF WithRoutine
    <3> HIDE DEF r
    <3>3. MapOK([map EXCEPT !.routines = @ \cup {r}])
      BY <1>1, <3>1, WithOneMore
    <3>4. ReadOn
      BY <1>1, <1>2, <3>1, <3>2, <3>3, WithOneMore
    <3>5. QED
      BY <1>1, <3>4, Taken
  <2>4. QED
    BY <2>2, <2>3
<1>7. QED
  BY <1>3, <1>4, <1>5, <1>6
LEMMA FloorIs ==
  ASSUME NEW n \in Nat
  PROVE  Floor(n) \in Nat /\ Floor(n) <= n
<1>1. ParaSize \in Nat \ {0}
  BY SizeAssumption
<1>2. n % ParaSize \in 0..n
  BY <1>1, ModuloBounds
<1>3. QED
  BY <1>2 DEF Floor

(* One line of a linker map. *)
LEMMA LinkLineTyped ==
  ASSUME Typed, LinkHeading \/ LinkSegment \/ LinkGroup \/ LinkPublic
  PROVE  Typed'
<1>1. phase = "reading" /\ Skip /\ MapOK(map) /\ PosOK(pos)
  BY DEF Typed, LinkHeading, LinkSegment, LinkGroup, LinkPublic, Reading
<1>2. ASSUME NEW m, NEW p, Parsed(m, p), MapOK(m), PosOK(p),
             m.unclaimed = map.unclaimed, m.ida = map.ida
      PROVE  ReadOn
  BY <1>1, <1>2 DEF Parsed, ReadOn
<1>3. pos \in PosT /\ IsFiniteSet(pos.used)
  BY <1>1 DEF PosOK
<1>4. CASE LinkHeading
  <2>1. PICK mode \in Modes : Parsed(map, [pos EXCEPT !.mode = mode])
    BY <1>4 DEF LinkHeading
  <2> HIDE DEF Modes, SegT, NoSeg
  <2>2. PosOK([pos EXCEPT !.mode = mode])
    BY <1>3 DEF PosOK, PosT
  <2>3. QED
    BY <1>1, <1>2, <2>1, <2>2, Taken
<1>5. CASE LinkSegment
  <2>1. PICK s \in LinkSegs :
          LET seg == [name |-> s.name, type |-> s.type, addr |-> Floor(s.start), def |-> FALSE]
          IN IF s.start > s.stop THEN Refuse
             ELSE IF s.length = 0 THEN Parsed(map, pos)
             ELSE Parsed(IF SegsAt(map, seg.addr) = {} /\ s.type \in {"CODE", "DATA"}
                         THEN [map EXCEPT !.segs = Append(@, seg)] ELSE map,
                         [pos EXCEPT !.total = Later(@, s.stop)])
    BY <1>5 DEF LinkSegment
  <2> DEFINE seg == [name |-> s.name, type |-> s.type, addr |-> Floor(s.start), def |-> FALSE]
             m == IF SegsAt(map, seg.addr) = {} /\ s.type \in {"CODE", "DATA"}
                  THEN [map EXCEPT !.segs = Append(@, seg)] ELSE map
             p == [pos EXCEPT !.total = Later(@, s.stop)]
  <2>2. seg \in SegT
    BY Numbers, FloorIs DEF SegT
  <2>3. s.stop \in Nat
    BY Numbers
  <2> HIDE DEF seg, SegT, Modes, NoSeg
  <2>4. Append(map.segs, seg) \in Seq(SegT)
    BY <1>1, <2>2 DEF MapOK, MapT
  <2>5. MapOK(m) /\ m.unclaimed = map.unclaimed /\ m.ida = map.ida
    BY <1>1, <2>4, WithSegs
  <2>6. PosOK(p)
    BY <1>3, <2>3 DEF PosOK, PosT, Later
  <2>7. Refuse \/ Parsed(map, pos) \/ Parsed(m, p)
    BY <2>1 DEF seg
  <2> HIDE DEF m, p
  <2>8. QED
    BY <1>1, <1>2, <2>5, <2>6, <2>7, Taken
<1>6. CASE LinkGroup
  <2>1. PICK s \in LinkSegs :
          Refuse \/ LET default(t) == [t EXCEPT !.def = @ \/ t.addr = Floor(s.start)]
                    IN Parsed([map EXCEPT !.segs = [i \in DOMAIN @ |-> default(@[i])]], pos)
    BY <1>6 DEF LinkGroup
  <2> DEFINE default(t) == [t EXCEPT !.def = @ \/ t.addr = Floor(s.start)]
             segs == [i \in DOMAIN map.segs |-> default(map.segs[i])]
  <2>2. \A t \in SegT : default(t) \in SegT
    BY DEF SegT
  <2> HIDE DEF default, SegT
  <2>3. PICK n \in Nat : DOMAIN map.segs = 1..n /\ map.segs \in [1..n -> SegT]
    BY <1>1, SegmentsOfMap
  <2>4. segs \in Seq(SegT)
    BY <2>2, <2>3
  <2>5. Refuse \/ Parsed([map EXCEPT !.segs = segs], pos)
    <3>1. [map EXCEPT !.segs = [i \in DOMAIN @ |-> default(@[i])]] = [map EXCEPT !.segs = segs]
      OBVIOUS
    <3>2. QED
      BY <2>1, <3>1 DEF default
  <2> HIDE DEF segs
  <2>6. /\ MapOK([map EXCEPT !.segs = segs])
        /\ [map EXCEPT !.segs = segs].unclaimed = map.unclaimed
        /\ [map EXCEPT !.segs = segs].ida = map.ida
    BY <1>1, <2>4, WithSegs
  <2>7. QED
    BY <1>1, <1>2, <2>5, <2>6, Taken
<1>7. CASE LinkPublic
  <2>1. PICK s \in LinkSegs, o \in Offsets :
          LET addr == Floor(s.start)
              lin == addr + o
              type == First(map, SegsAt(map, addr)).type
              use == [pos EXCEPT !.used = @ \cup
                        {t \in {First(map, SegsAt(map, addr))} : \A u \in @ : u.addr # addr}]
          IN IF SegsAt(map, addr) = {} THEN Parsed(map, pos)
             ELSE IF type = "CODE"
             THEN /\ Cardinality(map.routines) < MaxRoutines
                  /\ IF \E r \in map.routines : lin \in BytesOf(r) THEN Parsed(map, pos)
                     ELSE Parsed([map EXCEPT !.routines = @ \cup
                             {[seg |-> addr, near |-> TRUE, lo |-> lin, hi |-> lin,
                               reach |-> {}, unreach |-> {}, tags |-> {}]}], use)
             ELSE /\ Cardinality(map.vars) < MaxVars
                  /\ IF \E v \in map.vars : v.lin = lin THEN Parsed(map, pos)
                     ELSE Parsed([map EXCEPT !.vars = @ \cup {[seg |-> addr, lin |-> lin]}], use)
    BY <1>7 DEF LinkPublic
  <2> DEFINE addr == Floor(s.start)
             lin == addr + o
             t == First(map, SegsAt(map, addr))
             more == {x \in {t} : \A u \in pos.used : u.addr # addr}
             use == [pos EXCEPT !.used = @ \cup more]
             r == [seg |-> addr, near |-> TRUE, lo |-> lin, hi |-> lin,
                   reach |-> {}, unreach |-> {}, tags |-> {}]
             v == [seg |-> addr, lin |-> lin]
  <2>2. addr \in Int /\ lin \in Int
    BY Numbers, FloorIs
  <2>3. CASE SegsAt(map, addr) = {}
    <3>1. Parsed(map, pos)
      BY <2>1, <2>3
    <3>2. QED
      BY <1>1, <1>2, <3>1, Taken
  <2>4. CASE SegsAt(map, addr) # {}
    <3>1. t \in SegT
      BY <1>1, <2>4, FirstOfMap DEF SegsAt
    <3>2. IsFiniteSet({t}) /\ more \in SUBSET {t}
      BY FS_Singleton
    <3>3. more \in SUBSET SegT /\ IsFiniteSet(more)
      BY <3>1, <3>2, FS_Subset
    <3>4. \/ Parsed(map, pos)
          \/ Parsed([map EXCEPT !.routines = @ \cup {r}], use)
          \/ Parsed([map EXCEPT !.vars = @ \cup {v}], use)
      BY <2>1, <2>4
    <3> HIDE DEF more, addr, lin, t, Modes, SegT, NoSeg
    <3>5. r \in RoutineT /\ Sound(r)
      BY <2>2, BareRoutine
    <3>6. v \in VarT
      BY <2>2 DEF VarT
    <3> HIDE DEF r, v
    <3>7. PosOK(use)
      <4>1. IsFiniteSet(pos.used \cup more)
        BY <1>3, <3>3, FS_Union
      <4>2. QED
        BY <1>3, <3>3, <4>1 DEF PosOK, PosT
    <3> HIDE DEF use
    <3>8. CASE Parsed(map, pos)
      BY <1>1, <1>2, <3>8, Taken
    <3>9. CASE Parsed([map EXCEPT !.routines = @ \cup {r}], use)
      <4>1. ReadOn
        BY <1>1, <1>2, <3>5, <3>7, <3>9, WithOneMore
      <4>2. QED
        BY <1>1, <4>1, Taken
    <3>10. CASE Parsed([map EXCEPT !.vars = @ \cup {v}], use)
      <4>1. ReadOn
        BY <1>1, <1>2, <3>6, <3>7, <3>10, WithVar
      <4>2. QED
        BY <1>1, <4>1, Taken
    <3>11. QED
      BY <3>4, <3>8, <3>9, <3>10
  <2>5. QED
    BY <2>3, <2>4
<1>8. QED
  BY <1>4, <1>5, <1>6, <1>7
(* Listings: the position never moves back, and a segment is padded. *)
LEMMA PaddedIs ==
  ASSUME NEW n \in Nat
  PROVE  /\ Padded(n) \in Nat /\ n <= Padded(n)
         /\ n = 0 => Padded(n) = 0
         /\ n # 0 => n < Padded(n)
<1>1. ParaSize \in Nat \ {0}
  BY SizeAssumption
<1>2. n % ParaSize \in Int /\ 0 <= n % ParaSize /\ n % ParaSize < ParaSize
  BY <1>1, ModuloBounds
<1>3. QED
  BY <1>1, <1>2 DEF Padded

LEMMA PosParts ==
  ASSUME NEW p, PosOK(p)
  PROVE  /\ p.global \in Nat /\ p.prev \in Nat
         /\ p.seg \in SegT \cup {NoSeg} /\ (p.seg # NoSeg => p.seg.addr \in Nat)
         /\ p.proc \in [name : Nat, seg : Nat, off : Nat, near : BOOLEAN]
         /\ \A s \in SegT \cup {NoSeg} : PosOK([p EXCEPT !.seg = s])
         /\ \A q \in [name : Nat, seg : Nat, off : Nat, near : BOOLEAN] :
              PosOK([p EXCEPT !.proc = q])
<1> DEFINE ProcT == [name : Nat, seg : Nat, off : Nat, near : BOOLEAN]
<1> HIDE DEF ProcT
<1>1. p \in [mode : Modes, total : Nat, used : SUBSET SegT, seg : SegT \cup {NoSeg},
             proc : ProcT, global : Nat, prev : Nat] /\ IsFiniteSet(p.used)
  BY DEF PosOK, PosT, ProcT
<1>2. p.seg # NoSeg => p.seg.addr \in Nat
  BY <1>1 DEF SegT
<1> HIDE DEF SegT, NoSeg, Modes
<1>3. p.global \in Nat /\ p.prev \in Nat /\ p.seg \in SegT \cup {NoSeg} /\ p.proc \in ProcT
  BY <1>1
<1>4. ASSUME NEW s \in SegT \cup {NoSeg} PROVE PosOK([p EXCEPT !.seg = s])
  BY <1>1 DEF PosOK, PosT, ProcT
<1>5. ASSUME NEW q \in ProcT PROVE PosOK([p EXCEPT !.proc = q])
  BY <1>1 DEF PosOK, PosT, ProcT
<1>6. QED
  BY <1>2, <1>3, <1>4, <1>5 DEF ProcT

LEMMA MovedOK ==
  ASSUME NEW p, PosOK(p), NEW off \in Nat, off >= p.prev
  PROVE  /\ PosOK(Moved(p, off))
         /\ Moved(p, off).seg = p.seg /\ Moved(p, off).proc = p.proc
         /\ Moved(p, off).global = p.global + (off - p.prev) /\ Moved(p, off).prev = off
<1> DEFINE ProcT == [name : Nat, seg : Nat, off : Nat, near : BOOLEAN]
<1> HIDE DEF ProcT
<1>1. p \in [mode : Modes, total : Nat, used : SUBSET SegT, seg : SegT \cup {NoSeg},
             proc : ProcT, global : Nat, prev : Nat] /\ IsFiniteSet(p.used)
  BY DEF PosOK, PosT, ProcT
<1> HIDE DEF SegT, NoSeg, Modes
<1>2. p.global + (off - p.prev) \in Nat
  BY <1>1
<1>3. Moved(p, off) = [p EXCEPT !.global = p.global + (off - p.prev), !.prev = off]
  BY DEF Moved
<1>4. /\ Moved(p, off).seg = p.seg /\ Moved(p, off).proc = p.proc
      /\ Moved(p, off).global = p.global + (off - p.prev) /\ Moved(p, off).prev = off
      /\ Moved(p, off).used = p.used
  BY <1>1, <1>3
<1>5. Moved(p, off) \in [mode : Modes, total : Nat, used : SUBSET SegT, seg : SegT \cup {NoSeg},
                         proc : ProcT, global : Nat, prev : Nat]
  BY <1>1, <1>2, <1>3
<1>6. QED
  BY <1>1, <1>4, <1>5 DEF PosOK, PosT, ProcT

LEMMA LineTyped ==
  ASSUME Typed, phase = "reading", Skip, NEW m, MapOK(m),
         m.unclaimed = map.unclaimed, m.ida = map.ida,
         NEW p, PosOK(p), NEW off \in Nat, Line(m, p, off)
  PROVE  Typed'
<1>1. CASE off < p.prev
  BY <1>1, Taken DEF Line
<1>2. CASE ~(off < p.prev)
  <2>1. off >= p.prev
    BY <1>2, PosParts
  <2>2. PosOK(Moved(p, off)) /\ Parsed(m, Moved(p, off))
    BY <1>2, <2>1, MovedOK DEF Line
  <2>3. ReadOn
    BY <2>2 DEF ReadOn, Parsed
  <2>4. QED
    BY <2>3, Taken
<1>3. QED
  BY <1>1, <1>2

LEMMA WithPlace ==
  ASSUME NEW p, PosOK(p), NEW g \in Nat, NEW s \in SegT
  PROVE  /\ PosOK([p EXCEPT !.global = g, !.seg = s, !.prev = 0])
         /\ [p EXCEPT !.global = g, !.seg = s, !.prev = 0].seg = s
         /\ [p EXCEPT !.global = g, !.seg = s, !.prev = 0].proc = p.proc
         /\ [p EXCEPT !.global = g, !.seg = s, !.prev = 0].global = g
         /\ [p EXCEPT !.global = g, !.seg = s, !.prev = 0].prev = 0
<1> DEFINE ProcT == [name : Nat, seg : Nat, off : Nat, near : BOOLEAN]
           q == [p EXCEPT !.global = g, !.seg = s, !.prev = 0]
<1> HIDE DEF ProcT
<1>1. p \in [mode : Modes, total : Nat, used : SUBSET SegT, seg : SegT \cup {NoSeg},
             proc : ProcT, global : Nat, prev : Nat] /\ IsFiniteSet(p.used)
  BY DEF PosOK, PosT, ProcT
<1> HIDE DEF SegT, NoSeg, Modes
<1>2. q.seg = s /\ q.proc = p.proc /\ q.global = g /\ q.prev = 0 /\ q.used = p.used
  BY <1>1
<1>3. q \in [mode : Modes, total : Nat, used : SUBSET SegT, seg : SegT \cup {NoSeg},
             proc : ProcT, global : Nat, prev : Nat]
  BY <1>1
<1>4. QED
  BY <1>1, <1>2, <1>3 DEF PosOK, PosT, ProcT

LEMMA AutoSegIs ==
  ASSUME Typed, NEW base \in IdaBases, NEW type \in {"CODE", "DATA"}, NEW at \in Nat
  PROVE  [name |-> IF base = NoBase THEN <<"name", Len(map.segs)>> ELSE <<"seg", base>>,
          type |-> type, addr |-> (IF base = NoBase THEN at ELSE base) + load, def |-> FALSE]
         \in SegT
<1>1. Len(map.segs) \in Nat /\ load \in Nat
  BY Numbers DEF Typed, MapOK, MapT
<1>2. base = NoBase \/ base \in Nat
  BY Numbers
<1>3. (IF base = NoBase THEN <<"name", Len(map.segs)>> ELSE <<"seg", base>>) \in SegNames
  BY <1>1, <1>2 DEF SegNames
<1>4. (IF base = NoBase THEN at ELSE base) + load \in Nat
  BY <1>1, <1>2
<1>5. type \in LineTypes
  BY DEF LineTypes
<1> DEFINE nm == IF base = NoBase THEN <<"name", Len(map.segs)>> ELSE <<"seg", base>>
           ad == (IF base = NoBase THEN at ELSE base) + load
<1> HIDE DEF nm, ad
<1>6. [name |-> nm, type |-> type, addr |-> ad, def |-> FALSE] \in SegT
  BY <1>3, <1>4, <1>5 DEF SegT, nm, ad
<1>7. QED
  BY <1>6 DEF nm, ad

LEMMA IdaLineTyped ==
  ASSUME Typed,
         IdaLength \/ IdaSegment \/ IdaEnds \/ IdaProc \/ IdaEndp \/ IdaData \/ IdaOther
  PROVE  Typed'
<1>1. phase = "reading" /\ Skip /\ MapOK(map) /\ PosOK(pos)
  BY DEF Typed, IdaLength, IdaSegment, IdaEnds, IdaProc, IdaEndp, IdaData, IdaOther, Reading
<1>2. Offsets \subseteq Nat /\ 0 \in Nat
  BY Numbers
<1>3. CASE IdaLength
  <2>1. PICK n \in Sizes : Parsed([map EXCEPT !.size = n], pos)
    BY <1>3 DEF IdaLength
  <2>2. ReadOn
    BY <1>1, <2>1, Numbers, WithSize DEF ReadOn, Parsed
  <2>3. QED
    BY <1>1, <2>2, Taken
<1>4. CASE IdaSegment
  <2>1. PICK base \in IdaBases, type \in {"CODE", "DATA"}, off \in Offsets :
          LET at == Padded(pos.global)
              addr == (IF base = NoBase THEN at ELSE base) + load
              seg == [name |-> IF base = NoBase THEN <<"name", Len(map.segs)>> ELSE <<"seg", base>>,
                      type |-> type, addr |-> addr, def |-> FALSE]
          IN \/ Refuse
             \/ Line(map, [pos EXCEPT !.global = at, !.seg = seg, !.prev = 0], off)
    BY <1>4 DEF IdaSegment
  <2> DEFINE at == Padded(pos.global)
             seg == [name |-> IF base = NoBase THEN <<"name", Len(map.segs)>> ELSE <<"seg", base>>,
                     type |-> type, addr |-> (IF base = NoBase THEN at ELSE base) + load,
                     def |-> FALSE]
  <2>2. at \in Nat
    BY <1>1, PosParts, PaddedIs
  <2>3. seg \in SegT
    BY <2>2, AutoSegIs
  <2>4. Refuse \/ Line(map, [pos EXCEPT !.global = at, !.seg = seg, !.prev = 0], off)
    BY <2>1
  <2> HIDE DEF at, seg
  <2>5. PosOK([pos EXCEPT !.global = at, !.seg = seg, !.prev = 0])
    BY <1>1, <2>2, <2>3, WithPlace
  <2>6. CASE Refuse
    BY <1>1, <2>6, Taken
  <2>7. CASE Line(map, [pos EXCEPT !.global = at, !.seg = seg, !.prev = 0], off)
    BY <1>1, <1>2, <2>5, <2>7, LineTyped
  <2>8. QED
    BY <2>4, <2>6, <2>7
<1>5. CASE IdaEnds
  <2>1. pos.seg # NoSeg
    BY <1>5 DEF IdaEnds
  <2>2. PICK off \in Offsets :
          Line([map EXCEPT !.segs = Append(@, pos.seg)], [pos EXCEPT !.seg = NoSeg], off)
    BY <1>5 DEF IdaEnds
  <2> HIDE DEF NoSeg, SegT
  <2>3. Append(map.segs, pos.seg) \in Seq(SegT)
    BY <1>1, <2>1, PosParts DEF MapOK, MapT
  <2>4. PosOK([pos EXCEPT !.seg = NoSeg])
    BY <1>1, PosParts
  <2>5. QED
    BY <1>1, <1>2, <2>2, <2>3, <2>4, WithSegs, LineTyped
<1>6. CASE IdaProc
  <2>1. pos.seg # NoSeg
    BY <1>6 DEF IdaProc
  <2>2. PICK off \in Offsets, name \in 1..MaxRoutines, near \in BOOLEAN :
          \/ Refuse
          \/ Line(map, [pos EXCEPT !.proc = [name |-> name, seg |-> pos.seg.addr,
                                             off |-> off, near |-> near]], off)
    BY <1>6 DEF IdaProc
  <2> HIDE DEF NoSeg, SegT
  <2>3. [name |-> name, seg |-> pos.seg.addr, off |-> off, near |-> near]
          \in [name : Nat, seg : Nat, off : Nat, near : BOOLEAN]
    BY <1>1, <1>2, <2>1, PosParts, Numbers
  <2>4. PosOK([pos EXCEPT !.proc = [name |-> name, seg |-> pos.seg.addr,
                                    off |-> off, near |-> near]])
    BY <1>1, <2>3, PosParts
  <2>5. QED
    BY <1>1, <1>2, <2>2, <2>4, LineTyped, Taken
<1>7. CASE IdaEndp
  <2>1. pos.seg # NoSeg
    BY <1>7 DEF IdaEndp
  <2>2. PICK off \in Offsets, name \in 1..MaxRoutines :
          \/ Refuse
          \/ Line([map EXCEPT !.routines = @ \cup
                     {[seg |-> pos.proc.seg, near |-> pos.proc.near, lo |-> pos.proc.seg + pos.proc.off,
                       hi |-> pos.seg.addr + off, reach |-> {}, unreach |-> {}, tags |-> {}]}],
                  [pos EXCEPT !.proc = NoProc], off)
    BY <1>7 DEF IdaEndp
  <2>3. NoProc \in [name : Nat, seg : Nat, off : Nat, near : BOOLEAN]
    BY DEF NoProc
  <2> HIDE DEF NoSeg, SegT, NoProc
  <2> DEFINE r == [seg |-> pos.proc.seg, near |-> pos.proc.near,
                   lo |-> pos.proc.seg + pos.proc.off,
                   hi |-> pos.seg.addr + off, reach |-> {}, unreach |-> {}, tags |-> {}]
  <2>4. /\ pos.proc.seg \in Int /\ pos.proc.near \in BOOLEAN
        /\ pos.proc.seg + pos.proc.off \in Int /\ pos.seg.addr + off \in Int
    BY <1>1, <1>2, <2>1, PosParts
  <2>5. r \in RoutineT /\ Sound(r)
    BY <2>4, BareRoutine
  <2>6. PosOK([pos EXCEPT !.proc = NoProc])
    BY <1>1, <2>3, PosParts
  <2> HIDE DEF r
  <2>7. Refuse \/ Line([map EXCEPT !.routines = @ \cup {r}], [pos EXCEPT !.proc = NoProc], off)
    BY <2>2 DEF r
  <2>8. QED
    BY <1>1, <1>2, <2>5, <2>6, <2>7, WithOneMore, LineTyped, Taken
<1>8. CASE IdaData
  <2>1. pos.seg # NoSeg
    BY <1>8 DEF IdaData
  <2>2. PICK off \in Offsets :
          Line([map EXCEPT !.vars = @ \cup {[seg |-> pos.seg.addr, lin |-> pos.seg.addr + off]}],
               pos, off)
    BY <1>8 DEF IdaData
  <2> HIDE DEF NoSeg, SegT
  <2>3. [seg |-> pos.seg.addr, lin |-> pos.seg.addr + off] \in VarT
    BY <1>1, <1>2, <2>1, PosParts DEF VarT
  <2>4. QED
    BY <1>1, <1>2, <2>2, <2>3, WithVar, LineTyped
<1>9. CASE IdaOther
  <2>1. PICK off \in Offsets : Line(map, pos, off)
    BY <1>9 DEF IdaOther
  <2>2. QED
    BY <1>1, <1>2, <2>1, LineTyped
<1>10. QED
  BY <1>3, <1>4, <1>5, <1>6, <1>7, <1>8, <1>9
-----------------------------------------------------------------------------
(* Extents.                                                                *)

LEMMA SortedBlocksIs ==
  ASSUME NEW S \in SUBSET RangeT, IsFiniteSet(S)
  PROVE  /\ Cardinality(S) \in Nat
         /\ SortedBlocks(S) \in [1..Cardinality(S) -> S]
         /\ \A j, k \in 1..Cardinality(S) :
              j <= k => SortedBlocks(S)[j].lo <= SortedBlocks(S)[k].lo
<1> DEFINE n == Cardinality(S)
           listed == SetToSeq(S)
           keys == [i \in DOMAIN listed |-> listed[i].lo]
           o == Ascending(keys)
<1>1. n \in Nat /\ listed \in [1..n -> S]
  BY SetToSeqIs
<1>2. \A b \in S : b.lo \in Int
  BY DEF RangeT
<1>3. SortedBlocks(S) = [k \in DOMAIN listed |-> listed[o[k]]]
  BY DEF SortedBlocks
<1> HIDE DEF n, listed
<1>4. keys \in [1..n -> Int] /\ \A i \in 1..n : keys[i] = listed[i].lo
  BY <1>1, <1>2
<1>5. DOMAIN listed = 1..n
  BY <1>1
<1> HIDE DEF keys
<1>6. o \in [1..n -> 1..n] /\ \A j, k \in 1..n : j <= k => keys[o[j]] <= keys[o[k]]
  BY <1>1, <1>4, AscendingIs, AscendingAscends
<1> HIDE DEF o
<1>7. SortedBlocks(S) = [k \in 1..n |-> listed[o[k]]]
  BY <1>3, <1>5
<1>8. SortedBlocks(S) \in [1..n -> S]
  BY <1>1, <1>6, <1>7
<1>9. ASSUME NEW j \in 1..n, NEW k \in 1..n, j <= k
      PROVE  SortedBlocks(S)[j].lo <= SortedBlocks(S)[k].lo
  <2>1. o[j] \in 1..n /\ o[k] \in 1..n /\ keys[o[j]] <= keys[o[k]]
    BY <1>6, <1>9
  <2>2. SortedBlocks(S)[j] = listed[o[j]] /\ SortedBlocks(S)[k] = listed[o[k]]
    BY <1>7
  <2>3. QED
    BY <1>4, <2>1, <2>2
<1>10. QED
  BY <1>1, <1>8, <1>9 DEF n

LEMMA SortedBlocksHas ==
  ASSUME NEW S \in SUBSET RangeT, IsFiniteSet(S), NEW b \in S
  PROVE  \E k \in 1..Cardinality(S) : SortedBlocks(S)[k] = b
<1> DEFINE n == Cardinality(S)
           listed == SetToSeq(S)
           keys == [i \in DOMAIN listed |-> listed[i].lo]
           o == Ascending(keys)
<1>1. n \in Nat /\ listed \in [1..n -> S] /\ \E i \in 1..n : listed[i] = b
  BY SetToSeqIs
<1>2. \A c \in S : c.lo \in Int
  BY DEF RangeT
<1>3. SortedBlocks(S) = [k \in DOMAIN listed |-> listed[o[k]]]
  BY DEF SortedBlocks
<1> HIDE DEF n, listed
<1>4. keys \in [1..n -> Int] /\ DOMAIN listed = 1..n
  BY <1>1, <1>2
<1> HIDE DEF keys
<1>5. PICK i \in 1..n : listed[i] = b
  BY <1>1
<1>6. Place(keys, i) \in 1..n /\ o[Place(keys, i)] = i
  BY <1>1, <1>4, AscendingIs, NotBehindFinite
<1> HIDE DEF o
<1>7. SortedBlocks(S)[Place(keys, i)] = b
  BY <1>3, <1>4, <1>5, <1>6
<1>8. QED
  BY <1>6, <1>7 DEF n

LEMMA CoalesceType ==
  ASSUME NEW a \in RangeT, NEW b \in RangeT
  PROVE  Coalesce(a, b) \in RangeT
BY DEF Coalesce, RangeT, Range2, Sooner, Later

(* What a block grows to when those of a list are coalesced into it.       *)
LEMMA CoalescedIs ==
  ASSUME NEW n \in Nat, NEW blocks \in [1..n -> RangeT], NEW main \in RangeT
  PROVE  \E g \in [0..n -> RangeT] :
           /\ g[0] = main
           /\ \A i \in 1..n : g[i] = Coalesce(g[i - 1], blocks[i])
           /\ Coalesced(main, blocks) = g[n]
<1> DEFINE Upto(f, k) == /\ f \in [0..k -> RangeT] /\ f[0] = main
                         /\ \A i \in 1..k : f[i] = Coalesce(f[i - 1], blocks[i])
           Defined == {k \in Nat : \E f : Upto(f, k)}
           Whole(f) == [i \in 0..Len(blocks) |->
                          IF i = 0 THEN main ELSE Coalesce(f[i - 1], blocks[i])]
<1> HIDE DEF RangeT
<1>1. Len(blocks) = n
  OBVIOUS
<1>2. 0 \in Defined
  <2>1. Upto([i \in 0..0 |-> main], 0)
    OBVIOUS
  <2>2. \E f : Upto(f, 0)
    BY <2>1
  <2>3. QED
    BY <2>2
<1>3. ASSUME NEW k \in 1..n, k - 1 \in Defined
      PROVE  k \in Defined
  <2>1. PICK f : Upto(f, k - 1)
    BY <1>3
  <2>2. k \in Nat \ {0} /\ k - 1 \in 0..(k - 1)
    OBVIOUS
  <2> DEFINE new == Coalesce(f[k - 1], blocks[k])
             g == [i \in 0..k |-> IF i = k THEN new ELSE f[i]]
  <2>3. new \in RangeT
    BY <2>1, <2>2, CoalesceType
  <2> HIDE DEF new
  <2>4. g \in [0..k -> RangeT] /\ g[0] = main
    BY <2>1, <2>2, <2>3
  <2>5. ASSUME NEW i \in 1..k PROVE g[i] = Coalesce(g[i - 1], blocks[i])
    <3>1. CASE i = k
      <4>1. g[i] = new /\ g[i - 1] = f[k - 1]
        BY <2>2, <3>1
      <4>2. QED
        BY <3>1, <4>1 DEF new
    <3>2. CASE i # k
      <4>1. i \in 1..(k - 1) /\ i \in 0..k /\ i - 1 \in 0..k /\ i - 1 # k
        BY <2>2, <3>2
      <4>2. f[i] = Coalesce(f[i - 1], blocks[i])
        BY <2>1, <4>1
      <4>3. QED
        BY <3>2, <4>1, <4>2
    <3>3. QED
      BY <3>1, <3>2
  <2>6. \E h : Upto(h, k)
    <3>1. Upto(g, k)
      BY <2>4, <2>5
    <3>2. QED
      BY <3>1
  <2>7. QED
    BY <2>2, <2>6
<1>4. PICK f : Upto(f, n)
  <2> HIDE DEF Defined
  <2>1. 0..n \subseteq Defined
    BY <1>2, <1>3, Upwards
  <2>2. n \in Defined
    BY <2>1
  <2>3. QED
    BY <2>2 DEF Defined
<1>5. \A i \in 0..n : f[i] = Whole(f)[i]
  BY <1>1, <1>4
<1>6. f = Whole(f)
  BY <1>1, <1>4, <1>5
<1> DEFINE grown == CHOOSE h : h = Whole(h)
<1>7. grown = Whole(grown)
  BY <1>6
<1>8. Coalesced(main, blocks) = grown[n]
  BY <1>1 DEF Coalesced
<1> HIDE DEF grown
<1>9. grown[0] = main
  BY <1>1, <1>7
<1>10. ASSUME NEW i \in 1..n PROVE grown[i] = Coalesce(grown[i - 1], blocks[i])
  <2>1. i \in 0..n /\ i # 0
    OBVIOUS
  <2>2. grown[i] = Whole(grown)[i]
    BY <1>7
  <2>3. QED
    BY <1>1, <2>1, <2>2
<1> DEFINE Good == {i \in 0..n : grown[i] \in RangeT}
<1>11. 0 \in Good
  BY <1>9
<1>12. ASSUME NEW i \in 1..n, i - 1 \in Good PROVE i \in Good
  BY <1>10, <1>12, CoalesceType
<1>13. 0..n \subseteq Good
  <2> HIDE DEF Good
  <2>1. QED
    BY <1>11, <1>12, Upwards
<1>14. grown \in [0..n -> RangeT]
  <2>1. grown = [i \in 0..n |-> grown[i]]
    BY <1>1, <1>7
  <2>2. QED
    BY <1>13, <2>1
<1>15. QED
  BY <1>8, <1>9, <1>10, <1>14
LEMMA CoalesceOne ==
  ASSUME NEW a \in RangeT, NEW b \in RangeT, a.lo <= b.lo
  PROVE  LET c == Coalesce(a, b)
         IN /\ c.lo = a.lo /\ a.hi <= c.hi
            /\ BytesOf(c) \subseteq BytesOf(a) \cup BytesOf(b)
            /\ ValidBlock(a) /\ ValidBlock(b) => b.hi <= c.hi \/ b.lo > c.hi + 1
            /\ b.lo > a.hi + 1 => c.hi = a.hi
<1> DEFINE c == Coalesce(a, b)
<1>1. a.lo \in Int /\ a.hi \in Int /\ b.lo \in Int /\ b.hi \in Int
  BY DEF RangeT
<1>2. CASE ~(Intersects(a, b) \/ Adjacent(a, b))
  <2>1. c = a
    BY <1>2 DEF Coalesce
  <2> HIDE DEF c
  <2>2. ValidBlock(a) /\ ValidBlock(b) => b.lo > a.hi + 1
    BY <1>1, <1>2 DEF Intersects, Adjacent, ValidBlock, Later, Sooner
  <2>3. QED
    BY <1>1, <2>1, <2>2 DEF c
<1>3. CASE Intersects(a, b) \/ Adjacent(a, b)
  <2>1. c.lo = Sooner(a.lo, b.lo) /\ c.hi = Later(a.hi, b.hi)
    BY <1>3 DEF Coalesce, Range2
  <2>2. c.lo = a.lo /\ (c.hi = a.hi \/ c.hi = b.hi) /\ a.hi <= c.hi /\ b.hi <= c.hi
    BY <1>1, <2>1 DEF Sooner, Later
  <2>3. b.lo <= a.hi + 1 /\ (c.hi = b.hi /\ b.hi # a.hi => b.lo <= b.hi)
    BY <1>1, <1>3, <2>2 DEF Intersects, Adjacent, ValidBlock, Later, Sooner
  <2> HIDE DEF c
  <2>4. BytesOf(c) \subseteq BytesOf(a) \cup BytesOf(b)
    BY <1>1, <2>2, <2>3 DEF BytesOf
  <2>5. QED
    BY <1>1, <2>2, <2>3, <2>4 DEF c
<1>4. QED
  BY <1>2, <1>3

(* The blocks the extents are gathered from, in their order.               *)
LEMMA GatheredIs ==
  ASSUME NEW r, r.lo \in Int, r.reach \in SUBSET RangeT, r.unreach \in SUBSET RangeT,
         IsFiniteSet(r.reach), IsFiniteSet(r.unreach)
  PROVE  LET past == {b \in BlocksOf(r) : b.lo >= r.lo}
         IN past \in SUBSET RangeT /\ past \subseteq BlocksOf(r) /\ IsFiniteSet(past)
<1> DEFINE past == {b \in BlocksOf(r) : b.lo >= r.lo}
<1>1. IsFiniteSet(BlocksOf(r)) /\ BlocksOf(r) \subseteq RangeT
  BY FS_Union DEF BlocksOf
<1>2. past \in SUBSET BlocksOf(r)
  OBVIOUS
<1>3. IsFiniteSet(past)
  BY <1>1, <1>2, FS_Subset
<1>4. QED
  BY <1>1, <1>2, <1>3

LEMMA ExtentsIs ==
  ASSUME NEW r, r.lo \in Int, r.reach \in SUBSET RangeT, r.unreach \in SUBSET RangeT,
         IsFiniteSet(r.reach), IsFiniteSet(r.unreach)
  PROVE  /\ Extents(r) \in RangeT /\ Extents(r).lo = r.lo
         /\ MainBlock(r) # {} =>
              \A x \in BytesOf(Extents(r)) : \E b \in BlocksOf(r) : x \in BytesOf(b)
         /\ \A main \in MainBlock(r) :
              /\ \A b \in MainBlock(r) : b = main
              /\ ValidBlock(main)
              => /\ r.lo <= Extents(r).hi
                 /\ \A b \in BlocksOf(r) : ValidBlock(b) /\ b.lo >= r.lo =>
                      b.hi <= Extents(r).hi \/ b.lo > Extents(r).hi + 1
<1>1. CASE MainBlock(r) = {}
  <2>1. Extents(r) = Range2(r.lo, r.lo)
    BY <1>1 DEF Extents
  <2>2. QED
    BY <1>1, <2>1 DEF Range2, RangeT
<1>2. CASE MainBlock(r) # {}
  <2> DEFINE past == {b \in BlocksOf(r) : b.lo >= r.lo}
             main == CHOOSE b \in MainBlock(r) : TRUE
             n == Cardinality(past)
             s == SortedBlocks(past)
             e == Extents(r)
  <2>1. past \in SUBSET RangeT /\ past \subseteq BlocksOf(r) /\ IsFiniteSet(past)
    BY GatheredIs
  <2>2. \A b \in past : b.lo >= r.lo
    OBVIOUS
  <2>3. main \in MainBlock(r)
    BY <1>2
  <2>4. main \in RangeT /\ main \in BlocksOf(r) /\ main.lo = r.lo
    BY <2>3 DEF MainBlock, BlocksOf
  <2>5. e = Coalesced(main, s)
    BY <1>2 DEF Extents
  <2>6. \A b \in BlocksOf(r) : b.lo >= r.lo => b \in past
    OBVIOUS
  <2> HIDE DEF past, main, e
  <2>7. /\ n \in Nat /\ s \in [1..n -> past]
        /\ \A j, k \in 1..n : j <= k => s[j].lo <= s[k].lo
    BY <2>1, SortedBlocksIs
  <2>8. \A b \in past : \E k \in 1..n : s[k] = b
    BY <2>1, SortedBlocksHas
  <2> HIDE DEF n, s
  <2>9. s \in [1..n -> RangeT]
    BY <2>1, <2>7
  <2>10. PICK g \in [0..n -> RangeT] : /\ g[0] = main /\ e = g[n]
                                       /\ \A i \in 1..n : g[i] = Coalesce(g[i - 1], s[i])
    BY <2>4, <2>5, <2>7, <2>9, CoalescedIs
  <2> DEFINE Own == UNION {BytesOf(b) : b \in BlocksOf(r)}
             Good == {i \in 0..n :
                        /\ g[i].lo = r.lo /\ main.hi <= g[i].hi /\ BytesOf(g[i]) \subseteq Own
                        /\ ValidBlock(main) =>
                             \A j \in 1..i : ValidBlock(s[j]) =>
                               s[j].hi <= g[i].hi \/ s[j].lo > g[i].hi + 1}
  <2>11. 0 \in Good
    BY <2>4, <2>7, <2>10 DEF RangeT
  <2>12. ASSUME NEW i \in 1..n, i - 1 \in Good PROVE i \in Good
    <3> DEFINE a == g[i - 1]
               c == g[i]
    <3>1. i - 1 \in 0..n /\ i \in 0..n
      BY <2>7
    <3>2. a \in RangeT /\ c \in RangeT /\ s[i] \in RangeT /\ c = Coalesce(a, s[i])
      BY <2>9, <2>10, <3>1
    <3>3. /\ a.lo = r.lo /\ main.hi <= a.hi /\ BytesOf(a) \subseteq Own
          /\ ValidBlock(main) =>
               \A j \in 1..(i - 1) : ValidBlock(s[j]) =>
                 s[j].hi <= a.hi \/ s[j].lo > a.hi + 1
      BY <2>12
    <3>4. a.lo <= s[i].lo /\ s[i] \in BlocksOf(r)
      BY <2>1, <2>2, <2>7, <3>3
    <3> HIDE DEF a, c
    <3>5. /\ c.lo = a.lo /\ a.hi <= c.hi
          /\ BytesOf(c) \subseteq BytesOf(a) \cup BytesOf(s[i])
          /\ ValidBlock(a) /\ ValidBlock(s[i]) => s[i].hi <= c.hi \/ s[i].lo > c.hi + 1
          /\ s[i].lo > a.hi + 1 => c.hi = a.hi
      BY <3>2, <3>4, CoalesceOne
    <3>6. /\ a.lo \in Int /\ a.hi \in Int /\ c.lo \in Int /\ c.hi \in Int
          /\ main.hi \in Int /\ main.lo \in Int
      BY <2>4, <3>2 DEF RangeT
    <3>7. BytesOf(s[i]) \subseteq Own
      BY <3>4
    <3> HIDE DEF Own
    <3>8. c.lo = r.lo /\ main.hi <= c.hi /\ BytesOf(c) \subseteq Own
      BY <3>3, <3>5, <3>6, <3>7
    <3>9. ASSUME ValidBlock(main), NEW j \in 1..i, ValidBlock(s[j])
          PROVE  s[j].hi <= c.hi \/ s[j].lo > c.hi + 1
      <4>1. ValidBlock(a)
        BY <2>4, <3>3, <3>6, <3>9 DEF ValidBlock
      <4>2. CASE j = i
        BY <3>5, <3>9, <4>1, <4>2
      <4>3. CASE j # i
        <5>1. j \in 1..(i - 1) /\ j \in 1..n /\ j <= i
          BY <2>7, <4>3
        <5>2. s[j].hi <= a.hi \/ s[j].lo > a.hi + 1
          BY <3>3, <3>9, <5>1
        <5>3. s[j].lo <= s[i].lo
          BY <2>7, <5>1
        <5>4. s[j].lo \in Int /\ s[j].hi \in Int /\ s[i].lo \in Int
          BY <2>9, <5>1 DEF RangeT
        <5>5. QED
          BY <3>5, <3>6, <5>2, <5>3, <5>4
      <4>4. QED
        BY <4>2, <4>3
    <3>10. QED
      BY <3>1, <3>8, <3>9 DEF c
  <2>13. n \in Good
    <3> HIDE DEF Good
    <3>1. 0..n \subseteq Good
      BY <2>7, <2>11, <2>12, Upwards
    <3>2. QED
      BY <2>7, <3>1
  <2>14. /\ e \in RangeT /\ e.lo = r.lo /\ main.hi <= e.hi /\ BytesOf(e) \subseteq Own
         /\ ValidBlock(main) =>
              \A j \in 1..n : ValidBlock(s[j]) => s[j].hi <= e.hi \/ s[j].lo > e.hi + 1
    BY <2>7, <2>10, <2>13
  <2>15. ASSUME ValidBlock(main), NEW b \in BlocksOf(r), ValidBlock(b), b.lo >= r.lo
         PROVE  b.hi <= e.hi \/ b.lo > e.hi + 1
    BY <2>6, <2>8, <2>14, <2>15
  <2>16. ValidBlock(main) => r.lo <= e.hi
    <3>1. e.hi \in Int /\ main.hi \in Int /\ main.lo \in Int
      BY <2>4, <2>14 DEF RangeT
    <3>2. QED
      BY <2>4, <2>14, <3>1 DEF ValidBlock
  <2> HIDE DEF Own
  <2>17. \A x \in BytesOf(e) : \E b \in BlocksOf(r) : x \in BytesOf(b)
    BY <2>14 DEF Own
  <2>18. ASSUME NEW x \in MainBlock(r), \A b \in MainBlock(r) : b = x, ValidBlock(x)
         PROVE  ValidBlock(main)
    BY <2>3, <2>18
  <2>19. QED
    BY <2>14, <2>15, <2>16, <2>17, <2>18 DEF e
<1>3. QED
  BY <1>1, <1>2

(* A routine the extents of which are put right. *)
WithExtents(r) == [r EXCEPT !.lo = Extents(r).lo, !.hi = Extents(r).hi]

LEMMA WithExtentsIs ==
  ASSUME NEW r \in RoutineT, Sound(r)
  PROVE  /\ WithExtents(r) \in RoutineT /\ Sound(WithExtents(r))
         /\ WithExtents(r).lo = r.lo /\ WithExtents(r).hi = Extents(r).hi
         /\ WithExtents(r).seg = r.seg /\ WithExtents(r).tags = r.tags
         /\ WithExtents(r).reach = r.reach /\ WithExtents(r).unreach = r.unreach
         /\ BlocksOf(WithExtents(r)) = BlocksOf(r)
         /\ MainBlock(WithExtents(r)) = MainBlock(r)
         /\ Extents(WithExtents(r)) = Extents(r)
         /\ WithExtents(WithExtents(r)) = WithExtents(r)
<1> DEFINE w == WithExtents(r)
           e == Extents(r)
<1>1. /\ r.lo \in Int /\ r.reach \in SUBSET RangeT /\ r.unreach \in SUBSET RangeT
      /\ IsFiniteSet(r.reach) /\ IsFiniteSet(r.unreach)
  BY DEF RoutineT, Sound
<1>2. e \in RangeT /\ e.lo = r.lo
  BY <1>1, ExtentsIs
<1>3. e.lo \in Int /\ e.hi \in Int
  BY <1>2 DEF RangeT
<1>4. w = [r EXCEPT !.lo = e.lo, !.hi = e.hi]
  BY DEF WithExtents
<1> HIDE DEF w, e
<1>5. /\ w.lo = r.lo /\ w.hi = e.hi /\ w.seg = r.seg /\ w.tags = r.tags
      /\ w.reach = r.reach /\ w.unreach = r.unreach /\ w \in RoutineT
  BY <1>2, <1>3, <1>4 DEF RoutineT
<1>6. Sound(w)
  BY <1>5 DEF Sound
<1>7. BlocksOf(w) = BlocksOf(r) /\ MainBlock(w) = MainBlock(r)
  BY <1>5 DEF BlocksOf, MainBlock
<1>8. Extents(w) = e
  BY <1>5, <1>7 DEF Extents, e
<1>9. WithExtents(w) = w
  <2>1. WithExtents(w) = [w EXCEPT !.lo = e.lo, !.hi = e.hi]
    BY <1>8 DEF WithExtents
  <2>2. QED
    BY <1>2, <1>5, <2>1 DEF RoutineT
<1>10. QED
  BY <1>5, <1>6, <1>7, <1>8, <1>9 DEF w, e
-----------------------------------------------------------------------------
(* The order of a map.                                                     *)

LEMMA WithDefaultIs ==
  ASSUME NEW m, MapOK(m), NEW n \in Nat, m.segs \in [1..n -> SegT]
  PROVE  /\ WithDefault(m) \in [1..n -> SegT]
         /\ \A i \in 1..n : /\ WithDefault(m)[i].addr = m.segs[i].addr
                            /\ WithDefault(m)[i].name = m.segs[i].name
                            /\ WithDefault(m)[i].type = m.segs[i].type
<1>1. CASE WithDefault(m) = m.segs
  BY <1>1
<1>2. CASE WithDefault(m) # m.segs
  <2> DEFINE i == CHOOSE i \in DataSegs(m) : \A j \in DataSegs(m) : i <= j
             w == WithDefault(m)
  <2>1. DataSegs(m) # {} /\ w = [m.segs EXCEPT ![i].def = TRUE]
    BY <1>2 DEF WithDefault
  <2>2. DataSegs(m) \subseteq Nat /\ DataSegs(m) \subseteq 1..n
    BY DEF DataSegs
  <2>3. i \in 1..n
    BY <2>1, <2>2, LeastExists
  <2> HIDE DEF i, w
  <2>4. m.segs[i] \in SegT
    BY <2>3
  <2>5. /\ [m.segs[i] EXCEPT !.def = TRUE] \in SegT
        /\ [m.segs[i] EXCEPT !.def = TRUE].addr = m.segs[i].addr
        /\ [m.segs[i] EXCEPT !.def = TRUE].name = m.segs[i].name
        /\ [m.segs[i] EXCEPT !.def = TRUE].type = m.segs[i].type
    BY <2>4 DEF SegT
  <2> DEFINE x == [m.segs[i] EXCEPT !.def = TRUE]
  <2> HIDE DEF SegT
  <2>6. w = [m.segs EXCEPT ![i] = x]
    BY <2>1
  <2> HIDE DEF x
  <2>7. w \in [1..n -> SegT] /\ \A j \in 1..n : w[j] = IF j = i THEN x ELSE m.segs[j]
    BY <2>3, <2>5, <2>6 DEF x
  <2>8. QED
    BY <2>5, <2>7 DEF x, w
<1>3. QED
  BY <1>1, <1>2

LEMMA InOrderParts ==
  ASSUME NEW m, MapOK(m)
  PROVE  /\ InOrder(m).size = m.size /\ InOrder(m).vars = m.vars
         /\ InOrder(m).unclaimed = m.unclaimed /\ InOrder(m).ida = m.ida
         /\ InOrder(m).routines = IF m.ida THEN m.routines
                                  ELSE {WithExtents(r) : r \in m.routines}
         /\ InOrder(m).segs = InBaseOrder(WithDefault(m))
         /\ InOrder(m) = [m EXCEPT !.routines = IF m.ida THEN m.routines
                                                ELSE {WithExtents(r) : r \in m.routines},
                                   !.segs = InBaseOrder(WithDefault(m))]
<1> DEFINE segs == InBaseOrder(WithDefault(m))
           rs == IF m.ida THEN m.routines ELSE {WithExtents(r) : r \in m.routines}
<1>1. m \in MapT
  BY DEF MapOK
<1>2. InOrder(m) = [m EXCEPT !.routines = rs, !.segs = segs]
  BY DEF InOrder, WithExtents
<1> HIDE DEF rs, segs
<1>3. /\ InOrder(m).size = m.size /\ InOrder(m).vars = m.vars
      /\ InOrder(m).unclaimed = m.unclaimed /\ InOrder(m).ida = m.ida
      /\ InOrder(m).routines = rs /\ InOrder(m).segs = segs
  BY <1>1, <1>2 DEF MapT
<1>4. QED
  BY <1>2, <1>3 DEF rs, segs

LEMMA SegsInOrder ==
  ASSUME NEW m, MapOK(m), NEW n \in Nat, m.segs \in [1..n -> SegT]
  PROVE  /\ InOrder(m).segs \in [1..n -> SegT]
         /\ \A j, k \in 1..n : j <= k => InOrder(m).segs[j].addr <= InOrder(m).segs[k].addr
<1>1. InOrder(m).segs = InBaseOrder(WithDefault(m)) /\ WithDefault(m) \in [1..n -> SegT]
  BY InOrderParts, WithDefaultIs
<1>2. \A s \in SegT : s.addr \in Int
  BY DEF SegT
<1> DEFINE w == WithDefault(m)
           o == InOrder(m).segs
<1> HIDE DEF w, o, SegT
<1>3. o = InBaseOrder(w) /\ w \in [1..n -> SegT]
  BY <1>1 DEF w, o
<1>4. o \in [1..n -> SegT] /\ \A j, k \in 1..n : j <= k => o[j].addr <= o[k].addr
  BY ONLY <1>2, <1>3, n \in Nat, InBaseOrderIs
<1>5. QED
  BY <1>4 DEF o

(* Every segment has its place in the order, with its name and its type.   *)
LEMMA SegsInOrderHave ==
  ASSUME NEW m, MapOK(m), NEW n \in Nat, m.segs \in [1..n -> SegT], NEW k \in 1..n
  PROVE  /\ \E i \in 1..n : /\ InOrder(m).segs[k].addr = m.segs[i].addr
                            /\ InOrder(m).segs[k].name = m.segs[i].name
                            /\ InOrder(m).segs[k].type = m.segs[i].type
         /\ \E i \in 1..n : /\ InOrder(m).segs[i].addr = m.segs[k].addr
                            /\ InOrder(m).segs[i].name = m.segs[k].name
                            /\ InOrder(m).segs[i].type = m.segs[k].type
<1> DEFINE w == WithDefault(m)
           o == InOrder(m).segs
<1>1. o = InBaseOrder(w) /\ w \in [1..n -> SegT]
  BY InOrderParts, WithDefaultIs
<1>2. \A i \in 1..n : /\ w[i].addr = m.segs[i].addr /\ w[i].name = m.segs[i].name
                      /\ w[i].type = m.segs[i].type
  BY WithDefaultIs
<1>3. \A s \in SegT : s.addr \in Int
  BY DEF SegT
<1> HIDE DEF w, o
<1>4. (\E i \in 1..n : o[k] = w[i]) /\ \E i \in 1..n : o[i] = w[k]
  BY <1>1, <1>3, InBaseOrderHas
<1>5. QED
  BY <1>2, <1>4 DEF o

LEMMA InOrderOK ==
  ASSUME NEW m, MapOK(m)
  PROVE  MapOK(InOrder(m))
<1> DEFINE rs == IF m.ida THEN m.routines ELSE {WithExtents(r) : r \in m.routines}
           segs == InOrder(m).segs
<1>1. PICK n \in Nat : m.segs \in [1..n -> SegT]
  BY SegmentsOfMap
<1>2. segs \in [1..n -> SegT]
  BY <1>1, SegsInOrder
<1>3. \A r \in m.routines : r \in RoutineT /\ Sound(r)
  BY DEF MapOK, MapT
<1>4. \A r \in m.routines : WithExtents(r) \in RoutineT /\ Sound(WithExtents(r))
  BY <1>3, WithExtentsIs
<1>5. IsFiniteSet({WithExtents(r) : r \in m.routines})
  <2> DEFINE f == [r \in m.routines |-> WithExtents(r)]
  <2>1. {WithExtents(r) : r \in m.routines} = {f[r] : r \in m.routines}
    OBVIOUS
  <2>2. IsFiniteSet(m.routines) /\ DOMAIN f = m.routines
    BY DEF MapOK
  <2> HIDE DEF f
  <2>3. QED
    BY <2>1, <2>2, ImageFinite
<1>6. IsFiniteSet(rs) /\ \A r \in rs : r \in RoutineT /\ Sound(r)
  BY <1>3, <1>4, <1>5 DEF MapOK
<1>7. InOrder(m) = [m EXCEPT !.routines = rs, !.segs = segs] /\ InOrder(m).routines = rs
  BY InOrderParts
<1> HIDE DEF rs, segs
<1>8. segs \in Seq(SegT)
  BY <1>2
<1>9. InOrder(m) \in MapT
  BY <1>6, <1>7, <1>8 DEF MapT, MapOK
<1>10. QED
  BY <1>6, <1>7, <1>9 DEF MapOK

LEMMA LinkMapOK ==
  ASSUME Typed
  PROVE  MapOK(LinkMap) /\ LinkMap.ida = map.ida /\ LinkMap.unclaimed = map.unclaimed
<1> DEFINE segs == InBaseOrder(SetToSeq(pos.used))
           k == Cardinality(pos.used)
<1>1. pos.used \subseteq SegT /\ IsFiniteSet(pos.used) /\ pos.total \in Nat
  BY DEF Typed, PosOK, PosT
<1>2. k \in Nat /\ SetToSeq(pos.used) \in [1..k -> pos.used]
  BY <1>1, SetToSeqIs
<1>3. \A s \in pos.used : s.addr \in Int
  BY <1>1 DEF SegT
<1> HIDE DEF k, SegT
<1>4. segs \in [1..k -> pos.used]
  BY <1>2, <1>3, InBaseOrderIs
<1>5. segs \in Seq(SegT)
  BY <1>1, <1>2, <1>4
<1>6. MapOK(map)
  BY DEF Typed
<1>7. LinkMap = [map EXCEPT !.size = pos.total, !.segs = segs]
  BY DEF LinkMap
<1> HIDE DEF segs
<1>8. LinkMap \in MapT /\ LinkMap.routines = map.routines
      /\ LinkMap.ida = map.ida /\ LinkMap.unclaimed = map.unclaimed
  BY <1>1, <1>5, <1>6, <1>7 DEF MapOK, MapT
<1>9. QED
  BY <1>6, <1>8 DEF MapOK
-----------------------------------------------------------------------------
(* Saving and reading again.                                               *)

LEMMA HeaderIs ==
  ASSUME NEW m, MapOK(m)
  PROVE  /\ MapOK(HeaderOf(m)) /\ HeaderOf(m).size = m.size /\ HeaderOf(m).segs = m.segs
         /\ HeaderOf(m).vars = m.vars /\ HeaderOf(m).routines = {}
         /\ HeaderOf(m).unclaimed = {} /\ HeaderOf(m).ida = FALSE
         /\ HeaderOf(m) \in MapT
<1>1. m \in MapT
  BY DEF MapOK
<1>2. NewFile \in MapT /\ NewFile.routines = {}
      /\ NewFile.unclaimed = {} /\ NewFile.ida = FALSE
  BY NewFileOK DEF MapOK, NewFile
<1> HIDE DEF NewFile
<1>3. HeaderOf(m) = [NewFile EXCEPT !.size = m.size, !.segs = m.segs, !.vars = m.vars]
  BY DEF HeaderOf
<1>4. /\ HeaderOf(m) \in MapT /\ HeaderOf(m).size = m.size /\ HeaderOf(m).segs = m.segs
      /\ HeaderOf(m).vars = m.vars /\ HeaderOf(m).routines = {}
      /\ HeaderOf(m).unclaimed = {} /\ HeaderOf(m).ida = FALSE
  BY <1>1, <1>2, <1>3 DEF MapT
<1>5. QED
  BY <1>4, FS_EmptySet DEF MapOK

LEMMA BackIs ==
  ASSUME NEW seg \in Int, NEW S \in SUBSET RangeT, IsFiniteSet(S)
  PROVE  LET T == {Range2(b.lo - seg, b.hi - seg) : b \in S}
         IN T \in SUBSET RangeT /\ IsFiniteSet(T)
<1> DEFINE f == [b \in S |-> Range2(b.lo - seg, b.hi - seg)]
           T == {Range2(b.lo - seg, b.hi - seg) : b \in S}
<1>1. \A b \in S : Range2(b.lo - seg, b.hi - seg) \in RangeT
  BY DEF Range2, RangeT
<1>2. T = {f[b] : b \in S} /\ DOMAIN f = S
  OBVIOUS
<1> HIDE DEF f
<1>3. IsFiniteSet({f[b] : b \in S})
  BY <1>2, ImageFinite
<1>4. QED
  BY <1>1, <1>2, <1>3

LEMMA LineOfIs ==
  ASSUME NEW m, MapOK(m), NEW r \in m.routines, SegsAt(m, r.seg) # {}
  PROVE  /\ LineOf(m, r) \in LineT
         /\ IsFiniteSet(LineOf(m, r).reach) /\ IsFiniteSet(LineOf(m, r).unreach)
         /\ LineOf(m, r).seg = First(m, SegsAt(m, r.seg)).name
         /\ LineOf(m, r).near = r.near /\ LineOf(m, r).tags = r.tags
         /\ LineOf(m, r).lo = r.lo - r.seg /\ LineOf(m, r).hi = r.hi - r.seg
         /\ LineOf(m, r).reach = {Range2(b.lo - r.seg, b.hi - r.seg) : b \in r.reach}
         /\ LineOf(m, r).unreach = {Range2(b.lo - r.seg, b.hi - r.seg) : b \in r.unreach}
<1> DEFINE nm == First(m, SegsAt(m, r.seg)).name
           rs == {Range2(b.lo - r.seg, b.hi - r.seg) : b \in r.reach}
           us == {Range2(b.lo - r.seg, b.hi - r.seg) : b \in r.unreach}
<1>1. r \in RoutineT /\ Sound(r)
  BY DEF MapOK, MapT
<1>2. nm \in SegNames
  <2>1. SegsAt(m, r.seg) \subseteq DOMAIN m.segs
    BY DEF SegsAt
  <2>2. First(m, SegsAt(m, r.seg)) \in SegT
    BY <2>1, FirstOfMap
  <2>3. QED
    BY <2>2 DEF SegT
<1>3. /\ rs \in SUBSET RangeT /\ IsFiniteSet(rs)
      /\ us \in SUBSET RangeT /\ IsFiniteSet(us)
  BY <1>1, BackIs DEF RoutineT, Sound
<1>4. LineOf(m, r) = [seg |-> nm, near |-> r.near, lo |-> r.lo - r.seg, hi |-> r.hi - r.seg,
                      reach |-> rs, unreach |-> us, tags |-> r.tags]
  BY DEF LineOf, Range2
<1> HIDE DEF nm, rs, us
<1>5. LineOf(m, r) \in LineT
  BY <1>1, <1>2, <1>3, <1>4 DEF LineT, RoutineT
<1>6. QED
  BY <1>3, <1>4, <1>5 DEF nm, rs, us

AgainOf(m, rs) ==
  [HeaderOf(m) EXCEPT !.routines = {LineRoutine(HeaderOf(m), LineOf(m, r)) : r \in rs}]

LEMMA AgainIs ==
  ASSUME NEW m, MapOK(m), NEW rs
  PROVE  /\ AgainOf(m, rs).size = m.size /\ AgainOf(m, rs).segs = m.segs
         /\ AgainOf(m, rs).vars = m.vars /\ AgainOf(m, rs).unclaimed = {}
         /\ AgainOf(m, rs).ida = FALSE
         /\ AgainOf(m, rs).routines = {LineRoutine(HeaderOf(m), LineOf(m, r)) : r \in rs}
<1> DEFINE again == {LineRoutine(HeaderOf(m), LineOf(m, r)) : r \in rs}
<1>1. AgainOf(m, rs) = [HeaderOf(m) EXCEPT !.routines = again]
  BY DEF AgainOf
<1> HIDE DEF again
<1>2. HeaderOf(m) \in MapT
  BY HeaderIs
<1>3. /\ AgainOf(m, rs).size = HeaderOf(m).size /\ AgainOf(m, rs).segs = HeaderOf(m).segs
      /\ AgainOf(m, rs).vars = HeaderOf(m).vars
      /\ AgainOf(m, rs).unclaimed = HeaderOf(m).unclaimed
      /\ AgainOf(m, rs).ida = HeaderOf(m).ida /\ AgainOf(m, rs).routines = again
  BY <1>1, <1>2 DEF MapT
<1>4. QED
  BY <1>3, HeaderIs DEF again

LEMMA RereadIs ==
  ASSUME NEW m
  PROVE  /\ Reread(m).ok <=> \A r \in m.routines :
                               LineAccepted(AgainOf(m, m.routines \ {r}), LineOf(m, r))
         /\ Reread(m).map = AgainOf(m, m.routines)
BY DEF Reread, AgainOf

LEMMA RereadOK ==
  ASSUME NEW m, MapOK(m), Reread(m).ok, \A r \in m.routines : SegsAt(m, r.seg) # {}
  PROVE  MapOK(Reread(m).map) /\ Reread(m).map.ida = FALSE
<1> DEFINE h == HeaderOf(m)
           new(r) == LineRoutine(h, LineOf(m, r))
           a == Reread(m).map
<1>1. ASSUME NEW r \in m.routines
      PROVE  new(r) \in RoutineT /\ Sound(new(r))
  <2> DEFINE line == LineOf(m, r)
             others == AgainOf(m, m.routines \ {r})
  <2>1. LineAccepted(others, line)
    BY RereadIs
  <2>2. others.segs = m.segs /\ h.segs = m.segs /\ h.routines = {}
    BY AgainIs, HeaderIs
  <2>3. line \in LineT /\ IsFiniteSet(line.reach) /\ IsFiniteSet(line.unreach)
    BY LineOfIs
  <2> HIDE DEF others, line, h
  <2>4. SegsNamed(others, line.seg) = SegsNamed(h, line.seg)
        /\ First(others, SegsNamed(others, line.seg)) = First(h, SegsNamed(h, line.seg))
    BY <2>2 DEF SegsNamed, First
  <2>5. NoCollision(h, line)
    BY <2>1, <2>2, <2>4 DEF LineAccepted, NoCollision
  <2>6. LineAccepted(h, line)
    BY <2>1, <2>4, <2>5 DEF LineAccepted
  <2>7. MapOK(h)
    BY HeaderIs DEF h
  <2>8. QED
    BY <2>3, <2>6, <2>7, LineRoutineOK DEF line
<1> DEFINE rs == {new(r) : r \in m.routines}
<1>2. IsFiniteSet(rs)
  <2> DEFINE f == [r \in m.routines |-> new(r)]
  <2>1. rs = {f[r] : r \in m.routines} /\ DOMAIN f = m.routines
    OBVIOUS
  <2>2. IsFiniteSet(m.routines)
    BY DEF MapOK
  <2> HIDE DEF f, rs
  <2>3. QED
    BY <2>1, <2>2, ImageFinite
<1>3. a = [h EXCEPT !.routines = rs]
  BY RereadIs DEF AgainOf
<1>4. \A r \in rs : r \in RoutineT /\ Sound(r)
  BY <1>1
<1>5. h \in MapT /\ h.ida = FALSE
  BY HeaderIs
<1> HIDE DEF rs, h, a
<1>6. rs \in SUBSET RoutineT
  BY <1>4
<1>7. a \in MapT /\ a.routines = rs /\ a.ida = FALSE
  BY <1>3, <1>5, <1>6 DEF MapT
<1>8. QED
  BY <1>2, <1>4, <1>7 DEF MapOK, a
-----------------------------------------------------------------------------
(* The walk over the bytes.                                                *)

PlaceT == [seg : Int, lin : Int]
BlockT == [kind : {"unclaimed"}, idx : {0}, lo : Int, hi : Int]
Walks(start) == [only : {TRUE}, start : {start}, off : Int, open : PlaceT, seg : Int,
          curId : Int, prevId : Int, curBlockId : Int, prevBlockId : Int,
          blocks : SUBSET BlockT, status : {"mapping", "mapped", "failed"}]
WalkOK(start, c) == c \in Walks(start) /\ IsFiniteSet(c.blocks)

Fresh(start) == Build!NewMap(TRUE, start)

LEMMA NewWalk ==
  ASSUME load \in Int
  PROVE  /\ WalkOK(load, Fresh(load)) /\ Fresh(load).off = load /\ Fresh(load).open.lin = load /\ Fresh(load).seg = -1
         /\ Fresh(load).prevId = 0 /\ Fresh(load).curBlockId = 0
         /\ Fresh(load).blocks = {} /\ Fresh(load).status = "mapping"
<1>1. (load \div SegSize) * SegSize \in Int
  BY SizeAssumption
<1>2. Build!LinearAddr(load) = [seg |-> (load \div SegSize) * SegSize, lin |-> load]
  BY DEF Build!LinearAddr
<1> DEFINE s == (load \div SegSize) * SegSize
<1> HIDE DEF s
<1>3. [seg |-> s, lin |-> load] \in PlaceT
  BY <1>1 DEF PlaceT, s
<1> HIDE DEF PlaceT
<1>4. Fresh(load) =
        [only |-> TRUE, start |-> load, off |-> load, open |-> [seg |-> s, lin |-> load], seg |-> -1,
         curId |-> 0, prevId |-> 0, curBlockId |-> 0, prevBlockId |-> 0,
         blocks |-> {}, status |-> "mapping"]
  BY <1>2 DEF Fresh, Build!NewMap, Build!NULL_ROUTINE, Build!NoSegment, s
<1> HIDE DEF Fresh, BlockT
<1>5. Fresh(load) \in Walks(load)
  BY <1>3, <1>4 DEF Walks
<1>6. /\ Fresh(load).blocks = {} /\ Fresh(load).off = load /\ Fresh(load).open.lin = load /\ Fresh(load).seg = -1
      /\ Fresh(load).prevId = 0 /\ Fresh(load).curBlockId = 0 /\ Fresh(load).status = "mapping"
  BY <1>4
<1>7. QED
  BY <1>5, <1>6, FS_EmptySet DEF WalkOK

LEMMA FoundSegment ==
  ASSUME NEW n \in Nat, NEW table \in [1..n -> SegT], NEW off \in Int
  PROVE  /\ Build!FindSegment(table, off) \in Int
         /\ Build!FindSegmentPast(table, off) \in Int
         /\ \A i \in 1..n : InSegment(off, table[i].addr) =>
              Build!FindSegment(table, off) \in Nat
         /\ Build!FindSegment(table, off) # Build!NoSegment =>
              InSegment(off, Build!FindSegment(table, off))
<1> DEFINE C == Build!Containing(table, off)
           P == Build!Past(table, off)
<1>1. /\ DOMAIN table = 1..n /\ C \subseteq 1..n /\ P \subseteq 1..n
      /\ \A i \in 1..n : i \in C <=> InSegment(off, table[i].addr)
  BY DEF Build!Containing, Build!Past, Build!InSegment, InSegment
<1> HIDE DEF C, P
<1>2. (\A i \in 1..n : table[i].addr \in Nat) /\ P \subseteq Nat
  BY <1>1 DEF SegT
<1>3. CASE C # {}
  <2>1. C \subseteq Nat /\ \A i \in C : i <= n
    BY <1>1
  <2>2. \E i \in C : \A j \in C : j <= i
    BY <1>3, <2>1, GreatestExists
  <2> DEFINE last == CHOOSE i \in C : \A j \in C : j <= i
  <2>3. last \in C
    BY <2>2
  <2>4. Build!FindSegment(table, off) = table[last].addr
    BY <1>3 DEF Build!FindSegment, C
  <2> HIDE DEF last
  <2>5. Build!FindSegment(table, off) \in Nat /\ InSegment(off, Build!FindSegment(table, off))
    BY <1>1, <1>2, <2>3, <2>4
  <2>6. Build!FindSegmentPast(table, off) \in Int
    <3>1. CASE P = {}
      BY <3>1 DEF Build!FindSegmentPast, P, Build!NoSegment
    <3>2. CASE P # {}
      <4> DEFINE k == CHOOSE i \in P : \A j \in P : i <= j
      <4>1. \E x \in P : \A j \in P : x <= j
        BY <1>2, <3>2, LeastExists
      <4>2. k \in P /\ Build!FindSegmentPast(table, off) = table[k].addr
        BY <3>2, <4>1 DEF Build!FindSegmentPast, P
      <4> HIDE DEF k
      <4>3. QED
        BY <1>1, <1>2, <4>2
    <3>3. QED
      BY <3>1, <3>2
  <2>7. QED
    BY <2>5, <2>6
<1>4. CASE C = {}
  <2>1. Build!FindSegment(table, off) = Build!NoSegment /\ Build!NoSegment \in Int
    BY <1>4 DEF Build!FindSegment, C, Build!NoSegment
  <2>2. Build!FindSegmentPast(table, off) \in Int
    <3>1. CASE P = {}
      BY <3>1 DEF Build!FindSegmentPast, P, Build!NoSegment
    <3>2. CASE P # {}
      <4> DEFINE k == CHOOSE i \in P : \A j \in P : i <= j
      <4>1. \E x \in P : \A j \in P : x <= j
        BY <1>2, <3>2, LeastExists
      <4>2. k \in P /\ Build!FindSegmentPast(table, off) = table[k].addr
        BY <3>2, <4>1 DEF Build!FindSegmentPast, P
      <4> HIDE DEF k
      <4>3. QED
        BY <1>1, <1>2, <4>2
    <3>3. QED
      BY <3>1, <3>2
  <2>3. QED
    BY <1>1, <1>4, <2>1, <2>2
<1>5. QED
  BY <1>3, <1>4

(* The blocks with the bytes from lin to next, if no routine has them.     *)
CutOut(blocks, lin, next, id) ==
  IF id # 0 THEN blocks
  ELSE blocks \cup {[kind |-> "unclaimed", idx |-> 0, lo |-> lin, hi |-> next - 1]}

(* Closing a block does nothing, or fails, or takes what is open for the   *)
(* bytes before next. *)
Closed(c, d, next) ==
  \/ d = c /\ (c.status = "failed" \/ ~Build!IsValid(c.open) \/ next = c.open.lin)
  \/ d.status = "failed" /\ d.blocks = c.blocks
  \/ /\ d.status = c.status /\ c.open.lin < next /\ Build!IsValid(c.open)
     /\ d.blocks = CutOut(c.blocks, c.open.lin, next, c.curBlockId)
     /\ Build!InSegment(next - 1, c.open.seg)
     /\ Build!InSegment(c.open.lin, c.open.seg)

LEMMA ClosedIs ==
  ASSUME NEW c, WalkOK(load, c), NEW q, NEW next \in Int
  PROVE  LET d == Build!CloseBlock(c, q, next)
         IN /\ WalkOK(load, d)
            /\ d.only = c.only /\ d.start = c.start /\ d.off = c.off /\ d.open = c.open
            /\ d.seg = c.seg /\ d.curId = c.curId /\ d.prevId = c.prevId
            /\ d.curBlockId = c.curBlockId
            /\ Closed(c, d, next)
<1> DEFINE d == Build!CloseBlock(c, q, next)
           more == {[kind |-> "unclaimed", idx |-> 0, lo |-> c.open.lin, hi |-> next - 1]}
           blocks == IF c.curBlockId # 0 THEN c.blocks ELSE c.blocks \cup more
<1>1. c \in Walks(load) /\ IsFiniteSet(c.blocks)
  BY DEF WalkOK
<1>2. c.only = TRUE /\ c.open \in PlaceT /\ c.curBlockId \in Int /\ c.open.lin \in Int
  BY <1>1 DEF Walks, PlaceT
<1>3. Build!KindOf(c) = "unclaimed"
  BY <1>2 DEF Build!KindOf
<1>4. Build!OwnerOf(c) = 0
  BY <1>3 DEF Build!OwnerOf, Build!NULL_ROUTINE
<1>5. Build!Known(c) <=> c.curBlockId # 0
  BY <1>2 DEF Build!Known, Build!NULL_ROUTINE
<1>6. Build!HomeOf(c, q) = c.open.seg
  BY <1>4 DEF Build!HomeOf, Build!NULL_ROUTINE
<1>7. CASE c.status = "failed" \/ ~Build!IsValid(c.open) \/ next = c.open.lin
  <2>1. d = c
    BY <1>7 DEF Build!CloseBlock
  <2>2. QED
    BY <1>7, <2>1 DEF Closed
<1>8. CASE ~(c.status = "failed" \/ ~Build!IsValid(c.open) \/ next = c.open.lin)
  <2>1. CASE \/ next < c.open.lin \/ ~Build!InSegment(next - 1, c.open.seg)
             \/ ~Build!Fits(c.open.lin, next - 1, Build!HomeOf(c, q))
    <3>1. d = [c EXCEPT !.status = "failed"]
      BY <1>8, <2>1 DEF Build!CloseBlock
    <3> HIDE DEF d, PlaceT, BlockT
    <3>2. /\ d \in Walks(load) /\ d.only = c.only /\ d.start = c.start /\ d.off = c.off
          /\ d.open = c.open /\ d.seg = c.seg /\ d.curId = c.curId /\ d.prevId = c.prevId
          /\ d.curBlockId = c.curBlockId /\ d.blocks = c.blocks /\ d.status = "failed"
      BY <1>1, <3>1 DEF Walks
    <3>3. QED
      BY <1>1, <3>2 DEF WalkOK, d, Closed
  <2>2. CASE ~(\/ next < c.open.lin \/ ~Build!InSegment(next - 1, c.open.seg)
               \/ ~Build!Fits(c.open.lin, next - 1, Build!HomeOf(c, q)))
    <3>1. d = [c EXCEPT !.blocks = blocks, !.prevBlockId = c.curBlockId]
      BY <1>3, <1>4, <1>5, <1>8, <2>2 DEF Build!CloseBlock
    <3>2. more \subseteq BlockT /\ IsFiniteSet(c.blocks \cup more)
      <4>1. more \subseteq BlockT
        BY <1>2 DEF BlockT
      <4>2. IsFiniteSet(c.blocks \cup more)
        BY ONLY <1>1, FS_AddElement
      <4>3. QED
        BY <4>1, <4>2
    <3>3. c.open.lin < next
      BY <1>2, <1>8, <2>2
    <3> HIDE DEF more, d, PlaceT, BlockT
    <3>4. blocks \in SUBSET BlockT /\ IsFiniteSet(blocks)
      BY <1>1, <3>2 DEF Walks
    <3> HIDE DEF blocks
    <3>5. /\ d \in Walks(load) /\ d.only = c.only /\ d.start = c.start /\ d.off = c.off
          /\ d.open = c.open /\ d.seg = c.seg /\ d.curId = c.curId /\ d.prevId = c.prevId
          /\ d.curBlockId = c.curBlockId /\ d.blocks = blocks /\ d.status = c.status
      BY <1>1, <3>1, <3>4 DEF Walks
    <3>6. Build!InSegment(next - 1, c.open.seg) /\ Build!InSegment(c.open.lin, c.open.seg)
      BY <1>6, <2>2 DEF Build!Fits
    <3>7. QED
      BY <1>8, <3>3, <3>4, <3>5, <3>6 DEF WalkOK, d, blocks, more, Closed, CutOut
  <2>3. QED
    BY <2>1, <2>2
<1>9. QED
  BY <1>7, <1>8
LEMMA NoEntrypoints ==
  ASSUME NEW q, q.entrypoints = << >>, NEW off
  PROVE  Build!IsEntrypoint(q, off) = 0
<1>1. DOMAIN q.entrypoints = {}
  OBVIOUS
<1>2. ~Build!KnownEntrypoint(q, off)
  BY <1>1 DEF Build!KnownEntrypoint
<1>3. QED
  BY <1>2 DEF Build!IsEntrypoint, Build!NULL_ROUTINE

LEMMA ReadByteIs ==
  ASSUME NEW c, WalkOK(load, c), NEW id \in Int
  PROVE  LET d == [c EXCEPT !.curId = id]
         IN /\ WalkOK(load, d) /\ d.off = c.off /\ d.open = c.open /\ d.seg = c.seg /\ d.curId = id
            /\ d.prevId = c.prevId /\ d.curBlockId = c.curBlockId
            /\ d.blocks = c.blocks /\ d.status = c.status
<1> HIDE DEF PlaceT, BlockT
<1>1. QED
  BY DEF WalkOK, Walks

LEMMA WithOff ==
  ASSUME NEW c, WalkOK(load, c), NEW off \in Int
  PROVE  LET d == [c EXCEPT !.off = off]
         IN /\ WalkOK(load, d) /\ d.off = off /\ d.open = c.open /\ d.seg = c.seg /\ d.curId = c.curId
            /\ d.prevId = c.prevId /\ d.curBlockId = c.curBlockId
            /\ d.blocks = c.blocks /\ d.status = c.status
<1> HIDE DEF PlaceT, BlockT
<1>1. QED
  BY DEF WalkOK, Walks

Opened(c, seg, open) == [c EXCEPT !.seg = seg, !.open = open]
Owned(c, id, open) == [c EXCEPT !.open = open, !.curBlockId = id, !.prevId = id]

LEMMA WithOpen ==
  ASSUME NEW c, WalkOK(load, c), NEW seg \in Int, NEW open \in PlaceT
  PROVE  LET d == Opened(c, seg, open)
         IN /\ WalkOK(load, d) /\ d.off = c.off /\ d.open = open /\ d.seg = seg /\ d.curId = c.curId
            /\ d.prevId = c.prevId /\ d.curBlockId = c.curBlockId
            /\ d.blocks = c.blocks /\ d.status = c.status
<1> HIDE DEF PlaceT, BlockT
<1>1. QED
  BY DEF WalkOK, Walks, Opened
LEMMA WithOwner ==
  ASSUME NEW c, WalkOK(load, c), NEW id \in Int, NEW open \in PlaceT
  PROVE  LET d == Owned(c, id, open)
         IN /\ WalkOK(load, d) /\ d.off = c.off /\ d.open = open /\ d.seg = c.seg /\ d.curId = c.curId
            /\ d.prevId = id /\ d.curBlockId = id
            /\ d.blocks = c.blocks /\ d.status = c.status
<1> HIDE DEF PlaceT, BlockT
<1>1. QED
  BY DEF WalkOK, Walks, Owned

LEMMA ClosedKeeps ==
  ASSUME NEW c, WalkOK(load, c), NEW q, NEW next \in Int
  PROVE  LET d == Build!CloseBlock(c, q, next)
         IN /\ WalkOK(load, d) /\ d.off = c.off /\ d.curId = c.curId
            /\ d.prevId = c.prevId /\ d.curBlockId = c.curBlockId
            /\ c.status = "failed" => d.status = "failed"
<1> DEFINE d == Build!CloseBlock(c, q, next)
<1>1. c.status = "failed" => d = c
  BY DEF Build!CloseBlock
<1>2. /\ WalkOK(load, d) /\ d.off = c.off /\ d.curId = c.curId
      /\ d.prevId = c.prevId /\ d.curBlockId = c.curBlockId
  BY ClosedIs
<1>3. QED
  BY <1>1, <1>2

(* Entering a segment keeps what is open, or closes it.                    *)
Entered(c, d, e, seg) ==
  \/ /\ e.open = c.open /\ e.blocks = c.blocks /\ e.status = c.status
     /\ seg = c.seg \/ (Build!IsValid(c.open) /\ Build!InSegment(c.open.lin, seg))
  \/ /\ e.blocks = d.blocks /\ e.status = d.status /\ seg # c.seg
     /\ ~(Build!IsValid(c.open) /\ Build!InSegment(c.open.lin, seg))
     /\ e.open = IF c.curId = c.prevId THEN [seg |-> seg, lin |-> c.off]
                 ELSE Build!InvalidAddr

LEMMA EnteredIs ==
  ASSUME NEW c, WalkOK(load, c), NEW q, NEW seg \in Int
  PROVE  LET e == Build!ChangeSegment(c, q, seg)
         IN /\ WalkOK(load, e) /\ e.off = c.off /\ e.seg = seg /\ e.curId = c.curId
            /\ e.prevId = c.prevId /\ e.curBlockId = c.curBlockId
            /\ Entered(c, Build!CloseBlock(c, q, c.off), e, seg)
<1> DEFINE e == Build!ChangeSegment(c, q, seg)
           d == Build!CloseBlock(c, q, c.off)
           open == IF c.curId = c.prevId THEN [seg |-> seg, lin |-> c.off] ELSE Build!InvalidAddr
<1>1. c.off \in Int /\ c.open \in PlaceT
  BY DEF WalkOK, Walks
<1>2. CASE seg = c.seg
  <2>1. e = c
    BY <1>2 DEF Build!ChangeSegment
  <2>2. QED
    BY <1>2, <2>1 DEF Entered
<1>3. CASE seg # c.seg /\ Build!IsValid(c.open) /\ Build!InSegment(c.open.lin, seg)
  <2>1. e = [c EXCEPT !.seg = seg]
    BY <1>3 DEF Build!ChangeSegment
  <2>2. [c EXCEPT !.seg = seg] = Opened(c, seg, c.open)
    BY DEF WalkOK, Walks, Opened
  <2> HIDE DEF e, PlaceT
  <2>3. /\ WalkOK(load, e) /\ e.off = c.off /\ e.seg = seg /\ e.curId = c.curId
        /\ e.prevId = c.prevId /\ e.curBlockId = c.curBlockId
        /\ e.open = c.open /\ e.blocks = c.blocks /\ e.status = c.status
    BY <1>1, <2>1, <2>2, WithOpen
  <2>4. QED
    BY <1>3, <2>3 DEF e, Entered
<1>4. CASE seg # c.seg /\ ~(Build!IsValid(c.open) /\ Build!InSegment(c.open.lin, seg))
  <2>1. e = Opened(d, seg, open)
    BY <1>4 DEF Build!ChangeSegment, Opened
  <2>2. /\ WalkOK(load, d) /\ d.off = c.off /\ d.curId = c.curId /\ d.prevId = c.prevId
        /\ d.curBlockId = c.curBlockId
    BY <1>1, ClosedKeeps
  <2>3. open \in PlaceT
    BY <1>1 DEF PlaceT, Build!InvalidAddr
  <2> HIDE DEF e, d, open, PlaceT
  <2>4. /\ WalkOK(load, e) /\ e.off = d.off /\ e.seg = seg /\ e.curId = d.curId
        /\ e.prevId = d.prevId /\ e.curBlockId = d.curBlockId
        /\ e.open = open /\ e.blocks = d.blocks /\ e.status = d.status
    BY <2>1, <2>2, <2>3, WithOpen
  <2>5. QED
    BY <1>4, <2>2, <2>4 DEF e, d, open, Entered
<1>5. QED
  BY <1>2, <1>3, <1>4

LEMMA SplitIs ==
  ASSUME NEW c, WalkOK(load, c), NEW q, q.entrypoints = << >>
  PROVE  LET e == Build!ChangeOwner(c, q)
             d == IF c.off = load THEN c ELSE Build!CloseBlock(c, q, c.off)
         IN /\ WalkOK(load, e) /\ e.off = c.off /\ e.curId = c.curId
            /\ c.curId = c.prevId => e = c
            /\ c.curId # c.prevId =>
                 /\ e.blocks = d.blocks /\ e.status = d.status
                 /\ e.open = [seg |-> c.seg, lin |-> c.off]
                 /\ e.prevId = c.curId /\ e.curBlockId = c.curId
<1> DEFINE e == Build!ChangeOwner(c, q)
           d == IF c.off = load THEN c ELSE Build!CloseBlock(c, q, c.off)
           open == [seg |-> c.seg, lin |-> c.off]
<1>1. /\ c.off \in Int /\ c.seg \in Int /\ c.curId \in Int /\ c.start = load
  BY DEF WalkOK, Walks
<1>2. Build!IsEntrypoint(q, c.off) = Build!NULL_ROUTINE
  BY NoEntrypoints DEF Build!NULL_ROUTINE
<1>3. CASE c.curId = c.prevId
  <2>1. e = c
    BY <1>2, <1>3 DEF Build!ChangeOwner
  <2>2. QED
    BY <1>3, <2>1
<1>4. CASE c.curId # c.prevId
  <2>1. e = Owned(d, c.curId, open)
    BY <1>1, <1>4 DEF Build!ChangeOwner, Owned
  <2>2. WalkOK(load, d) /\ d.off = c.off /\ d.curId = c.curId
    BY <1>1, ClosedKeeps
  <2>3. open \in PlaceT
    BY <1>1 DEF PlaceT
  <2> HIDE DEF e, d, open, PlaceT
  <2>4. /\ WalkOK(load, e) /\ e.off = d.off /\ e.curId = d.curId /\ e.prevId = c.curId
        /\ e.curBlockId = c.curId
        /\ e.open = open /\ e.blocks = d.blocks /\ e.status = d.status
    BY <1>1, <2>1, <2>2, <2>3, WithOwner
  <2>5. QED
    BY <1>4, <2>2, <2>4 DEF e, d, open
<1>5. QED
  BY <1>3, <1>4

LEMMA SkippedIs ==
  ASSUME NEW c, WalkOK(load, c), NEW q, NEW n \in Nat, NEW table \in [1..n -> SegT]
  PROVE  LET s == Build!SkipGap(c, q, table)
         IN /\ WalkOK(load, s) /\ s.curId = c.curId
            /\ Build!FindSegment(table, c.off) # Build!NoSegment => s = c
            /\ c.status = "failed" => s.status = "failed"
<1> DEFINE s == Build!SkipGap(c, q, table)
           d == Build!CloseBlock(c, q, c.off)
           past == Build!FindSegmentPast(table, c.off)
<1>1. c.off \in Int
  BY DEF WalkOK, Walks
<1>2. CASE Build!FindSegment(table, c.off) # Build!NoSegment
  <2>1. s = c
    BY <1>2 DEF Build!SkipGap
  <2>2. QED
    BY <1>2, <2>1
<1>3. CASE Build!FindSegment(table, c.off) = Build!NoSegment
  <2>1. s = [d EXCEPT !.open = Build!InvalidAddr, !.off = past]
    BY <1>3 DEF Build!SkipGap
  <2>2. /\ WalkOK(load, d) /\ d.curId = c.curId /\ (c.status = "failed" => d.status = "failed")
    BY <1>1, ClosedKeeps
  <2>3. past \in Int
    BY <1>1, FoundSegment
  <2>4. Build!InvalidAddr \in PlaceT
    BY DEF PlaceT, Build!InvalidAddr
  <2> HIDE DEF s, d, past, PlaceT, BlockT
  <2>5. WalkOK(load, s) /\ s.curId = d.curId /\ s.status = d.status
    BY <2>1, <2>2, <2>3, <2>4 DEF WalkOK, Walks
  <2>6. QED
    BY <1>3, <2>2, <2>5 DEF s
<1>4. QED
  BY <1>2, <1>3

LEMMA MappedByteOK ==
  ASSUME NEW c, WalkOK(load, c), NEW q, q.entrypoints = << >>, q.visited[c.off] \in Int,
         NEW n \in Nat, NEW table \in [1..n -> SegT]
  PROVE  WalkOK(load, Build!MapByte(c, q, table))
<1> DEFINE read == [c EXCEPT !.curId = q.visited[c.off]]
           skipped == Build!SkipGap(read, q, table)
           entered == Build!ChangeSegment(skipped, q, Build!FindSegment(table, skipped.off))
           split == Build!ChangeOwner(entered, q)
<1>1. WalkOK(load, read)
  BY ReadByteIs
<1> HIDE DEF read
<1>2. WalkOK(load, skipped)
  BY <1>1, SkippedIs
<1> HIDE DEF skipped
<1>3. skipped.off \in Int
  BY <1>2 DEF WalkOK, Walks
<1>4. Build!FindSegment(table, skipped.off) \in Int
  BY <1>3, FoundSegment
<1>5. WalkOK(load, entered)
  BY <1>2, <1>4, EnteredIs
<1> HIDE DEF entered
<1>6. WalkOK(load, split)
  BY <1>5, SplitIs
<1> HIDE DEF split
<1>7. split.off + 1 \in Int
  BY <1>6 DEF WalkOK, Walks
<1>8. WalkOK(load, [split EXCEPT !.off = split.off + 1])
  BY <1>6, <1>7, WithOff
<1>9. Build!MapByte(c, q, table) = [split EXCEPT !.off = split.off + 1]
  BY DEF Build!MapByte, split, entered, skipped, read
<1>10. QED
  BY <1>8, <1>9
(* The blocks cut out of the bytes before n: those that no routine has.    *)
CutTo(start, blocks, n, V) ==
  /\ \A b \in blocks : start <= b.lo /\ b.lo <= b.hi /\ b.hi < n
  /\ \A b \in blocks : \A x \in b.lo..b.hi : V[x] = 0
  /\ \A a, b \in blocks : a = b \/ a.hi < b.lo \/ b.hi < a.lo
  /\ \A x \in start..(n - 1) : V[x] = 0 => \E b \in blocks : x \in b.lo..b.hi

(* The walk amid the bytes before end, none of which lies in a gap: the    *)
(* block that is open has one owner. *)
Amid(start, c, V, end) ==
  /\ c.status = "mapping" /\ c.off \in (start + 1)..end
  /\ c.open.lin \in start..(c.off - 1)
  /\ c.prevId = c.curBlockId
  /\ \A b \in c.open.lin..(c.off - 1) : V[b] = c.curBlockId
  /\ CutTo(start, c.blocks, c.open.lin, V)

LEMMA CutMore ==
  ASSUME load \in Int, NEW blocks \in SUBSET BlockT, NEW n \in Int, NEW next \in Int, NEW V, NEW id,
         CutTo(load, blocks, n, V), load <= n, n < next, \A x \in n..(next - 1) : V[x] = id,
         NEW more, more = CutOut(blocks, n, next, id)
  PROVE  CutTo(load, more, next, V)
<1> DEFINE new == [kind |-> "unclaimed", idx |-> 0, lo |-> n, hi |-> next - 1]
<1>1. \A b \in blocks : b.lo \in Int /\ b.hi \in Int
  BY DEF BlockT
<1>2. /\ \A b \in blocks : load <= b.lo /\ b.lo <= b.hi /\ b.hi < n
      /\ \A b \in blocks : \A x \in b.lo..b.hi : V[x] = 0
      /\ \A a, b \in blocks : a = b \/ a.hi < b.lo \/ b.hi < a.lo
      /\ \A x \in load..(n - 1) : V[x] = 0 => \E b \in blocks : x \in b.lo..b.hi
  BY DEF CutTo
<1>3. new.lo = n /\ new.hi = next - 1
  OBVIOUS
<1>4. \A b \in more : b \in blocks \/ (b = new /\ id = 0)
  BY DEF CutOut
<1>5. blocks \subseteq more /\ (id = 0 => new \in more)
  BY DEF CutOut
<1> HIDE DEF new
<1>6. ASSUME NEW b \in more
      PROVE  /\ load <= b.lo /\ b.lo <= b.hi /\ b.hi < next
             /\ \A x \in b.lo..b.hi : V[x] = 0
  <2>1. CASE b \in blocks
    BY <1>1, <1>2, <2>1
  <2>2. CASE b = new /\ id = 0
    BY <1>3, <2>2
  <2>3. QED
    BY <1>4, <2>1, <2>2
<1>7. ASSUME NEW a \in more, NEW b \in more
      PROVE  a = b \/ a.hi < b.lo \/ b.hi < a.lo
  <2>1. \A x \in blocks : x.hi < new.lo
    BY <1>2, <1>3
  <2>2. QED
    BY <1>2, <1>4, <2>1
<1>8. ASSUME NEW x \in load..(next - 1), V[x] = 0
      PROVE  \E b \in more : x \in b.lo..b.hi
  <2>1. CASE x < n
    <3>1. x \in load..(n - 1)
      BY <2>1
    <3>2. QED
      BY <1>2, <1>5, <1>8, <3>1
  <2>2. CASE ~(x < n)
    <3>1. x \in n..(next - 1)
      BY <2>2
    <3>2. id = 0
      BY <1>8, <3>1
    <3>3. x \in new.lo..new.hi
      BY <1>3, <3>1
    <3>4. QED
      BY <1>5, <3>2, <3>3
  <2>3. QED
    BY <2>1, <2>2
<1>9. QED
  BY <1>6, <1>7, <1>8 DEF CutTo

(* The steps of a byte that lies in a segment.                             *)
LEMMA ByteIs ==
  ASSUME NEW c, WalkOK(load, c), NEW q, q.entrypoints = << >>, q.visited[c.off] \in Int,
         NEW n \in Nat, NEW table \in [1..n -> SegT],
         Build!FindSegment(table, c.off) # Build!NoSegment
  PROVE  LET seg == Build!FindSegment(table, c.off)
             d == Build!MapByte(c, q, table)
             read == [c EXCEPT !.curId = q.visited[c.off]]
             e == Build!ChangeSegment(read, q, seg)
             f == Build!ChangeOwner(e, q)
         IN /\ seg \in Int /\ InSegment(c.off, seg)
            /\ WalkOK(load, read) /\ WalkOK(load, e) /\ e.off = c.off /\ e.seg = seg
            /\ WalkOK(load, f) /\ f.off = c.off
            /\ WalkOK(load, d) /\ d.off = c.off + 1 /\ d.open = f.open /\ d.seg = f.seg
            /\ d.prevId = f.prevId /\ d.curBlockId = f.curBlockId
            /\ d.blocks = f.blocks /\ d.status = f.status
<1> DEFINE seg == Build!FindSegment(table, c.off)
           d == Build!MapByte(c, q, table)
           read == [c EXCEPT !.curId = q.visited[c.off]]
           e == Build!ChangeSegment(read, q, seg)
           f == Build!ChangeOwner(e, q)
<1>1. c.off \in Int
  BY DEF WalkOK, Walks
<1>2. seg \in Int /\ InSegment(c.off, seg)
  BY <1>1, FoundSegment
<1>3. WalkOK(load, read) /\ read.off = c.off
  BY ReadByteIs
<1> HIDE DEF read, seg
<1>4. Build!SkipGap(read, q, table) = read
  BY <1>3 DEF Build!SkipGap, seg
<1>5. WalkOK(load, e) /\ e.off = c.off /\ e.seg = seg
  BY <1>2, <1>3, EnteredIs
<1> HIDE DEF e
<1>6. WalkOK(load, f) /\ f.off = c.off
  BY <1>5, SplitIs
<1>7. d = [f EXCEPT !.off = f.off + 1]
  BY <1>3, <1>4 DEF Build!MapByte, f, e, read, seg
<1> HIDE DEF f, d
<1>8. f.off + 1 \in Int
  BY <1>1, <1>6
<1>9. /\ WalkOK(load, d) /\ d.off = f.off + 1 /\ d.open = f.open /\ d.seg = f.seg
      /\ d.prevId = f.prevId /\ d.curBlockId = f.curBlockId
      /\ d.blocks = f.blocks /\ d.status = f.status
  BY <1>6, <1>7, <1>8, WithOff
<1>10. QED
  BY <1>2, <1>3, <1>5, <1>6, <1>9 DEF d, f, e, read, seg
LEMMA NewWalkPlace ==
  ASSUME load \in Nat
  PROVE  Build!IsValid(Fresh(load).open)
<1>1. Fresh(load).open.lin = load
  BY NewWalk
<1>2. Build!InvalidAddr.lin = -1
  BY DEF Build!InvalidAddr
<1>3. QED
  BY <1>1, <1>2 DEF Build!IsValid

LEMMA AmidNext ==
  ASSUME load \in Nat, NEW end \in Int, NEW c, WalkOK(load, c),
         NEW q, q.entrypoints = << >>, q.visited \in [load..(end - 1) -> {0, 1}],
         NEW n \in Nat, NEW table \in [1..n -> SegT],
         c = Fresh(load) \/ Amid(load, c, q.visited, end), c.off \in load..(end - 1),
         Build!FindSegment(table, c.off) # Build!NoSegment
  PROVE  LET d == Build!MapByte(c, q, table)
         IN d.status = "failed" \/ Amid(load, d, q.visited, end)
<1> DEFINE V == q.visited
           id == V[c.off]
           seg == Build!FindSegment(table, c.off)
           d == Build!MapByte(c, q, table)
           read == [c EXCEPT !.curId = id]
           e == Build!ChangeSegment(read, q, seg)
           f == Build!ChangeOwner(e, q)
           dr == Build!CloseBlock(read, q, c.off)
           de == Build!CloseBlock(e, q, c.off)
<1>1. id \in Int /\ c.off \in Int
  OBVIOUS
<1>2. /\ seg \in Int /\ InSegment(c.off, seg)
      /\ WalkOK(load, read) /\ WalkOK(load, e) /\ e.off = c.off /\ e.seg = seg
      /\ WalkOK(load, f) /\ f.off = c.off
      /\ WalkOK(load, d) /\ d.off = c.off + 1 /\ d.open = f.open /\ d.seg = f.seg
      /\ d.prevId = f.prevId /\ d.curBlockId = f.curBlockId
      /\ d.blocks = f.blocks /\ d.status = f.status
  BY <1>1, ByteIs
<1>3. /\ read.off = c.off /\ read.open = c.open /\ read.seg = c.seg /\ read.curId = id
      /\ read.prevId = c.prevId /\ read.curBlockId = c.curBlockId
      /\ read.blocks = c.blocks /\ read.status = c.status
  BY <1>1, ReadByteIs
<1> HIDE DEF read, seg, d
<1>4. /\ e.curId = id /\ e.prevId = c.prevId /\ e.curBlockId = c.curBlockId
      /\ Entered(read, dr, e, seg)
  BY <1>2, <1>3, EnteredIs
<1> HIDE DEF e
<1>5. /\ f.curId = id
      /\ id = e.prevId => f = e
      /\ id # e.prevId =>
           /\ f.blocks = (IF c.off = load THEN e ELSE de).blocks
           /\ f.status = (IF c.off = load THEN e ELSE de).status
           /\ f.open = [seg |-> seg, lin |-> c.off]
           /\ f.prevId = id /\ f.curBlockId = id
  <2>1. LET dd == IF e.off = load THEN e ELSE Build!CloseBlock(e, q, e.off)
        IN /\ f.curId = e.curId
           /\ e.curId = e.prevId => f = e
           /\ e.curId # e.prevId =>
                /\ f.blocks = dd.blocks /\ f.status = dd.status
                /\ f.open = [seg |-> e.seg, lin |-> e.off]
                /\ f.prevId = e.curId /\ f.curBlockId = e.curId
    BY <1>2, SplitIs
  <2> HIDE DEF f
  <2>2. QED
    BY <1>2, <1>4, <2>1
<1>6. Closed(read, dr, c.off) /\ Closed(e, de, c.off)
  BY <1>1, <1>2, ClosedIs
<1>7. e.status = "failed" => de.status = "failed"
  BY <1>1, <1>2, ClosedKeeps
<1>8. c.blocks \in SUBSET BlockT /\ c.open \in PlaceT
  BY DEF WalkOK, Walks
<1> HIDE DEF f, dr, de, V
<1>9. CASE c.off = load
  <2>1. c = Fresh(load)
    BY <1>9 DEF Amid
  <2>2. /\ c.open.lin = load /\ c.seg = -1 /\ c.prevId = 0 /\ c.curBlockId = 0
        /\ c.blocks = {} /\ c.status = "mapping" /\ Build!IsValid(c.open)
    BY <2>1, NewWalk, NewWalkPlace
  <2>3. Build!InSegment(load, seg)
    BY <1>2, <1>9 DEF InSegment, Build!InSegment
  <2>4. e.open = c.open /\ e.blocks = {} /\ e.status = "mapping"
    BY <1>3, <1>4, <2>2, <2>3 DEF Entered
  <2>5. f.open.lin = load /\ f.blocks = {} /\ f.status = "mapping"
        /\ f.prevId = id /\ f.curBlockId = id
    BY <1>4, <1>5, <1>9, <2>2, <2>4
  <2>6. CutTo(load, {}, load, V)
    BY DEF CutTo
  <2>7. QED
    BY <1>2, <1>9, <2>5, <2>6 DEF Amid, d, V
<1>10. CASE c.off # load
  <2>1. Amid(load, c, V, end)
    BY <1>10, NewWalk DEF V
  <2>2. /\ c.status = "mapping" /\ c.open.lin \in load..(c.off - 1) /\ c.prevId = c.curBlockId
        /\ \A b \in c.open.lin..(c.off - 1) : V[b] = c.curBlockId
        /\ CutTo(load, c.blocks, c.open.lin, V) /\ c.off \in (load + 1)..end
    BY <2>1 DEF Amid
  <2>3. Build!IsValid(c.open)
    <3>1. Build!InvalidAddr.lin = -1
      BY DEF Build!InvalidAddr
    <3>2. QED
      BY <2>2, <3>1 DEF Build!IsValid
  <2>4. ASSUME NEW w, w.open = c.open, w.blocks = c.blocks, w.status = "mapping",
               w.curBlockId = c.curBlockId, NEW u, Closed(w, u, c.off)
        PROVE  u.status = "failed" \/ (u.status = "mapping" /\ CutTo(load, u.blocks, c.off, V))
    <3>1. CASE u.status = "failed"
      BY <3>1
    <3>2. CASE u.status # "failed"
      <4>1. u.status = "mapping"
            /\ u.blocks = CutOut(c.blocks, c.open.lin, c.off, c.curBlockId)
        BY <2>2, <2>3, <2>4, <3>2 DEF Closed
      <4> DEFINE lin == c.open.lin
                 more == u.blocks
      <4>2. lin \in Int /\ load <= lin /\ lin < c.off
        BY <2>2
      <4>3. CutTo(load, more, c.off, V)
        <5> HIDE DEF more, lin, BlockT
        <5>1. \A x \in lin..(c.off - 1) : V[x] = c.curBlockId
          BY <2>2 DEF lin
        <5>2. CutTo(load, c.blocks, lin, V)
          BY <2>2 DEF lin
        <5>3. more = CutOut(c.blocks, lin, c.off, c.curBlockId)
          BY <4>1 DEF more, lin
        <5>4. QED
          BY <1>1, <1>8, <4>2, <5>1, <5>2, <5>3, CutMore
      <4>4. QED
        BY <4>1, <4>3
    <3>3. QED
      BY <3>1, <3>2
  <2>5. CASE e.open = c.open /\ e.blocks = c.blocks /\ e.status = c.status
    <3>1. CASE id = c.prevId
      <4>1. f = e
        BY <1>4, <1>5, <3>1
      <4>2. d.open = c.open /\ d.blocks = c.blocks /\ d.status = "mapping"
            /\ d.prevId = id /\ d.curBlockId = id
        BY <1>2, <1>4, <2>2, <2>5, <3>1, <4>1
      <4>3. \A b \in c.open.lin..(d.off - 1) : V[b] = id
        <5>1. ASSUME NEW b \in c.open.lin..(d.off - 1) PROVE V[b] = id
          <6>1. b = c.off \/ b \in c.open.lin..(c.off - 1)
            BY <1>1, <1>2, <2>2
          <6>2. QED
            BY <2>2, <3>1, <6>1
        <5>2. QED
          BY <5>1
      <4>4. QED
        BY <1>1, <1>2, <2>2, <4>2, <4>3 DEF Amid, d, V
    <3>2. CASE id # c.prevId
      <4>1. f.blocks = de.blocks /\ f.status = de.status /\ f.open.lin = c.off
            /\ f.prevId = id /\ f.curBlockId = id
        BY <1>4, <1>5, <1>10, <3>2
      <4>2. de.status = "failed" \/ (de.status = "mapping" /\ CutTo(load, de.blocks, c.off, V))
        BY <1>4, <1>6, <2>2, <2>4, <2>5
      <4>3. \A b \in c.off..(d.off - 1) : V[b] = id
        BY <1>1, <1>2
      <4>4. QED
        BY <1>1, <1>2, <2>2, <4>1, <4>2, <4>3 DEF Amid, d, V
    <3>3. QED
      BY <3>1, <3>2
  <2>6. CASE /\ e.blocks = dr.blocks /\ e.status = dr.status
             /\ e.open = IF id = c.prevId THEN [seg |-> seg, lin |-> c.off]
                         ELSE Build!InvalidAddr
    <3>1. dr.status = "failed" \/ (dr.status = "mapping" /\ CutTo(load, dr.blocks, c.off, V))
      BY <1>3, <1>6, <2>2, <2>4
    <3>2. CASE dr.status = "failed"
      <4>1. e.status = "failed" /\ de.status = "failed"
        BY <1>7, <2>6, <3>2
      <4>2. f.status = "failed"
        BY <1>5, <4>1
      <4>3. QED
        BY <1>2, <4>2 DEF d
    <3>3. CASE dr.status # "failed"
      <4>1. e.status = "mapping" /\ CutTo(load, e.blocks, c.off, V)
        BY <2>6, <3>1, <3>3
      <4>2. \A b \in c.off..(d.off - 1) : V[b] = id
        BY <1>1, <1>2
      <4>3. CASE id = c.prevId
        <5>1. f = e /\ e.open.lin = c.off
          BY <1>4, <1>5, <2>6, <4>3
        <5>2. QED
          BY <1>1, <1>2, <1>4, <2>2, <4>1, <4>2, <4>3, <5>1 DEF Amid, d, V
      <4>4. CASE id # c.prevId
        <5>1. ~Build!IsValid(e.open)
          BY <2>6, <4>4 DEF Build!IsValid
        <5>2. de = e
          BY <5>1 DEF de, Build!CloseBlock
        <5>3. f.blocks = e.blocks /\ f.status = e.status /\ f.open.lin = c.off
              /\ f.prevId = id /\ f.curBlockId = id
          BY <1>4, <1>5, <1>10, <4>4, <5>2
        <5>4. QED
          BY <1>1, <1>2, <2>2, <4>1, <4>2, <5>3 DEF Amid, d, V
      <4>5. QED
        BY <4>3, <4>4
    <3>4. QED
      BY <3>2, <3>3
  <2>7. QED
    BY <1>3, <1>4, <2>5, <2>6 DEF Entered
<1>11. QED
  BY <1>9, <1>10
LEMMA FinishIs ==
  ASSUME load \in Nat, NEW end \in Int, NEW c, WalkOK(load, c), NEW q,
         q.visited \in [DOMAIN q.visited -> Int]
  PROVE  LET done == Build!FinishMap(c, q, end)
         IN WalkOK(load, done) /\ done.status \in {"mapped", "failed"}
<1> DEFINE read == IF c.off \in DOMAIN q.visited
                   THEN [c EXCEPT !.curId = q.visited[c.off]] ELSE c
           place == IF c.off \in DOMAIN q.visited THEN c.off ELSE end
           closed == Build!CloseBlock(read, q, place)
           done == Build!FinishMap(c, q, end)
<1>1. place \in Int
  BY DEF WalkOK, Walks
<1>2. WalkOK(load, read)
  <2>1. CASE c.off \in DOMAIN q.visited
    <3>1. q.visited[c.off] \in Int
      BY <2>1
    <3>2. QED
      BY <2>1, <3>1, ReadByteIs
  <2>2. CASE c.off \notin DOMAIN q.visited
    BY <2>2
  <2>3. QED
    BY <2>1, <2>2
<1> HIDE DEF read, place
<1>3. WalkOK(load, closed)
  BY <1>1, <1>2, ClosedKeeps
<1>4. done = IF closed.status = "failed" THEN closed ELSE [closed EXCEPT !.status = "mapped"]
  BY DEF Build!FinishMap, read, place
<1> HIDE DEF closed, done, PlaceT, BlockT
<1>5. WalkOK(load, done) /\ done.status \in {"mapped", "failed"}
  BY <1>3, <1>4 DEF WalkOK, Walks
<1>6. QED
  BY <1>5 DEF done

LEMMA FinishCuts ==
  ASSUME load \in Nat, NEW end \in Int, NEW c, WalkOK(load, c),
         NEW q, DOMAIN q.visited = load..(end - 1),
         c = Fresh(load) \/ Amid(load, c, q.visited, end), c.off \notin DOMAIN q.visited,
         load <= end
  PROVE  LET done == Build!FinishMap(c, q, end)
         IN done.status = "failed" \/ CutTo(load, done.blocks, end, q.visited)
<1> DEFINE closed == Build!CloseBlock(c, q, c.off)
           done == Build!FinishMap(c, q, end)
           V == q.visited
<1>1. c.off \in Int /\ c.blocks \in SUBSET BlockT
  BY DEF WalkOK, Walks
<1>1a. c.off = end
  <2>1. CASE c = Fresh(load)
    BY <1>1, <2>1, NewWalk
  <2>2. CASE Amid(load, c, V, end)
    BY <1>1, <2>2 DEF Amid
  <2>3. QED
    BY <2>1, <2>2
<1>2. done = IF closed.status = "failed" THEN closed ELSE [closed EXCEPT !.status = "mapped"]
  BY <1>1a DEF Build!FinishMap
<1>3. WalkOK(load, closed) /\ Closed(c, closed, c.off)
  BY <1>1, ClosedIs
<1> HIDE DEF closed, done, V
<1>4. done.blocks = closed.blocks /\ (closed.status = "failed" => done.status = "failed")
  BY <1>2, <1>3 DEF WalkOK, Walks
<1>5. CASE c = Fresh(load)
  <2>1. c.off = load /\ c.open.lin = load /\ c.blocks = {}
    BY <1>5, NewWalk
  <2>2. end = load
    BY <1>1, <2>1
  <2>3. closed.blocks = {}
    BY <1>3, <2>1 DEF Closed
  <2>4. CutTo(load, {}, load, V)
    BY DEF CutTo
  <2>5. QED
    BY <1>4, <2>2, <2>3, <2>4 DEF done, V
<1>6. CASE Amid(load, c, V, end)
  <2>1. /\ c.open.lin \in load..(c.off - 1) /\ c.off \in (load + 1)..end
        /\ \A b \in c.open.lin..(c.off - 1) : V[b] = c.curBlockId
        /\ CutTo(load, c.blocks, c.open.lin, V) /\ c.status = "mapping"
    BY <1>6 DEF Amid
  <2>2. c.off = end
    BY <1>1, <2>1
  <2>3. Build!IsValid(c.open)
    <3>1. Build!InvalidAddr.lin = -1
      BY DEF Build!InvalidAddr
    <3>2. QED
      BY <2>1, <3>1 DEF Build!IsValid
  <2>4. CASE closed.status = "failed"
    BY <1>4, <2>4 DEF done
  <2>5. CASE closed.status # "failed"
    <3>1. closed.blocks = CutOut(c.blocks, c.open.lin, c.off, c.curBlockId)
      BY <1>3, <2>1, <2>3, <2>5 DEF Closed
    <3> DEFINE lin == c.open.lin
    <3>2. lin \in Int /\ load <= lin /\ lin < end /\ \A b \in lin..(end - 1) : V[b] = c.curBlockId
      BY <2>1, <2>2
    <3>3. CutTo(load, c.blocks, lin, V) /\ closed.blocks = CutOut(c.blocks, lin, end, c.curBlockId)
      BY <2>1, <2>2, <3>1
    <3> HIDE DEF lin, BlockT
    <3>4. CutTo(load, closed.blocks, end, V)
      BY <1>1, <3>2, <3>3, CutMore
    <3>5. QED
      BY <1>4, <3>4 DEF done, V
  <2>6. QED
    BY <2>4, <2>5
<1>7. QED
  BY <1>5, <1>6 DEF V

(* What is cut out is what the map calls unclaimed.                        *)
LEMMA UnclaimedIs ==
  ASSUME load \in Nat, MapOK(map), NEW c, WalkOK(load, c), NEW n \in Int, NEW V
  PROVE  /\ Unclaimed(c) \in SUBSET UnclaimedT /\ IsFiniteSet(Unclaimed(c))
         /\ CutTo(load, c.blocks, n, V) => CutTo(load, Unclaimed(c), n, V)
<1> DEFINE home(b) == IF b.lo = load THEN LinearAddr(load).seg
                      ELSE Build!FindSegment(map.segs, b.lo)
           f == [b \in c.blocks |-> [lo |-> b.lo, hi |-> b.hi, seg |-> home(b)]]
           U == Unclaimed(c)
<1>1. c.blocks \in SUBSET BlockT /\ IsFiniteSet(c.blocks)
  BY DEF WalkOK, Walks
<1>2. \A b \in c.blocks : b.lo \in Int /\ b.hi \in Int
  BY <1>1 DEF BlockT
<1>3. U = {f[b] : b \in c.blocks} /\ DOMAIN f = c.blocks
  BY DEF Unclaimed
<1>4. ASSUME NEW b \in c.blocks PROVE home(b) \in Int
  <2>1. LinearAddr(load).seg \in Int
    BY LinearAddrType DEF Addresses
  <2>2. PICK k \in Nat : map.segs \in [1..k -> SegT]
    BY SegmentsOfMap
  <2>3. Build!FindSegment(map.segs, b.lo) \in Int
    BY <1>2, <2>2, FoundSegment
  <2>4. QED
    BY <2>1, <2>3
<1>5. \A b \in c.blocks : f[b] \in UnclaimedT /\ f[b].lo = b.lo /\ f[b].hi = b.hi
  <2> HIDE DEF home
  <2>1. QED
    BY <1>2, <1>4 DEF UnclaimedT
<1> HIDE DEF f, U
<1>6. IsFiniteSet(U)
  BY <1>1, <1>3, ImageFinite
<1>7. U \in SUBSET UnclaimedT
  BY <1>3, <1>5
<1>8. ASSUME CutTo(load, c.blocks, n, V) PROVE CutTo(load, U, n, V)
  <2>1. /\ \A b \in c.blocks : load <= b.lo /\ b.lo <= b.hi /\ b.hi < n
        /\ \A b \in c.blocks : \A x \in b.lo..b.hi : V[x] = 0
        /\ \A a, b \in c.blocks : a = b \/ a.hi < b.lo \/ b.hi < a.lo
        /\ \A x \in load..(n - 1) : V[x] = 0 => \E b \in c.blocks : x \in b.lo..b.hi
    BY <1>8 DEF CutTo
  <2>2. ASSUME NEW u \in U
        PROVE  load <= u.lo /\ u.lo <= u.hi /\ u.hi < n /\ \A x \in u.lo..u.hi : V[x] = 0
    <3>1. PICK b \in c.blocks : u = f[b]
      BY <1>3
    <3>2. QED
      BY <1>5, <2>1, <3>1
  <2>3. ASSUME NEW u \in U, NEW w \in U
        PROVE  u = w \/ u.hi < w.lo \/ w.hi < u.lo
    <3>1. PICK a \in c.blocks : u = f[a]
      BY <1>3
    <3>2. PICK b \in c.blocks : w = f[b]
      BY <1>3
    <3>3. QED
      BY <1>5, <2>1, <3>1, <3>2
  <2>4. ASSUME NEW x \in load..(n - 1), V[x] = 0
        PROVE  \E u \in U : x \in u.lo..u.hi
    <3>1. PICK b \in c.blocks : x \in b.lo..b.hi
      BY <2>1, <2>4
    <3>2. f[b] \in U
      BY <1>3
    <3>3. QED
      BY <1>5, <3>1, <3>2
  <2>5. QED
    BY <2>2, <2>3, <2>4 DEF CutTo
<1>9. QED
  BY <1>6, <1>7, <1>8 DEF U
-----------------------------------------------------------------------------
(* The blocks of a map, and those of the map in order.                     *)

LEMMA BlocksAre ==
  ASSUME NEW m, MapOK(m)
  PROVE  /\ \A x \in AllBlocks(m) : /\ x[1] \in m.routines /\ x[2] \in BlocksOf(x[1])
                                    /\ x = <<x[1], x[2]>> /\ x[2] \in RangeT
                                    /\ x[2].lo \in Int /\ x[2].hi \in Int
         /\ \A r \in m.routines : \A b \in BlocksOf(r) : <<r, b>> \in AllBlocks(m)
         /\ \A r \in m.routines : /\ r \in RoutineT /\ Sound(r)
                                  /\ r.seg \in Int /\ r.lo \in Int /\ r.hi \in Int
<1>1. \A r \in m.routines : r \in RoutineT /\ Sound(r)
  BY DEF MapOK, MapT
<1>2. \A x \in AllBlocks(m) : /\ x[1] \in m.routines /\ x[2] \in BlocksOf(x[1])
                              /\ x = <<x[1], x[2]>>
  BY DEF AllBlocks
<1>3. \A r \in m.routines : \A b \in BlocksOf(r) : <<r, b>> \in AllBlocks(m)
  BY DEF AllBlocks
<1>4. \A r \in m.routines : \A b \in BlocksOf(r) : b \in RangeT
  BY <1>1 DEF BlocksOf, RoutineT
<1>5. \A b \in RangeT : b.lo \in Int /\ b.hi \in Int
  BY DEF RangeT
<1>6. \A r \in m.routines : r.seg \in Int /\ r.lo \in Int /\ r.hi \in Int
  BY <1>1 DEF RoutineT
<1>7. QED
  BY <1>1, <1>2, <1>3, <1>4, <1>5, <1>6

(* Blocks that are not the same one have no byte in common.                *)
LEMMA PartedBlocks ==
  ASSUME NEW m, MapOK(m), NEW start \in Nat, ~Overlapping(m, start)
  PROVE  /\ \A x \in AllBlocks(m) : x[2].lo >= start /\ x[2].hi < start + m.size
         /\ \A x, y \in AllBlocks(m) : \A b \in BytesOf(x[2]) : b \in BytesOf(y[2]) => x = y
         /\ \A x, y \in AllBlocks(m) : ValidBlock(x[2]) => x = y \/ ~Intersects(x[2], y[2])
<1>1. m.size \in Nat
  BY DEF MapOK, MapT
<1>2. \A x \in AllBlocks(m) : x[2].lo \in Int /\ x[2].hi \in Int
  BY BlocksAre
<1>3. \A x \in AllBlocks(m) : ~OutOfMap(m, start, x[2])
  BY DEF Overlapping
<1>4. \A x, y \in AllBlocks(m) : x # y => ~Intersects(x[2], y[2])
  BY DEF Overlapping
<1>5. \A x \in AllBlocks(m) : x[2].lo >= start /\ x[2].hi < start + m.size
  BY <1>1, <1>2, <1>3 DEF OutOfMap
<1>6. ASSUME NEW x \in AllBlocks(m), NEW y \in AllBlocks(m), NEW b \in BytesOf(x[2]),
             b \in BytesOf(y[2])
      PROVE  x = y
  <2>1. Intersects(x[2], y[2])
    BY <1>2, <1>5, <1>6 DEF Intersects, ValidBlock, BytesOf, Later, Sooner
  <2>2. QED
    BY <1>4, <2>1
<1>7. QED
  BY <1>4, <1>5, <1>6

LEMMA OrderedBlocks ==
  ASSUME NEW m, MapOK(m), ~m.ida
  PROVE  /\ \A x \in AllBlocks(InOrder(m)) :
              \E y \in AllBlocks(m) : x = <<WithExtents(y[1]), y[2]>>
         /\ \A y \in AllBlocks(m) : <<WithExtents(y[1]), y[2]>> \in AllBlocks(InOrder(m))
<1> DEFINE o == InOrder(m)
<1>1. o.routines = {WithExtents(r) : r \in m.routines} /\ MapOK(o)
  BY InOrderParts, InOrderOK
<1>2. \A r \in m.routines : BlocksOf(WithExtents(r)) = BlocksOf(r)
  BY BlocksAre, WithExtentsIs
<1> HIDE DEF o
<1>3. ASSUME NEW x \in AllBlocks(o)
      PROVE  \E y \in AllBlocks(m) : x = <<WithExtents(y[1]), y[2]>>
  <2>1. x[1] \in o.routines /\ x[2] \in BlocksOf(x[1]) /\ x = <<x[1], x[2]>>
    BY <1>1, BlocksAre
  <2>2. PICK r \in m.routines : x[1] = WithExtents(r)
    BY <1>1, <2>1
  <2> DEFINE y == <<r, x[2]>>
  <2>3. y \in AllBlocks(m)
    BY <1>2, <2>1, <2>2, BlocksAre
  <2>4. x = <<WithExtents(y[1]), y[2]>>
    BY <2>1, <2>2
  <2>5. QED
    BY <2>3, <2>4
<1>4. ASSUME NEW y \in AllBlocks(m)
      PROVE  <<WithExtents(y[1]), y[2]>> \in AllBlocks(o)
  <2>1. y[1] \in m.routines /\ y[2] \in BlocksOf(y[1])
    BY BlocksAre
  <2>2. WithExtents(y[1]) \in o.routines /\ y[2] \in BlocksOf(WithExtents(y[1]))
    BY <1>1, <1>2, <2>1
  <2>3. QED
    BY <1>1, <2>2, BlocksAre
<1>5. QED
  BY <1>3, <1>4 DEF o

(* The order changes neither the overlap nor what the routines claim.      *)
LEMMA OrderedParted ==
  ASSUME NEW m, MapOK(m), ~m.ida, NEW start \in Nat, ~Overlapping(m, start)
  PROVE  ~Overlapping(InOrder(m), start)
<1> DEFINE o == InOrder(m)
<1>1. o.size = m.size
  BY InOrderParts
<1>2. \A x \in AllBlocks(o) : \E y \in AllBlocks(m) : x = <<WithExtents(y[1]), y[2]>>
  BY OrderedBlocks
<1> HIDE DEF o
<1>3. /\ \A x \in AllBlocks(m) : ~OutOfMap(m, start, x[2])
      /\ \A x, y \in AllBlocks(m) : x # y => ~Intersects(x[2], y[2])
  BY DEF Overlapping
<1>4. ASSUME NEW x \in AllBlocks(o) PROVE ~OutOfMap(o, start, x[2])
  <2>1. PICK y \in AllBlocks(m) : x = <<WithExtents(y[1]), y[2]>>
    BY <1>2
  <2>2. x[2] = y[2]
    BY <2>1
  <2>3. QED
    BY <1>1, <1>3, <2>2 DEF OutOfMap
<1>5. ASSUME NEW x \in AllBlocks(o), NEW y \in AllBlocks(o), x # y
      PROVE  ~Intersects(x[2], y[2])
  <2>1. PICK u \in AllBlocks(m) : x = <<WithExtents(u[1]), u[2]>>
    BY <1>2
  <2>2. PICK v \in AllBlocks(m) : y = <<WithExtents(v[1]), v[2]>>
    BY <1>2
  <2>3. u # v /\ x[2] = u[2] /\ y[2] = v[2]
    BY <1>5, <2>1, <2>2
  <2>4. QED
    BY <1>3, <2>3
<1>6. QED
  BY <1>4, <1>5 DEF Overlapping, o

LEMMA OrderedVisited ==
  ASSUME NEW m, MapOK(m), ~m.ida
  PROVE  Visited(InOrder(m)) = Visited(m)
<1> DEFINE o == InOrder(m)
<1>1. o.size = m.size /\ o.ida = m.ida
  BY InOrderParts
<1> HIDE DEF o
<1>2. /\ \A x \in AllBlocks(o) : \E y \in AllBlocks(m) : x[2] = y[2]
      /\ \A y \in AllBlocks(m) : \E x \in AllBlocks(o) : x[2] = y[2]
  <2>1. ASSUME NEW x \in AllBlocks(o) PROVE \E y \in AllBlocks(m) : x[2] = y[2]
    <3>1. PICK y \in AllBlocks(m) : x = <<WithExtents(y[1]), y[2]>>
      BY OrderedBlocks DEF o
    <3>2. QED
      BY <3>1
  <2>2. ASSUME NEW y \in AllBlocks(m) PROVE \E x \in AllBlocks(o) : x[2] = y[2]
    <3> DEFINE x == <<WithExtents(y[1]), y[2]>>
    <3>1. x \in AllBlocks(o) /\ x[2] = y[2]
      BY OrderedBlocks DEF o
    <3>2. QED
      BY <3>1
  <2>3. QED
    BY <2>1, <2>2
<1>3. Marked(o) = Marked(m)
  BY <1>1, <1>2 DEF Marked
<1>4. QED
  BY <1>1, <1>3 DEF Visited, o

LEMMA VisitedIs ==
  ASSUME load \in Nat, NEW m, MapOK(m)
  PROVE  /\ Visited(m) \in [load..(load + m.size - 1) -> {0, 1}]
         /\ ~m.ida => \A b \in load..(load + m.size - 1) :
              Visited(m)[b] = 1 <=> \E x \in AllBlocks(m) : b \in BytesOf(x[2])
<1>1. Visited(m) \in [load..(load + m.size - 1) -> {0, 1}]
  BY DEF Visited, Build!NULL_ROUTINE
<1>2. ASSUME ~m.ida, NEW b \in load..(load + m.size - 1)
      PROVE  Visited(m)[b] = 1 <=> \E x \in AllBlocks(m) : b \in BytesOf(x[2])
  <2>1. Marked(m) = {x[2] : x \in AllBlocks(m)}
    BY <1>2 DEF Marked
  <2>2. Visited(m)[b] = 1 <=> \E x \in Marked(m) : b \in BytesOf(x)
    BY DEF Visited, Build!NULL_ROUTINE
  <2>3. QED
    BY <2>1, <2>2
<1>3. QED
  BY <1>1, <1>2

(* The addresses of the segments stay.                                     *)
CoveredBy(start, m) == \A b \in start..(start + m.size - 1) :
                         \E i \in DOMAIN m.segs : InSegment(b, m.segs[i].addr)

LEMMA OrderedCovers ==
  ASSUME NEW m, MapOK(m), NEW start \in Int
  PROVE  CoveredBy(start, InOrder(m)) <=> CoveredBy(start, m)
<1> DEFINE o == InOrder(m)
<1>1. PICK n \in Nat : m.segs \in [1..n -> SegT] /\ DOMAIN m.segs = 1..n
  BY SegmentsOfMap
<1>2. o.size = m.size /\ DOMAIN o.segs = 1..n
  BY <1>1, InOrderParts, SegsInOrder
<1>3. /\ \A k \in 1..n : \E i \in 1..n : o.segs[k].addr = m.segs[i].addr
      /\ \A k \in 1..n : \E i \in 1..n : o.segs[i].addr = m.segs[k].addr
  BY <1>1, SegsInOrderHave
<1> HIDE DEF o
<1>4. ASSUME NEW b
      PROVE  (\E i \in 1..n : InSegment(b, o.segs[i].addr))
               <=> \E i \in 1..n : InSegment(b, m.segs[i].addr)
  <2>1. ASSUME NEW k \in 1..n, InSegment(b, o.segs[k].addr)
        PROVE  \E i \in 1..n : InSegment(b, m.segs[i].addr)
    <3>1. PICK i \in 1..n : o.segs[k].addr = m.segs[i].addr
      BY <1>3
    <3>2. QED
      BY <2>1, <3>1
  <2>2. ASSUME NEW k \in 1..n, InSegment(b, m.segs[k].addr)
        PROVE  \E i \in 1..n : InSegment(b, o.segs[i].addr)
    <3>1. PICK i \in 1..n : o.segs[i].addr = m.segs[k].addr
      BY <1>3
    <3>2. QED
      BY <2>2, <3>1
  <2>3. QED
    BY <2>1, <2>2
<1>5. CoveredBy(start, o) <=> CoveredBy(start, m)
  BY <1>1, <1>2, <1>4 DEF CoveredBy
<1>6. QED
  BY <1>5 DEF o
-----------------------------------------------------------------------------
(* What holds of a map that is being mapped or that is loaded.             *)

VisitedAt(start, m) ==
  [b \in start..(start + m.size - 1) |-> IF \E x \in Marked(m) : b \in BytesOf(x) THEN 1 ELSE 0]

LEMMA VisitedSame ==
  ASSUME NEW m
  PROVE  Visited(m) = VisitedAt(load, m)
BY DEF Visited, VisitedAt, Build!NULL_ROUTINE

(* The extents of a loaded map are its main runs, and what is unclaimed is *)
(* what no routine has. *)
Gathered(start, m) ==
  /\ \A r \in m.routines : r = WithExtents(r)
  /\ CoveredBy(start, m) => CutTo(start, m.unclaimed, start + m.size, VisitedAt(start, m))

Walking ==
  /\ WalkOK(load, cm) /\ IsFiniteSet(map.unclaimed)
  /\ phase \in {"mapping", "loaded"} /\ ~map.ida => ~Overlapping(map, load)
  /\ phase = "mapping" =>
       /\ sq.visited = VisitedAt(load, map) /\ sq.entrypoints = << >>
       /\ CoveredBy(load, map) => \/ cm = Fresh(load) \/ cm.status = "failed"
                                  \/ Amid(load, cm, sq.visited, load + map.size)
  /\ phase = "loaded" /\ ~map.ida => Gathered(load, map)

LEMMA ConstructIs ==
  ASSUME Typed, NEW m, Construct(m)
  PROVE  \/ phase' = "failed" /\ map' = NewFile /\ sq' = sq /\ cm' = cm
         \/ /\ phase' = "mapping" /\ map' = m /\ ~Overlapping(m, load)
            /\ sq'.visited = VisitedAt(load, m) /\ sq'.entrypoints = << >>
            /\ cm' = Fresh(load)
<1>1. CASE Overlapping(m, load) \/ \E x \in Marked(m) : OutOfMap(m, load, x)
  BY <1>1 DEF Construct
<1>2. CASE ~(Overlapping(m, load) \/ \E x \in Marked(m) : OutOfMap(m, load, x))
  <2>1. /\ phase' = "mapping" /\ map' = m /\ sq' = [NoBytes EXCEPT !.visited = Visited(m)]
        /\ cm' = Fresh(load)
    BY <1>2 DEF Construct, Fresh
  <2>2. sq'.visited = Visited(m) /\ sq'.entrypoints = << >>
    BY <2>1 DEF NoBytes
  <2>3. QED
    BY <1>2, <2>1, <2>2, VisitedSame
<1>3. QED
  BY <1>1, <1>2

LEMMA ConstructKeeps ==
  ASSUME Typed, Walking, NEW m, MapOK(m), m.unclaimed = {}, Construct(m), load' = load
  PROVE  Walking' /\ MapOK(map') /\ phase' \in {"mapping", "failed"}
         /\ (map' = m \/ (phase' = "failed" /\ map' = NewFile))
<1>1. CASE phase' = "failed" /\ map' = NewFile /\ cm' = cm
  <2>1. IsFiniteSet(map'.unclaimed)
    BY <1>1, NewFileOK, FS_EmptySet
  <2>2. WalkOK(load', cm')
    BY <1>1 DEF Walking
  <2>3. QED
    BY <1>1, <2>1, <2>2, NewFileOK DEF Walking
<1>2. CASE /\ phase' = "mapping" /\ map' = m /\ ~Overlapping(m, load)
           /\ sq'.visited = VisitedAt(load, m) /\ sq'.entrypoints = << >>
           /\ cm' = Fresh(load)
  <2>1. WalkOK(load', cm')
    BY <1>2, NewWalk, Numbers DEF Typed
  <2>2. IsFiniteSet(map'.unclaimed)
    BY <1>2, FS_EmptySet
  <2>3. QED
    BY <1>2, <2>1, <2>2 DEF Walking
<1>3. QED
  BY <1>1, <1>2, ConstructIs

LEMMA WalkingInit ==
  ASSUME Init
  PROVE  Typed /\ Walking
<1>1. phase = "reading" /\ pos = Start /\ saved = NewFile /\ cm = Fresh(load) /\ load \in Loads
      /\ format \in {"map", "link", "ida"} /\ map = [NewFile EXCEPT !.ida = (format = "ida")]
  BY DEF Init, NoMap, Fresh
<1>2. NewFile \in MapT /\ NewFile.routines = {} /\ NewFile.unclaimed = {}
  BY NewFileOK DEF MapOK, NewFile
<1>3. map \in MapT /\ map.routines = {} /\ map.unclaimed = {} /\ map.ida = (format = "ida")
  <2> HIDE DEF NewFile
  <2>1. (format = "ida") \in BOOLEAN
    OBVIOUS
  <2>2. QED
    BY <1>1, <1>2, <2>1 DEF MapT
<1>4. MapOK(map)
  BY <1>3, FS_EmptySet DEF MapOK
<1>5. load \in Int
  BY <1>1, Numbers
<1>6. WalkOK(load, cm) /\ IsFiniteSet(map.unclaimed)
  BY <1>1, <1>3, <1>5, NewWalk, FS_EmptySet
<1>7. Typed
  BY <1>1, <1>3, <1>4, NewFileOK, StartOK DEF Typed, NoMap
<1>8. Walking
  BY <1>1, <1>6 DEF Walking
<1>9. QED
  BY <1>7, <1>8

(* Reading, which leaves the walk alone.                                   *)
Reads ==
  \/ MapSize \/ MapSegment \/ MapVariable \/ MapRoutine
  \/ LinkHeading \/ LinkSegment \/ LinkGroup \/ LinkPublic
  \/ IdaLength \/ IdaSegment \/ IdaEnds \/ IdaProc \/ IdaEndp \/ IdaData \/ IdaOther

LEMMA ReadsIs ==
  ASSUME Reads
  PROVE  /\ phase = "reading" /\ phase' \in {"reading", "failed"}
         /\ UNCHANGED <<format, load, sq, cm, saved>>
         /\ phase' = "failed" => map' = NewFile
<1>1. \A m, p, off : Line(m, p, off) => phase' = phase \/ Refuse
  BY DEF Line, Parsed
<1>2. \A m, p : Parsed(m, p) => phase' = phase
  BY DEF Parsed
<1>3. phase = "reading" /\ Skip
  BY DEF Reads, MapSize, MapSegment, MapVariable, MapRoutine,
         LinkHeading, LinkSegment, LinkGroup, LinkPublic,
         IdaLength, IdaSegment, IdaEnds, IdaProc, IdaEndp, IdaData, IdaOther, Reading
<1>4. phase' = phase \/ Refuse
  <2>1. CASE MapSize \/ MapSegment \/ MapVariable \/ MapRoutine
    BY <1>2, <2>1 DEF MapSize, MapSegment, MapVariable, MapRoutine
  <2>2. CASE LinkHeading
    BY <1>2, <2>2 DEF LinkHeading
  <2>3. CASE LinkSegment
    BY <1>2, <2>3 DEF LinkSegment
  <2>4. CASE LinkGroup
    BY <1>2, <2>4 DEF LinkGroup
  <2>5. CASE LinkPublic
    BY <1>2, <2>5 DEF LinkPublic
  <2>6. CASE IdaLength \/ IdaSegment \/ IdaEnds \/ IdaProc
    BY <1>1, <1>2, <2>6 DEF IdaLength, IdaSegment, IdaEnds, IdaProc
  <2>7. CASE IdaEndp \/ IdaData \/ IdaOther
    BY <1>1, <2>7 DEF IdaEndp, IdaData, IdaOther
  <2>8. QED
    BY <2>1, <2>2, <2>3, <2>4, <2>5, <2>6, <2>7 DEF Reads
<1>5. QED
  BY <1>3, <1>4 DEF Skip, Refuse

LEMMA ReadsKeep ==
  ASSUME Typed, Walking, Reads
  PROVE  Typed' /\ Walking'
<1>1. Typed'
  BY MapLineTyped, LinkLineTyped, IdaLineTyped DEF Reads
<1>2. phase' \in {"reading", "failed"} /\ load' = load /\ cm' = cm
  BY ReadsIs
<1>3. IsFiniteSet(map'.unclaimed)
  <2>1. CASE phase' = "reading"
    BY <1>1, <2>1, FS_EmptySet DEF Typed
  <2>2. CASE phase' = "failed"
    BY <2>2, ReadsIs, NewFileOK, FS_EmptySet
  <2>3. QED
    BY <1>2, <2>1, <2>2
<1>4. WalkOK(load', cm')
  BY <1>2 DEF Walking
<1>5. Walking'
  BY <1>2, <1>3, <1>4 DEF Walking
<1>6. QED
  BY <1>1, <1>5
LEMMA EndOfFileKeeps ==
  ASSUME Typed, Walking, EndOfFile
  PROVE  Typed' /\ Walking'
<1>1. /\ phase = "reading" /\ pos' = Start /\ format' = format /\ load' = load /\ saved' = saved
      /\ \/ phase' = "failed" /\ map' = NewFile /\ cm' = cm
         \/ Construct(IF format = "link" THEN LinkMap ELSE map)
  BY DEF EndOfFile
<1> DEFINE m == IF format = "link" THEN LinkMap ELSE map
<1>2. MapOK(m) /\ m.unclaimed = {} /\ m.ida = map.ida
  BY <1>1, LinkMapOK DEF Typed
<1> HIDE DEF m
<1>3. /\ Walking' /\ MapOK(map') /\ phase' \in {"mapping", "failed"}
      /\ (map' = m \/ (phase' = "failed" /\ map' = NewFile))
  <2>1. CASE phase' = "failed" /\ map' = NewFile /\ cm' = cm
    <3>1. IsFiniteSet(map'.unclaimed) /\ WalkOK(load', cm')
      BY <1>1, <2>1, NewFileOK, FS_EmptySet DEF Walking
    <3>2. QED
      BY <2>1, <3>1, NewFileOK DEF Walking
  <2>2. CASE Construct(m)
    BY <1>1, <1>2, <2>2, ConstructKeeps
  <2>3. QED
    BY <1>1, <2>1, <2>2 DEF m
<1>4. map'.ida => format' = "ida"
  BY <1>1, <1>2, <1>3, NewFileOK DEF Typed
<1>5. Typed'
  BY <1>1, <1>3, <1>4, StartOK DEF Typed
<1>6. QED
  BY <1>3, <1>5

(* A byte of the walk, and its segment if there is one.                    *)
LEMMA WalkBytes ==
  ASSUME load \in Nat, NEW m, MapOK(m), NEW V, V = VisitedAt(load, m)
  PROVE  /\ DOMAIN V = load..(load + m.size - 1)
         /\ V \in [load..(load + m.size - 1) -> {0, 1}]
         /\ \A b \in DOMAIN V : V[b] \in Int /\ b \in Int
         /\ load + m.size \in Int /\ load <= load + m.size
<1>1. V \in [load..(load + m.size - 1) -> {0, 1}]
  BY VisitedIs, VisitedSame
<1>2. m.size \in Nat
  BY DEF MapOK, MapT
<1>3. DOMAIN V = load..(load + m.size - 1)
  BY <1>1
<1>4. \A b \in load..(load + m.size - 1) : V[b] \in {0, 1} /\ b \in Int
  BY <1>1, <1>2
<1>5. QED
  BY <1>1, <1>2, <1>3, <1>4

LEMMA CoveredBytes ==
  ASSUME load \in Nat, NEW m, MapOK(m), CoveredBy(load, m), NEW b \in load..(load + m.size - 1)
  PROVE  Build!FindSegment(m.segs, b) # Build!NoSegment
<1>1. PICK n \in Nat : DOMAIN m.segs = 1..n /\ m.segs \in [1..n -> SegT]
  BY SegmentsOfMap
<1>2. PICK i \in 1..n : InSegment(b, m.segs[i].addr)
  BY <1>1 DEF CoveredBy
<1>3. b \in Int
  BY DEF MapOK, MapT
<1>4. Build!FindSegment(m.segs, b) \in Nat
  BY <1>1, <1>2, <1>3, FoundSegment
<1>5. QED
  BY <1>4 DEF Build!NoSegment

LEMMA NextByteKeeps ==
  ASSUME Typed, Walking, MapNextByte
  PROVE  Typed' /\ Walking'
<1>1. /\ phase = "mapping" /\ cm.status = "mapping" /\ ~Build!LastByteMapped(cm, sq, map.segs)
      /\ cm' = Build!MapByte(cm, sq, map.segs)
      /\ UNCHANGED <<format, load, phase, map, pos, sq, saved>>
  BY DEF MapNextByte
<1>2. Typed'
  BY <1>1 DEF Typed
<1>3. PICK n \in Nat : DOMAIN map.segs = 1..n /\ map.segs \in [1..n -> SegT]
  BY SegmentsOfMap DEF Typed
<1>4. load \in Nat /\ MapOK(map) /\ map.size \in Nat
  BY Numbers DEF Typed, MapOK, MapT
<1> DEFINE end == load + map.size
           V == sq.visited
<1>5. V = VisitedAt(load, map) /\ sq.entrypoints = << >>
  BY <1>1 DEF Walking
<1>6. end = load + map.size /\ V = sq.visited
  OBVIOUS
<1> HIDE DEF V, end
<1>6a. DOMAIN V = load..(load + map.size - 1)
  BY <1>4, <1>5, WalkBytes
<1>6b. V \in [load..(load + map.size - 1) -> {0, 1}]
  BY <1>4, <1>5, WalkBytes
<1>6c. \A b \in DOMAIN V : V[b] \in Int /\ b \in Int
  BY <1>4, <1>5, WalkBytes
<1>6d. end \in Int
  BY <1>4, <1>5, WalkBytes DEF end
<1>7. cm.off \in DOMAIN V
  BY <1>1 DEF Build!LastByteMapped, V
<1>8. WalkOK(load, cm) /\ sq.visited[cm.off] \in Int
  BY <1>6c, <1>7 DEF Walking, V
<1>9. WalkOK(load, cm')
  BY <1>1, <1>3, <1>5, <1>8, MappedByteOK
<1>10. ASSUME CoveredBy(load, map)
       PROVE  cm' = Fresh(load) \/ cm'.status = "failed" \/ Amid(load, cm', sq.visited, end)
  <2>1. cm = Fresh(load) \/ Amid(load, cm, sq.visited, end)
    BY <1>1, <1>10 DEF Walking, end
  <2>2. Build!FindSegment(map.segs, cm.off) # Build!NoSegment
    <3>1. cm.off \in load..(load + map.size - 1)
      BY <1>7, <1>6a
    <3>2. QED
      BY <1>4, <1>10, <3>1, CoveredBytes
  <2>3. cm.off \in load..(end - 1)
    BY <1>4, <1>6d, <1>6, <1>7, <1>6a
  <2>3a. sq.visited \in [load..(end - 1) -> {0, 1}]
    BY <1>4, <1>6d, <1>6, <1>6b
  <2>4. LET d == Build!MapByte(cm, sq, map.segs)
        IN d.status = "failed" \/ Amid(load, d, sq.visited, end)
    BY <1>3, <1>4, <1>5, <1>6d, <1>8, <2>1, <2>2, <2>3, <2>3a, AmidNext
  <2>5. QED
    BY <1>1, <2>4
<1>11. Walking'
  BY <1>1, <1>5, <1>9, <1>10 DEF Walking, V, end
<1>12. QED
  BY <1>2, <1>11

LEMMA MapEndIs ==
  ASSUME Typed, Walking, MapEnd
  PROVE  \/ phase' = "failed" /\ map' = NewFile
         \/ /\ phase' = "loaded" /\ MapOK(map')
            /\ \E U \in SUBSET UnclaimedT :
                 /\ IsFiniteSet(U) /\ map' = InOrder([map EXCEPT !.unclaimed = U])
                 /\ CoveredBy(load, map) =>
                      CutTo(load, U, load + map.size, VisitedAt(load, map))
<1> DEFINE end == load + map.size
           done == Build!FinishMap(cm, sq, end)
           U == Unclaimed(done)
           V == sq.visited
<1>1. /\ phase = "mapping"
      /\ cm.status = "failed" \/ Build!LastByteMapped(cm, sq, map.segs)
      /\ IF done.status = "failed" THEN phase' = "failed" /\ map' = NewFile
         ELSE phase' = "loaded" /\ map' = InOrder([map EXCEPT !.unclaimed = U])
  BY DEF MapEnd
<1>2. load \in Nat /\ MapOK(map) /\ map.size \in Nat /\ WalkOK(load, cm)
  BY Numbers DEF Typed, MapOK, MapT, Walking
<1>3. V = VisitedAt(load, map)
  BY <1>1 DEF Walking
<1>4. /\ V \in [load..(end - 1) -> {0, 1}] /\ DOMAIN V = load..(end - 1)
      /\ \A b \in DOMAIN V : V[b] \in Int /\ b \in Int
      /\ end \in Int /\ load <= end
  <2> HIDE DEF V
  <2>1. QED
    BY <1>2, <1>3, WalkBytes
<1>4a. DOMAIN V = load..(load + map.size - 1)
  <2> HIDE DEF V
  <2>1. QED
    BY <1>2, <1>3, WalkBytes
<1>5. WalkOK(load, done) /\ done.status \in {"mapped", "failed"}
  <2>1. V \in [DOMAIN V -> Int]
    <3> HIDE DEF V, end
    <3>1. QED
      BY <1>4
  <2>2. end \in Int
    BY <1>4
  <2> HIDE DEF end
  <2>3. QED
    BY <1>2, <2>1, <2>2, FinishIs
<1>6. CASE done.status = "failed"
  BY <1>1, <1>6
<1>7. CASE done.status # "failed"
  <2>1. phase' = "loaded" /\ map' = InOrder([map EXCEPT !.unclaimed = U])
    BY <1>1, <1>7
  <2>2. /\ U \in SUBSET UnclaimedT /\ IsFiniteSet(U)
        /\ CutTo(load, done.blocks, end, VisitedAt(load, map))
             => CutTo(load, U, end, VisitedAt(load, map))
    <3> HIDE DEF done, end
    <3>1. QED
      BY <1>2, <1>4, <1>5, UnclaimedIs
  <2>3. ASSUME CoveredBy(load, map)
        PROVE  CutTo(load, U, end, VisitedAt(load, map))
    <3>1. cm.status # "failed"
      <4>1. ASSUME cm.status = "failed" PROVE done.status = "failed"
        <5> DEFINE read == IF cm.off \in DOMAIN sq.visited
                           THEN [cm EXCEPT !.curId = sq.visited[cm.off]] ELSE cm
        <5>1. read.status = "failed"
          <6>1. CASE cm.off \in DOMAIN sq.visited
            <7>1. sq.visited[cm.off] \in Int
              BY <1>4, <6>1
            <7>2. QED
              BY <1>2, <4>1, <6>1, <7>1, ReadByteIs
          <6>2. CASE cm.off \notin DOMAIN sq.visited
            BY <4>1, <6>2
          <6>3. QED
            BY <6>1, <6>2
        <5>2. \A next : Build!CloseBlock(read, sq, next) = read
          BY <5>1 DEF Build!CloseBlock
        <5>3. QED
          BY <5>1, <5>2 DEF Build!FinishMap
      <4>2. QED
        BY <1>7, <4>1
    <3>2. Build!LastByteMapped(cm, sq, map.segs)
      BY <1>1, <3>1
    <3>3. cm = Fresh(load) \/ Amid(load, cm, sq.visited, end)
      BY <1>1, <2>3, <3>1 DEF Walking
    <3>4. cm.off \notin DOMAIN sq.visited
      <4>1. ASSUME cm.off \in DOMAIN V PROVE FALSE
        <5>1. cm.off \in load..(load + map.size - 1)
          BY ONLY <4>1, <1>4a
        <5>2. Build!FindSegment(map.segs, cm.off) # Build!NoSegment
          BY <1>2, <2>3, <5>1, CoveredBytes
        <5>3. QED
          BY <3>2, <4>1, <5>2 DEF Build!LastByteMapped, V
      <4>2. QED
        BY <4>1
    <3>5. DOMAIN sq.visited = load..(end - 1)
      BY <1>4
    <3> HIDE DEF end, U
    <3>6. done.status = "failed" \/ CutTo(load, done.blocks, end, sq.visited)
      BY <1>2, <1>4, <3>3, <3>4, <3>5, FinishCuts
    <3>7. QED
      BY <1>3, <1>7, <2>2, <3>6
  <2> HIDE DEF U, done
  <2>4. [map EXCEPT !.unclaimed = U] \in MapT
        /\ [map EXCEPT !.unclaimed = U].routines = map.routines
    BY <1>2, <2>2 DEF MapOK, MapT
  <2>5. MapOK([map EXCEPT !.unclaimed = U])
    BY <1>2, <2>4 DEF MapOK
  <2>6. MapOK(map')
    BY <2>1, <2>5, InOrderOK
  <2>7. QED
    BY <2>1, <2>2, <2>3, <2>6
<1>8. QED
  BY <1>6, <1>7
(* What is unclaimed matters to nothing else.                              *)
LEMMA OtherUnclaimed ==
  ASSUME NEW m, MapOK(m), NEW U \in SUBSET UnclaimedT, NEW start,
         NEW w, w = [m EXCEPT !.unclaimed = U]
  PROVE  /\ MapOK(w) /\ w.unclaimed = U /\ w.ida = m.ida /\ w.size = m.size
         /\ w.segs = m.segs /\ w.routines = m.routines /\ w.vars = m.vars
         /\ AllBlocks(w) = AllBlocks(m)
         /\ Overlapping(w, start) <=> Overlapping(m, start)
         /\ CoveredBy(start, w) <=> CoveredBy(start, m)
         /\ VisitedAt(start, w) = VisitedAt(start, m)
<1>1. /\ w \in MapT /\ w.unclaimed = U /\ w.ida = m.ida /\ w.size = m.size
      /\ w.segs = m.segs /\ w.routines = m.routines /\ w.vars = m.vars
  BY DEF MapOK, MapT
<1>2. MapOK(w)
  BY <1>1 DEF MapOK
<1>3. AllBlocks(w) = AllBlocks(m)
  BY <1>1 DEF AllBlocks
<1>4. \A b : OutOfMap(w, start, b) <=> OutOfMap(m, start, b)
  BY <1>1 DEF OutOfMap
<1>5. Overlapping(w, start) <=> Overlapping(m, start)
  BY <1>3, <1>4 DEF Overlapping
<1>6. CoveredBy(start, w) <=> CoveredBy(start, m)
  BY <1>1 DEF CoveredBy
<1>7. Marked(w) = Marked(m)
  BY <1>1, <1>3 DEF Marked
<1>8. VisitedAt(start, w) = VisitedAt(start, m)
  BY <1>1, <1>7 DEF VisitedAt
<1>9. QED
  BY <1>1, <1>2, <1>3, <1>5, <1>6, <1>8

LEMMA MapEndKeeps ==
  ASSUME Typed, Walking, MapEnd
  PROVE  Typed' /\ Walking'
<1>1. /\ phase = "mapping" /\ cm' = Fresh(load)
      /\ UNCHANGED <<format, load, pos, saved>>
  BY DEF MapEnd, Fresh
<1>2. load \in Nat /\ MapOK(map)
  BY Numbers DEF Typed
<1>3. WalkOK(load', cm')
  BY <1>1, <1>2, NewWalk
<1>4. CASE phase' = "failed" /\ map' = NewFile
  <2>1. Typed'
    BY <1>1, <1>4, NewFileOK DEF Typed
  <2>2. IsFiniteSet(map'.unclaimed)
    BY <1>4, NewFileOK, FS_EmptySet
  <2>3. Walking'
    BY <1>3, <1>4, <2>2 DEF Walking
  <2>4. QED
    BY <2>1, <2>3
<1>5. CASE /\ phase' = "loaded" /\ MapOK(map')
           /\ \E U \in SUBSET UnclaimedT :
                /\ IsFiniteSet(U) /\ map' = InOrder([map EXCEPT !.unclaimed = U])
                /\ CoveredBy(load, map) =>
                     CutTo(load, U, load + map.size, VisitedAt(load, map))
  <2>1. PICK U \in SUBSET UnclaimedT :
               /\ IsFiniteSet(U) /\ map' = InOrder([map EXCEPT !.unclaimed = U])
               /\ CoveredBy(load, map) =>
                    CutTo(load, U, load + map.size, VisitedAt(load, map))
    BY <1>5
  <2> DEFINE w == [map EXCEPT !.unclaimed = U]
  <2>2. /\ MapOK(w) /\ w.unclaimed = U /\ w.ida = map.ida /\ w.size = map.size
        /\ Overlapping(w, load) <=> Overlapping(map, load)
        /\ CoveredBy(load, w) <=> CoveredBy(load, map)
        /\ VisitedAt(load, w) = VisitedAt(load, map)
    BY <1>2, OtherUnclaimed
  <2>3. map' = InOrder(w)
    BY <2>1
  <2> HIDE DEF w
  <2>4. /\ map'.unclaimed = U /\ map'.ida = map.ida /\ map'.size = map.size
        /\ map'.routines = IF w.ida THEN w.routines ELSE {WithExtents(r) : r \in w.routines}
    BY <2>2, <2>3, InOrderParts
  <2>5. Typed'
    BY <1>1, <1>5, <2>4 DEF Typed
  <2>6. ASSUME ~map.ida PROVE ~Overlapping(map', load) /\ Gathered(load, map')
    <3>1. ~Overlapping(map, load)
      BY <1>1, <2>6 DEF Walking
    <3>2. ~Overlapping(map', load)
      BY <1>2, <2>2, <2>3, <2>6, <3>1, OrderedParted
    <3>3. ASSUME NEW r \in map'.routines PROVE r = WithExtents(r)
      <4>1. PICK x \in w.routines : r = WithExtents(x)
        BY <2>2, <2>4, <2>6
      <4>2. x \in RoutineT /\ Sound(x)
        BY <2>2, BlocksAre
      <4>3. QED
        BY <4>1, <4>2, WithExtentsIs
    <3>4. ASSUME CoveredBy(load, map')
          PROVE  CutTo(load, map'.unclaimed, load + map'.size, VisitedAt(load, map'))
      <4>1. CoveredBy(load, map)
        BY <1>2, <2>2, <2>3, <3>4, OrderedCovers
      <4>2. VisitedAt(load, map') = VisitedAt(load, map)
        BY <2>2, <2>3, <2>6, OrderedVisited, VisitedSame
      <4>3. QED
        BY <2>1, <2>4, <4>1, <4>2
    <3>5. QED
      BY <3>2, <3>3, <3>4 DEF Gathered
  <2>7. Walking'
    BY <1>1, <1>3, <1>5, <2>1, <2>4, <2>6 DEF Walking
  <2>8. QED
    BY <2>5, <2>7
<1>6. QED
  BY <1>4, <1>5, MapEndIs

LEMMA SaveKeeps ==
  ASSUME Typed, Walking, SaveAndReload
  PROVE  Typed' /\ Walking'
<1>1. /\ phase = "loaded" /\ saved = NoMap /\ Savable(map, load)
      /\ saved' = map /\ format' = "map" /\ load' = load /\ pos' = pos
      /\ IF Reread(map).ok THEN Construct(Reread(map).map)
         ELSE phase' = "failed" /\ map' = NewFile /\ cm' = cm
  BY DEF SaveAndReload
<1>2. MapOK(map)
  BY DEF Typed
<1>3. CASE ~Reread(map).ok
  <2>1. IsFiniteSet(map'.unclaimed) /\ WalkOK(load', cm')
    BY <1>1, <1>3, NewFileOK, FS_EmptySet DEF Walking
  <2>2. Walking'
    BY <1>1, <1>3, <2>1 DEF Walking
  <2>3. Typed'
    BY <1>1, <1>3, NewFileOK DEF Typed
  <2>4. QED
    BY <2>2, <2>3
<1>4. CASE Reread(map).ok
  <2> DEFINE m == Reread(map).map
  <2>1. MapOK(m) /\ m.ida = FALSE /\ m.unclaimed = {}
    <3>1. \A r \in map.routines : SegsAt(map, r.seg) # {}
      BY <1>1 DEF Savable
    <3>2. MapOK(m) /\ m.ida = FALSE
      BY <1>2, <1>4, <3>1, RereadOK
    <3>3. m = AgainOf(map, map.routines)
      BY RereadIs
    <3> HIDE DEF m
    <3>4. m.unclaimed = {}
      BY <1>2, <3>3, AgainIs
    <3>5. QED
      BY <3>2, <3>4
  <2>2. Construct(m)
    BY <1>1, <1>4
  <2> HIDE DEF m
  <2>3. /\ Walking' /\ MapOK(map') /\ phase' \in {"mapping", "failed"}
        /\ (map' = m \/ (phase' = "failed" /\ map' = NewFile))
    BY <1>1, <2>1, <2>2, ConstructKeeps
  <2>4. ~map'.ida
    BY <2>1, <2>3, NewFileOK
  <2>5. Typed'
    BY <1>1, <1>2, <2>3, <2>4 DEF Typed
  <2>6. QED
    BY <2>3, <2>5
<1>5. QED
  BY <1>3, <1>4

LEMMA StepKeeps ==
  ASSUME Typed, Walking, [Next]_state
  PROVE  Typed' /\ Walking'
<1>1. CASE Reads
  BY <1>1, ReadsKeep
<1>2. CASE EndOfFile
  BY <1>2, EndOfFileKeeps
<1>3. CASE MapNextByte
  BY <1>3, NextByteKeeps
<1>4. CASE MapEnd
  BY <1>4, MapEndKeeps
<1>5. CASE SaveAndReload
  BY <1>5, SaveKeeps
<1>6. CASE UNCHANGED state
  <2>1. Typed'
    BY <1>6 DEF state, Typed
  <2>2. Walking'
    BY <1>6 DEF state, Walking
  <2>3. QED
    BY <2>1, <2>2
<1>7. QED
  BY <1>1, <1>2, <1>3, <1>4, <1>5, <1>6 DEF Next, Reads

(* Whatever the files hold, a map keeps its types, none of its routines    *)
(* has a block both reachable and not, and no annotation contradicts       *)
(* another (loadFromMapFile, loadFromLinkFile, loadFromIdaFile). *)
THEOREM TypedAlways == Spec => []Typed
<1>1. Init => Typed /\ Walking
  BY WalkingInit
<1>2. Typed /\ Walking /\ [Next]_state => (Typed /\ Walking)'
  BY StepKeeps
<1>3. QED
  BY <1>1, <1>2, PTL DEF Spec

(* The walk over the bytes cuts what no routine has out of a map that has  *)
(* no overlap, and the order puts its extents right. *)
THEOREM WalkingAlways == Spec => []Walking
<1>1. Init => Typed /\ Walking
  BY WalkingInit
<1>2. Typed /\ Walking /\ [Next]_state => (Typed /\ Walking)'
  BY StepKeeps
<1>3. QED
  BY <1>1, <1>2, PTL DEF Spec
-----------------------------------------------------------------------------
(* What a loaded map claims.                                               *)

LEMMA OneOrNone ==
  ASSUME NEW S, \A x, y \in S : x = y
  PROVE  /\ S = {} => Cardinality(S) = 0
         /\ S # {} => Cardinality(S) = 1
<1>1. CASE S = {}
  BY <1>1, FS_EmptySet
<1>2. CASE S # {}
  <2>1. PICK x \in S : TRUE
    BY <1>2
  <2>2. S = {x}
    BY <2>1
  <2>3. QED
    BY <2>2, FS_Singleton
<1>3. QED
  BY <1>1, <1>2

(* The facts of a loaded map that lies in its segments.                    *)
LEMMA OneClaim ==
  ASSUME load \in Nat, NEW m, MapOK(m), ~m.ida, ~Overlapping(m, load),
         CutTo(load, m.unclaimed, load + m.size, VisitedAt(load, m)),
         NEW b \in load..(load + m.size - 1)
  PROVE  LET X == {x \in AllBlocks(m) : b \in BytesOf(x[2])}
             U == {u \in m.unclaimed : b \in BytesOf(u)}
         IN /\ \A x, y \in X : x = y
            /\ \A u, w \in U : u = w
            /\ X = {} <=> U # {}
<1> DEFINE X == {x \in AllBlocks(m) : b \in BytesOf(x[2])}
           U == {u \in m.unclaimed : b \in BytesOf(u)}
           V == VisitedAt(load, m)
<1>1. \A x, y \in X : x = y
  BY PartedBlocks
<1>2. V = Visited(m) /\ (V[b] = 1 <=> \E x \in AllBlocks(m) : b \in BytesOf(x[2])) /\ V[b] \in {0, 1}
  BY VisitedIs, VisitedSame
<1> DEFINE end == load + m.size
<1>2a. CutTo(load, m.unclaimed, end, V)
  OBVIOUS
<1>2b. m.size \in Nat /\ end = load + m.size /\ end \in Int
  BY DEF MapOK, MapT
<1>2c. b \in load..(end - 1)
  BY <1>2b
<1> HIDE DEF V, end
<1>3. /\ \A u \in m.unclaimed : \A x \in u.lo..u.hi : V[x] = 0
      /\ \A u, w \in m.unclaimed : u = w \/ u.hi < w.lo \/ w.hi < u.lo
      /\ \A x \in load..(end - 1) : V[x] = 0 => \E u \in m.unclaimed : x \in u.lo..u.hi
  BY <1>2a DEF CutTo
<1>4. \A u \in m.unclaimed : u.lo \in Int /\ u.hi \in Int
  BY DEF MapOK, MapT, UnclaimedT
<1>5. b \in Int
  BY DEF MapOK, MapT
<1>6. ASSUME NEW u \in U, NEW w \in U PROVE u = w
  <2>1. u.lo <= b /\ b <= u.hi /\ w.lo <= b /\ b <= w.hi
    BY <1>4, <1>5 DEF BytesOf
  <2>2. QED
    BY <1>3, <1>4, <1>5, <2>1
<1>7. X = {} <=> V[b] = 0
  BY <1>2
<1>8. U # {} <=> V[b] = 0
  <2>1. ASSUME NEW u \in U PROVE V[b] = 0
    BY <1>3 DEF BytesOf
  <2>2. ASSUME V[b] = 0 PROVE U # {}
    <3>1. PICK u \in m.unclaimed : b \in u.lo..u.hi
      BY <1>3, <1>2c, <2>2
    <3>2. QED
      BY <3>1 DEF BytesOf
  <2>3. QED
    BY <2>1, <2>2
<1>9. QED
  BY <1>1, <1>6, <1>7, <1>8

LEMMA LoadedMap ==
  ASSUME Typed, Walking, phase = "loaded", ~map.ida
  PROVE  /\ load \in Nat /\ MapOK(map) /\ ~Overlapping(map, load) /\ Gathered(load, map)
         /\ Covered => CutTo(load, map.unclaimed, load + map.size, VisitedAt(load, map))
BY Numbers DEF Typed, Walking, Gathered, Covered, CoveredBy

(* A byte of a loaded map that lies in its segments has one claim: that of *)
(* a block of one routine, or to be unclaimed (CodeMap's constructor). *)
THEOREM ClaimsPartTheMap == Spec => []ClaimPartition
<1>1. Typed /\ Walking => ClaimPartition
  <2> SUFFICES ASSUME Typed, Walking, phase = "loaded", ~map.ida, Covered,
                      NEW b \in load..(load + map.size - 1)
               PROVE  Cardinality({x \in AllBlocks(map) : b \in BytesOf(x[2])})
                      + Cardinality({u \in map.unclaimed : b \in BytesOf(u)}) = 1
    BY DEF ClaimPartition, Done
  <2> DEFINE X == {x \in AllBlocks(map) : b \in BytesOf(x[2])}
             U == {u \in map.unclaimed : b \in BytesOf(u)}
  <2>1. /\ \A x, y \in X : x = y
        /\ \A u, w \in U : u = w
        /\ X = {} <=> U # {}
    BY LoadedMap, OneClaim
  <2> HIDE DEF X, U
  <2>2. /\ X = {} => Cardinality(X) = 0
        /\ X # {} => Cardinality(X) = 1
    BY <2>1, OneOrNone
  <2>3. /\ U = {} => Cardinality(U) = 0
        /\ U # {} => Cardinality(U) = 1
    BY <2>1, OneOrNone
  <2>4. Cardinality(X) + Cardinality(U) = 1
    BY <2>1, <2>2, <2>3
  <2>5. QED
    BY <2>4 DEF X, U
<1>2. QED
  BY <1>1, TypedAlways, WalkingAlways, PTL

(* The extents of a routine of a loaded map are the run of its blocks at   *)
(* the entrypoint: they hold bytes of its own blocks only, and do not end  *)
(* before the run does (Routine::recalculateExtents). *)
THEOREM ExtentsAlwaysMainRun == Spec => []ExtentsAreMainRun
<1>1. Typed /\ Walking => ExtentsAreMainRun
  <2> SUFFICES ASSUME Typed, Walking, phase = "loaded", ~map.ida, NEW r \in map.routines,
                      MainBlock(r) # {}, \A b \in MainBlock(r) : ValidBlock(b)
               PROVE  LET own == UNION {BytesOf(b) : b \in BlocksOf(r)}
                      IN BytesOf(r) \subseteq own /\ r.hi + 1 \notin own
    BY DEF ExtentsAreMainRun, Done
  <2> DEFINE own == UNION {BytesOf(b) : b \in BlocksOf(r)}
             e == Extents(r)
  <2>1. load \in Nat /\ MapOK(map) /\ ~Overlapping(map, load) /\ r = WithExtents(r)
    BY LoadedMap DEF Gathered
  <2>2. r \in RoutineT /\ Sound(r) /\ r.lo \in Int /\ r.hi \in Int
    BY <2>1, BlocksAre
  <2>3. r.hi = e.hi
    BY <2>1, <2>2, WithExtentsIs
  <2>4. PICK main \in MainBlock(r) : TRUE
    OBVIOUS
  <2>5. main \in BlocksOf(r) /\ main.lo = r.lo /\ ValidBlock(main)
    BY <2>4 DEF MainBlock, BlocksOf
  <2>6. \A b \in BlocksOf(r) : b.lo \in Int /\ b.hi \in Int
    BY <2>2 DEF BlocksOf, RoutineT, RangeT
  <2>7. ASSUME NEW b \in BlocksOf(r), NEW x \in BytesOf(b), x \in BytesOf(main)
        PROVE  b = main
    <3>1. <<r, b>> \in AllBlocks(map) /\ <<r, main>> \in AllBlocks(map)
      BY <2>1, <2>5, BlocksAre
    <3> DEFINE u == <<r, b>>
               w == <<r, main>>
    <3>2. x \in BytesOf(u[2]) /\ x \in BytesOf(w[2])
      BY <2>7
    <3>3. u = w
      BY <2>1, <3>1, <3>2, PartedBlocks
    <3>4. QED
      BY <3>3
  <2>8. \A b \in MainBlock(r) : b = main
    <3>1. ASSUME NEW b \in MainBlock(r) PROVE b = main
      <4>1. b \in BlocksOf(r) /\ b.lo = r.lo /\ ValidBlock(b)
        BY DEF MainBlock, BlocksOf
      <4>2. r.lo \in BytesOf(b) /\ r.lo \in BytesOf(main)
        BY <2>2, <2>5, <2>6, <4>1 DEF BytesOf, ValidBlock
      <4>3. QED
        BY <2>7, <4>1, <4>2
    <3>2. QED
      BY <3>1
  <2>9. /\ e \in RangeT /\ e.lo = r.lo /\ r.lo <= e.hi
        /\ \A x \in BytesOf(e) : \E b \in BlocksOf(r) : x \in BytesOf(b)
        /\ \A b \in BlocksOf(r) : ValidBlock(b) /\ b.lo >= r.lo =>
             b.hi <= e.hi \/ b.lo > e.hi + 1
    <3>1. /\ r.lo \in Int /\ r.reach \in SUBSET RangeT /\ r.unreach \in SUBSET RangeT
          /\ IsFiniteSet(r.reach) /\ IsFiniteSet(r.unreach)
      BY <2>2 DEF RoutineT, Sound
    <3>2. QED
      BY <2>5, <2>8, <3>1, ExtentsIs
  <2> HIDE DEF e
  <2>10. BytesOf(r) = BytesOf(e)
    BY <2>3, <2>9 DEF BytesOf
  <2>11. ASSUME NEW b \in BlocksOf(r), r.hi + 1 \in BytesOf(b) PROVE FALSE
    <3>1. /\ b.lo \in Int /\ b.hi \in Int /\ b.lo <= r.hi + 1 /\ r.hi + 1 <= b.hi
      BY <2>6, <2>11 DEF BytesOf
    <3> DEFINE u == <<r, b>>
    <3>2. u \in AllBlocks(map) /\ u[2] = b
      BY <2>1, BlocksAre
    <3>3. b.lo >= load
      BY <2>1, <3>2, PartedBlocks
    <3>4. ValidBlock(b)
      BY <2>1, <3>1, <3>3, <2>2 DEF ValidBlock
    <3>5. CASE b.lo >= r.lo
      BY <2>2, <2>3, <2>9, <3>1, <3>4, <3>5
    <3>6. CASE b.lo < r.lo
      <4>1. r.lo \in BytesOf(b)
        BY <2>2, <2>3, <2>9, <3>1, <3>6 DEF BytesOf
      <4>2. r.lo \in BytesOf(main)
        BY <2>2, <2>5, <2>6 DEF BytesOf, ValidBlock
      <4>3. b = main
        BY <2>7, <4>1, <4>2
      <4>4. QED
        BY <2>2, <2>5, <3>6, <4>3
    <3>7. QED
      BY <2>2, <3>1, <3>5, <3>6
  <2>12. QED
    BY <2>9, <2>10, <2>11
<1>2. QED
  BY <1>1, TypedAlways, WalkingAlways, PTL
-----------------------------------------------------------------------------
(* The sums of the summary.                                                *)

PairsOf(bs) == {p \in bs \X UNION {BytesOf(b) : b \in bs} :
                  ValidBlock(p[1]) /\ p[2] \in BytesOf(p[1])}

LEMMA PairsAre ==
  ASSUME NEW bs
  PROVE  /\ SizeSum(bs) = Cardinality(PairsOf(bs))
         /\ \A p \in PairsOf(bs) : /\ p = <<p[1], p[2]>> /\ p[1] \in bs
                                   /\ ValidBlock(p[1]) /\ p[2] \in BytesOf(p[1])
         /\ \A b \in bs : \A x \in BytesOf(b) : ValidBlock(b) => <<b, x>> \in PairsOf(bs)
<1>1. SizeSum(bs) = Cardinality(PairsOf(bs))
  BY DEF SizeSum, PairsOf
<1>2. \A p \in PairsOf(bs) : /\ p = <<p[1], p[2]>> /\ p[1] \in bs
                             /\ ValidBlock(p[1]) /\ p[2] \in BytesOf(p[1])
  BY DEF PairsOf
<1>3. ASSUME NEW b \in bs, NEW x \in BytesOf(b), ValidBlock(b)
      PROVE  <<b, x>> \in PairsOf(bs)
  <2> DEFINE all == UNION {BytesOf(c) : c \in bs}
  <2>1. x \in all
    OBVIOUS
  <2> HIDE DEF all
  <2>2. <<b, x>> \in bs \X all /\ <<b, x>>[1] = b /\ <<b, x>>[2] = x
    BY <2>1
  <2>3. QED
    BY <1>3, <2>2 DEF PairsOf, all
<1>4. QED
  BY <1>1, <1>2, <1>3

LEMMA PairsFinite ==
  ASSUME NEW bs, IsFiniteSet(bs), \A b \in bs : b.lo \in Int /\ b.hi \in Int
  PROVE  IsFiniteSet(PairsOf(bs)) /\ SizeSum(bs) \in Nat
<1> DEFINE f == [b \in bs |-> BytesOf(b)]
           sets == {f[b] : b \in bs}
           all == UNION {BytesOf(b) : b \in bs}
<1>1. sets = {BytesOf(b) : b \in bs} /\ DOMAIN f = bs
  OBVIOUS
<1>2. \A b \in bs : IsFiniteSet(f[b])
  BY FS_Interval DEF BytesOf
<1> HIDE DEF f
<1>3. IsFiniteSet(sets) /\ \A s \in sets : IsFiniteSet(s)
  BY <1>1, <1>2, ImageFinite
<1>4. all = UNION sets
  BY <1>1
<1> HIDE DEF sets, all
<1>5. IsFiniteSet(all)
  BY <1>3, <1>4, FS_UNION
<1>6. IsFiniteSet(bs \X all)
  BY <1>5, FS_Product
<1>7. PairsOf(bs) \in SUBSET (bs \X all)
  BY DEF PairsOf, all
<1>8. IsFiniteSet(PairsOf(bs))
  BY ONLY <1>6, <1>7, FS_Subset
<1>9. QED
  BY <1>8, PairsAre, FS_CardinalityType

LEMMA PairsOfParts ==
  ASSUME NEW bs, NEW as, as \subseteq bs
  PROVE  /\ PairsOf(as) \in SUBSET PairsOf(bs)
         /\ \A cs : as \cap cs = {} => PairsOf(as) \cap PairsOf(cs) = {}
<1>1. ASSUME NEW p \in PairsOf(as) PROVE p \in PairsOf(bs)
  <2>1. p = <<p[1], p[2]>> /\ p[1] \in as /\ ValidBlock(p[1]) /\ p[2] \in BytesOf(p[1])
    BY PairsAre
  <2> DEFINE b == p[1]
             x == p[2]
  <2>2. b \in bs /\ x \in BytesOf(b) /\ ValidBlock(b) /\ p = <<b, x>>
    BY <2>1
  <2> HIDE DEF b, x
  <2>3. <<b, x>> \in PairsOf(bs)
    BY <2>2, PairsAre
  <2>4. QED
    BY <2>2, <2>3
<1>2. ASSUME NEW cs, as \cap cs = {} PROVE PairsOf(as) \cap PairsOf(cs) = {}
  BY <1>2, PairsAre
<1>3. QED
  BY <1>1, <1>2

(* Parts of a set do not add up to more than the set.                      *)
LEMMA ThreeParts ==
  ASSUME NEW S, IsFiniteSet(S), NEW A \in SUBSET S, NEW B \in SUBSET S, NEW C \in SUBSET S,
         A \cap B = {}, A \cap C = {}, B \cap C = {}
  PROVE  /\ Cardinality(A) \in Nat /\ Cardinality(B) \in Nat /\ Cardinality(C) \in Nat
         /\ Cardinality(S) \in Nat
         /\ Cardinality(A) + Cardinality(B) + Cardinality(C) <= Cardinality(S)
<1>1. IsFiniteSet(A) /\ IsFiniteSet(B) /\ IsFiniteSet(C)
  BY FS_Subset
<1>2. /\ Cardinality(A) \in Nat /\ Cardinality(B) \in Nat /\ Cardinality(C) \in Nat
      /\ Cardinality(S) \in Nat /\ Cardinality({}) = 0
  BY <1>1, FS_CardinalityType, FS_EmptySet
<1>3. IsFiniteSet(A \cup B) /\ Cardinality(A \cup B) = Cardinality(A) + Cardinality(B)
  <2>1. /\ IsFiniteSet(A \cup B)
        /\ Cardinality(A \cup B) = Cardinality(A) + Cardinality(B) - Cardinality(A \cap B)
    BY <1>1, FS_Union
  <2>2. Cardinality(A \cup B) = Cardinality(A) + Cardinality(B) - Cardinality({})
    BY <2>1
  <2>3. QED
    BY <1>2, <2>1, <2>2
<1>4. (A \cup B) \cap C = {}
  OBVIOUS
<1>5. Cardinality((A \cup B) \cup C) = Cardinality(A) + Cardinality(B) + Cardinality(C)
  <2> DEFINE D == A \cup B
  <2>1. IsFiniteSet(D) /\ D \cap C = {}
    BY <1>3, <1>4
  <2> HIDE DEF D
  <2>2. Cardinality(D \cup C) = Cardinality(D) + Cardinality(C) - Cardinality(D \cap C)
    BY <1>1, <2>1, FS_Union
  <2>3. Cardinality(D \cup C) = Cardinality(D) + Cardinality(C) - 0
    BY <1>2, <2>1, <2>2
  <2>4. Cardinality(D) = Cardinality(A) + Cardinality(B)
    BY <1>3 DEF D
  <2>5. QED
    BY <1>2, <2>3, <2>4 DEF D
<1>6. Cardinality((A \cup B) \cup C) <= Cardinality(S)
  <2>1. (A \cup B) \cup C \in SUBSET S
    OBVIOUS
  <2>2. QED
    BY <2>1, FS_Subset
<1>7. QED
  BY <1>2, <1>5, <1>6

(* The same for the sizes of blocks.                                       *)
LEMMA ThreeSums ==
  ASSUME NEW S, IsFiniteSet(S), \A b \in S : b.lo \in Int /\ b.hi \in Int,
         NEW A \in SUBSET S, NEW B \in SUBSET S, NEW C \in SUBSET S,
         A \cap B = {}, A \cap C = {}, B \cap C = {}
  PROVE  /\ SizeSum(A) \in Nat /\ SizeSum(B) \in Nat /\ SizeSum(C) \in Nat
         /\ SizeSum(S) \in Nat
         /\ SizeSum(A) + SizeSum(B) + SizeSum(C) <= SizeSum(S)
<1> DEFINE P == PairsOf(S)
           Q == PairsOf(A)
           R == PairsOf(B)
           T == PairsOf(C)
<1>1. IsFiniteSet(P)
  BY PairsFinite
<1>2. Q \in SUBSET P /\ R \in SUBSET P /\ T \in SUBSET P
  BY PairsOfParts
<1>3. Q \cap R = {} /\ Q \cap T = {} /\ R \cap T = {}
  BY PairsOfParts
<1>4. /\ SizeSum(S) = Cardinality(P) /\ SizeSum(A) = Cardinality(Q)
      /\ SizeSum(B) = Cardinality(R) /\ SizeSum(C) = Cardinality(T)
  BY PairsAre
<1> HIDE DEF P, Q, R, T
<1>5. QED
  BY <1>1, <1>2, <1>3, <1>4, ThreeParts

(* Blocks that have no byte in common have as many bytes as their sizes    *)
(* say. *)
LEMMA ApartSum ==
  ASSUME NEW bs, IsFiniteSet(bs), \A b \in bs : b.lo \in Int /\ b.hi \in Int,
         \A a, b \in bs : \A x \in BytesOf(a) : x \in BytesOf(b) => a = b
  PROVE  /\ IsFiniteSet({p[2] : p \in PairsOf(bs)})
         /\ SizeSum(bs) = Cardinality({p[2] : p \in PairsOf(bs)})
<1> DEFINE P == PairsOf(bs)
           T == {p[2] : p \in P}
           f == [p \in P |-> p[2]]
<1>1. IsFiniteSet(P)
  BY PairsFinite
<1>2. \A p \in P : /\ p = <<p[1], p[2]>> /\ p[1] \in bs /\ p[2] \in BytesOf(p[1])
  BY PairsAre
<1> HIDE DEF P
<1>3. f \in Surjection(P, T)
  BY DEF Surjection
<1>4. ASSUME NEW p \in P, NEW q \in P, f[p] = f[q] PROVE p = q
  <2>1. p[2] = q[2]
    BY <1>4
  <2>2. p[1] = q[1]
    BY <1>2, <2>1
  <2>3. QED
    BY <1>2, <2>1, <2>2
<1>5. f \in Injection(P, T)
  <2>1. f \in [P -> T]
    OBVIOUS
  <2> HIDE DEF f
  <2>2. QED
    BY <1>4, <2>1 DEF Injection, IsInjective
<1> HIDE DEF f, T
<1>6. IsFiniteSet(T) /\ Cardinality(T) = Cardinality(P)
  BY <1>1, <1>3, <1>5, FS_Surjection
<1>7. QED
  BY <1>6, PairsAre DEF T, P
(* Extents and unclaimed blocks have no byte in common.                    *)
LEMMA ClaimsApart ==
  ASSUME Typed, Walking, phase = "loaded", ~map.ida, Covered,
         \A r \in map.routines : MainBlock(r) # {}
  PROVE  /\ \A r, s \in map.routines : \A x \in BytesOf(r) : x \in BytesOf(s) => r = s
         /\ \A u, w \in map.unclaimed : \A x \in BytesOf(u) : x \in BytesOf(w) => u = w
         /\ \A r \in map.routines : \A u \in map.unclaimed : \A x \in BytesOf(r) : x \notin BytesOf(u)
         /\ \A r \in map.routines : BytesOf(r) \subseteq load..(load + map.size - 1)
         /\ \A u \in map.unclaimed : BytesOf(u) \subseteq load..(load + map.size - 1)
<1>1. /\ load \in Nat /\ MapOK(map) /\ ~Overlapping(map, load) /\ Gathered(load, map)
      /\ CutTo(load, map.unclaimed, load + map.size, VisitedAt(load, map))
  BY LoadedMap
<1>2. ASSUME NEW r \in map.routines, NEW x \in BytesOf(r)
      PROVE  \E b \in BlocksOf(r) : <<r, b>> \in AllBlocks(map) /\ x \in BytesOf(b)
  <2>1. r \in RoutineT /\ Sound(r) /\ r = WithExtents(r)
    BY <1>1, BlocksAre DEF Gathered
  <2>2. r.hi = Extents(r).hi /\ r.lo \in Int /\ r.hi \in Int
    BY <2>1, WithExtentsIs, <1>1, BlocksAre
  <2>3. /\ Extents(r).lo = r.lo
        /\ \A y \in BytesOf(Extents(r)) : \E b \in BlocksOf(r) : y \in BytesOf(b)
    <3>1. /\ r.lo \in Int /\ r.reach \in SUBSET RangeT /\ r.unreach \in SUBSET RangeT
          /\ IsFiniteSet(r.reach) /\ IsFiniteSet(r.unreach)
      BY <2>1 DEF RoutineT, Sound
    <3>2. QED
      BY <3>1, ExtentsIs
  <2>4. x \in BytesOf(Extents(r))
    BY <2>2, <2>3 DEF BytesOf
  <2>5. PICK b \in BlocksOf(r) : x \in BytesOf(b)
    BY <2>3, <2>4
  <2>6. <<r, b>> \in AllBlocks(map)
    BY <1>1, BlocksAre
  <2>7. QED
    BY <2>5, <2>6
<1>3. ASSUME NEW r \in map.routines, NEW s \in map.routines, NEW x \in BytesOf(r), x \in BytesOf(s)
      PROVE  r = s
  <2>1. PICK b \in BlocksOf(r) : <<r, b>> \in AllBlocks(map) /\ x \in BytesOf(b)
    BY <1>2
  <2>2. PICK c \in BlocksOf(s) : <<s, c>> \in AllBlocks(map) /\ x \in BytesOf(c)
    BY <1>2, <1>3
  <2> DEFINE u == <<r, b>>
             w == <<s, c>>
  <2>3. x \in BytesOf(u[2]) /\ x \in BytesOf(w[2])
    BY <2>1, <2>2
  <2>4. u = w
    BY <1>1, <2>1, <2>2, <2>3, PartedBlocks
  <2>5. QED
    BY <2>4
<1>4. ASSUME NEW r \in map.routines, NEW x \in BytesOf(r)
      PROVE  x \in load..(load + map.size - 1)
  <2>1. PICK b \in BlocksOf(r) : <<r, b>> \in AllBlocks(map) /\ x \in BytesOf(b)
    BY <1>2
  <2> DEFINE u == <<r, b>>
  <2>2. u \in AllBlocks(map) /\ u[2] = b
    BY <2>1
  <2>3. b.lo >= load /\ b.hi < load + map.size
    BY <1>1, <2>2, PartedBlocks
  <2>4. b.lo \in Int /\ b.hi \in Int /\ map.size \in Nat
    BY <1>1, <2>2, BlocksAre DEF MapOK, MapT
  <2>5. QED
    BY <1>1, <2>1, <2>3, <2>4 DEF BytesOf
<1> DEFINE end == load + map.size
           V == VisitedAt(load, map)
<1>5. CutTo(load, map.unclaimed, end, V)
  BY <1>1
<1>6. map.size \in Nat /\ end = load + map.size /\ end \in Int
  BY <1>1 DEF MapOK, MapT
<1> HIDE DEF end, V
<1>7. /\ \A u \in map.unclaimed : load <= u.lo /\ u.lo <= u.hi /\ u.hi < end
      /\ \A u, w \in map.unclaimed : u = w \/ u.hi < w.lo \/ w.hi < u.lo
  BY <1>5 DEF CutTo
<1>8. \A u \in map.unclaimed : u.lo \in Int /\ u.hi \in Int
  BY <1>1 DEF MapOK, MapT, UnclaimedT
<1>9. ASSUME NEW u \in map.unclaimed, NEW x \in BytesOf(u)
      PROVE  x \in load..(load + map.size - 1)
  BY <1>1, <1>6, <1>7, <1>8 DEF BytesOf
<1>10. ASSUME NEW u \in map.unclaimed, NEW w \in map.unclaimed, NEW x \in BytesOf(u), x \in BytesOf(w)
       PROVE  u = w
  BY <1>7, <1>8, <1>10 DEF BytesOf
<1>11. ASSUME NEW r \in map.routines, NEW u \in map.unclaimed, NEW x \in BytesOf(r), x \in BytesOf(u)
       PROVE  FALSE
  <2>1. PICK b \in BlocksOf(r) : <<r, b>> \in AllBlocks(map) /\ x \in BytesOf(b)
    BY <1>2
  <2> DEFINE a == <<r, b>>
             X == {y \in AllBlocks(map) : x \in BytesOf(y[2])}
             U == {w \in map.unclaimed : x \in BytesOf(w)}
  <2>2. a \in X /\ u \in U
    BY <1>11, <2>1
  <2>3. x \in load..(load + map.size - 1)
    BY <1>4
  <2>4. X = {} <=> U # {}
    BY <1>1, <2>3, OneClaim
  <2>5. QED
    BY <2>2, <2>4
<1>12. QED
  BY <1>3, <1>4, <1>9, <1>10, <1>11

LEMMA AtMostOne ==
  ASSUME NEW S, IsFiniteSet(S), Cardinality(S) <= 1, NEW x \in S, NEW y \in S
  PROVE  x = y
<1> SUFFICES ASSUME x # y PROVE FALSE
  OBVIOUS
<1>1. IsFiniteSet({x}) /\ Cardinality({x}) = 1
  BY FS_Singleton
<1>2. IsFiniteSet({x} \cup {y}) /\ Cardinality({x} \cup {y}) = 2
  <2> DEFINE T == {x}
  <2>1. IsFiniteSet(T) /\ Cardinality(T) = 1 /\ y \notin T
    BY <1>1
  <2> HIDE DEF T
  <2>2. /\ IsFiniteSet(T \cup {y})
        /\ Cardinality(T \cup {y}) = IF y \in T THEN Cardinality(T) ELSE Cardinality(T) + 1
    BY <2>1, FS_AddElement
  <2>3. IsFiniteSet(T \cup {y}) /\ Cardinality(T \cup {y}) = 2
    BY <2>1, <2>2
  <2>4. QED
    BY <2>3 DEF T
<1>3. {x} \cup {y} \in SUBSET S
  OBVIOUS
<1>4. Cardinality({x} \cup {y}) <= Cardinality(S) /\ Cardinality(S) \in Nat
  BY <1>3, FS_Subset, FS_CardinalityType
<1>5. QED
  BY <1>2, <1>4

(* Annotations of which there is one at most.                              *)
LEMMA SettledParts ==
  ASSUME NEW m, MapOK(m)
  PROVE  /\ Tagged(m, "external") \subseteq Tagged(m, "ignore")
         /\ Tagged(m, "detached") \subseteq Tagged(m, "ignore")
         /\ Tagged(m, "external") \cap Tagged(m, "detached") = {}
         /\ Tagged(m, "complete") \cap Tagged(m, "ignore") = {}
         /\ Tagged(m, "complete") \cap Tagged(m, "assembly") = {}
         /\ Tagged(m, "ignore") \cap Tagged(m, "assembly") = {}
<1>1. ASSUME NEW r \in CodeRoutines(m)
      PROVE  /\ "external" \in r.tags => "ignore" \in r.tags /\ "detached" \notin r.tags
             /\ "detached" \in r.tags => "ignore" \in r.tags
             /\ ~("complete" \in r.tags /\ "ignore" \in r.tags)
             /\ ~("complete" \in r.tags /\ "assembly" \in r.tags)
             /\ ~("ignore" \in r.tags /\ "assembly" \in r.tags)
  <2>1. Settled(r.tags)
    BY BlocksAre DEF CodeRoutines, Sound
  <2> DEFINE S == r.tags \cap {"complete", "ignore", "assembly"}
  <2>2. /\ r.tags \cap {"external", "detached"} # {} => "ignore" \in r.tags
        /\ ~({"external", "detached"} \subseteq r.tags) /\ Cardinality(S) <= 1
    BY <2>1 DEF Settled, TagsAllowed
  <2>3. IsFiniteSet(S)
    <3> DEFINE T == ({"complete"} \cup {"ignore"}) \cup {"assembly"}
    <3>1. IsFiniteSet({"complete"} \cup {"ignore"})
      BY FS_Singleton, FS_AddElement
    <3>2. IsFiniteSet(T)
      BY <3>1, FS_AddElement
    <3>3. S \in SUBSET T
      OBVIOUS
    <3> HIDE DEF S, T
    <3>4. QED
      BY <3>2, <3>3, FS_Subset
  <2>4. \A x, y \in S : x = y
    <3> HIDE DEF S
    <3>1. QED
      BY <2>2, <2>3, AtMostOne
  <2>5. QED
    BY <2>2, <2>4
<1>2. QED
  BY <1>1 DEF Tagged

(* The sizes and the counts of the summary add up, whatever the            *)
(* annotations: no difference that getSummary takes is below zero. *)
THEOREM SummaryAlwaysAddsUp == Spec => []SummaryAddsUp
<1>1. Typed /\ Walking => SummaryAddsUp
  <2> SUFFICES ASSUME Typed, Walking, phase = "loaded", ~map.ida, Covered,
                      \A r \in map.routines : MainBlock(r) # {}
               PROVE  SummaryConsistent(map)
    BY DEF SummaryAddsUp, Done
  <2> DEFINE R == CodeRoutines(map)
             U == CodeUnclaimed(map)
             E == Tagged(map, "external")
             D == Tagged(map, "detached")
             G == Tagged(map, "ignore")
             C == Tagged(map, "complete")
             A == Tagged(map, "assembly")
  <2>1. /\ load \in Nat /\ MapOK(map) /\ IsFiniteSet(map.unclaimed) /\ IsFiniteSet(map.routines)
        /\ map.size \in Nat
    BY LoadedMap DEF Walking, MapOK, MapT
  <2>2. /\ R \in SUBSET map.routines /\ U \in SUBSET map.unclaimed
        /\ E \in SUBSET R /\ D \in SUBSET R /\ G \in SUBSET R /\ C \in SUBSET R /\ A \in SUBSET R
    BY DEF CodeRoutines, CodeUnclaimed, Tagged
  <2>3. IsFiniteSet(R) /\ IsFiniteSet(U)
    BY <2>1, <2>2, FS_Subset
  <2>4. /\ \A r \in R : r.lo \in Int /\ r.hi \in Int
        /\ \A u \in U : u.lo \in Int /\ u.hi \in Int
    BY <2>1, <2>2, BlocksAre DEF MapOK, MapT, UnclaimedT
  <2>5. /\ E \subseteq G /\ D \subseteq G /\ E \cap D = {}
        /\ C \cap G = {} /\ C \cap A = {} /\ G \cap A = {}
    BY <2>1, SettledParts
  <2>6. CodeTotal(map) = SizeSum(R) + SizeSum(U)
    BY DEF CodeTotal
  <2> HIDE DEF R, U, E, D, G, C, A
  <2>7. IsFiniteSet(G) /\ (\A r \in G : r.lo \in Int /\ r.hi \in Int) /\ {} \in SUBSET G
    BY <2>2, <2>3, <2>4, FS_Subset
  <2>8. /\ SizeSum(C) \in Nat /\ SizeSum(G) \in Nat /\ SizeSum(A) \in Nat /\ SizeSum(R) \in Nat
        /\ SizeSum(C) + SizeSum(G) + SizeSum(A) <= SizeSum(R)
    BY <2>2, <2>3, <2>4, <2>5, ThreeSums
  <2>9. /\ Cardinality(C) \in Nat /\ Cardinality(G) \in Nat /\ Cardinality(A) \in Nat
        /\ Cardinality(R) \in Nat
        /\ Cardinality(C) + Cardinality(G) + Cardinality(A) <= Cardinality(R)
    BY <2>2, <2>3, <2>5, ThreeParts
  <2>10. E \in SUBSET G /\ D \in SUBSET G /\ E \cap {} = {} /\ D \cap {} = {}
    BY <2>5
  <2>11. /\ SizeSum(E) \in Nat /\ SizeSum(D) \in Nat /\ SizeSum({}) \in Nat
         /\ SizeSum(E) + SizeSum(D) + SizeSum({}) <= SizeSum(G)
    BY <2>5, <2>7, <2>10, ThreeSums
  <2>12. /\ Cardinality(E) \in Nat /\ Cardinality(D) \in Nat /\ Cardinality({}) \in Nat
         /\ Cardinality(E) + Cardinality(D) + Cardinality({}) <= Cardinality(G)
    BY <2>5, <2>7, <2>10, ThreeParts
  <2>13. SizeSum(U) \in Nat
    BY <2>3, <2>4, PairsFinite
  <2>14. Cardinality(map.routines \ R) = Cardinality(map.routines) - Cardinality(R)
         /\ Cardinality(map.routines) \in Nat
    <3>1. Cardinality(map.routines \ R) = Cardinality(map.routines) - Cardinality(map.routines \cap R)
      BY <2>1, FS_Difference
    <3>2. map.routines \cap R = R
      BY <2>2
    <3>3. QED
      BY <2>1, <3>1, <3>2, FS_CardinalityType
  <2>15. CodeTotal(map) <= map.size
    <3>1. /\ \A r, s \in R : \A x \in BytesOf(r) : x \in BytesOf(s) => r = s
          /\ \A u, w \in U : \A x \in BytesOf(u) : x \in BytesOf(w) => u = w
          /\ \A r \in R : \A u \in U : \A x \in BytesOf(r) : x \notin BytesOf(u)
          /\ \A r \in R : BytesOf(r) \subseteq load..(load + map.size - 1)
          /\ \A u \in U : BytesOf(u) \subseteq load..(load + map.size - 1)
      BY <2>2, ClaimsApart
    <3> DEFINE S == {p[2] : p \in PairsOf(R)}
               T == {p[2] : p \in PairsOf(U)}
               B == load..(load + map.size - 1)
    <3>2. /\ IsFiniteSet(S) /\ SizeSum(R) = Cardinality(S)
          /\ IsFiniteSet(T) /\ SizeSum(U) = Cardinality(T)
      BY <2>3, <2>4, <3>1, ApartSum
    <3>3. S \in SUBSET B /\ T \in SUBSET B
      BY <3>1, PairsAre
    <3>4. S \cap T = {}
      <4>1. ASSUME NEW x \in S, x \in T PROVE FALSE
        <5>1. PICK p \in PairsOf(R) : x = p[2]
          OBVIOUS
        <5>2. PICK q \in PairsOf(U) : x = q[2]
          BY <4>1
        <5>3. p[1] \in R /\ x \in BytesOf(p[1]) /\ q[1] \in U /\ x \in BytesOf(q[1])
          BY <5>1, <5>2, PairsAre
        <5>4. QED
          BY <3>1, <5>3
      <4>2. QED
        BY <4>1
    <3>5. IsFiniteSet(B) /\ Cardinality(B) = map.size
      <4> DEFINE hi == load + map.size - 1
      <4>1. hi \in Int /\ load \in Int /\ hi = load + map.size - 1
        BY <2>1
      <4> HIDE DEF hi
      <4>2. /\ IsFiniteSet(load..hi)
            /\ Cardinality(load..hi) = IF load > hi THEN 0 ELSE hi - load + 1
        BY <4>1, FS_Interval
      <4>3. B = load..hi
        BY <4>1
      <4>4. QED
        BY <2>1, <4>1, <4>2, <4>3
    <3> HIDE DEF S, T, B
    <3>6. {} \in SUBSET B /\ S \cap {} = {} /\ T \cap {} = {}
      OBVIOUS
    <3>7. /\ Cardinality(S) \in Nat /\ Cardinality(T) \in Nat /\ Cardinality({}) \in Nat
          /\ Cardinality(S) + Cardinality(T) + Cardinality({}) <= Cardinality(B)
      BY <3>3, <3>4, <3>5, <3>6, ThreeParts
    <3>8. QED
      BY <2>1, <2>6, <3>2, <3>5, <3>7
  <2>16. SizeSum(C) + SizeSum(G) + SizeSum(A) + SizeSum(U) <= CodeTotal(map)
    BY <2>6, <2>8, <2>13
  <2>17. /\ SizeSum(E) <= SizeSum(G) /\ Cardinality(E) <= Cardinality(G)
         /\ SizeSum(D) <= SizeSum(G) - SizeSum(E)
         /\ Cardinality(D) <= Cardinality(G) - Cardinality(E)
    BY <2>8, <2>9, <2>11, <2>12
  <2>18. Cardinality(C) + Cardinality(G) + Cardinality(A) + Cardinality(map.routines \ R)
           <= Cardinality(map.routines)
    BY <2>9, <2>14
  <2>19. QED
    BY <2>15, <2>16, <2>17, <2>18 DEF SummaryConsistent, R, U, E, D, G, C, A
<1>2. QED
  BY <1>1, TypedAlways, WalkingAlways, PTL
-----------------------------------------------------------------------------
(* The segments of a listing.                                              *)

(* A segment with a name of its own: its base is guessed from the          *)
(* position. *)
Guessed(s) == s.name[1] = "name"

(* Where what lies in a segment ends.  A segment is free of the bases that *)
(* names give. *)
Ends(m) == {<<r.seg, r.hi>> : r \in m.routines} \cup {<<v.seg, v.lin>> : v \in m.vars}
Free(start, e) == e[1] - start \notin IdaBases

MapApart(start, m) ==
  /\ \A i, j \in DOMAIN m.segs :
       Guessed(m.segs[i]) /\ Guessed(m.segs[j]) /\ m.segs[i].name[2] < m.segs[j].name[2]
         => m.segs[i].addr <= m.segs[j].addr
  /\ \A e \in Ends(m) : \A i \in DOMAIN m.segs :
       Free(start, e) /\ Guessed(m.segs[i]) /\ e[1] < m.segs[i].addr
         => e[2] < m.segs[i].addr

(* While the listing is read, the bases that were guessed grow with the    *)
(* position, and nothing lies past it. *)
ReadApart(start, m, p) ==
  /\ \A i \in DOMAIN m.segs : Guessed(m.segs[i]) =>
       /\ m.segs[i].name[2] = i - 1
       /\ start <= m.segs[i].addr /\ m.segs[i].addr <= start + p.global
  /\ Guessed(p.seg) =>
       /\ p.seg.name[2] = Len(m.segs)
       /\ start <= p.seg.addr /\ p.seg.addr = start + p.global - p.prev
       /\ \A i \in DOMAIN m.segs : Guessed(m.segs[i]) => m.segs[i].addr <= p.seg.addr
       /\ \A e \in Ends(m) : Free(start, e) /\ e[1] < p.seg.addr => e[2] < p.seg.addr
  /\ p.seg # NoSeg /\ ~Guessed(p.seg) => p.seg.addr - start \in IdaBases
  /\ p.proc # NoProc => p.seg # NoSeg /\ p.proc.seg = p.seg.addr
  /\ \A e \in Ends(m) : Free(start, e) => start <= e[1] /\ e[2] <= start + p.global

Held(start, m, p) == MapApart(start, m) /\ ReadApart(start, m, p)

Apart == map.ida => /\ MapApart(load, map)
                    /\ phase = "reading" => ReadApart(load, map, pos)

LEMMA NoSegIs == ~Guessed(NoSeg)
BY DEF Guessed, NoSeg

LEMMA EndsAre ==
  ASSUME NEW m, MapOK(m)
  PROVE  \A e \in Ends(m) : e[1] \in Int /\ e[2] \in Int
<1>1. \A r \in m.routines : r.seg \in Int /\ r.hi \in Int
  BY BlocksAre
<1>2. \A v \in m.vars : v.seg \in Int /\ v.lin \in Int
  BY DEF MapOK, MapT, VarT
<1>3. QED
  BY <1>1, <1>2 DEF Ends

LEMMA HeldMoved ==
  ASSUME NEW start \in Nat, NEW m, MapOK(m), NEW p, PosOK(p), NEW off \in Nat, off >= p.prev,
         Held(start, m, p)
  PROVE  Held(start, m, Moved(p, off))
<1> DEFINE q == Moved(p, off)
<1>1. /\ q.seg = p.seg /\ q.proc = p.proc
      /\ q.global = p.global + (off - p.prev) /\ q.prev = off
  BY MovedOK
<1>2. /\ p.global \in Nat /\ p.prev \in Nat
      /\ p.seg # NoSeg => p.seg.addr \in Nat
  BY PosParts
<1> HIDE DEF q, NoSeg, NoProc
<1>3. \A e \in Ends(m) : e[1] \in Int /\ e[2] \in Int
  BY EndsAre
<1>4. \A i \in DOMAIN m.segs : m.segs[i].addr \in Nat
  BY SegmentsOfMap
<1>5. ReadApart(start, m, p) /\ p.global <= q.global /\ q.global \in Nat
      /\ q.global - q.prev = p.global - p.prev
  BY <1>1, <1>2 DEF Held
<1>6. \A i \in DOMAIN m.segs : Guessed(m.segs[i]) =>
       /\ m.segs[i].name[2] = i - 1
       /\ start <= m.segs[i].addr /\ m.segs[i].addr <= start + q.global
  BY <1>2, <1>4, <1>5 DEF ReadApart
<1>7. Guessed(q.seg) =>
       /\ q.seg.name[2] = Len(m.segs)
       /\ start <= q.seg.addr /\ q.seg.addr = start + q.global - q.prev
       /\ \A i \in DOMAIN m.segs : Guessed(m.segs[i]) => m.segs[i].addr <= q.seg.addr
       /\ \A e \in Ends(m) : Free(start, e) /\ e[1] < q.seg.addr => e[2] < q.seg.addr
  <2> SUFFICES ASSUME Guessed(p.seg)
               PROVE  /\ p.seg.name[2] = Len(m.segs)
                      /\ start <= p.seg.addr /\ p.seg.addr = start + q.global - q.prev
                      /\ \A i \in DOMAIN m.segs : Guessed(m.segs[i]) => m.segs[i].addr <= p.seg.addr
                      /\ \A e \in Ends(m) : Free(start, e) /\ e[1] < p.seg.addr => e[2] < p.seg.addr
    BY <1>1
  <2>1. /\ p.seg.name[2] = Len(m.segs)
        /\ start <= p.seg.addr /\ p.seg.addr = start + p.global - p.prev
        /\ \A i \in DOMAIN m.segs : Guessed(m.segs[i]) => m.segs[i].addr <= p.seg.addr
        /\ \A e \in Ends(m) : Free(start, e) /\ e[1] < p.seg.addr => e[2] < p.seg.addr
    BY <1>5 DEF ReadApart
  <2>2. start + q.global - q.prev = start + p.global - p.prev
    BY <1>1, <1>2
  <2>3. QED
    BY <2>1, <2>2
<1>8. q.seg # NoSeg /\ ~Guessed(q.seg) => q.seg.addr - start \in IdaBases
  BY <1>1, <1>5 DEF ReadApart
<1>9. q.proc # NoProc => q.seg # NoSeg /\ q.proc.seg = q.seg.addr
  BY <1>1, <1>5 DEF ReadApart
<1>10. \A e \in Ends(m) : Free(start, e) => start <= e[1] /\ e[2] <= start + q.global
  BY <1>2, <1>3, <1>5 DEF ReadApart
<1>11. QED
  BY <1>6, <1>7, <1>8, <1>9, <1>10 DEF Held, ReadApart, q

(* One more thing lies in the open segment, at the position.               *)
LEMMA HeldEnd ==
  ASSUME NEW start \in Nat, NEW m, MapOK(m), NEW w, MapOK(w), w.segs = m.segs,
         NEW p, PosOK(p), p.seg # NoSeg,
         \A e \in Ends(w) : e \in Ends(m) \/ e = <<p.seg.addr, p.seg.addr + p.prev>>,
         Held(start, m, p)
  PROVE  Held(start, w, p)
<1> DEFINE new == <<p.seg.addr, p.seg.addr + p.prev>>
<1>1. p.global \in Nat /\ p.prev \in Nat /\ p.seg.addr \in Nat
  BY PosParts
<1>2. new[1] = p.seg.addr /\ new[2] = p.seg.addr + p.prev
  OBVIOUS
<1> HIDE DEF new, NoSeg, NoProc
<1>3. MapApart(start, m) /\ ReadApart(start, m, p)
  BY DEF Held
<1>4. Free(start, new) => /\ Guessed(p.seg) /\ new[2] = start + p.global /\ start <= new[1]
                          /\ \A i \in DOMAIN m.segs : Guessed(m.segs[i]) => m.segs[i].addr <= new[1]
  <2> SUFFICES ASSUME Free(start, new)
               PROVE  /\ Guessed(p.seg) /\ new[2] = start + p.global /\ start <= new[1]
                      /\ \A i \in DOMAIN m.segs : Guessed(m.segs[i]) => m.segs[i].addr <= new[1]
    OBVIOUS
  <2>1. Guessed(p.seg)
    BY <1>2, <1>3 DEF ReadApart, Free
  <2>2. /\ start <= p.seg.addr /\ p.seg.addr = start + p.global - p.prev
        /\ \A i \in DOMAIN m.segs : Guessed(m.segs[i]) => m.segs[i].addr <= p.seg.addr
    BY <1>3, <2>1 DEF ReadApart
  <2>3. QED
    BY <1>1, <1>2, <2>1, <2>2
<1>5. \A i \in DOMAIN m.segs : m.segs[i].addr \in Nat
  BY SegmentsOfMap
<1>6. \A e \in Ends(w) : e \in Ends(m) \/ e = new
  BY DEF new
<1>7. MapApart(start, w)
  <2>1. ASSUME NEW e \in Ends(w), NEW i \in DOMAIN w.segs,
               Free(start, e), Guessed(w.segs[i]), e[1] < w.segs[i].addr
        PROVE  e[2] < w.segs[i].addr
    <3>1. CASE e \in Ends(m)
      BY <1>3, <2>1, <3>1 DEF MapApart
    <3>2. CASE e = new
      BY <1>1, <1>2, <1>4, <1>5, <2>1, <3>2
    <3>3. QED
      BY <1>6, <3>1, <3>2
  <2>2. QED
    BY <1>3, <2>1 DEF MapApart
<1>8. ReadApart(start, w, p)
  <2>1. ASSUME NEW e \in Ends(w), Free(start, e)
        PROVE  /\ start <= e[1] /\ e[2] <= start + p.global
               /\ Guessed(p.seg) /\ e[1] < p.seg.addr => e[2] < p.seg.addr
    <3>1. CASE e \in Ends(m)
      BY <1>3, <2>1, <3>1 DEF ReadApart
    <3>2. CASE e = new
      BY <1>1, <1>2, <1>4, <2>1, <3>2
    <3>3. QED
      BY <1>6, <3>1, <3>2
  <2>2. QED
    BY <1>3, <2>1 DEF ReadApart
<1>9. QED
  BY <1>7, <1>8 DEF Held

(* A procedure is opened, or closed.                                       *)
LEMMA HeldProc ==
  ASSUME NEW start, NEW m, NEW p, Held(start, m, p),
         NEW q, q.seg = p.seg, q.global = p.global, q.prev = p.prev,
         q.proc = NoProc \/ (p.seg # NoSeg /\ q.proc.seg = p.seg.addr)
  PROVE  Held(start, m, q)
<1> HIDE DEF NoSeg, NoProc
<1>1. QED
  BY DEF Held, ReadApart

(* A segment is opened where the one before ends, or where its name says.  *)
LEMMA HeldOpen ==
  ASSUME NEW start \in Nat, NEW m, MapOK(m), NEW p, PosOK(p), p.seg = NoSeg, Held(start, m, p),
         NEW q, q.global = Padded(p.global), q.prev = 0, q.proc = p.proc, q.seg # NoSeg,
         Guessed(q.seg) => /\ q.seg.name[2] = Len(m.segs)
                           /\ q.seg.addr = Padded(p.global) + start,
         ~Guessed(q.seg) => q.seg.addr - start \in IdaBases
  PROVE  Held(start, m, q)
<1>1. p.global \in Nat /\ Padded(p.global) \in Nat /\ p.global <= Padded(p.global)
      /\ (p.global # 0 => p.global < Padded(p.global))
      /\ (p.global = 0 => Padded(p.global) = 0)
  BY PosParts, PaddedIs
<1>2. \A i \in DOMAIN m.segs : m.segs[i].addr \in Nat
  BY SegmentsOfMap
<1>3. \A e \in Ends(m) : e[1] \in Int /\ e[2] \in Int
  BY EndsAre
<1> HIDE DEF NoSeg, NoProc
<1>4. MapApart(start, m) /\ ReadApart(start, m, p)
  BY DEF Held
<1>5. /\ \A i \in DOMAIN m.segs : Guessed(m.segs[i]) =>
           /\ m.segs[i].name[2] = i - 1
           /\ start <= m.segs[i].addr /\ m.segs[i].addr <= start + p.global
      /\ \A e \in Ends(m) : Free(start, e) => start <= e[1] /\ e[2] <= start + p.global
      /\ p.proc = NoProc
  BY <1>4 DEF ReadApart
<1> DEFINE at == Padded(p.global)
<1>6. at \in Nat /\ p.global <= at /\ q.global = at /\ (p.global = 0 \/ p.global < at)
      /\ (p.global = 0 => at = 0)
  BY <1>1
<1>7. Guessed(q.seg) => q.seg.name[2] = Len(m.segs) /\ q.seg.addr = at + start
  OBVIOUS
<1> HIDE DEF at
<1>8. \A i \in DOMAIN m.segs : Guessed(m.segs[i]) =>
        /\ m.segs[i].name[2] = i - 1
        /\ start <= m.segs[i].addr /\ m.segs[i].addr <= start + q.global
  BY <1>1, <1>2, <1>5, <1>6
<1>9. ASSUME Guessed(q.seg)
      PROVE  /\ q.seg.name[2] = Len(m.segs)
             /\ start <= q.seg.addr /\ q.seg.addr = start + q.global - q.prev
             /\ \A i \in DOMAIN m.segs : Guessed(m.segs[i]) => m.segs[i].addr <= q.seg.addr
             /\ \A e \in Ends(m) : Free(start, e) /\ e[1] < q.seg.addr => e[2] < q.seg.addr
  <2>1. q.seg.name[2] = Len(m.segs) /\ q.seg.addr = start + at /\ q.seg.addr \in Nat
    BY <1>6, <1>7, <1>9
  <2>2. \A i \in DOMAIN m.segs : Guessed(m.segs[i]) => m.segs[i].addr <= q.seg.addr
    BY <1>6, <1>8, <2>1
  <2>3. ASSUME NEW e \in Ends(m), Free(start, e), e[1] < q.seg.addr
        PROVE  e[2] < q.seg.addr
    <3>1. start <= e[1] /\ e[2] <= start + p.global /\ e[1] \in Int /\ e[2] \in Int
      BY <1>3, <1>5, <2>3
    <3>2. QED
      BY <1>1, <1>6, <2>1, <2>3, <3>1
  <2>4. QED
    BY <1>6, <2>1, <2>2, <2>3
<1>10. \A e \in Ends(m) : Free(start, e) => start <= e[1] /\ e[2] <= start + q.global
  BY <1>1, <1>3, <1>5, <1>6
<1>11. ReadApart(start, m, q)
  BY <1>5, <1>8, <1>9, <1>10 DEF ReadApart
<1>12. QED
  BY <1>4, <1>11 DEF Held

(* The open segment is listed.                                             *)
LEMMA HeldClose ==
  ASSUME NEW start \in Nat, NEW m, MapOK(m), NEW p, PosOK(p), p.seg # NoSeg, p.proc = NoProc,
         Held(start, m, p),
         NEW w, w.segs = Append(m.segs, p.seg), Ends(w) = Ends(m),
         NEW q, q.seg = NoSeg, q.global = p.global, q.proc = NoProc
  PROVE  Held(start, w, q)
<1>1. PICK n \in Nat : DOMAIN m.segs = 1..n /\ m.segs \in [1..n -> SegT]
  BY SegmentsOfMap
<1>2. p.global \in Nat /\ p.prev \in Nat /\ p.seg.addr \in Nat /\ p.seg \in SegT
  BY PosParts
<1> HIDE DEF SegT
<1>3. /\ DOMAIN w.segs = 1..(n + 1) /\ w.segs[n + 1] = p.seg /\ Len(m.segs) = n
      /\ \A i \in 1..n : w.segs[i] = m.segs[i]
  BY <1>1, <1>2
<1>4. ~Guessed(q.seg)
  BY NoSegIs
<1> HIDE DEF NoSeg, NoProc
<1>5. MapApart(start, m) /\ ReadApart(start, m, p)
  BY DEF Held
<1>6. \A i \in 1..n : Guessed(m.segs[i]) =>
           /\ m.segs[i].name[2] = i - 1
           /\ start <= m.segs[i].addr /\ m.segs[i].addr <= start + p.global
  BY <1>1, <1>5 DEF ReadApart
<1>7. Guessed(p.seg) =>
        /\ p.seg.name[2] = n /\ start <= p.seg.addr /\ p.seg.addr = start + p.global - p.prev
        /\ \A i \in 1..n : Guessed(m.segs[i]) => m.segs[i].addr <= p.seg.addr
        /\ \A e \in Ends(m) : Free(start, e) /\ e[1] < p.seg.addr => e[2] < p.seg.addr
  BY <1>1, <1>3, <1>5 DEF ReadApart
<1>8. Guessed(p.seg) => p.seg.addr <= start + p.global
  BY <1>2, <1>7
<1>9. ASSUME NEW i \in 1..(n + 1), Guessed(w.segs[i])
      PROVE  /\ w.segs[i].name[2] = i - 1
             /\ start <= w.segs[i].addr /\ w.segs[i].addr <= start + p.global
  <2>1. CASE i \in 1..n
    BY <1>3, <1>6, <1>9, <2>1
  <2>2. CASE i = n + 1
    <3>1. w.segs[i] = p.seg /\ Guessed(p.seg) /\ i - 1 = n
      BY <1>1, <1>3, <1>9, <2>2
    <3>2. QED
      BY <1>7, <1>8, <3>1
  <2>3. QED
    BY <1>1, <2>1, <2>2
<1>10. ASSUME NEW i \in 1..(n + 1), NEW j \in 1..(n + 1), Guessed(w.segs[i]), Guessed(w.segs[j]),
              w.segs[i].name[2] < w.segs[j].name[2]
       PROVE  w.segs[i].addr <= w.segs[j].addr
  <2>1. w.segs[i].name[2] = i - 1 /\ w.segs[j].name[2] = j - 1
    BY <1>9, <1>10
  <2>2. i < j
    BY <1>10, <2>1
  <2>3. CASE j \in 1..n
    <3>1. i \in 1..n
      BY <2>2, <2>3
    <3>2. QED
      BY <1>1, <1>3, <1>5, <1>10, <2>3, <3>1 DEF MapApart
  <2>4. CASE j = n + 1
    <3>1. i \in 1..n
      BY <2>2, <2>4
    <3>2. w.segs[j] = p.seg /\ Guessed(p.seg)
      BY <1>3, <1>10, <2>4
    <3>3. w.segs[i] = m.segs[i] /\ Guessed(m.segs[i])
      BY <1>3, <1>10, <3>1
    <3>4. m.segs[i].addr <= p.seg.addr
      BY <1>7, <3>1, <3>2, <3>3
    <3>5. QED
      BY <3>2, <3>3, <3>4
  <2>5. QED
    BY <1>1, <2>3, <2>4
<1>11. ASSUME NEW e \in Ends(w), NEW i \in 1..(n + 1), Free(start, e), Guessed(w.segs[i]),
              e[1] < w.segs[i].addr
       PROVE  e[2] < w.segs[i].addr
  <2>1. CASE i \in 1..n
    BY <1>1, <1>3, <1>5, <1>11, <2>1 DEF MapApart
  <2>2. CASE i = n + 1
    <3>1. w.segs[i] = p.seg /\ Guessed(p.seg)
      BY <1>3, <1>11, <2>2
    <3>2. e \in Ends(m) /\ e[1] < p.seg.addr
      BY <1>11, <3>1
    <3>3. e[2] < p.seg.addr
      BY <1>7, <1>11, <3>1, <3>2
    <3>4. QED
      BY <3>1, <3>3
  <2>3. QED
    BY <1>1, <2>1, <2>2
<1>12. MapApart(start, w)
  BY <1>3, <1>10, <1>11 DEF MapApart
<1>13. \A e \in Ends(w) : Free(start, e) => start <= e[1] /\ e[2] <= start + q.global
  BY <1>5 DEF ReadApart
<1>14. ReadApart(start, w, q)
  BY <1>3, <1>4, <1>9, <1>13 DEF ReadApart
<1>15. QED
  BY <1>12, <1>14 DEF Held
(* A line that is read.                                                    *)
LEMMA LineHeld ==
  ASSUME Skip, NEW m, NEW p, PosOK(p), NEW off \in Nat, Line(m, p, off),
         off >= p.prev => Held(load, m, Moved(p, off))
  PROVE  Apart'
<1>1. load' = load
  BY DEF Skip
<1>2. CASE off < p.prev
  BY <1>2, NewFileOK DEF Line, Refuse, Apart
<1>3. CASE ~(off < p.prev)
  <2>1. off >= p.prev
    BY <1>3, PosParts
  <2>2. map' = m /\ pos' = Moved(p, off)
    BY <1>3 DEF Line, Parsed
  <2>3. QED
    BY <1>1, <2>1, <2>2 DEF Held, Apart
<1>4. QED
  BY <1>2, <1>3

LEMMA LineMoved ==
  ASSUME Typed, Skip, NEW m, MapOK(m), NEW p, PosOK(p), Held(load, m, p),
         NEW off \in Nat, Line(m, p, off)
  PROVE  Apart'
<1>1. load \in Nat
  BY Numbers DEF Typed
<1>2. off >= p.prev => Held(load, m, Moved(p, off))
  BY <1>1, HeldMoved
<1>3. QED
  BY <1>2, LineHeld

LEMMA OpenSegment ==
  ASSUME NEW p, PosOK(p), p.seg.type = "NONE"
  PROVE  p.seg = NoSeg
<1>1. p.seg \in SegT \cup {NoSeg}
  BY PosParts
<1>2. \A s \in SegT : s.type # "NONE"
  BY DEF SegT, LineTypes
<1>3. QED
  BY <1>1, <1>2

LEMMA IdaSegmentApart ==
  ASSUME Typed, Skip, Held(load, map, pos), IdaSegment
  PROVE  Apart'
<1>1. load \in Nat /\ MapOK(map) /\ PosOK(pos) /\ Offsets \subseteq Nat
  BY Numbers DEF Typed
<1>2. PICK base \in IdaBases, type \in {"CODE", "DATA"}, off \in Offsets :
        LET at == Padded(pos.global)
            addr == (IF base = NoBase THEN at ELSE base) + load
            seg == [name |-> IF base = NoBase THEN <<"name", Len(map.segs)>> ELSE <<"seg", base>>,
                    type |-> type, addr |-> addr, def |-> FALSE]
        IN IF pos.seg.type # "NONE" THEN Refuse
           ELSE Line(map, [pos EXCEPT !.global = at, !.seg = seg, !.prev = 0], off)
  BY DEF IdaSegment
<1> DEFINE at == Padded(pos.global)
           seg == [name |-> IF base = NoBase THEN <<"name", Len(map.segs)>> ELSE <<"seg", base>>,
                   type |-> type, addr |-> (IF base = NoBase THEN at ELSE base) + load,
                   def |-> FALSE]
           p == [pos EXCEPT !.global = at, !.seg = seg, !.prev = 0]
<1>3. CASE pos.seg.type # "NONE"
  BY <1>2, <1>3, NewFileOK DEF Refuse, Apart
<1>4. CASE pos.seg.type = "NONE"
  <2>1. Line(map, p, off)
    BY <1>2, <1>4
  <2>2. pos.seg = NoSeg
    BY <1>1, <1>4, OpenSegment
  <2>3. at \in Nat
    BY <1>1, PosParts, PaddedIs
  <2>4. seg \in SegT
    BY <2>3, AutoSegIs
  <2>5. seg # NoSeg
    <3>1. seg.type # "NONE"
      OBVIOUS
    <3>2. NoSeg.type = "NONE"
      BY DEF NoSeg
    <3>3. QED
      BY ONLY <3>1, <3>2
  <2>6. Guessed(seg) => base = NoBase
    BY DEF Guessed
  <2>7. base = NoBase => seg.name[2] = Len(map.segs) /\ seg.addr = at + load
    OBVIOUS
  <2>8. ~Guessed(seg) => seg.addr - load \in IdaBases
    <3>1. base = NoBase => Guessed(seg)
      BY DEF Guessed
    <3>2. base # NoBase => seg.addr = base + load /\ base \in Nat
      BY Numbers
    <3>3. base # NoBase => seg.addr - load = base
      BY <1>1, <3>2
    <3>4. QED
      BY <3>1, <3>3
  <2> HIDE DEF at, seg, NoSeg, SegT
  <2>9. /\ PosOK(p) /\ p.seg = seg /\ p.proc = pos.proc /\ p.global = at /\ p.prev = 0
    <3>1. PosOK(p)
      BY <1>1, <2>3, <2>4, WithPlace
    <3>2. p.seg = seg /\ p.proc = pos.proc /\ p.global = at /\ p.prev = 0
      BY <1>1 DEF PosOK, PosT
    <3>3. QED
      BY <3>1, <3>2
  <2> HIDE DEF p
  <2>10. /\ Guessed(p.seg) => p.seg.name[2] = Len(map.segs) /\ p.seg.addr = at + load
         /\ ~Guessed(p.seg) => p.seg.addr - load \in IdaBases
         /\ p.seg # NoSeg
    BY <2>5, <2>6, <2>7, <2>8, <2>9
  <2>11. Held(load, map, p)
    BY <1>1, <2>2, <2>9, <2>10, HeldOpen DEF at
  <2>12. QED
    BY <1>1, <2>1, <2>9, <2>11, LineMoved
<1>5. QED
  BY <1>3, <1>4

LEMMA SameEnds ==
  ASSUME NEW m, NEW w, w.routines = m.routines, w.vars = m.vars
  PROVE  Ends(w) = Ends(m)
BY DEF Ends

LEMMA IdaEndsApart ==
  ASSUME Typed, Skip, Held(load, map, pos), IdaEnds
  PROVE  Apart'
<1>1. load \in Nat /\ MapOK(map) /\ PosOK(pos) /\ Offsets \subseteq Nat
  BY Numbers DEF Typed
<1>2. pos.seg # NoSeg /\ pos.proc = NoProc
  BY DEF IdaEnds
<1>3. PICK off \in Offsets :
        Line([map EXCEPT !.segs = Append(@, pos.seg)], [pos EXCEPT !.seg = NoSeg], off)
  BY DEF IdaEnds
<1> DEFINE w == [map EXCEPT !.segs = Append(@, pos.seg)]
           q == [pos EXCEPT !.seg = NoSeg]
<1> HIDE DEF NoSeg, NoProc, SegT
<1>4. Append(map.segs, pos.seg) \in Seq(SegT)
  BY <1>1, <1>2, PosParts DEF MapOK, MapT
<1>5. MapOK(w)
  BY <1>1, <1>4, WithSegs
<1>6. w.segs = Append(map.segs, pos.seg) /\ w.routines = map.routines /\ w.vars = map.vars
  BY <1>1 DEF MapOK, MapT
<1>7. PosOK(q)
  BY <1>1, PosParts
<1>8. q.seg = NoSeg /\ q.global = pos.global /\ q.proc = pos.proc /\ q.prev = pos.prev
  BY <1>1 DEF PosOK, PosT
<1>9. Line(w, q, off)
  BY <1>3
<1> HIDE DEF w, q
<1>10. Ends(w) = Ends(map)
  BY <1>6, SameEnds
<1>11. Held(load, w, q)
  BY <1>1, <1>2, <1>6, <1>8, <1>10, HeldClose
<1>12. QED
  BY <1>1, <1>5, <1>7, <1>9, <1>11, LineMoved

LEMMA IdaProcApart ==
  ASSUME Typed, Skip, Held(load, map, pos), IdaProc
  PROVE  Apart'
<1>1. load \in Nat /\ MapOK(map) /\ PosOK(pos) /\ Offsets \subseteq Nat
  BY Numbers DEF Typed
<1>2. pos.seg # NoSeg
  BY DEF IdaProc
<1>3. PICK off \in Offsets, name \in 1..MaxRoutines, near \in BOOLEAN :
        \/ Refuse
        \/ Line(map, [pos EXCEPT !.proc = [name |-> name, seg |-> pos.seg.addr,
                                           off |-> off, near |-> near]], off)
  BY DEF IdaProc
<1> DEFINE r == [name |-> name, seg |-> pos.seg.addr, off |-> off, near |-> near]
           q == [pos EXCEPT !.proc = r]
<1> HIDE DEF NoSeg, SegT
<1>4. r \in [name : Nat, seg : Nat, off : Nat, near : BOOLEAN] /\ r.seg = pos.seg.addr
  BY <1>1, <1>2, PosParts, Numbers
<1>5. Refuse \/ Line(map, q, off)
  BY <1>3
<1> HIDE DEF r, NoProc
<1>6. PosOK(q)
  BY <1>1, <1>4, PosParts
<1>7. q.seg = pos.seg /\ q.global = pos.global /\ q.proc = r /\ q.prev = pos.prev
  BY <1>1 DEF PosOK, PosT
<1> HIDE DEF q
<1>8. Held(load, map, q)
  BY <1>2, <1>4, <1>7, HeldProc
<1>9. CASE Refuse
  BY <1>9, NewFileOK DEF Refuse, Apart
<1>10. QED
  BY <1>1, <1>5, <1>6, <1>8, <1>9, LineMoved

LEMMA IdaEndpApart ==
  ASSUME Typed, Skip, Held(load, map, pos), IdaEndp
  PROVE  Apart'
<1>1. load \in Nat /\ MapOK(map) /\ PosOK(pos) /\ Offsets \subseteq Nat
  BY Numbers DEF Typed
<1>2. pos.seg # NoSeg
  BY DEF IdaEndp
<1>3. PICK off \in Offsets, name \in 1..MaxRoutines :
        LET p == pos.proc
            routine == [seg |-> p.seg, near |-> p.near, lo |-> p.seg + p.off,
                        hi |-> pos.seg.addr + off, reach |-> {}, unreach |-> {}, tags |-> {}]
        IN IF p = NoProc \/ p.name # name THEN Refuse
           ELSE Line([map EXCEPT !.routines = @ \cup {routine}],
                     [pos EXCEPT !.proc = NoProc], off)
  BY DEF IdaEndp
<1> DEFINE r == [seg |-> pos.proc.seg, near |-> pos.proc.near,
                 lo |-> pos.proc.seg + pos.proc.off,
                 hi |-> pos.seg.addr + off, reach |-> {}, unreach |-> {}, tags |-> {}]
           w == [map EXCEPT !.routines = @ \cup {r}]
           q == [pos EXCEPT !.proc = NoProc]
<1>4. CASE pos.proc = NoProc \/ pos.proc.name # name
  BY <1>3, <1>4, NewFileOK DEF Refuse, Apart
<1>5. CASE ~(pos.proc = NoProc \/ pos.proc.name # name)
  <2>1. Line(w, q, off)
    BY <1>3, <1>5
  <2>2. NoProc \in [name : Nat, seg : Nat, off : Nat, near : BOOLEAN]
    BY DEF NoProc
  <2> HIDE DEF NoSeg, SegT, NoProc
  <2>3. pos.proc.seg = pos.seg.addr
    BY <1>5 DEF Held, ReadApart
  <2>4. /\ pos.proc.seg \in Int /\ pos.proc.near \in BOOLEAN
        /\ pos.proc.seg + pos.proc.off \in Int /\ pos.seg.addr + off \in Int
    BY <1>1, <1>2, PosParts
  <2>5. r \in RoutineT /\ Sound(r)
    BY <2>4, BareRoutine
  <2>6. r.seg = pos.seg.addr /\ r.hi = pos.seg.addr + off
    BY <2>3
  <2> HIDE DEF r
  <2>7. MapOK(w)
    BY <1>1, <2>5, WithOneMore
  <2>8. w.segs = map.segs /\ w.routines = map.routines \cup {r} /\ w.vars = map.vars
    BY <1>1 DEF MapOK, MapT
  <2>9. PosOK(q)
    BY <1>1, <2>2, PosParts
  <2>10. q.seg = pos.seg /\ q.global = pos.global /\ q.proc = NoProc /\ q.prev = pos.prev
    BY <1>1 DEF PosOK, PosT
  <2> HIDE DEF w, q
  <2>11. Held(load, map, q)
    BY <2>10, HeldProc
  <2>12. ASSUME off >= q.prev PROVE Held(load, w, Moved(q, off))
    <3> DEFINE p == Moved(q, off)
    <3>1. /\ PosOK(p) /\ p.seg = pos.seg /\ p.prev = off
      BY <1>1, <2>9, <2>10, <2>12, MovedOK
    <3>2. Held(load, map, p)
      BY <1>1, <2>9, <2>11, <2>12, HeldMoved
    <3> HIDE DEF p
    <3>3. \A e \in Ends(w) : e \in Ends(map) \/ e = <<p.seg.addr, p.seg.addr + p.prev>>
      BY <2>6, <2>8, <3>1 DEF Ends
    <3>4. Held(load, w, p)
      BY <1>1, <1>2, <2>7, <2>8, <3>1, <3>2, <3>3, HeldEnd
    <3>5. QED
      BY <3>4 DEF p
  <2>13. QED
    BY <1>1, <2>1, <2>9, <2>12, LineHeld
<1>6. QED
  BY <1>4, <1>5

LEMMA IdaDataApart ==
  ASSUME Typed, Skip, Held(load, map, pos), IdaData
  PROVE  Apart'
<1>1. load \in Nat /\ MapOK(map) /\ PosOK(pos) /\ Offsets \subseteq Nat
  BY Numbers DEF Typed
<1>2. pos.seg # NoSeg
  BY DEF IdaData
<1>3. PICK off \in Offsets :
        Line([map EXCEPT !.vars = @ \cup {[seg |-> pos.seg.addr, lin |-> pos.seg.addr + off]}],
             pos, off)
  BY DEF IdaData
<1> DEFINE v == [seg |-> pos.seg.addr, lin |-> pos.seg.addr + off]
           w == [map EXCEPT !.vars = @ \cup {v}]
<1> HIDE DEF NoSeg, SegT
<1>4. v \in VarT /\ v.seg = pos.seg.addr /\ v.lin = pos.seg.addr + off
  BY <1>1, <1>2, PosParts DEF VarT
<1>5. Line(w, pos, off)
  BY <1>3
<1> HIDE DEF v
<1>6. MapOK(w)
  BY <1>1, <1>4, WithVar
<1>7. w.segs = map.segs /\ w.routines = map.routines /\ w.vars = map.vars \cup {v}
  BY <1>1 DEF MapOK, MapT
<1> HIDE DEF w
<1>8. ASSUME off >= pos.prev PROVE Held(load, w, Moved(pos, off))
  <2> DEFINE p == Moved(pos, off)
  <2>1. PosOK(p) /\ p.seg = pos.seg /\ p.prev = off
    BY <1>1, <1>8, MovedOK
  <2>2. Held(load, map, p)
    BY <1>1, <1>8, HeldMoved
  <2> HIDE DEF p
  <2>3. \A e \in Ends(w) : e \in Ends(map) \/ e = <<p.seg.addr, p.seg.addr + p.prev>>
    BY <1>4, <1>7, <2>1 DEF Ends
  <2>4. Held(load, w, p)
    BY <1>1, <1>2, <1>6, <1>7, <2>1, <2>2, <2>3, HeldEnd
  <2>5. QED
    BY <2>4 DEF p
<1>9. QED
  BY <1>1, <1>5, <1>8, LineHeld
LEMMA IdaLinesApart ==
  ASSUME Typed, Apart,
         IdaLength \/ IdaSegment \/ IdaEnds \/ IdaProc \/ IdaEndp \/ IdaData \/ IdaOther
  PROVE  Apart'
<1>1. /\ phase = "reading" /\ format = "ida" /\ Skip
      /\ MapOK(map) /\ PosOK(pos) /\ map.ida
  BY DEF Typed, IdaLength, IdaSegment, IdaEnds, IdaProc, IdaEndp, IdaData, IdaOther, Reading
<1>2. Held(load, map, pos)
  BY <1>1 DEF Apart, Held
<1>3. CASE IdaLength
  <2>1. PICK n \in Sizes : map' = [map EXCEPT !.size = n] /\ pos' = pos
    BY <1>3 DEF IdaLength, Parsed
  <2>2. map'.segs = map.segs /\ map'.routines = map.routines /\ map'.vars = map.vars
    BY <1>1, <2>1 DEF MapOK, MapT
  <2>3. Ends(map') = Ends(map)
    BY <2>2, SameEnds
  <2>4. Held(load, map', pos)
    BY <1>2, <2>2, <2>3 DEF Held, MapApart, ReadApart
  <2>5. load' = load
    BY <1>1 DEF Skip
  <2>6. QED
    BY <2>1, <2>4, <2>5 DEF Held, Apart
<1>4. CASE IdaOther
  <2>1. PICK off \in Offsets : Line(map, pos, off)
    BY <1>4 DEF IdaOther
  <2>2. off \in Nat
    BY Numbers
  <2>3. QED
    BY <1>1, <1>2, <2>1, <2>2, LineMoved
<1>5. QED
  BY <1>1, <1>2, <1>3, <1>4, IdaSegmentApart, IdaEndsApart, IdaProcApart, IdaEndpApart,
     IdaDataApart

(* The order of the segments changes nothing of it.                        *)
LEMMA OrderedApart ==
  ASSUME NEW m, MapOK(m), m.ida, NEW start, MapApart(start, m)
  PROVE  MapApart(start, InOrder(m))
<1> DEFINE o == InOrder(m)
<1>1. o.routines = m.routines /\ o.vars = m.vars
  BY InOrderParts
<1>2. PICK n \in Nat : DOMAIN m.segs = 1..n /\ m.segs \in [1..n -> SegT]
  BY SegmentsOfMap
<1>3. o.segs \in [1..n -> SegT]
  BY <1>2, SegsInOrder
<1>4. DOMAIN o.segs = 1..n
  BY <1>3
<1>5. ASSUME NEW k \in 1..n
      PROVE  \E i \in 1..n : o.segs[k].addr = m.segs[i].addr /\ o.segs[k].name = m.segs[i].name
  BY <1>2, SegsInOrderHave
<1> HIDE DEF o
<1>6. Ends(o) = Ends(m)
  BY <1>1, SameEnds
<1>7. ASSUME NEW j \in 1..n, NEW k \in 1..n, Guessed(o.segs[j]), Guessed(o.segs[k]),
             o.segs[j].name[2] < o.segs[k].name[2]
      PROVE  o.segs[j].addr <= o.segs[k].addr
  <2>1. PICK i \in 1..n : o.segs[j].addr = m.segs[i].addr /\ o.segs[j].name = m.segs[i].name
    BY <1>5
  <2>2. PICK l \in 1..n : o.segs[k].addr = m.segs[l].addr /\ o.segs[k].name = m.segs[l].name
    BY <1>5
  <2>3. Guessed(m.segs[i]) /\ Guessed(m.segs[l]) /\ m.segs[i].name[2] < m.segs[l].name[2]
    BY <1>7, <2>1, <2>2 DEF Guessed
  <2>4. m.segs[i].addr <= m.segs[l].addr
    BY <1>2, <2>3 DEF MapApart
  <2>5. QED
    BY <2>1, <2>2, <2>4
<1>8. ASSUME NEW e \in Ends(o), NEW k \in 1..n, Free(start, e), Guessed(o.segs[k]),
             e[1] < o.segs[k].addr
      PROVE  e[2] < o.segs[k].addr
  <2>1. PICK i \in 1..n : o.segs[k].addr = m.segs[i].addr /\ o.segs[k].name = m.segs[i].name
    BY <1>5
  <2>2. e \in Ends(m) /\ Guessed(m.segs[i]) /\ e[1] < m.segs[i].addr
    BY <1>6, <1>8, <2>1 DEF Guessed
  <2>3. e[2] < m.segs[i].addr
    BY <1>2, <1>8, <2>2 DEF MapApart
  <2>4. QED
    BY <2>1, <2>3
<1>9. MapApart(start, o)
  BY <1>4, <1>7, <1>8 DEF MapApart
<1>10. QED
  BY <1>9 DEF o

LEMMA ConstructApart ==
  ASSUME Typed, NEW m, Construct(m), load' = load, m.ida => MapApart(load, m)
  PROVE  Apart'
<1>1. CASE map' = NewFile
  BY <1>1, NewFileOK DEF Apart
<1>2. CASE phase' = "mapping" /\ map' = m
  BY <1>2 DEF Apart
<1>3. QED
  BY <1>1, <1>2, ConstructIs

LEMMA ApartInit ==
  ASSUME Init
  PROVE  Apart
<1>1. pos = Start /\ map = [NewFile EXCEPT !.ida = (format = "ida")]
  BY DEF Init
<1>2. map.segs = << >> /\ map.routines = {} /\ map.vars = {}
  BY <1>1 DEF NewFile
<1>3. Ends(map) = {}
  BY <1>2 DEF Ends
<1>4. DOMAIN map.segs = {}
  BY <1>2
<1>5. pos.seg = NoSeg /\ pos.proc = NoProc /\ ~Guessed(pos.seg)
  BY <1>1, NoSegIs DEF Start
<1> HIDE DEF NoSeg, NoProc
<1>6. MapApart(load, map) /\ ReadApart(load, map, pos)
  BY <1>3, <1>4, <1>5 DEF MapApart, ReadApart
<1>7. QED
  BY <1>6 DEF Apart

LEMMA StepApart ==
  ASSUME Typed, Walking, Apart, [Next]_state
  PROVE  Apart'
<1>1. CASE Reads
  <2>1. phase = "reading" /\ format' = format
    BY <1>1, ReadsIs
  <2>2. CASE format = "ida"
    <3>1. IdaLength \/ IdaSegment \/ IdaEnds \/ IdaProc \/ IdaEndp \/ IdaData \/ IdaOther
      BY <1>1, <2>2 DEF Reads, MapSize, MapSegment, MapVariable, MapRoutine,
                        LinkHeading, LinkSegment, LinkGroup, LinkPublic, Reading
    <3>2. QED
      BY <3>1, IdaLinesApart
  <2>3. CASE format # "ida"
    <3>1. ~map'.ida
      BY <1>1, <2>1, <2>3, ReadsKeep DEF Typed
    <3>2. QED
      BY <3>1 DEF Apart
  <2>4. QED
    BY <2>2, <2>3
<1>2. CASE EndOfFile
  <2>1. /\ phase = "reading" /\ load' = load
        /\ \/ phase' = "failed" /\ map' = NewFile
           \/ Construct(IF format = "link" THEN LinkMap ELSE map)
    BY <1>2 DEF EndOfFile
  <2>2. CASE map' = NewFile
    BY <2>2, NewFileOK DEF Apart
  <2>3. CASE Construct(IF format = "link" THEN LinkMap ELSE map)
    <3> DEFINE m == IF format = "link" THEN LinkMap ELSE map
    <3>1. m.ida => MapApart(load, m)
      <4>1. CASE format = "link"
        <5>1. ~LinkMap.ida
          BY <4>1, LinkMapOK DEF Typed
        <5>2. QED
          BY <4>1, <5>1
      <4>2. CASE format # "link"
        BY <4>2 DEF Apart
      <4>3. QED
        BY <4>1, <4>2
    <3>2. Construct(m)
      BY <2>3
    <3> HIDE DEF m
    <3>3. QED
      BY <2>1, <3>1, <3>2, ConstructApart
  <2>4. QED
    BY <2>1, <2>2, <2>3
<1>3. CASE MapNextByte
  <2>1. map' = map /\ load' = load /\ phase' = phase /\ phase = "mapping"
    BY <1>3 DEF MapNextByte
  <2>2. QED
    BY <2>1 DEF Apart
<1>4. CASE MapEnd
  <2>1. load' = load
    BY <1>4 DEF MapEnd
  <2>2. CASE map' = NewFile
    BY <2>2, NewFileOK DEF Apart
  <2>3. CASE /\ phase' = "loaded"
             /\ \E U \in SUBSET UnclaimedT : map' = InOrder([map EXCEPT !.unclaimed = U])
    <3>1. PICK U \in SUBSET UnclaimedT : map' = InOrder([map EXCEPT !.unclaimed = U])
      BY <2>3
    <3> DEFINE w == [map EXCEPT !.unclaimed = U]
    <3>2. MapOK(map)
      BY DEF Typed
    <3>3. /\ MapOK(w) /\ w.ida = map.ida /\ w.segs = map.segs
          /\ w.routines = map.routines /\ w.vars = map.vars
      BY <3>2, OtherUnclaimed
    <3>4. map' = InOrder(w)
      BY <3>1
    <3> HIDE DEF w
    <3>5. CASE map.ida
      <4>1. MapApart(load, w)
        <5>1. Ends(w) = Ends(map)
          BY <3>3, SameEnds
        <5>2. QED
          BY <3>3, <3>5, <5>1 DEF Apart, MapApart
      <4>2. MapApart(load, map')
        BY <3>3, <3>4, <3>5, <4>1, OrderedApart
      <4>3. QED
        BY <2>1, <2>3, <4>2 DEF Apart
    <3>6. CASE ~map.ida
      <4>1. ~map'.ida
        BY <3>3, <3>4, <3>6, InOrderParts
      <4>2. QED
        BY <4>1 DEF Apart
    <3>7. QED
      BY <3>5, <3>6
  <2>4. QED
    BY <1>4, <2>2, <2>3, MapEndIs
<1>5. CASE SaveAndReload
  <2>1. format' = "map" /\ Typed'
    BY <1>5, SaveKeeps DEF SaveAndReload
  <2>2. ~map'.ida
    BY <2>1 DEF Typed
  <2>3. QED
    BY <2>2 DEF Apart
<1>6. CASE UNCHANGED state
  BY <1>6 DEF state, Apart
<1>7. QED
  BY <1>1, <1>2, <1>3, <1>4, <1>5, <1>6 DEF Next, Reads

LEMMA ApartAlways == Spec => [](Typed /\ Walking /\ Apart)
<1>1. Init => Typed /\ Walking /\ Apart
  BY WalkingInit, ApartInit
<1>2. Typed /\ Walking /\ Apart /\ [Next]_state => (Typed /\ Walking /\ Apart)'
  BY StepKeeps, StepApart
<1>3. QED
  BY <1>1, <1>2, PTL DEF Spec

(* The segments of a listing do not run into each other: what lies in one  *)
(* ends below every base that was guessed after it (loadFromIdaFile pads   *)
(* the position to the next paragraph when it meets a segment). *)
THEOREM IdaSegmentsAlwaysApart == Spec => []IdaSegmentsApart
<1>1. Typed /\ Apart => IdaSegmentsApart
  <2> SUFFICES ASSUME Typed, Apart, Done, map.ida,
                      NEW s \in ToSet(map.segs), NEW t \in ToSet(map.segs),
                      s.name[1] = "name", t.name[1] = "name", s.name[2] < t.name[2],
                      s.addr # t.addr, s.addr - load \notin IdaBases
               PROVE  /\ \A r \in map.routines : r.seg = s.addr => r.hi < t.addr
                      /\ \A v \in map.vars : v.seg = s.addr => v.lin < t.addr
    BY DEF IdaSegmentsApart
  <2>1. MapApart(load, map) /\ MapOK(map)
    BY DEF Apart, Typed
  <2>2. PICK i \in DOMAIN map.segs : s = map.segs[i]
    BY DEF ToSet
  <2>3. PICK j \in DOMAIN map.segs : t = map.segs[j]
    BY DEF ToSet
  <2>4. s.addr \in Nat /\ t.addr \in Nat
    BY <2>1, <2>2, <2>3, SegmentsOfMap
  <2>5. Guessed(s) /\ Guessed(t)
    BY DEF Guessed
  <2>6. s.addr < t.addr
    <3>1. s.addr <= t.addr
      BY <2>1, <2>2, <2>3, <2>5 DEF MapApart
    <3>2. QED
      BY <2>4, <3>1
  <2>7. ASSUME NEW e \in Ends(map), e[1] = s.addr PROVE e[2] < t.addr
    <3>1. Free(load, e) /\ e[1] < t.addr
      BY <2>6, <2>7 DEF Free
    <3>2. QED
      BY <2>1, <2>3, <2>5, <3>1 DEF MapApart
  <2>8. ASSUME NEW r \in map.routines, r.seg = s.addr PROVE r.hi < t.addr
    <3>1. <<r.seg, r.hi>> \in Ends(map)
      BY DEF Ends
    <3>2. QED
      BY <2>7, <2>8, <3>1
  <2>9. ASSUME NEW v \in map.vars, v.seg = s.addr PROVE v.lin < t.addr
    <3>1. <<v.seg, v.lin>> \in Ends(map)
      BY DEF Ends
    <3>2. QED
      BY <2>7, <2>9, <3>1
  <2>10. QED
    BY <2>8, <2>9
<1>2. QED
  BY <1>1, ApartAlways, PTL
-----------------------------------------------------------------------------
(* Saving and reading again loses nothing.                                 *)

(* Where a block that was opened at the start ends, in whatever order the  *)
(* segments are: at the end, where an owner begins, at a gap, or where a   *)
(* segment begins past the start. *)
In(table, b) == \E i \in DOMAIN table : InSegment(b, table[i].addr)
HomeBase(start) == (start \div SegSize) * SegSize

Stops(start, table, V, end, k) ==
  \/ k = end \/ (k < end /\ V[k] # 0) \/ ~In(table, k)
  \/ \E i \in DOMAIN table : start < table[i].addr /\ table[i].addr <= k

(* There is no such block, or it ends within the segment it is opened in.  *)
Short(start, table, V, end) ==
  \/ end = start \/ V[start] # 0 \/ ~In(table, start)
  \/ \E k \in (start + 1)..end : Stops(start, table, V, end, k)
                                 /\ k - 1 - HomeBase(start) < SegSize

(* That block is open. *)
FirstOpen(start, c, end) ==
  /\ c.status = "mapping" /\ c.off \in (start + 1)..end
  /\ c.open = [seg |-> HomeBase(start), lin |-> start] /\ c.prevId = 0

LEMMA GapIs ==
  ASSUME NEW n \in Nat, NEW table \in [1..n -> SegT], NEW off \in Int
  PROVE  Build!FindSegment(table, off) = Build!NoSegment <=> ~In(table, off)
<1>1. DOMAIN table = 1..n
  OBVIOUS
<1>2. CASE In(table, off)
  <2>1. PICK i \in 1..n : InSegment(off, table[i].addr)
    BY <1>1, <1>2 DEF In
  <2>2. Build!FindSegment(table, off) \in Nat
    BY <2>1, FoundSegment
  <2>3. QED
    BY <1>2, <2>2 DEF Build!NoSegment
<1>3. CASE ~In(table, off)
  <2>1. Build!Containing(table, off) = {}
    BY <1>3 DEF In, Build!Containing, Build!InSegment, InSegment
  <2>2. QED
    BY <1>3, <2>1 DEF Build!FindSegment
<1>4. QED
  BY <1>2, <1>3

LEMMA FreshOpen ==
  ASSUME load \in Nat
  PROVE  /\ Fresh(load).open = [seg |-> HomeBase(load), lin |-> load]
         /\ Build!IsValid(Fresh(load).open)
         /\ HomeBase(load) \in Int /\ HomeBase(load) <= load /\ load - HomeBase(load) < SegSize
<1>1. Fresh(load).open = [seg |-> HomeBase(load), lin |-> load]
  BY DEF Fresh, Build!NewMap, Build!LinearAddr, HomeBase
<1>2. SegSize \in Nat \ {0}
  BY SizeAssumption
<1>3. HomeBase(load) \in Int /\ HomeBase(load) <= load /\ load - HomeBase(load) < SegSize
  BY <1>2 DEF HomeBase
<1>4. QED
  BY <1>1, <1>3, NewWalkPlace

(* How closing ends.                                                       *)
CanClose(c, next) ==
  \/ ~Build!IsValid(c.open) \/ next = c.open.lin
  \/ c.open.lin < next /\ InSegment(next - 1, c.open.seg) /\ InSegment(c.open.lin, c.open.seg)

LEMMA CloseStatus ==
  ASSUME NEW c, WalkOK(load, c), c.status # "failed", NEW q, NEW next \in Int
  PROVE  LET d == Build!CloseBlock(c, q, next)
         IN /\ CanClose(c, next) => d.status = c.status
            /\ ~CanClose(c, next) => d.status = "failed"
<1> DEFINE d == Build!CloseBlock(c, q, next)
<1>1. c \in Walks(load)
  BY DEF WalkOK
<1>2. c.only = TRUE /\ c.open.lin \in Int /\ c.open.seg \in Int
  BY <1>1 DEF Walks, PlaceT
<1>3. Build!HomeOf(c, q) = c.open.seg
  BY <1>2 DEF Build!HomeOf, Build!OwnerOf, Build!KindOf, Build!NULL_ROUTINE
<1> DEFINE refused == \/ next < c.open.lin \/ ~Build!InSegment(next - 1, c.open.seg)
                      \/ ~Build!Fits(c.open.lin, next - 1, c.open.seg)
<1>4. CASE ~Build!IsValid(c.open) \/ next = c.open.lin
  BY <1>4 DEF Build!CloseBlock, CanClose
<1>5. CASE Build!IsValid(c.open) /\ next # c.open.lin /\ refused
  <2>1. d = [c EXCEPT !.status = "failed"]
    BY <1>3, <1>5 DEF Build!CloseBlock
  <2>2. d.status = "failed"
    BY <1>1, <2>1 DEF Walks
  <2>3. ~CanClose(c, next)
    BY <1>2, <1>5 DEF CanClose, Build!Fits, Build!InSegment, InSegment
  <2>4. QED
    BY <2>2, <2>3
<1>6. CASE Build!IsValid(c.open) /\ next # c.open.lin /\ ~refused
  <2>1. d.status = c.status
    BY <1>1, <1>3, <1>6 DEF Build!CloseBlock, Walks
  <2>2. CanClose(c, next)
    BY <1>2, <1>6 DEF CanClose, Build!Fits, Build!InSegment, InSegment
  <2>3. QED
    BY <2>1, <2>2
<1>7. QED
  BY <1>4, <1>5, <1>6

LEMMA FoundBase ==
  ASSUME NEW n \in Nat, NEW table \in [1..n -> SegT], NEW off \in Int, In(table, off)
  PROVE  /\ Build!FindSegment(table, off) # Build!NoSegment
         /\ InSegment(off, Build!FindSegment(table, off))
         /\ \E i \in 1..n : /\ table[i].addr = Build!FindSegment(table, off)
                            /\ \A j \in 1..n : InSegment(off, table[j].addr) => j <= i
<1> DEFINE C == Build!Containing(table, off)
<1>1. Build!FindSegment(table, off) # Build!NoSegment
  BY GapIs
<1>2. InSegment(off, Build!FindSegment(table, off))
  BY <1>1, FoundSegment
<1>3. C \subseteq 1..n /\ \A i \in 1..n : i \in C <=> InSegment(off, table[i].addr)
  BY DEF Build!Containing, Build!InSegment, InSegment
<1>4. C # {}
  BY <1>3 DEF In
<1> HIDE DEF C
<1>5. \E i \in C : \A j \in C : j <= i
  <2>1. C \subseteq Nat /\ \A i \in C : i <= n
    BY <1>3
  <2>2. QED
    BY <1>4, <2>1, GreatestExists
<1> DEFINE last == CHOOSE i \in C : \A j \in C : j <= i
<1>6. last \in C /\ \A j \in C : j <= last
  BY <1>5
<1>7. Build!FindSegment(table, off) = table[last].addr
  BY <1>4 DEF Build!FindSegment, C
<1> HIDE DEF last
<1>8. QED
  BY <1>1, <1>2, <1>3, <1>6, <1>7

LEMMA SplitSeg ==
  ASSUME NEW c, WalkOK(load, c), NEW q
  PROVE  Build!ChangeOwner(c, q).seg = c.seg
<1> DEFINE d == IF c.off = c.start THEN c ELSE Build!CloseBlock(c, q, c.off)
           open == [seg |-> c.seg, lin |-> c.off]
<1>1. c.off \in Int /\ c.seg \in Int /\ c.curId \in Int
  BY DEF WalkOK, Walks
<1>2. WalkOK(load, d) /\ d.seg = c.seg
  BY <1>1, ClosedIs
<1>3. open \in PlaceT
  BY <1>1 DEF PlaceT
<1>4. Build!ChangeOwner(c, q) = c \/ Build!ChangeOwner(c, q) = Owned(d, c.curId, open)
  BY DEF Build!ChangeOwner, Owned
<1> HIDE DEF d, open, PlaceT
<1>5. Owned(d, c.curId, open).seg = d.seg
  BY <1>1, <1>2, <1>3, WithOwner
<1>6. QED
  BY <1>2, <1>4, <1>5

(* What closing leaves of the status. *)
ClosedStatus(c) == IF CanClose(c, c.off) THEN "mapping" ELSE "failed"

(* A byte of the walk that lies in a segment: what is open goes on, or is  *)
(* closed before it. *)
LEMMA InByte ==
  ASSUME load \in Nat, NEW c, WalkOK(load, c), c.status = "mapping",
         c.off = load => c.open.lin = load,
         NEW q, q.entrypoints = << >>, q.visited[c.off] \in Int,
         NEW n \in Nat, NEW table \in [1..n -> SegT], In(table, c.off)
  PROVE  LET seg == Build!FindSegment(table, c.off)
             id == q.visited[c.off]
             d == Build!MapByte(c, q, table)
             inside == Build!IsValid(c.open) /\ InSegment(c.open.lin, seg)
         IN /\ d.off = c.off + 1 /\ d.seg = seg /\ seg \in Int
            /\ \/ /\ d.open = c.open /\ d.status = "mapping"
                  /\ id = c.prevId /\ d.prevId = c.prevId
                  /\ seg = c.seg \/ inside
               \/ /\ d.status = ClosedStatus(c)
                  /\ ~Build!IsValid(d.open) \/ d.open = [seg |-> seg, lin |-> c.off]
                  /\ id # c.prevId \/ (seg # c.seg /\ ~inside)
<1> DEFINE seg == Build!FindSegment(table, c.off)
           id == q.visited[c.off]
           d == Build!MapByte(c, q, table)
           inside == Build!IsValid(c.open) /\ InSegment(c.open.lin, seg)
           read == [c EXCEPT !.curId = id]
           e == Build!ChangeSegment(read, q, seg)
           f == Build!ChangeOwner(e, q)
           dr == Build!CloseBlock(read, q, c.off)
           de == Build!CloseBlock(e, q, c.off)
<1>1. c.off \in Int
  BY DEF WalkOK, Walks
<1>2. /\ seg \in Int /\ InSegment(c.off, seg)
      /\ WalkOK(load, read) /\ WalkOK(load, e) /\ e.off = c.off /\ e.seg = seg
      /\ WalkOK(load, f) /\ f.off = c.off
      /\ WalkOK(load, d) /\ d.off = c.off + 1 /\ d.open = f.open /\ d.seg = f.seg
      /\ d.prevId = f.prevId /\ d.status = f.status
  BY <1>1, FoundBase, ByteIs
<1>3. /\ read.off = c.off /\ read.open = c.open /\ read.seg = c.seg /\ read.curId = id
      /\ read.prevId = c.prevId /\ read.status = c.status
  BY ReadByteIs
<1>4. inside <=> Build!IsValid(c.open) /\ Build!InSegment(c.open.lin, seg)
  BY DEF Build!InSegment, InSegment
<1> HIDE DEF read, seg, d, inside, id
<1>5. /\ e.curId = id /\ e.prevId = c.prevId
      /\ Entered(read, dr, e, seg)
  BY <1>2, <1>3, EnteredIs
<1>6. e.seg = c.seg => e.open = c.open /\ e.status = c.status
  BY <1>2, <1>3, <1>5 DEF Entered
<1>7. f.seg = seg
  BY <1>2, SplitSeg
<1>8. /\ id = c.prevId => f = e
      /\ id # c.prevId =>
           /\ f.status = (IF c.off = load THEN e ELSE de).status
           /\ f.open = [seg |-> seg, lin |-> c.off] /\ f.prevId = id
  <2>1. LET dd == IF e.off = load THEN e ELSE Build!CloseBlock(e, q, e.off)
        IN /\ e.curId = e.prevId => f = e
           /\ e.curId # e.prevId =>
                /\ f.status = dd.status
                /\ f.open = [seg |-> e.seg, lin |-> e.off] /\ f.prevId = e.curId
    BY <1>2, SplitIs
  <2> HIDE DEF f, e
  <2>2. QED
    BY <1>2, <1>5, <2>1
<1>9. dr.status = ClosedStatus(c)
  <2>1. CanClose(read, c.off) <=> CanClose(c, c.off)
    BY <1>3 DEF CanClose
  <2>2. QED
    BY <1>1, <1>2, <1>3, <2>1, CloseStatus DEF ClosedStatus
<1>10. d.off = c.off + 1 /\ d.seg = seg /\ seg \in Int
  BY <1>2, <1>7
<1> HIDE DEF e, f, dr
<1>11. CASE e.open = c.open /\ e.status = c.status /\ (seg = c.seg \/ inside)
  <2>1. CASE id = c.prevId
    BY <1>2, <1>5, <1>8, <1>10, <1>11, <2>1 DEF d, seg, id, inside
  <2>2. CASE id # c.prevId
    <3>1. f.open = [seg |-> seg, lin |-> c.off]
      BY <1>8, <2>2
    <3>2. f.status = ClosedStatus(c)
      <4>1. CASE c.off = load
        <5>1. f.status = "mapping"
          BY <1>8, <1>11, <2>2, <4>1
        <5>2. CanClose(c, c.off)
          BY <4>1 DEF CanClose
        <5>3. QED
          BY <5>1, <5>2 DEF ClosedStatus
      <4>2. CASE c.off # load
        <5>1. f.status = de.status
          BY <1>8, <2>2, <4>2
        <5>2. CanClose(e, c.off) <=> CanClose(c, c.off)
          BY <1>11 DEF CanClose
        <5>3. de.status = ClosedStatus(c)
          BY <1>1, <1>2, <1>11, <5>2, CloseStatus DEF ClosedStatus
        <5>4. QED
          BY <5>1, <5>3
      <4>3. QED
        BY <4>1, <4>2
    <3>3. QED
      BY <1>2, <1>10, <2>2, <3>1, <3>2 DEF d, seg, id, inside
  <2>3. QED
    BY <2>1, <2>2
<1>12. CASE /\ e.status = dr.status /\ seg # c.seg /\ ~inside
            /\ e.open = IF id = c.prevId THEN [seg |-> seg, lin |-> c.off]
                        ELSE Build!InvalidAddr
  <2>1. CASE id = c.prevId
    <3>1. f = e
      BY <1>8, <2>1
    <3>2. d.open = [seg |-> seg, lin |-> c.off] /\ d.status = ClosedStatus(c)
      BY <1>2, <1>9, <1>12, <2>1, <3>1
    <3>3. QED
      BY <1>10, <1>12, <3>2 DEF d, seg, id, inside
  <2>2. CASE id # c.prevId
    <3>1. f.open = [seg |-> seg, lin |-> c.off]
      BY <1>8, <2>2
    <3>2. ~Build!IsValid(e.open)
      BY <1>12, <2>2 DEF Build!IsValid
    <3>3. de = e
      BY <3>2 DEF Build!CloseBlock
    <3>4. d.status = ClosedStatus(c)
      BY <1>2, <1>8, <1>9, <1>12, <2>2, <3>3
    <3>5. QED
      BY <1>2, <1>10, <1>12, <3>1, <3>4 DEF d, seg, id, inside
  <2>3. QED
    BY <2>1, <2>2
<1>13. \/ e.open = c.open /\ e.status = c.status /\ (seg = c.seg \/ inside)
       \/ /\ e.status = dr.status /\ seg # c.seg /\ ~inside
          /\ e.open = IF id = c.prevId THEN [seg |-> seg, lin |-> c.off]
                      ELSE Build!InvalidAddr
  <2>1. CASE /\ e.open = read.open /\ e.status = read.status
             /\ \/ seg = read.seg
                \/ Build!IsValid(read.open) /\ Build!InSegment(read.open.lin, seg)
    <3>1. e.open = c.open /\ e.status = c.status
      BY <1>3, <2>1
    <3>2. seg = c.seg \/ inside
      BY <1>3, <1>4, <2>1
    <3>3. QED
      BY <3>1, <3>2
  <2>2. CASE /\ e.status = dr.status /\ seg # read.seg
             /\ ~(Build!IsValid(read.open) /\ Build!InSegment(read.open.lin, seg))
             /\ e.open = IF read.curId = read.prevId THEN [seg |-> seg, lin |-> read.off]
                         ELSE Build!InvalidAddr
    BY <1>3, <1>4, <2>2
  <2>3. QED
    BY <1>5, <2>1, <2>2 DEF Entered
<1>14. QED
  BY <1>11, <1>12, <1>13

ByteInside(c, q, table) ==
  LET seg == Build!FindSegment(table, c.off)
      id == q.visited[c.off]
      d == Build!MapByte(c, q, table)
      inside == Build!IsValid(c.open) /\ InSegment(c.open.lin, seg)
  IN /\ d.off = c.off + 1 /\ d.seg = seg /\ seg \in Int
     /\ \/ /\ d.open = c.open /\ d.status = "mapping"
           /\ id = c.prevId /\ d.prevId = c.prevId
           /\ seg = c.seg \/ inside
        \/ /\ d.status = ClosedStatus(c)
           /\ ~Build!IsValid(d.open) \/ d.open = [seg |-> seg, lin |-> c.off]
           /\ id # c.prevId \/ (seg # c.seg /\ ~inside)

LEMMA ByteInsideIs ==
  ASSUME load \in Nat, NEW c, WalkOK(load, c), c.status = "mapping",
         c.off = load => c.open.lin = load,
         NEW q, q.entrypoints = << >>, q.visited[c.off] \in Int,
         NEW n \in Nat, NEW table \in [1..n -> SegT], In(table, c.off)
  PROVE  ByteInside(c, q, table)
BY InByte DEF ByteInside

(* A byte in a gap: what is open is closed, and the walk goes on where the *)
(* next segment begins. *)
LEMMA GapByte ==
  ASSUME load \in Nat, NEW c, WalkOK(load, c), c.status = "mapping",
         NEW q, q.entrypoints = << >>, q.visited[c.off] \in Int,
         NEW n \in Nat, NEW table \in [1..n -> SegT], ~In(table, c.off)
  PROVE  LET past == Build!FindSegmentPast(table, c.off)
             seg == Build!FindSegment(table, past)
             d == Build!MapByte(c, q, table)
         IN /\ past \in Int /\ d.off = past + 1 /\ d.seg = seg
            /\ d.status = ClosedStatus(c)
            /\ ~Build!IsValid(d.open) \/ d.open = [seg |-> seg, lin |-> past]
            /\ seg # c.seg => d.open = [seg |-> seg, lin |-> past]
<1> DEFINE past == Build!FindSegmentPast(table, c.off)
           seg == Build!FindSegment(table, past)
           id == q.visited[c.off]
           d == Build!MapByte(c, q, table)
           read == [c EXCEPT !.curId = id]
           dr == Build!CloseBlock(read, q, c.off)
           s == Build!SkipGap(read, q, table)
           e == Build!ChangeSegment(s, q, seg)
           ds == Build!CloseBlock(s, q, s.off)
           de == Build!CloseBlock(e, q, e.off)
           f == Build!ChangeOwner(e, q)
<1>1. c.off \in Int
  BY DEF WalkOK, Walks
<1>2. past \in Int /\ seg \in Int
  BY <1>1, FoundSegment
<1>3. /\ WalkOK(load, read) /\ read.off = c.off /\ read.open = c.open
      /\ read.prevId = c.prevId /\ read.status = c.status /\ read.seg = c.seg
  BY ReadByteIs
<1> HIDE DEF read
<1>4. dr.status = ClosedStatus(c) /\ WalkOK(load, dr) /\ dr.seg = c.seg
  <2>1. CanClose(read, c.off) <=> CanClose(c, c.off)
    BY <1>3 DEF CanClose
  <2>2. QED
    BY <1>1, <1>3, <2>1, CloseStatus, ClosedKeeps, ClosedIs DEF ClosedStatus
<1>5. s = [dr EXCEPT !.open = Build!InvalidAddr, !.off = past]
  BY <1>1, <1>3, GapIs DEF Build!SkipGap
<1>6. WalkOK(load, s)
  BY <1>3, SkippedIs
<1> HIDE DEF dr, s
<1>7. /\ s.open = Build!InvalidAddr /\ s.off = past /\ s.status = ClosedStatus(c)
      /\ s.seg = c.seg
  <2> HIDE DEF past, PlaceT, BlockT
  <2>1. QED
    BY <1>4, <1>5 DEF WalkOK, Walks
<1>8. ~Build!IsValid(s.open)
  BY <1>7 DEF Build!IsValid
<1>9. ds = s
  BY <1>8 DEF Build!CloseBlock
<1>10. /\ WalkOK(load, e) /\ e.off = past /\ e.seg = seg /\ Entered(s, ds, e, seg)
       /\ e.curId = s.curId /\ e.prevId = s.prevId
  BY <1>2, <1>6, <1>7, EnteredIs
<1> HIDE DEF e, ds
<1>11. /\ e.status = ClosedStatus(c)
       /\ ~Build!IsValid(e.open) \/ e.open = [seg |-> seg, lin |-> past]
       /\ seg # c.seg /\ e.curId = e.prevId => e.open = [seg |-> seg, lin |-> past]
  <2>1. CASE e.open = s.open /\ e.status = s.status /\ seg = s.seg
    BY <1>7, <1>8, <2>1
  <2>2. CASE /\ e.status = ds.status
             /\ e.open = IF s.curId = s.prevId THEN [seg |-> seg, lin |-> s.off]
                         ELSE Build!InvalidAddr
    <3>1. e.status = ClosedStatus(c)
      BY <1>7, <1>9, <2>2
    <3>2. CASE s.curId = s.prevId
      BY <1>7, <2>2, <3>1, <3>2
    <3>3. CASE s.curId # s.prevId
      BY <1>10, <2>2, <3>1, <3>3 DEF Build!IsValid
    <3>4. QED
      BY <3>2, <3>3
  <2>3. QED
    BY <1>8, <1>10, <2>1, <2>2 DEF Entered
<1>12. de = e
  <2>1. ~Build!IsValid(e.open) \/ e.off = e.open.lin
    BY <1>10, <1>11
  <2>2. QED
    BY <2>1 DEF Build!CloseBlock
<1>13. /\ f.seg = seg /\ WalkOK(load, f) /\ f.off = past
       /\ \/ f = e /\ e.curId = e.prevId
          \/ f.status = e.status /\ f.open = [seg |-> seg, lin |-> past]
  <2>1. LET dd == IF e.off = load THEN e ELSE Build!CloseBlock(e, q, e.off)
        IN /\ WalkOK(load, f) /\ f.off = e.off
           /\ e.curId = e.prevId => f = e
           /\ e.curId # e.prevId => /\ f.status = dd.status
                                    /\ f.open = [seg |-> e.seg, lin |-> e.off]
    BY <1>10, SplitIs
  <2>2. f.seg = e.seg
    BY <1>10, SplitSeg
  <2> HIDE DEF f
  <2>3. QED
    BY <1>10, <1>12, <2>1, <2>2
<1>14. d = [f EXCEPT !.off = f.off + 1]
  BY <1>7 DEF Build!MapByte, f, e, s, read
<1> HIDE DEF f, d
<1>15. /\ d.off = past + 1 /\ d.seg = seg /\ d.open = f.open /\ d.status = f.status
  BY <1>2, <1>13, <1>14, WithOff
<1>16. QED
  BY <1>2, <1>11, <1>13, <1>15 DEF d, seg, past

(* The first walk, whatever the order of the segments.                     *)
LEMMA FirstClosed ==
  ASSUME load \in Nat, NEW end \in Int, NEW c, FirstOpen(load, c, end)
  PROVE  /\ c.off \in Int /\ c.off # load /\ c.status = "mapping" /\ Build!IsValid(c.open)
         /\ c.open.lin = load /\ c.open.seg = HomeBase(load)
         /\ CanClose(c, c.off) <=> c.off - 1 - HomeBase(load) < SegSize
<1>1. /\ c.off \in Int /\ load < c.off /\ c.off <= end
      /\ c.open = [seg |-> HomeBase(load), lin |-> load] /\ c.status = "mapping"
  BY DEF FirstOpen
<1>2. Build!IsValid(c.open)
  BY <1>1, FreshOpen
<1>3. HomeBase(load) \in Int /\ HomeBase(load) <= load /\ load - HomeBase(load) < SegSize
  BY FreshOpen
<1>4. SegSize \in Nat
  BY SizeAssumption
<1>5. CanClose(c, c.off) <=> c.off - 1 - HomeBase(load) < SegSize
  BY <1>1, <1>2, <1>3, <1>4 DEF CanClose, InSegment
<1>6. QED
  BY <1>1, <1>2, <1>5

LEMMA FirstWalkByte ==
  ASSUME load \in Nat, NEW end \in Int, NEW c, WalkOK(load, c),
         NEW q, q.entrypoints = << >>, q.visited \in [load..(end - 1) -> {0, 1}],
         NEW n \in Nat, NEW table \in [1..n -> SegT],
         c = Fresh(load) \/ FirstOpen(load, c, end), c.off \in load..(end - 1)
  PROVE  LET d == Build!MapByte(c, q, table)
         IN \/ d.status = "failed" \/ FirstOpen(load, d, end)
            \/ Short(load, table, q.visited, end)
<1> DEFINE V == q.visited
           k == c.off
           id == V[k]
           seg == Build!FindSegment(table, k)
           d == Build!MapByte(c, q, table)
<1>1. k \in Int /\ id \in Int /\ load <= k /\ k < end
  OBVIOUS
<1> HIDE DEF V, d
<1>2. CASE c = Fresh(load)
  <2>1. /\ c.off = load /\ c.open = [seg |-> HomeBase(load), lin |-> load] /\ c.seg = -1
        /\ c.prevId = 0 /\ c.status = "mapping" /\ Build!IsValid(c.open)
    BY <1>2, NewWalk, FreshOpen
  <2>2. CASE ~In(table, load) \/ V[load] # 0
    BY <2>2 DEF Short, V
  <2>3. CASE In(table, load) /\ V[load] = 0
    <3>1. InSegment(load, seg)
      BY <2>1, <2>3, FoundBase
    <3>2. /\ d.off = c.off + 1
          /\ \/ d.open = c.open /\ d.status = "mapping" /\ d.prevId = c.prevId
             \/ id # c.prevId
      <4>1. q.visited[c.off] \in Int /\ In(table, c.off) /\ (c.off = load => c.open.lin = load)
        BY <1>1, <2>1, <2>3 DEF V
      <4>2. ByteInside(c, q, table)
        BY ONLY load \in Nat, WalkOK(load, c), <2>1, <4>1, q.entrypoints = << >>, n \in Nat,
           table \in [1..n -> SegT], ByteInsideIs
      <4>3. Build!IsValid(c.open) /\ InSegment(c.open.lin, seg)
        BY <2>1, <3>1
      <4>4. QED
        BY <4>2, <4>3 DEF ByteInside, d, V
    <3>3. d.open = c.open /\ d.status = "mapping" /\ d.prevId = 0 /\ d.off = load + 1
      BY <2>1, <2>3, <3>2
    <3>4. FirstOpen(load, d, end)
      BY <1>1, <2>1, <3>3 DEF FirstOpen
    <3>5. QED
      BY <3>4 DEF d
  <2>4. QED
    BY <2>2, <2>3
<1>3. CASE FirstOpen(load, c, end)
  <2>1. /\ k # load /\ c.status = "mapping" /\ Build!IsValid(c.open)
        /\ c.open.lin = load /\ c.prevId = 0 /\ c.open = [seg |-> HomeBase(load), lin |-> load]
        /\ CanClose(c, k) <=> k - 1 - HomeBase(load) < SegSize
    BY <1>3, FirstClosed DEF FirstOpen
  <2>2. k \in (load + 1)..end
    BY <1>1, <2>1
  <2>3. ASSUME Stops(load, table, V, end, k), d.status = ClosedStatus(c)
        PROVE  d.status = "failed" \/ Short(load, table, V, end)
    <3>1. CASE CanClose(c, k)
      BY <2>1, <2>2, <2>3, <3>1 DEF Short
    <3>2. CASE ~CanClose(c, k)
      BY <2>3, <3>2 DEF ClosedStatus
    <3>3. QED
      BY <3>1, <3>2
  <2>4. CASE ~In(table, k)
    <3>1. d.status = ClosedStatus(c)
      BY <1>1, <2>1, <2>4, GapByte DEF d, V
    <3>2. Stops(load, table, V, end, k)
      BY <2>4 DEF Stops
    <3>3. QED
      BY <2>3, <3>1, <3>2 DEF d, V
  <2>5. CASE In(table, k)
    <3>1. InSegment(k, seg) /\ seg # Build!NoSegment /\ \E i \in 1..n : table[i].addr = seg
      BY <1>1, <2>5, FoundBase
    <3>2. /\ d.off = c.off + 1 /\ seg \in Int
          /\ \/ d.open = c.open /\ d.status = "mapping" /\ d.prevId = c.prevId
             \/ /\ d.status = ClosedStatus(c)
                /\ id # c.prevId \/ ~InSegment(load, seg)
      <4>1. q.visited[c.off] \in Int /\ In(table, c.off) /\ (c.off = load => c.open.lin = load)
        BY <1>1, <2>1, <2>5 DEF V
      <4>2. ByteInside(c, q, table)
        BY ONLY load \in Nat, WalkOK(load, c), <2>1, <4>1, q.entrypoints = << >>, n \in Nat,
           table \in [1..n -> SegT], ByteInsideIs
      <4>3. QED
        BY <2>1, <4>2 DEF ByteInside, d, V
    <3>3. CASE d.open = c.open /\ d.status = "mapping" /\ d.prevId = c.prevId
      <4>1. FirstOpen(load, d, end)
        BY <1>1, <2>1, <2>2, <3>2, <3>3 DEF FirstOpen
      <4>2. QED
        BY <4>1 DEF d
    <3>4. CASE d.status = ClosedStatus(c) /\ (id # c.prevId \/ ~InSegment(load, seg))
      <4>1. CASE id # c.prevId
        <5>1. Stops(load, table, V, end, k)
          BY <1>1, <2>1, <4>1 DEF Stops
        <5>2. QED
          BY <2>3, <3>4, <5>1 DEF d, V
      <4>2. CASE ~InSegment(load, seg)
        <5>1. load < seg /\ seg <= k
          BY <1>1, <3>1, <3>2, <4>2, SizeAssumption DEF InSegment
        <5>2. \E i \in DOMAIN table : load < table[i].addr /\ table[i].addr <= k
          BY <3>1, <5>1
        <5>3. Stops(load, table, V, end, k)
          BY <5>2 DEF Stops
        <5>4. QED
          BY <2>3, <3>4, <5>3 DEF d, V
      <4>3. QED
        BY <3>4, <4>1, <4>2
    <3>5. QED
      BY <3>2, <3>3, <3>4
  <2>6. QED
    BY <2>4, <2>5
<1>4. QED
  BY <1>2, <1>3

LEMMA FirstWalkFinish ==
  ASSUME load \in Nat, NEW end \in Int, load <= end, NEW c, WalkOK(load, c),
         NEW q, q.visited \in [load..(end - 1) -> {0, 1}],
         NEW n \in Nat, NEW table \in [1..n -> SegT],
         c = Fresh(load) \/ FirstOpen(load, c, end), Build!LastByteMapped(c, q, table)
  PROVE  Build!FinishMap(c, q, end).status = "failed" \/ Short(load, table, q.visited, end)
<1> DEFINE V == q.visited
<1>1. c.off \in Int
  BY DEF WalkOK, Walks
<1>2. c.off \notin load..(end - 1) \/ ~In(table, c.off)
  <2>1. DOMAIN q.visited = load..(end - 1)
    OBVIOUS
  <2>2. QED
    BY <1>1, <2>1, GapIs DEF Build!LastByteMapped
<1> HIDE DEF V
<1>3. CASE c = Fresh(load)
  <2>1. c.off = load
    BY <1>3, NewWalk
  <2>2. end = load \/ ~In(table, load)
    BY <1>2, <2>1
  <2>3. QED
    BY <2>2 DEF Short
<1>4. CASE FirstOpen(load, c, end)
  <2>1. /\ c.off # load /\ c.status = "mapping"
        /\ CanClose(c, c.off) <=> c.off - 1 - HomeBase(load) < SegSize
    BY <1>4, FirstClosed
  <2>2. c.off \in (load + 1)..end
    BY <1>4 DEF FirstOpen
  <2>3. c.off = end \/ ~In(table, c.off)
    BY <1>2, <2>2
  <2>4. Stops(load, table, V, end, c.off)
    BY <2>3 DEF Stops
  <2> DEFINE read == IF c.off \in DOMAIN q.visited
                     THEN [c EXCEPT !.curId = q.visited[c.off]] ELSE c
             closed == Build!CloseBlock(read, q, c.off)
  <2>5. /\ WalkOK(load, read) /\ read.off = c.off /\ read.open = c.open
        /\ read.status = c.status
    <3>1. c.off \in DOMAIN q.visited => q.visited[c.off] \in Int
      OBVIOUS
    <3>2. QED
      BY <3>1, ReadByteIs
  <2> HIDE DEF read
  <2>6. CASE CanClose(c, c.off)
    BY <2>1, <2>2, <2>4, <2>6 DEF Short, V
  <2>7. CASE ~CanClose(c, c.off)
    <3>1. ~CanClose(read, c.off)
      BY <2>5, <2>7 DEF CanClose
    <3>2. closed.status = "failed"
      BY <1>1, <2>1, <2>5, <3>1, CloseStatus
    <3>3. c.off \in DOMAIN q.visited \/ c.off = end
      BY <2>2
    <3>4. Build!FinishMap(c, q, end) = closed
      BY <3>2, <3>3 DEF Build!FinishMap, read
    <3>5. QED
      BY <3>2, <3>4
  <2>8. QED
    BY <2>6, <2>7
<1>5. QED
  BY <1>3, <1>4

(* The second walk: the segments are in their order.                       *)
Sorted(table) == \A j, k \in DOMAIN table : j <= k => table[j].addr <= table[k].addr

StillFirst(start, c, table, V, end) ==
  /\ FirstOpen(start, c, end) /\ c.seg <= start /\ V[start] = 0 /\ In(table, start)
  /\ \A k \in (start + 1)..(c.off - 1) : ~Stops(start, table, V, end, k)

Within(start, c, table) ==
  /\ c.status = "mapping" /\ start < c.off
  /\ Build!IsValid(c.open) =>
       /\ c.open.seg = c.seg /\ c.seg = Build!FindSegment(table, c.open.lin)
       /\ c.seg # Build!NoSegment /\ c.open.lin < c.off /\ InSegment(c.off - 1, c.seg)

Amidst(start, c, table, V, end) ==
  c = Fresh(start) \/ StillFirst(start, c, table, V, end) \/ Within(start, c, table)

LEMMA SortedFound ==
  ASSUME NEW n \in Nat, NEW table \in [1..n -> SegT], Sorted(table), NEW off \in Int,
         In(table, off), NEW i \in 1..n, table[i].addr <= off
  PROVE  table[i].addr <= Build!FindSegment(table, off)
<1>1. PICK last \in 1..n : /\ table[last].addr = Build!FindSegment(table, off)
                           /\ \A j \in 1..n : InSegment(off, table[j].addr) => j <= last
  BY FoundBase
<1>2. InSegment(off, table[last].addr)
  BY <1>1, FoundBase
<1>3. table[last].addr \in Nat /\ table[i].addr \in Nat
  BY <1>1 DEF SegT
<1>4. DOMAIN table = 1..n
  OBVIOUS
<1>5. CASE i <= last
  BY <1>1, <1>4, <1>5 DEF Sorted
<1>6. CASE last <= i
  <2>1. table[last].addr <= table[i].addr
    BY <1>1, <1>4, <1>6 DEF Sorted
  <2>2. InSegment(off, table[i].addr)
    BY <1>2, <1>3, <2>1, SizeAssumption DEF InSegment
  <2>3. i <= last
    BY <1>1, <2>2
  <2>4. QED
    BY <1>1, <1>5, <2>3
<1>7. QED
  BY <1>1, <1>5, <1>6

(* The open block can be closed where it has to be.                        *)
LEMMA Closable ==
  ASSUME load \in Nat, NEW end \in Int, NEW c, WalkOK(load, c),
         NEW n \in Nat, NEW table \in [1..n -> SegT], NEW V,
         Short(load, table, V, end), Amidst(load, c, table, V, end),
         StillFirst(load, c, table, V, end) => Stops(load, table, V, end, c.off)
  PROVE  CanClose(c, c.off)
<1>1. c.off \in Int /\ c.open.lin \in Int
  BY DEF WalkOK, Walks, PlaceT
<1>2. CASE c = Fresh(load)
  BY <1>2, NewWalk DEF CanClose
<1>3. CASE StillFirst(load, c, table, V, end)
  <2>1. /\ FirstOpen(load, c, end) /\ V[load] = 0 /\ In(table, load)
        /\ \A k \in (load + 1)..(c.off - 1) : ~Stops(load, table, V, end, k)
    BY <1>3 DEF StillFirst
  <2>2. c.off \in (load + 1)..end
    BY <2>1 DEF FirstOpen
  <2>3. PICK k \in (load + 1)..end : Stops(load, table, V, end, k)
                                     /\ k - 1 - HomeBase(load) < SegSize
    BY <2>1, <2>2 DEF Short
  <2>4. c.off <= k
    BY <1>1, <2>1, <2>3
  <2>5. HomeBase(load) \in Int /\ SegSize \in Nat
    BY FreshOpen, SizeAssumption
  <2>6. c.off - 1 - HomeBase(load) < SegSize
    BY <1>1, <2>3, <2>4, <2>5
  <2>7. QED
    BY <2>1, <2>6, FirstClosed
<1>4. CASE Within(load, c, table)
  <2>1. CASE ~Build!IsValid(c.open)
    BY <2>1 DEF CanClose
  <2>2. CASE Build!IsValid(c.open)
    <3>1. /\ c.open.seg = c.seg /\ c.seg = Build!FindSegment(table, c.open.lin)
          /\ c.seg # Build!NoSegment /\ c.open.lin < c.off /\ InSegment(c.off - 1, c.seg)
      BY <1>4, <2>2 DEF Within
    <3>2. InSegment(c.open.lin, c.seg)
      BY <1>1, <3>1, FoundSegment
    <3>3. QED
      BY <3>1, <3>2 DEF CanClose
  <2>3. QED
    BY <2>1, <2>2
<1>5. QED
  BY <1>2, <1>3, <1>4 DEF Amidst

(* A byte of the second walk in a gap, and one in a segment.               *)
LEMMA PastIs ==
  ASSUME NEW n \in Nat, NEW table \in [1..n -> SegT], NEW off \in Int,
         Build!FindSegmentPast(table, off) # Build!NoSegment
  PROVE  LET past == Build!FindSegmentPast(table, off)
         IN past \in Nat /\ off < past /\ In(table, past)
<1> DEFINE P == Build!Past(table, off)
<1>1. P # {} /\ P \subseteq 1..n /\ P \subseteq Nat
  BY DEF Build!FindSegmentPast, Build!Past
<1>2. \E k \in P : \A j \in P : k <= j
  <2> HIDE DEF P
  <2>1. QED
    BY <1>1, LeastExists
<1> DEFINE first == CHOOSE i \in P : \A j \in P : i <= j
<1>3. first \in P
  BY <1>2
<1>4. Build!FindSegmentPast(table, off) = table[first].addr
  BY <1>1 DEF Build!FindSegmentPast
<1>5. first \in 1..n /\ table[first].addr > off
  BY <1>3 DEF Build!Past
<1> HIDE DEF first, P
<1>6. table[first].addr \in Nat
  BY <1>5 DEF SegT
<1>7. InSegment(table[first].addr, table[first].addr)
  BY <1>6, SizeAssumption DEF InSegment
<1>8. DOMAIN table = 1..n
  OBVIOUS
<1>9. QED
  BY <1>4, <1>5, <1>6, <1>7, <1>8 DEF In

LEMMA NoPast ==
  ASSUME NEW n \in Nat, NEW table \in [1..n -> SegT], NEW off \in Int,
         Build!FindSegmentPast(table, off) = Build!NoSegment, NEW i \in 1..n
  PROVE  table[i].addr <= off
<1> DEFINE P == Build!Past(table, off)
<1>1. SUFFICES ASSUME ~(table[i].addr <= off) PROVE FALSE
  OBVIOUS
<1>2. P \subseteq 1..n /\ P \subseteq Nat /\ i \in P
  <2>1. table[i].addr \in Nat
    BY DEF SegT
  <2>2. QED
    BY <1>1, <2>1 DEF Build!Past
<1>3. \E k \in P : \A j \in P : k <= j
  <2> HIDE DEF P
  <2>1. QED
    BY <1>2, LeastExists
<1> DEFINE first == CHOOSE k \in P : \A j \in P : k <= j
<1>4. first \in 1..n
  BY <1>2, <1>3
<1>5. Build!FindSegmentPast(table, off) = table[first].addr
  BY <1>2 DEF Build!FindSegmentPast
<1> HIDE DEF first, P
<1>6. table[first].addr \in Nat
  BY <1>4 DEF SegT
<1>7. QED
  BY <1>5, <1>6 DEF Build!NoSegment

LEMMA PastLeast ==
  ASSUME NEW n \in Nat, NEW table \in [1..n -> SegT], Sorted(table), NEW off \in Int,
         NEW i \in 1..n, off < table[i].addr
  PROVE  Build!FindSegmentPast(table, off) <= table[i].addr
<1> DEFINE P == Build!Past(table, off)
<1>1. P \subseteq 1..n /\ P \subseteq Nat /\ i \in P
  <2>1. table[i].addr \in Nat
    BY DEF SegT
  <2>2. QED
    BY <2>1 DEF Build!Past
<1>2. \E k \in P : \A j \in P : k <= j
  <2> HIDE DEF P
  <2>1. QED
    BY <1>1, LeastExists
<1> DEFINE first == CHOOSE k \in P : \A j \in P : k <= j
<1>3. first \in 1..n /\ first <= i
  BY <1>1, <1>2
<1>4. Build!FindSegmentPast(table, off) = table[first].addr
  BY <1>1 DEF Build!FindSegmentPast
<1> HIDE DEF first, P
<1>5. DOMAIN table = 1..n
  OBVIOUS
<1>6. table[first].addr <= table[i].addr
  BY <1>3, <1>5 DEF Sorted
<1>7. QED
  BY <1>4, <1>6

(* A walk that leaves the segments before the end is not sent past it.     *)
TailHeld(start, table, end) ==
  \/ start = end \/ In(table, end - 1)
  \/ \E i \in DOMAIN table : table[i].addr = end
  \/ \A i \in DOMAIN table : table[i].addr <= end

(* The first walk came from a byte of a segment, or over a gap to the      *)
(* first byte of one. *)
Landed(start, c, table, end) ==
  \/ c = Fresh(start)
  \/ /\ start < c.off /\ c.seg < c.off
     /\ \/ c.off <= end /\ In(table, c.off - 1)
        \/ /\ Build!IsValid(c.open) /\ c.open.lin = c.off - 1
           /\ \E i \in DOMAIN table : table[i].addr = c.off - 1

LEMMA PastStarts ==
  ASSUME NEW n \in Nat, NEW table \in [1..n -> SegT], NEW off \in Int,
         Build!FindSegmentPast(table, off) # Build!NoSegment
  PROVE  \E i \in 1..n : table[i].addr = Build!FindSegmentPast(table, off)
<1> DEFINE P == Build!Past(table, off)
<1>1. P # {} /\ P \subseteq 1..n /\ P \subseteq Nat
  BY DEF Build!FindSegmentPast, Build!Past
<1>2. \E k \in P : \A j \in P : k <= j
  <2> HIDE DEF P
  <2>1. QED
    BY <1>1, LeastExists
<1> DEFINE first == CHOOSE k \in P : \A j \in P : k <= j
<1>3. first \in 1..n
  BY <1>1, <1>2
<1>4. Build!FindSegmentPast(table, off) = table[first].addr
  BY <1>1 DEF Build!FindSegmentPast
<1>5. QED
  BY <1>3, <1>4

LEMMA LandedByte ==
  ASSUME load \in Nat, NEW end \in Int, NEW c, WalkOK(load, c), c.status = "mapping",
         NEW q, q.entrypoints = << >>, q.visited \in [load..(end - 1) -> {0, 1}],
         NEW n \in Nat, NEW table \in [1..n -> SegT],
         Landed(load, c, table, end), c.off \in load..(end - 1),
         ~Build!LastByteMapped(c, q, table)
  PROVE  Landed(load, Build!MapByte(c, q, table), table, end)
<1> DEFINE past == Build!FindSegmentPast(table, c.off)
           seg == Build!FindSegment(table, c.off)
           d == Build!MapByte(c, q, table)
<1>1. /\ c.off \in Int /\ c.seg \in Int /\ q.visited[c.off] \in Int
      /\ load <= c.off /\ c.off < end /\ SegSize \in Nat
  BY SizeAssumption DEF WalkOK, Walks
<1>2. c.seg < c.off /\ (c.off = load => c.open.lin = load)
  <2>1. CASE c = Fresh(load)
    BY <1>1, <2>1, NewWalk
  <2>2. CASE c # Fresh(load)
    BY <1>1, <2>2 DEF Landed
  <2>3. QED
    BY <2>1, <2>2
<1>3. CASE In(table, c.off)
  <2>1. ByteInside(c, q, table)
    BY <1>1, <1>2, <1>3, ByteInsideIs
  <2>2. d.off = c.off + 1 /\ d.seg = seg /\ seg \in Int
    BY <2>1 DEF ByteInside
  <2>3. InSegment(c.off, seg)
    BY <1>1, <1>3, FoundBase
  <2> HIDE DEF d, seg
  <2>4. load < d.off /\ d.seg < d.off /\ d.off <= end /\ d.off - 1 = c.off
    BY <1>1, <2>2, <2>3 DEF InSegment
  <2>5. Landed(load, d, table, end)
    BY <1>3, <2>4 DEF Landed
  <2>6. QED
    BY <2>5 DEF d
<1>4. CASE ~In(table, c.off)
  <2> DEFINE next == Build!FindSegment(table, past)
  <2>1. past # Build!NoSegment
    BY <1>1, <1>4, GapIs DEF Build!LastByteMapped
  <2>2. past \in Nat /\ c.off < past /\ In(table, past)
    BY <1>1, <2>1, PastIs
  <2>3. \E i \in 1..n : table[i].addr = past
    BY <1>1, <2>1, PastStarts
  <2>4. /\ d.off = past + 1 /\ d.seg = next
        /\ next # c.seg => d.open = [seg |-> next, lin |-> past]
    BY <1>1, <1>4, GapByte
  <2> HIDE DEF d, past
  <2>5. /\ InSegment(past, next) /\ \E i \in 1..n : table[i].addr = next
    BY <2>2, FoundBase
  <2> HIDE DEF next
  <2>6. next \in Nat
    BY <2>5 DEF SegT
  <2>7. DOMAIN table = 1..n
    OBVIOUS
  <2>8. next # c.seg
    <3>1. SUFFICES ASSUME next = c.seg PROVE FALSE
      OBVIOUS
    <3>2. InSegment(c.off, next)
      BY <1>1, <1>2, <2>2, <2>5, <2>6, <3>1 DEF InSegment
    <3>3. QED
      BY <1>4, <2>5, <2>7, <3>2 DEF In
  <2>9. d.open = [seg |-> next, lin |-> past]
    BY <2>4, <2>8
  <2>10. d.open.lin = past /\ Build!IsValid(d.open)
    <3>1. Build!InvalidAddr.lin = -1
      BY DEF Build!InvalidAddr
    <3>2. QED
      BY <2>2, <2>9, <3>1 DEF Build!IsValid
  <2>11. load < d.off /\ d.seg < d.off /\ d.off - 1 = past
    BY <1>1, <2>2, <2>4, <2>5, <2>6 DEF InSegment
  <2>12. Landed(load, d, table, end)
    BY <2>3, <2>7, <2>10, <2>11 DEF Landed
  <2>13. QED
    BY <2>12 DEF d
<1>5. QED
  BY <1>3, <1>4

LEMMA FirstWalkTail ==
  ASSUME load \in Nat, NEW end \in Int, load <= end, NEW c, WalkOK(load, c),
         c.status # "failed", NEW q, q.visited \in [load..(end - 1) -> {0, 1}],
         NEW n \in Nat, NEW table \in [1..n -> SegT],
         Landed(load, c, table, end), Build!LastByteMapped(c, q, table)
  PROVE  Build!FinishMap(c, q, end).status = "failed" \/ TailHeld(load, table, end)
<1>1. /\ c.off \in Int /\ c.open.lin \in Int /\ DOMAIN table = 1..n
      /\ \A i \in 1..n : table[i].addr \in Nat
  BY DEF WalkOK, Walks, PlaceT, SegT
<1>2. CASE c.off \in DOMAIN q.visited
  <2>1. Build!FindSegmentPast(table, c.off) = Build!NoSegment
    BY <1>2 DEF Build!LastByteMapped
  <2>2. \A i \in 1..n : table[i].addr <= c.off
    BY <1>1, <2>1, NoPast
  <2>3. \A i \in DOMAIN table : table[i].addr <= end
    BY <1>1, <1>2, <2>2
  <2>4. QED
    BY <2>3 DEF TailHeld
<1>3. CASE c.off \notin DOMAIN q.visited
  <2>1. c = Fresh(load) => c.off = load
    BY NewWalk
  <2>2. load <= c.off
    BY <1>1, <2>1 DEF Landed
  <2>3. end <= c.off
    BY <1>1, <1>3, <2>2
  <2>4. CASE c = Fresh(load)
    BY <1>1, <2>1, <2>3, <2>4 DEF TailHeld
  <2>5. CASE c.off <= end /\ In(table, c.off - 1)
    <3>1. c.off = end
      BY <1>1, <2>3, <2>5
    <3>2. QED
      BY <2>5, <3>1 DEF TailHeld
  <2>6. CASE /\ Build!IsValid(c.open) /\ c.open.lin = c.off - 1
             /\ \E i \in DOMAIN table : table[i].addr = c.off - 1
    <3>1. CASE c.off - 1 = end
      BY <2>6, <3>1 DEF TailHeld
    <3>2. CASE c.off = end
      <4>1. PICK i \in 1..n : table[i].addr = end - 1
        BY <1>1, <2>6, <3>2
      <4>2. InSegment(end - 1, table[i].addr)
        BY <4>1, SizeAssumption DEF InSegment
      <4>3. QED
        BY <1>1, <4>2 DEF In, TailHeld
    <3>3. CASE c.off - 1 # end /\ c.off # end
      <4>1. end < c.open.lin
        BY <1>1, <2>3, <2>6, <3>3
      <4>2. ~CanClose(c, end)
        BY <1>1, <2>6, <4>1 DEF CanClose
      <4>3. Build!CloseBlock(c, q, end).status = "failed"
        BY <4>2, CloseStatus
      <4>4. QED
        BY <1>3, <4>3 DEF Build!FinishMap
    <3>4. QED
      BY <3>1, <3>2, <3>3
  <2>7. QED
    BY <2>4, <2>5, <2>6 DEF Landed
<1>4. QED
  BY <1>2, <1>3

(* The second walk is not past the end, or a byte past it and to be closed *)
(* there. *)
OnEnd(c, end) ==
  \/ c.off <= end
  \/ c.off = end + 1 /\ (~Build!IsValid(c.open) \/ c.open.lin = end)

LEMMA OnEndByte ==
  ASSUME load \in Nat, NEW end \in Int, NEW c, WalkOK(load, c), c.status = "mapping",
         c.off = load => c.open.lin = load,
         NEW q, q.entrypoints = << >>, q.visited \in [load..(end - 1) -> {0, 1}],
         NEW n \in Nat, NEW table \in [1..n -> SegT], Sorted(table),
         TailHeld(load, table, end), c.off \in load..(end - 1),
         ~Build!LastByteMapped(c, q, table)
  PROVE  OnEnd(Build!MapByte(c, q, table), end)
<1> DEFINE past == Build!FindSegmentPast(table, c.off)
           d == Build!MapByte(c, q, table)
<1>1. /\ c.off \in Int /\ q.visited[c.off] \in Int
      /\ load <= c.off /\ c.off < end /\ SegSize \in Nat /\ DOMAIN table = 1..n
      /\ \A i \in 1..n : table[i].addr \in Nat
  BY SizeAssumption DEF WalkOK, Walks, SegT
<1>2. CASE In(table, c.off)
  <2>1. ByteInside(c, q, table)
    BY <1>1, <1>2, ByteInsideIs
  <2>2. d.off = c.off + 1
    BY <2>1 DEF ByteInside
  <2>3. QED
    BY <1>1, <2>2 DEF OnEnd
<1>3. CASE ~In(table, c.off)
  <2>1. past # Build!NoSegment
    BY <1>1, <1>3, GapIs DEF Build!LastByteMapped
  <2>2. past \in Nat /\ c.off < past /\ \E i \in 1..n : table[i].addr = past
    BY <1>1, <2>1, PastIs, PastStarts
  <2>3. /\ d.off = past + 1
        /\ ~Build!IsValid(d.open) \/ d.open = [seg |-> Build!FindSegment(table, past), lin |-> past]
    BY <1>1, <1>3, GapByte
  <2>4. past <= end
    <3>1. CASE In(table, end - 1)
      <4>1. PICK i \in 1..n : InSegment(end - 1, table[i].addr)
        BY <1>1, <3>1 DEF In
      <4>2. c.off < table[i].addr /\ table[i].addr <= end - 1
        <5>1. ~InSegment(c.off, table[i].addr)
          BY <1>1, <1>3 DEF In
        <5>2. QED
          BY <1>1, <4>1, <5>1 DEF InSegment
      <4>3. past <= table[i].addr
        BY <1>1, <4>2, PastLeast
      <4> HIDE DEF past
      <4>4. QED
        BY <1>1, <2>2, <4>2, <4>3
    <3>2. CASE \E i \in DOMAIN table : table[i].addr = end
      BY <1>1, <3>2, PastLeast
    <3>3. CASE \A i \in DOMAIN table : table[i].addr <= end
      BY <1>1, <2>2, <3>3
    <3>4. load # end
      BY <1>1
    <3>5. QED
      BY <3>1, <3>2, <3>3, <3>4 DEF TailHeld
  <2> HIDE DEF d, past
  <2>5. OnEnd(d, end)
    BY <1>1, <2>2, <2>3, <2>4 DEF OnEnd
  <2>6. QED
    BY <2>5 DEF d
<1>4. QED
  BY <1>2, <1>3

LEMMA AmidstOff ==
  ASSUME load \in Nat, NEW end \in Int, NEW c, c.off \in Int, NEW table, NEW V,
         Amidst(load, c, table, V, end)
  PROVE  load <= c.off
<1>1. CASE c = Fresh(load)
  BY <1>1, NewWalk
<1>2. CASE StillFirst(load, c, table, V, end)
  BY <1>2 DEF StillFirst, FirstOpen
<1>3. CASE Within(load, c, table)
  BY <1>3 DEF Within
<1>4. QED
  BY <1>1, <1>2, <1>3 DEF Amidst

LEMMA NowWithin ==
  ASSUME load \in Nat, NEW n \in Nat, NEW table \in [1..n -> SegT],
         NEW at \in Int, In(table, at), load <= at,
         NEW d, d.status = "mapping", d.off = at + 1,
         d.seg = Build!FindSegment(table, at),
         ~Build!IsValid(d.open) \/ d.open = [seg |-> Build!FindSegment(table, at), lin |-> at]
  PROVE  Within(load, d, table)
<1> DEFINE seg == Build!FindSegment(table, at)
<1>1. seg # Build!NoSegment /\ InSegment(at, seg)
  BY FoundBase
<1> HIDE DEF seg
<1>2. load < d.off /\ d.off - 1 = at
  OBVIOUS
<1>3. CASE ~Build!IsValid(d.open)
  BY <1>2, <1>3 DEF Within
<1>4. CASE d.open = [seg |-> seg, lin |-> at]
  <2>1. d.open.seg = seg /\ d.open.lin = at /\ d.seg = seg
    BY <1>4 DEF seg
  <2>2. QED
    BY <1>1, <1>2, <2>1 DEF Within, seg
<1>5. QED
  BY <1>3, <1>4 DEF seg

LEMMA SecondWalkGap ==
  ASSUME load \in Nat, NEW end \in Int, NEW c, WalkOK(load, c),
         NEW q, q.entrypoints = << >>, q.visited \in [load..(end - 1) -> {0, 1}],
         NEW n \in Nat, NEW table \in [1..n -> SegT],
         Short(load, table, q.visited, end), Amidst(load, c, table, q.visited, end),
         c.status = "mapping", load <= c.off, c.off \in DOMAIN q.visited,
         ~In(table, c.off), ~Build!LastByteMapped(c, q, table)
  PROVE  Within(load, Build!MapByte(c, q, table), table)
<1> DEFINE past == Build!FindSegmentPast(table, c.off)
           d == Build!MapByte(c, q, table)
<1>1. c.off \in Int /\ q.visited[c.off] \in Int
  BY DEF WalkOK, Walks
<1>2. past # Build!NoSegment
  BY <1>1, GapIs DEF Build!LastByteMapped
<1>3. past \in Nat /\ c.off < past /\ In(table, past)
  BY <1>1, <1>2, PastIs
<1>4. Stops(load, table, q.visited, end, c.off)
  BY DEF Stops
<1>5. CanClose(c, c.off)
  BY <1>4, Closable
<1>6. ClosedStatus(c) = "mapping"
  BY <1>5 DEF ClosedStatus
<1>7. /\ d.off = past + 1 /\ d.seg = Build!FindSegment(table, past)
      /\ d.status = ClosedStatus(c)
      /\ ~Build!IsValid(d.open) \/ d.open = [seg |-> Build!FindSegment(table, past), lin |-> past]
  BY <1>1, GapByte
<1> HIDE DEF past, d
<1>8. load <= past
  BY <1>1, <1>3
<1>9. Within(load, d, table)
  BY <1>3, <1>6, <1>7, <1>8, NowWithin
<1>10. QED
  BY <1>9 DEF d

LEMMA SecondWalkSame ==
  ASSUME load \in Nat, NEW end \in Int, NEW c, WalkOK(load, c),
         NEW V, NEW n \in Nat, NEW table \in [1..n -> SegT], Sorted(table),
         Amidst(load, c, table, V, end),
         load <= c.off, c.off < end, In(table, c.off),
         NEW d, d.status = "mapping", d.off = c.off + 1, d.open = c.open,
         d.seg = Build!FindSegment(table, c.off),
         V[c.off] = c.prevId, d.prevId = c.prevId,
         \/ d.seg = c.seg
         \/ Build!IsValid(c.open) /\ InSegment(c.open.lin, d.seg)
  PROVE  Amidst(load, d, table, V, end)
<1> DEFINE seg == Build!FindSegment(table, c.off)
<1>1. c.off \in Int /\ c.seg \in Int /\ c.open.lin \in Int /\ SegSize \in Nat
  BY SizeAssumption DEF WalkOK, Walks, PlaceT
<1>2. /\ seg # Build!NoSegment /\ InSegment(c.off, seg) /\ seg \in Nat
      /\ \E i \in 1..n : table[i].addr = seg
  <2>1. /\ seg # Build!NoSegment /\ InSegment(c.off, seg)
        /\ \E i \in 1..n : table[i].addr = seg
    BY <1>1, FoundBase
  <2>2. \A i \in 1..n : table[i].addr \in Nat
    BY DEF SegT
  <2> HIDE DEF seg
  <2>3. QED
    BY <2>1, <2>2
<1>3. d.seg = seg
  OBVIOUS
<1> HIDE DEF seg
<1>4. CASE c = Fresh(load)
  <2>1. /\ c.off = load /\ c.open = [seg |-> HomeBase(load), lin |-> load]
        /\ c.seg = -1 /\ c.prevId = 0
    BY <1>4, NewWalk, FreshOpen
  <2>2. V[load] = 0 /\ In(table, load)
    BY <2>1
  <2>3. seg <= load
    BY <1>1, <1>2, <2>1 DEF InSegment
  <2>4. d.off = load + 1 /\ d.off \in (load + 1)..end
    BY <2>1
  <2>5. \A k \in (load + 1)..(d.off - 1) : ~Stops(load, table, V, end, k)
    BY <2>4
  <2>6. FirstOpen(load, d, end)
    BY <2>1, <2>4 DEF FirstOpen
  <2>7. StillFirst(load, d, table, V, end)
    BY <1>3, <2>2, <2>3, <2>5, <2>6 DEF StillFirst
  <2>8. QED
    BY <2>7 DEF Amidst
<1>5. CASE StillFirst(load, c, table, V, end)
  <2>1. /\ FirstOpen(load, c, end) /\ c.seg <= load /\ V[load] = 0 /\ In(table, load)
        /\ \A k \in (load + 1)..(c.off - 1) : ~Stops(load, table, V, end, k)
    BY <1>5 DEF StillFirst
  <2>2. /\ c.off \in (load + 1)..end /\ c.prevId = 0
        /\ c.open = [seg |-> HomeBase(load), lin |-> load]
    BY <2>1 DEF FirstOpen
  <2>3. seg <= load
    <3>1. CASE seg = c.seg
      BY <2>1, <3>1
    <3>2. CASE InSegment(c.open.lin, seg)
      BY <1>1, <1>2, <2>2, <3>2 DEF InSegment
    <3>3. QED
      BY <1>3, <3>1, <3>2
  <2>4. ~Stops(load, table, V, end, c.off)
    <3>1. ASSUME NEW i \in 1..n, load < table[i].addr, table[i].addr <= c.off
          PROVE  FALSE
      <4>1. table[i].addr <= seg
        BY <1>1, <3>1, SortedFound DEF seg
      <4>2. table[i].addr \in Nat
        BY DEF SegT
      <4>3. QED
        BY <1>2, <2>3, <3>1, <4>1, <4>2
    <3>2. V[c.off] = 0 /\ c.off # end
      BY <1>1, <2>2
    <3>3. DOMAIN table = 1..n
      OBVIOUS
    <3>4. QED
      BY <3>1, <3>2, <3>3 DEF Stops
  <2>5. d.off \in (load + 1)..end /\ d.off - 1 = c.off
    BY <1>1, <2>2
  <2>6. \A k \in (load + 1)..(d.off - 1) : ~Stops(load, table, V, end, k)
    BY <1>1, <2>1, <2>4, <2>5
  <2>7. FirstOpen(load, d, end)
    BY <2>2, <2>5 DEF FirstOpen
  <2>8. StillFirst(load, d, table, V, end)
    BY <1>3, <2>1, <2>3, <2>6, <2>7 DEF StillFirst
  <2>9. QED
    BY <2>8 DEF Amidst
<1>6. CASE Within(load, c, table)
  <2>1. load < d.off /\ d.off - 1 = c.off
    BY <1>1
  <2>2. CASE ~Build!IsValid(c.open)
    <3>1. Within(load, d, table)
      BY <2>1, <2>2 DEF Within
    <3>2. QED
      BY <3>1 DEF Amidst
  <2>3. CASE Build!IsValid(c.open)
    <3>1. /\ c.open.seg = c.seg /\ c.seg = Build!FindSegment(table, c.open.lin)
          /\ c.seg # Build!NoSegment /\ c.open.lin < c.off
      BY <1>6, <2>3 DEF Within
    <3>2. In(table, c.open.lin)
      BY <1>1, <3>1, GapIs
    <3>3. seg = c.seg
      <4>1. SUFFICES ASSUME InSegment(c.open.lin, seg) PROVE seg = c.seg
        BY <1>3
      <4>2. PICK i \in 1..n : table[i].addr = seg
        BY <1>2
      <4>3. table[i].addr <= c.open.lin
        BY <4>1, <4>2 DEF InSegment
      <4>4. seg <= c.seg
        BY <1>1, <3>1, <3>2, <4>2, <4>3, SortedFound
      <4>5. PICK j \in 1..n : table[j].addr = c.seg
        BY <1>1, <3>1, <3>2, FoundBase
      <4>6. InSegment(c.open.lin, c.seg)
        BY <1>1, <3>1, FoundSegment
      <4>7. table[j].addr <= c.off
        BY <1>1, <3>1, <4>5, <4>6 DEF InSegment
      <4>8. c.seg <= seg
        BY <1>1, <4>5, <4>7, SortedFound DEF seg
      <4>9. QED
        BY <1>1, <1>2, <4>4, <4>8
    <3>4. Within(load, d, table)
      BY <1>2, <1>3, <2>1, <3>1, <3>3, <1>1 DEF Within
    <3>5. QED
      BY <3>4 DEF Amidst
  <2>4. QED
    BY <2>2, <2>3
<1>7. QED
  BY <1>4, <1>5, <1>6 DEF Amidst

LEMMA AmidstIs ==
  ASSUME load \in Nat, NEW end \in Int, NEW c, NEW table, NEW V,
         Amidst(load, c, table, V, end)
  PROVE  /\ c.status = "mapping"
         /\ c.off = load => c.open.lin = load
<1>1. CASE c = Fresh(load)
  BY <1>1, NewWalk
<1>2. CASE StillFirst(load, c, table, V, end)
  <2>1. FirstOpen(load, c, end)
    BY <1>2 DEF StillFirst
  <2>2. QED
    BY <2>1, FirstClosed
<1>3. CASE Within(load, c, table)
  BY <1>3 DEF Within
<1>4. QED
  BY <1>1, <1>2, <1>3 DEF Amidst

LEMMA SecondWalkByte ==
  ASSUME load \in Nat, NEW end \in Int, NEW c, WalkOK(load, c),
         NEW q, q.entrypoints = << >>, q.visited \in [load..(end - 1) -> {0, 1}],
         NEW n \in Nat, NEW table \in [1..n -> SegT], Sorted(table),
         Short(load, table, q.visited, end), Amidst(load, c, table, q.visited, end),
         c.off \in DOMAIN q.visited, ~Build!LastByteMapped(c, q, table)
  PROVE  Amidst(load, Build!MapByte(c, q, table), table, q.visited, end)
<1> DEFINE seg == Build!FindSegment(table, c.off)
           d == Build!MapByte(c, q, table)
<1>1. /\ c.off \in Int /\ q.visited[c.off] \in Int /\ load <= c.off /\ c.off < end
      /\ c.status = "mapping" /\ (c.off = load => c.open.lin = load)
  <2>1. c.off \in Int
    BY DEF WalkOK, Walks
  <2>2. QED
    BY <2>1, AmidstIs
<1>2. CASE ~In(table, c.off)
  <2>1. Within(load, d, table)
    BY <1>1, <1>2, SecondWalkGap
  <2>2. QED
    BY <2>1 DEF Amidst
<1>3. CASE In(table, c.off)
  <2>1. ByteInside(c, q, table)
    BY <1>1, <1>3, ByteInsideIs
  <2>2. d.off = c.off + 1 /\ d.seg = seg /\ seg \in Int
    BY <2>1 DEF ByteInside
  <2>3. CASE /\ d.open = c.open /\ d.status = "mapping"
             /\ q.visited[c.off] = c.prevId /\ d.prevId = c.prevId
             /\ seg = c.seg \/ (Build!IsValid(c.open) /\ InSegment(c.open.lin, seg))
    <3> HIDE DEF d
    <3>1. Amidst(load, d, table, q.visited, end)
      BY <1>1, <1>3, <2>2, <2>3, SecondWalkSame
    <3>2. QED
      BY <3>1 DEF d
  <2>4. CASE /\ d.status = ClosedStatus(c)
             /\ ~Build!IsValid(d.open) \/ d.open = [seg |-> seg, lin |-> c.off]
             /\ \/ q.visited[c.off] # c.prevId
                \/ seg # c.seg /\ ~(Build!IsValid(c.open) /\ InSegment(c.open.lin, seg))
    <3>1. ASSUME StillFirst(load, c, table, q.visited, end)
          PROVE  Stops(load, table, q.visited, end, c.off)
      <4>1. c.prevId = 0 /\ c.open.lin = load /\ Build!IsValid(c.open) /\ load < c.off
        <5>1. FirstOpen(load, c, end)
          BY <3>1 DEF StillFirst
        <5>2. QED
          BY <1>1, <5>1, FirstClosed DEF FirstOpen
      <4>2. CASE q.visited[c.off] # c.prevId
        BY <1>1, <4>1, <4>2 DEF Stops
      <4>3. CASE ~InSegment(load, seg)
        <5>1. InSegment(c.off, seg) /\ \E i \in 1..n : table[i].addr = seg
          BY <1>1, <1>3, FoundBase
        <5> HIDE DEF seg
        <5>2. load < seg /\ seg <= c.off
          BY <1>1, <2>2, <4>1, <4>3, <5>1, SizeAssumption DEF InSegment
        <5>3. DOMAIN table = 1..n
          OBVIOUS
        <5>4. \E i \in DOMAIN table : load < table[i].addr /\ table[i].addr <= c.off
          BY <5>1, <5>2, <5>3
        <5>5. QED
          BY <5>4 DEF Stops
      <4>4. QED
        BY <2>4, <4>1, <4>2, <4>3
    <3>2. CanClose(c, c.off)
      BY <3>1, Closable
    <3>3. d.status = "mapping"
      BY <2>4, <3>2 DEF ClosedStatus
    <3> HIDE DEF d
    <3>4. Within(load, d, table)
      BY <1>1, <1>3, <2>2, <2>4, <3>3, NowWithin
    <3>5. QED
      BY <3>4 DEF Amidst, d
  <2>5. QED
    BY <2>1, <2>3, <2>4 DEF ByteInside
<1>4. QED
  BY <1>2, <1>3

LEMMA FinishFails ==
  ASSUME NEW end, NEW c, WalkOK(load, c), c.status = "failed",
         NEW q, q.visited \in [DOMAIN q.visited -> Int]
  PROVE  Build!FinishMap(c, q, end).status = "failed"
<1> DEFINE read == IF c.off \in DOMAIN q.visited
                   THEN [c EXCEPT !.curId = q.visited[c.off]] ELSE c
<1>1. read.status = "failed"
  <2>1. CASE c.off \in DOMAIN q.visited
    <3>1. q.visited[c.off] \in Int
      BY <2>1
    <3>2. QED
      BY <2>1, <3>1, ReadByteIs
  <2>2. CASE c.off \notin DOMAIN q.visited
    BY <2>2
  <2>3. QED
    BY <2>1, <2>2
<1>2. \A next : Build!CloseBlock(read, q, next) = read
  BY <1>1 DEF Build!CloseBlock
<1>3. QED
  BY <1>1, <1>2 DEF Build!FinishMap

LEMMA SecondWalkFinish ==
  ASSUME load \in Nat, NEW end \in Int, load <= end, NEW c, WalkOK(load, c),
         NEW q, q.visited \in [load..(end - 1) -> {0, 1}],
         NEW n \in Nat, NEW table \in [1..n -> SegT],
         Short(load, table, q.visited, end), Amidst(load, c, table, q.visited, end),
         Build!LastByteMapped(c, q, table), OnEnd(c, end)
  PROVE  Build!FinishMap(c, q, end).status # "failed"
<1> DEFINE read == IF c.off \in DOMAIN q.visited
                   THEN [c EXCEPT !.curId = q.visited[c.off]] ELSE c
           place == IF c.off \in DOMAIN q.visited THEN c.off ELSE end
           closed == Build!CloseBlock(read, q, place)
           done == Build!FinishMap(c, q, end)
<1>1. c.off \in Int /\ c.open.lin \in Int
  BY DEF WalkOK, Walks, PlaceT
<1>2. c.off \notin load..(end - 1) \/ ~In(table, c.off)
  <2>1. DOMAIN q.visited = load..(end - 1)
    OBVIOUS
  <2>2. QED
    BY <1>1, <2>1, GapIs DEF Build!LastByteMapped
<1>3. /\ WalkOK(load, read) /\ read.off = c.off /\ read.open = c.open
      /\ read.status = c.status
  <2>1. c.off \in DOMAIN q.visited => q.visited[c.off] \in Int
    OBVIOUS
  <2>2. QED
    BY <2>1, ReadByteIs
<1>4. c.status = "mapping"
  BY AmidstIs
<1>5. ASSUME StillFirst(load, c, table, q.visited, end)
      PROVE  Stops(load, table, q.visited, end, c.off)
  <2>1. c.off \in (load + 1)..end
    BY <1>5 DEF StillFirst, FirstOpen
  <2>2. c.off = end \/ ~In(table, c.off)
    BY <1>2, <2>1
  <2>3. QED
    BY <2>2 DEF Stops
<1>6. CanClose(c, place)
  <2>1. CASE c.off \in DOMAIN q.visited
    BY <1>5, <2>1, Closable
  <2>2. CASE c.off \notin DOMAIN q.visited /\ c.off <= end
    <3>1. load <= c.off
      BY <1>1, AmidstOff
    <3>2. c.off = end
      BY <1>1, <2>2, <3>1
    <3>3. QED
      BY <1>5, <2>2, <3>2, Closable
  <2>3. CASE c.off \notin DOMAIN q.visited /\ ~(c.off <= end)
    BY <2>3 DEF OnEnd, CanClose
  <2>4. QED
    BY <2>1, <2>2, <2>3
<1>6a. place \in Int
  BY <1>1
<1> HIDE DEF read, place
<1>7. CanClose(read, place)
  BY <1>3, <1>6 DEF CanClose
<1>8. closed.status = "mapping" /\ WalkOK(load, closed)
  BY <1>3, <1>4, <1>6a, <1>7, CloseStatus, ClosedIs
<1>9. done = [closed EXCEPT !.status = "mapped"]
  BY <1>8 DEF Build!FinishMap, read, place
<1> HIDE DEF closed, done
<1>10. done.status = "mapped"
  BY <1>8, <1>9 DEF WalkOK, Walks
<1>11. QED
  BY <1>10 DEF done

-----------------------------------------------------------------------------
(* The order leaves a map alone that is in order.                          *)
Defaulted(m) == DataSegs(m) # {} => DefaultSegs(m) # {}

LEMMA StaysInOrder ==
  ASSUME NEW m, MapOK(m), ~m.ida, Sorted(m.segs), Defaulted(m),
         DefaultSegs(m) \subseteq DataSegs(m), \A r \in m.routines : r = WithExtents(r)
  PROVE  InOrder(m) = m
<1>1. PICK n \in Nat : DOMAIN m.segs = 1..n /\ m.segs \in [1..n -> SegT]
  BY SegmentsOfMap
<1>2. WithDefault(m) = m.segs
  <2>1. CASE DataSegs(m) = {}
    BY <2>1 DEF WithDefault
  <2>2. CASE DataSegs(m) # {}
    <3>1. DefaultSegs(m) # {} /\ DefaultSegs(m) \subseteq DOMAIN m.segs
      BY <2>2 DEF Defaulted, DefaultSegs
    <3>2. PICK i \in DefaultSegs(m) : First(m, DefaultSegs(m)) = m.segs[i]
      BY <3>1, FirstOfMap
    <3>3. m.segs[i].type = "DATA"
      BY <3>2 DEF DataSegs
    <3>4. QED
      BY <3>1, <3>2, <3>3 DEF WithDefault
  <2>3. QED
    BY <2>1, <2>2
<1> DEFINE keys == [i \in DOMAIN m.segs |-> m.segs[i].addr]
<1>3. keys \in [1..n -> Int]
  BY <1>1 DEF SegT
<1>4. \A i, j \in 1..n : i <= j => keys[i] <= keys[j]
  BY <1>1 DEF Sorted
<1>5. InBaseOrder(m.segs) = [k \in DOMAIN m.segs |-> m.segs[Ascending(keys)[k]]]
  BY DEF InBaseOrder
<1> HIDE DEF keys
<1>6. \A k \in 1..n : Ascending(keys)[k] = k
  BY <1>3, <1>4, AscendingStays
<1>7. InBaseOrder(m.segs) = m.segs
  BY <1>1, <1>5, <1>6
<1>8. {WithExtents(r) : r \in m.routines} = m.routines
  OBVIOUS
<1>9. InOrder(m) = [m EXCEPT !.routines = m.routines, !.segs = m.segs]
  BY <1>2, <1>7, <1>8, InOrderParts
<1>10. QED
  BY <1>9 DEF MapOK, MapT

(* Whatever the order has made a map, it has a default segment if it can.  *)
LEMMA OrderedDefault ==
  ASSUME NEW m, MapOK(m)
  PROVE  Defaulted(InOrder(m)) /\ Sorted(InOrder(m).segs)
<1>1. PICK n \in Nat : DOMAIN m.segs = 1..n /\ m.segs \in [1..n -> SegT]
  BY SegmentsOfMap
<1> DEFINE w == WithDefault(m)
           o == InOrder(m).segs
<1>2. /\ o \in [1..n -> SegT] /\ DOMAIN o = 1..n
      /\ \A j, k \in 1..n : j <= k => o[j].addr <= o[k].addr
  BY <1>1, SegsInOrder
<1>3. o = InBaseOrder(w) /\ w \in [1..n -> SegT]
  BY <1>1, InOrderParts, WithDefaultIs
<1>4. Sorted(o)
  BY <1>2 DEF Sorted
<1>5. ASSUME NEW x \in 1..n PROVE \E y \in 1..n : o[y] = w[x]
  <2>1. \A s \in SegT : s.addr \in Int
    BY DEF SegT
  <2> HIDE DEF w, o
  <2>2. (\E y \in 1..n : o[x] = w[y]) /\ \E y \in 1..n : o[y] = w[x]
    BY <1>3, <2>1, InBaseOrderHas
  <2>3. QED
    BY <2>2
<1>6. ASSUME DataSegs(InOrder(m)) # {} PROVE DefaultSegs(InOrder(m)) # {}
  <2>1. PICK k \in 1..n : o[k].type = "DATA"
    BY <1>2, <1>6 DEF DataSegs
  <2>2. PICK j \in 1..n : o[k].type = m.segs[j].type
    BY <1>1, SegsInOrderHave
  <2>3. j \in DataSegs(m)
    BY <1>1, <2>1, <2>2 DEF DataSegs
  <2>4. \E i \in 1..n : w[i].def = TRUE
    <3>1. CASE DefaultSegs(m) # {} /\ First(m, DefaultSegs(m)).type = "DATA"
      <4>1. w = m.segs
        BY <3>1 DEF WithDefault
      <4>2. QED
        BY <1>1, <3>1, <4>1 DEF DefaultSegs
    <3>2. CASE ~(DefaultSegs(m) # {} /\ First(m, DefaultSegs(m)).type = "DATA")
      <4> DEFINE i == CHOOSE x \in DataSegs(m) : \A y \in DataSegs(m) : x <= y
      <4>1. w = [m.segs EXCEPT ![i].def = TRUE]
        BY <2>3, <3>2 DEF WithDefault
      <4>2. DataSegs(m) \subseteq Nat /\ DataSegs(m) \subseteq 1..n
        BY <1>1 DEF DataSegs
      <4>3. i \in 1..n
        BY <2>3, <4>2, LeastExists
      <4> HIDE DEF i, w
      <4>4. w[i].def = TRUE
        BY <1>1, <4>1, <4>3 DEF SegT
      <4>5. QED
        BY <4>3, <4>4 DEF w
    <3>3. QED
      BY <3>1, <3>2
  <2>5. PICK i \in 1..n : w[i].def = TRUE
    BY <2>4
  <2>7. \E x \in 1..n : o[x] = w[i]
    BY <1>5, <2>5
  <2>8. \E x \in DOMAIN o : o[x].def
    BY <1>2, <2>5, <2>7
  <2>9. QED
    BY <2>8 DEF DefaultSegs, o
<1>7. QED
  BY <1>4, <1>6 DEF Defaulted

(* The order of the segments does not matter to where the first block can  *)
(* be cut. *)
ShortMap(start, m) == Short(start, m.segs, VisitedAt(start, m), start + m.size)

LEMMA OrderedShort ==
  ASSUME NEW m, MapOK(m), ~m.ida, load \in Nat, ShortMap(load, m)
  PROVE  ShortMap(load, InOrder(m))
<1>1. PICK n \in Nat : DOMAIN m.segs = 1..n /\ m.segs \in [1..n -> SegT]
  BY SegmentsOfMap
<1> DEFINE o == InOrder(m).segs
           V == VisitedAt(load, m)
           end == load + m.size
<1>2. DOMAIN o = 1..n
  BY <1>1, SegsInOrder
<1>3. /\ \A k \in 1..n : \E i \in 1..n : o[k].addr = m.segs[i].addr
      /\ \A k \in 1..n : \E i \in 1..n : o[i].addr = m.segs[k].addr
  BY <1>1, SegsInOrderHave
<1>4. VisitedAt(load, InOrder(m)) = V /\ load + InOrder(m).size = end
  BY OrderedVisited, VisitedSame, InOrderParts
<1> HIDE DEF o, V, end
<1>5. \A b : In(o, b) <=> In(m.segs, b)
  BY <1>1, <1>2, <1>3 DEF In, InSegment
<1>6. \A k : Stops(load, m.segs, V, end, k) => Stops(load, o, V, end, k)
  BY <1>1, <1>2, <1>3, <1>5 DEF Stops
<1>7. Short(load, m.segs, V, end)
  BY DEF ShortMap, V, end
<1>8. Short(load, o, V, end)
  BY <1>5, <1>6, <1>7 DEF Short
<1>9. QED
  BY <1>4, <1>8 DEF ShortMap, o

LEMMA OrderedTail ==
  ASSUME NEW m, MapOK(m), ~m.ida, load \in Nat, TailHeld(load, m.segs, load + m.size)
  PROVE  TailHeld(load, InOrder(m).segs, load + InOrder(m).size)
<1>1. PICK n \in Nat : DOMAIN m.segs = 1..n /\ m.segs \in [1..n -> SegT]
  BY SegmentsOfMap
<1> DEFINE o == InOrder(m).segs
<1>2. DOMAIN o = 1..n
  BY <1>1, SegsInOrder
<1>3. /\ \A k \in 1..n : \E i \in 1..n : o[k].addr = m.segs[i].addr
      /\ \A k \in 1..n : \E i \in 1..n : o[i].addr = m.segs[k].addr
  BY <1>1, SegsInOrderHave
<1>4. InOrder(m).size = m.size
  BY InOrderParts
<1> HIDE DEF o
<1>5. \A b : In(o, b) <=> In(m.segs, b)
  BY <1>1, <1>2, <1>3 DEF In, InSegment
<1>6. TailHeld(load, o, load + m.size)
  BY <1>1, <1>2, <1>3, <1>5 DEF TailHeld
<1>7. QED
  BY <1>4, <1>6 DEF o

-----------------------------------------------------------------------------
(* Each line that is written is read as the routine it was written for.    *)
NameOnce(m) ==
  \A i, j \in DOMAIN m.segs : m.segs[i].name = m.segs[j].name => m.segs[i].addr = m.segs[j].addr

Moved2(addr, S) == {Range2(b.lo - addr, b.hi - addr) : b \in S}
Placed(addr, T) == {At(addr, b) : b \in T}

LEMMA BackAgain ==
  ASSUME NEW addr \in Int, NEW S \in SUBSET RangeT, NEW T, T = Moved2(addr, S)
  PROVE  /\ Placed(addr, T) = S
         /\ \A b \in T : At(addr, b) \in S
         /\ \A b, c \in T : At(addr, b) = At(addr, c) => b = c
<1>1. ASSUME NEW b \in S
      PROVE  At(addr, Range2(b.lo - addr, b.hi - addr)) = b
  <2>1. b = [lo |-> b.lo, hi |-> b.hi] /\ b.lo \in Int /\ b.hi \in Int
    BY DEF RangeT
  <2>2. addr + (b.lo - addr) = b.lo /\ addr + (b.hi - addr) = b.hi
    BY <2>1
  <2>3. QED
    BY <2>1, <2>2 DEF At, Range2
<1>2. \A b \in T : \E s \in S : b = Range2(s.lo - addr, s.hi - addr) /\ At(addr, b) = s
  BY <1>1 DEF Moved2
<1>3. \A s \in S : \E b \in T : b = Range2(s.lo - addr, s.hi - addr) /\ At(addr, b) = s
  BY <1>1 DEF Moved2
<1>4. \A b \in T : At(addr, b) \in S
  BY <1>2
<1>5. Placed(addr, T) = S
  BY <1>3, <1>4 DEF Placed
<1>6. \A b, c \in T : At(addr, b) = At(addr, c) => b = c
  BY <1>2
<1>7. QED
  BY <1>4, <1>5, <1>6

(* The segment a line names. *)
LEMMA NamedBack ==
  ASSUME NEW m, MapOK(m), NameOnce(m), NEW addr, SegsAt(m, addr) # {},
         NEW w, w.segs = m.segs
  PROVE  /\ SegsNamed(w, First(m, SegsAt(m, addr)).name) # {}
         /\ First(w, SegsNamed(w, First(m, SegsAt(m, addr)).name)).addr = addr
<1> DEFINE name == First(m, SegsAt(m, addr)).name
<1>1. SegsAt(m, addr) \subseteq DOMAIN m.segs
  BY DEF SegsAt
<1>2. PICK i \in SegsAt(m, addr) : First(m, SegsAt(m, addr)) = m.segs[i]
  BY <1>1, FirstOfMap
<1>3. i \in DOMAIN m.segs /\ m.segs[i].addr = addr /\ m.segs[i].name = name
  BY <1>2 DEF SegsAt
<1> HIDE DEF name
<1>4. SegsNamed(m, name) \subseteq DOMAIN m.segs /\ i \in SegsNamed(m, name)
  BY <1>3 DEF SegsNamed
<1>5. PICK j \in SegsNamed(m, name) : First(m, SegsNamed(m, name)) = m.segs[j]
  BY <1>4, FirstOfMap
<1>6. m.segs[j].addr = addr
  BY <1>3, <1>5 DEF SegsNamed, NameOnce
<1>7. SegsNamed(w, name) = SegsNamed(m, name)
  BY DEF SegsNamed
<1>8. First(w, SegsNamed(w, name)) = First(m, SegsNamed(m, name))
  BY <1>7 DEF First
<1>9. QED
  BY <1>4, <1>5, <1>6, <1>7, <1>8 DEF name

LEMMA TagsBack ==
  ASSUME NEW line, Settled(line.tags), line.tags \in SUBSET Tags
  PROVE  AnnotationsOf(line) = line.tags /\ TagsAllowed(AnnotationsOf(line))
<1>1. AnnotationsOf(line) = line.tags
  BY DEF AnnotationsOf, Settled
<1>2. QED
  BY <1>1 DEF Settled

RoutineOf(addr, m, line) ==
  LET ext == At(addr, line)
      reach == Placed(addr, line.reach)
      unreach == Placed(addr, line.unreach)
  IN [seg |-> addr, near |-> line.near, lo |-> ext.lo, hi |-> ext.hi,
      reach |-> IF reach \cup unreach = {} /\ m.size # 0 /\ ext.hi < m.size
                THEN {ext} ELSE reach,
      unreach |-> unreach, tags |-> AnnotationsOf(line)]

LEMMA LineBack ==
  ASSUME NEW m, MapOK(m), NameOnce(m), NEW r \in m.routines, SegsAt(m, r.seg) # {},
         MainBlock(r) # {}
  PROVE  LineRoutine(HeaderOf(m), LineOf(m, r)) = r
<1> DEFINE h == HeaderOf(m)
           line == LineOf(m, r)
           addr == First(h, SegsNamed(h, line.seg)).addr
<1>1. r \in RoutineT /\ Sound(r) /\ r.seg \in Int /\ r.lo \in Int /\ r.hi \in Int
  BY BlocksAre
<1>2. h.segs = m.segs
  BY HeaderIs
<1>3. /\ line.seg = First(m, SegsAt(m, r.seg)).name
      /\ line.near = r.near /\ line.tags = r.tags
      /\ line.lo = r.lo - r.seg /\ line.hi = r.hi - r.seg
      /\ line.reach = Moved2(r.seg, r.reach)
      /\ line.unreach = Moved2(r.seg, r.unreach)
  BY LineOfIs DEF Moved2
<1> HIDE DEF line, h
<1>4. addr = r.seg
  BY <1>2, <1>3, NamedBack
<1>5. At(r.seg, line) = [lo |-> r.lo, hi |-> r.hi]
  <2>1. r.seg + (r.lo - r.seg) = r.lo /\ r.seg + (r.hi - r.seg) = r.hi
    BY <1>1
  <2>2. QED
    BY <1>3, <2>1 DEF At, Range2
<1>6. r.reach \in SUBSET RangeT /\ r.unreach \in SUBSET RangeT /\ r.tags \in SUBSET Tags
  BY <1>1 DEF RoutineT
<1>7. Placed(r.seg, line.reach) = r.reach
  BY <1>1, <1>3, <1>6, BackAgain
<1>8. Placed(r.seg, line.unreach) = r.unreach
  BY <1>1, <1>3, <1>6, BackAgain
<1>9. AnnotationsOf(line) = r.tags
  BY <1>1, <1>3, <1>6, TagsBack DEF Sound
<1>10. r.reach \cup r.unreach # {}
  BY DEF MainBlock
<1> HIDE DEF addr
<1>11. LineRoutine(h, line) =
         [seg |-> r.seg, near |-> r.near, lo |-> r.lo, hi |-> r.hi,
          reach |-> r.reach, unreach |-> r.unreach, tags |-> r.tags]
  <2>1. LineRoutine(h, line) = RoutineOf(addr, h, line)
    BY DEF LineRoutine, RoutineOf, Placed, addr
  <2>2. LineRoutine(h, line) = RoutineOf(r.seg, h, line)
    BY <1>4, <2>1
  <2>3. QED
    BY <1>3, <1>5, <1>7, <1>8, <1>9, <1>10, <2>2 DEF RoutineOf
<1>12. r = [seg |-> r.seg, near |-> r.near, lo |-> r.lo, hi |-> r.hi,
            reach |-> r.reach, unreach |-> r.unreach, tags |-> r.tags]
  BY <1>1 DEF RoutineT
<1>13. QED
  BY <1>11, <1>12 DEF line, h

(* What is within a routine has no byte of what is within another one.     *)
Filled(r, u) ==
  /\ u.lo \in Int /\ u.hi \in Int
  /\ \A x \in BytesOf(u) : \E b \in BlocksOf(r) : x \in BytesOf(b)

LEMMA FilledApart ==
  ASSUME NEW m, MapOK(m), NEW start \in Nat, ~Overlapping(m, start),
         NEW r \in m.routines, NEW s \in m.routines, r # s,
         NEW u, Filled(r, u), NEW v, Filled(s, v)
  PROVE  ~Intersects(v, u)
<1>1. SUFFICES ASSUME Intersects(v, u) PROVE FALSE
  OBVIOUS
<1> DEFINE x == Later(v.lo, u.lo)
<1>2. x \in BytesOf(u) /\ x \in BytesOf(v)
  BY <1>1 DEF Intersects, BytesOf, Later, Sooner, Filled, ValidBlock
<1> HIDE DEF x
<1>3. PICK b \in BlocksOf(r) : x \in BytesOf(b)
  BY <1>2 DEF Filled
<1>4. PICK c \in BlocksOf(s) : x \in BytesOf(c)
  BY <1>2 DEF Filled
<1>5. <<r, b>> \in AllBlocks(m) /\ <<s, c>> \in AllBlocks(m)
  BY <1>3, <1>4, BlocksAre
<1>6. <<r, b>> = <<s, c>>
  <2>1. x \in BytesOf(<<r, b>>[2]) /\ x \in BytesOf(<<s, c>>[2])
    BY <1>3, <1>4
  <2>2. QED
    BY <1>5, <2>1, PartedBlocks
<1>7. QED
  BY <1>6

LEMMA ColidesApart ==
  ASSUME NEW m, MapOK(m), NEW start \in Nat, ~Overlapping(m, start),
         NEW r \in m.routines, NEW s \in m.routines, r # s,
         s = WithExtents(s), MainBlock(s) # {}, NEW u, Filled(r, u)
  PROVE  ~ColidesWith(s, u)
<1>1. s \in RoutineT /\ Sound(s) /\ s.lo \in Int /\ s.hi \in Int
  BY BlocksAre
<1>2. Filled(s, s)
  <2>1. s.hi = Extents(s).hi
    BY <1>1, WithExtentsIs
  <2>2. /\ Extents(s).lo = s.lo
        /\ \A x \in BytesOf(Extents(s)) : \E b \in BlocksOf(s) : x \in BytesOf(b)
    BY <1>1, ExtentsIs DEF RoutineT, Sound
  <2>3. BytesOf(s) = BytesOf(Extents(s))
    BY <2>1, <2>2 DEF BytesOf
  <2>4. QED
    BY <1>1, <2>2, <2>3 DEF Filled
<1>3. ASSUME NEW b \in BlocksOf(s) PROVE Filled(s, b)
  BY <1>1, <1>3 DEF Filled, BlocksOf, RoutineT, RangeT
<1>4. ~Intersects(s, u)
  BY <1>2, FilledApart
<1>5. \A b \in BlocksOf(s) : ~Intersects(b, u)
  BY <1>3, FilledApart
<1>6. QED
  BY <1>4, <1>5 DEF ColidesWith

LEMMA OwnApart ==
  ASSUME NEW m, MapOK(m), NEW start \in Nat, ~Overlapping(m, start),
         NEW r \in m.routines, NEW line,
         line.reach = Moved2(r.seg, r.reach), line.unreach = Moved2(r.seg, r.unreach),
         NEW x, NEW y, x # y,
         x \in {<<k, b>> : k \in {"R"}, b \in line.reach}
               \cup {<<k, b>> : k \in {"U"}, b \in line.unreach},
         y \in {<<k, b>> : k \in {"R"}, b \in line.reach}
               \cup {<<k, b>> : k \in {"U"}, b \in line.unreach}
  PROVE  ~Intersects(At(r.seg, x[2]), At(r.seg, y[2]))
<1> DEFINE u == At(r.seg, x[2])
           v == At(r.seg, y[2])
<1>1. r \in RoutineT /\ Sound(r) /\ r.seg \in Int
  BY BlocksAre
<1>2. r.reach \in SUBSET RangeT /\ r.unreach \in SUBSET RangeT
  BY <1>1 DEF RoutineT
<1>3. /\ \A b \in line.reach : At(r.seg, b) \in r.reach
      /\ \A b, c \in line.reach : At(r.seg, b) = At(r.seg, c) => b = c
  BY <1>1, <1>2, BackAgain
<1>4. /\ \A b \in line.unreach : At(r.seg, b) \in r.unreach
      /\ \A b, c \in line.unreach : At(r.seg, b) = At(r.seg, c) => b = c
  BY <1>1, <1>2, BackAgain
<1>5. /\ x = <<x[1], x[2]>> /\ y = <<y[1], y[2]>>
      /\ (x[1] = "R" /\ x[2] \in line.reach) \/ (x[1] = "U" /\ x[2] \in line.unreach)
      /\ (y[1] = "R" /\ y[2] \in line.reach) \/ (y[1] = "U" /\ y[2] \in line.unreach)
  OBVIOUS
<1>6. u \in BlocksOf(r) /\ v \in BlocksOf(r)
  BY <1>3, <1>4, <1>5 DEF BlocksOf
<1>7. SUFFICES ASSUME Intersects(u, v) PROVE FALSE
  OBVIOUS
<1>8. ValidBlock(u)
  BY <1>7 DEF Intersects
<1>9. <<r, u>> \in AllBlocks(m) /\ <<r, v>> \in AllBlocks(m)
  BY <1>6, BlocksAre
<1>10. u = v
  <2> HIDE DEF u, v
  <2>1. /\ ValidBlock(<<r, u>>[2])
        /\ Intersects(<<r, u>>[2], <<r, v>>[2])
    BY <1>7, <1>8
  <2>2. <<r, u>> = <<r, v>>
    BY <1>9, <2>1, PartedBlocks
  <2>3. QED
    BY <2>2
<1>11. CASE x[1] = y[1]
  <2>1. x[2] = y[2]
    BY <1>3, <1>4, <1>5, <1>10, <1>11
  <2>2. QED
    BY <1>5, <1>11, <2>1
<1>12. CASE x[1] # y[1]
  <2>1. u \in r.reach /\ u \in r.unreach
    BY <1>3, <1>4, <1>5, <1>10, <1>12
  <2>2. QED
    BY <1>1, <1>8, <2>1 DEF Sound
<1>13. QED
  BY <1>11, <1>12

LEMMA RoutinesBack ==
  ASSUME NEW m, MapOK(m), NameOnce(m),
         \A s \in m.routines : SegsAt(m, s.seg) # {} /\ MainBlock(s) # {},
         NEW rs \in SUBSET m.routines
  PROVE  AgainOf(m, rs).routines = rs
<1> DEFINE again == {LineRoutine(HeaderOf(m), LineOf(m, r)) : r \in rs}
<1>1. \A s \in rs : LineRoutine(HeaderOf(m), LineOf(m, s)) = s
  BY LineBack
<1>2. again = rs
  BY <1>1
<1>3. AgainOf(m, rs) = [HeaderOf(m) EXCEPT !.routines = again]
  BY DEF AgainOf
<1> HIDE DEF again
<1>4. AgainOf(m, rs).routines = again
  BY <1>3, HeaderIs DEF MapT
<1>5. QED
  BY <1>2, <1>4

(* Every line is accepted after those of the other routines.               *)
LEMMA AcceptedBack ==
  ASSUME NEW m, MapOK(m), NameOnce(m), NEW start \in Nat, ~Overlapping(m, start),
         \A r \in m.routines : r = WithExtents(r) /\ MainBlock(r) # {},
         \A r \in m.routines : ValidBlock(r) /\ SegsAt(m, r.seg) # {},
         NEW r \in m.routines
  PROVE  LineAccepted(AgainOf(m, m.routines \ {r}), LineOf(m, r))
<1> DEFINE line == LineOf(m, r)
           others == AgainOf(m, m.routines \ {r})
           addr == First(others, SegsNamed(others, line.seg)).addr
<1>1. r \in RoutineT /\ Sound(r) /\ r.seg \in Int /\ r.lo \in Int /\ r.hi \in Int
  BY BlocksAre
<1>2. others.segs = m.segs
  BY AgainIs
<1>3. others.routines = m.routines \ {r}
  BY RoutinesBack
<1>4. /\ line.seg = First(m, SegsAt(m, r.seg)).name /\ line.tags = r.tags
      /\ line.lo = r.lo - r.seg /\ line.hi = r.hi - r.seg
      /\ line.reach = Moved2(r.seg, r.reach) /\ line.unreach = Moved2(r.seg, r.unreach)
  BY LineOfIs DEF Moved2
<1> HIDE DEF line, others
<1>5. SegsNamed(others, line.seg) # {} /\ addr = r.seg
  BY <1>2, <1>4, NamedBack
<1>6. line.lo <= line.hi
  BY <1>1, <1>4 DEF ValidBlock
<1>7. TagsAllowed(AnnotationsOf(line))
  BY <1>1, <1>4, TagsBack DEF Sound, RoutineT
<1> HIDE DEF addr
<1>8. ASSUME NEW b \in {Range2(line.lo, line.hi)} \cup line.reach \cup line.unreach,
             NEW s \in others.routines
      PROVE  ~ColidesWith(s, At(addr, b))
  <2>1. r.reach \in SUBSET RangeT /\ r.unreach \in SUBSET RangeT
    BY <1>1 DEF RoutineT
  <2>2. /\ \A c \in line.reach : At(r.seg, c) \in r.reach
        /\ \A c \in line.unreach : At(r.seg, c) \in r.unreach
    BY <1>1, <1>4, <2>1, BackAgain
  <2>3. Filled(r, At(r.seg, b))
    <3>1. CASE b \in line.reach \cup line.unreach
      <4>1. At(r.seg, b) \in BlocksOf(r)
        BY <2>2, <3>1 DEF BlocksOf
      <4>2. QED
        BY <2>1, <4>1 DEF Filled, BlocksOf, RangeT
    <3>2. CASE b = Range2(line.lo, line.hi)
      <4>1. At(r.seg, b).lo = r.lo /\ At(r.seg, b).hi = r.hi
        BY <1>1, <1>4, <3>2 DEF At, Range2
      <4>2. /\ Extents(r).lo = r.lo
            /\ \A x \in BytesOf(Extents(r)) : \E c \in BlocksOf(r) : x \in BytesOf(c)
        BY <1>1, ExtentsIs DEF RoutineT, Sound
      <4>3. r.hi = Extents(r).hi
        BY <1>1, WithExtentsIs
      <4>4. BytesOf(At(r.seg, b)) = BytesOf(Extents(r))
        BY <4>1, <4>2, <4>3 DEF BytesOf
      <4>5. QED
        BY <1>1, <4>1, <4>2, <4>4 DEF Filled
    <3>3. QED
      BY <3>1, <3>2
  <2>4. s \in m.routines /\ r # s
    BY <1>3
  <2>5. QED
    BY <1>5, <2>3, <2>4, ColidesApart
<1>9. \A x, y \in {<<k, b>> : k \in {"R"}, b \in line.reach}
                  \cup {<<k, b>> : k \in {"U"}, b \in line.unreach} :
        x # y => ~Intersects(At(addr, x[2]), At(addr, y[2]))
  BY <1>4, <1>5, OwnApart
<1>10. NoCollision(others, line)
  BY <1>8, <1>9 DEF NoCollision, addr
<1>11. QED
  BY <1>5, <1>6, <1>7, <1>10 DEF LineAccepted, line, others

-----------------------------------------------------------------------------
(* A map but for what is unclaimed.                                        *)
Bare(m) == [m EXCEPT !.unclaimed = {}]

LEMMA BareIs ==
  ASSUME NEW m, MapOK(m), NEW start
  PROVE  /\ MapOK(Bare(m)) /\ Bare(m).unclaimed = {} /\ Bare(m).ida = m.ida
         /\ Bare(m).size = m.size /\ Bare(m).segs = m.segs
         /\ Bare(m).routines = m.routines /\ Bare(m).vars = m.vars
         /\ Overlapping(Bare(m), start) <=> Overlapping(m, start)
         /\ VisitedAt(start, Bare(m)) = VisitedAt(start, m)
<1>1. {} \in SUBSET UnclaimedT
  OBVIOUS
<1>2. QED
  BY <1>1, OtherUnclaimed DEF Bare

LEMMA BareSame ==
  ASSUME NEW m, MapOK(m), NEW s, MapOK(s)
  PROVE  /\ Bare(m) = Bare(s) <=> /\ m.size = s.size /\ m.segs = s.segs
                                  /\ m.routines = s.routines /\ m.vars = s.vars
                                  /\ m.ida = s.ida
         /\ Bare(m) = Bare(s) => [m EXCEPT !.unclaimed = s.unclaimed] = s
<1>1. m \in MapT /\ s \in MapT
  BY DEF MapOK
<1>2. /\ Bare(m) \in MapT /\ Bare(s) \in MapT
      /\ Bare(m).unclaimed = {} /\ Bare(s).unclaimed = {}
      /\ Bare(m).size = m.size /\ Bare(m).segs = m.segs
      /\ Bare(m).routines = m.routines /\ Bare(m).vars = m.vars /\ Bare(m).ida = m.ida
      /\ Bare(s).size = s.size /\ Bare(s).segs = s.segs
      /\ Bare(s).routines = s.routines /\ Bare(s).vars = s.vars /\ Bare(s).ida = s.ida
  BY BareIs DEF MapOK
<1> DEFINE bm == Bare(m)
           bs == Bare(s)
<1>2a. /\ bm \in MapT /\ bs \in MapT /\ bm.unclaimed = bs.unclaimed
  BY <1>2
<1> HIDE DEF bm, bs
<1>2b. /\ bm.size = bs.size /\ bm.segs = bs.segs /\ bm.routines = bs.routines
       /\ bm.vars = bs.vars /\ bm.ida = bs.ida
       => bm = bs
  BY <1>2a DEF MapT
<1>3. Bare(m) = Bare(s) <=> /\ m.size = s.size /\ m.segs = s.segs
                            /\ m.routines = s.routines /\ m.vars = s.vars
                            /\ m.ida = s.ida
  BY <1>2, <1>2b DEF bm, bs
<1>4. ASSUME m.size = s.size, m.segs = s.segs, m.routines = s.routines,
             m.vars = s.vars, m.ida = s.ida
      PROVE  [m EXCEPT !.unclaimed = s.unclaimed] = s
  BY <1>1, <1>4 DEF MapT
<1>5. QED
  BY <1>3, <1>4

LEMMA RereadAgain ==
  ASSUME NEW m, MapOK(m), ~m.ida, NameOnce(m), NEW start \in Nat, ~Overlapping(m, start),
         \A r \in m.routines : r = WithExtents(r) /\ MainBlock(r) # {},
         Savable(m, start)
  PROVE  Reread(m).ok /\ Reread(m).map = Bare(m)
<1>1. \A r \in m.routines : ValidBlock(r) /\ SegsAt(m, r.seg) # {}
  BY DEF Savable
<1>2. \A r \in m.routines : LineAccepted(AgainOf(m, m.routines \ {r}), LineOf(m, r))
  BY <1>1, AcceptedBack
<1>3. Reread(m).ok
  BY <1>2, RereadIs
<1> DEFINE a == AgainOf(m, m.routines)
<1>4. /\ a.size = m.size /\ a.segs = m.segs /\ a.vars = m.vars /\ a.unclaimed = {}
      /\ a.ida = FALSE
  <2> DEFINE rs == m.routines
  <2> HIDE DEF rs
  <2>1. a = AgainOf(m, rs)
    BY DEF rs
  <2> HIDE DEF a
  <2>2. QED
    BY <2>1, AgainIs
<1>4a. a.routines = m.routines
  BY <1>1, RoutinesBack
<1>5. Reread(m).map = a
  BY RereadIs
<1>6. MapOK(a)
  BY <1>1, <1>3, <1>5, RereadOK
<1> HIDE DEF a
<1>7. Bare(a) = Bare(m)
  BY <1>4, <1>4a, <1>6, BareSame DEF MapOK, MapT
<1>8. Bare(a) = a
  BY <1>4, <1>6 DEF Bare, MapOK, MapT
<1>9. QED
  BY <1>3, <1>5, <1>7, <1>8

LEMMA ConstructsAgain ==
  ASSUME load \in Nat, NEW m, MapOK(m), ~m.ida, ~Overlapping(m, load), Construct(m)
  PROVE  /\ phase' = "mapping" /\ map' = m
         /\ sq'.visited = VisitedAt(load, m) /\ sq'.entrypoints = << >>
         /\ cm' = Fresh(load)
<1>1. \A x \in Marked(m) : ~OutOfMap(m, load, x)
  BY DEF Marked, Overlapping
<1>2. /\ phase' = "mapping" /\ map' = m
      /\ sq' = [NoBytes EXCEPT !.visited = Visited(m)] /\ cm' = Build!NewMap(TRUE, load)
  BY <1>1 DEF Construct
<1>3. QED
  BY <1>2, VisitedSame DEF NoBytes, Fresh

-----------------------------------------------------------------------------
(* What holds on the way to a map that is saved.  The segments of a map    *)
(* file have names of their own; a map that is loaded is in order, its     *)
(* first block ends within its segment and no walk is sent past its end;   *)
(* and a whole map that was saved is the map that is being, or has been,   *)
(* loaded again. *)
Named ==
  saved = NoMap /\ phase # "failed" =>
    /\ map.ida = (format = "ida") /\ (format = "map" => NameOnce(map))

Kept(start, m) ==
  /\ ShortMap(start, m) /\ TailHeld(start, m.segs, start + m.size)
  /\ Sorted(m.segs) /\ Defaulted(m)
  /\ \A r \in m.routines : r = WithExtents(r)

Shortened ==
  /\ saved = NoMap /\ phase = "mapping" /\ ~map.ida =>
       \/ cm.status = "failed"
       \/ /\ Landed(load, cm, map.segs, load + map.size)
          /\ \/ cm = Fresh(load) \/ ShortMap(load, map)
             \/ FirstOpen(load, cm, load + map.size)
  /\ saved = NoMap /\ phase = "loaded" /\ ~map.ida => Kept(load, map)
  /\ saved # NoMap /\ ~saved.ida => Kept(load, saved)

Whole(m) ==
  /\ ~m.ida /\ DefaultSegs(m) \subseteq DataSegs(m)
  /\ \A r \in m.routines : MainBlock(r) # {}

Returned ==
  saved # NoMap /\ Whole(saved) =>
    /\ phase \in {"mapping", "loaded"} /\ Bare(map) = Bare(saved)
    /\ phase = "mapping" => /\ Amidst(load, cm, map.segs, sq.visited, load + map.size)
                            /\ OnEnd(cm, load + map.size)

Returning == Named /\ Shortened /\ Returned

LEMMA ReturningInit ==
  ASSUME Init
  PROVE  Returning
<1>1. phase = "reading" /\ saved = NoMap /\ map = [NewFile EXCEPT !.ida = (format = "ida")]
  BY DEF Init
<1>2. map.ida = (format = "ida") /\ map.segs = << >>
  BY <1>1 DEF NewFile
<1>3. NameOnce(map)
  BY <1>2 DEF NameOnce
<1>4. QED
  BY <1>1, <1>2, <1>3 DEF Returning, Named, Shortened, Returned

LEMMA SameNames ==
  ASSUME NEW m, NameOnce(m), NEW w, w.segs = m.segs
  PROVE  NameOnce(w)
BY DEF NameOnce

LEMMA NewName ==
  ASSUME NEW m, MapOK(m), NameOnce(m), NEW s \in SegT, SegsNamed(m, s.name) = {},
         NEW w, w.segs = Append(m.segs, s)
  PROVE  NameOnce(w)
<1>1. PICK n \in Nat : DOMAIN m.segs = 1..n /\ m.segs \in [1..n -> SegT]
  BY SegmentsOfMap
<1>2. m.segs \in Seq(SegT) /\ Len(m.segs) = n
  BY <1>1 DEF MapOK, MapT
<1>3. /\ DOMAIN w.segs = 1..(n + 1) /\ w.segs[n + 1] = s
      /\ \A i \in 1..n : w.segs[i] = m.segs[i]
  BY <1>1, <1>2
<1>4. \A i \in 1..n : m.segs[i].name # s.name
  BY <1>1 DEF SegsNamed
<1>5. \A i \in 1..(n + 1) : i \in 1..n \/ i = n + 1
  BY <1>1
<1>6. QED
  BY <1>1, <1>3, <1>4, <1>5 DEF NameOnce

LEMMA MapLinesNamed ==
  ASSUME Typed, NameOnce(map), phase' # "failed",
         MapSize \/ MapSegment \/ MapVariable \/ MapRoutine
  PROVE  NameOnce(map')
<1>1. MapOK(map) /\ map \in MapT /\ load \in Nat
  BY Numbers DEF Typed, MapOK
<1>2. CASE MapSize
  <2>1. PICK n \in Sizes : map' = [map EXCEPT !.size = n]
    BY <1>2 DEF MapSize, Parsed
  <2>2. map'.segs = map.segs
    BY <1>1, <2>1 DEF MapT
  <2>3. QED
    BY <2>2, SameNames
<1>3. CASE MapSegment
  <2>1. PICK s \in SegLines :
          /\ SegsNamed(map, s.name) = {}
          /\ map' = [map EXCEPT !.segs = Append(@, [s EXCEPT !.addr = @ + load])]
    BY <1>3 DEF MapSegment, Parsed
  <2> DEFINE t == [s EXCEPT !.addr = @ + load]
  <2>2. t \in SegT /\ t.name = s.name
    BY <1>1, <2>1, Numbers DEF SegT
  <2>3. map'.segs = Append(map.segs, t)
    BY <1>1, <2>1 DEF MapT
  <2> HIDE DEF t
  <2>4. QED
    BY <1>1, <2>1, <2>2, <2>3, NewName
<1>4. CASE MapVariable
  <2>1. PICK s \in SegLines, o \in Offsets :
          LET addr == First(map, SegsNamed(map, s.name)).addr
          IN map' = [map EXCEPT !.vars = @ \cup {[seg |-> addr, lin |-> addr + o]}]
    BY <1>4 DEF MapVariable, Parsed, Refuse
  <2>2. map'.segs = map.segs
    BY <1>1, <2>1 DEF MapT
  <2>3. QED
    BY <2>2, SameNames
<1>5. CASE MapRoutine
  <2>1. PICK line \in RoutineLines : map' = WithRoutine(map, line)
    BY <1>5 DEF MapRoutine, Parsed, Refuse
  <2>2. map'.segs = map.segs
    BY <1>1, <2>1 DEF MapT, WithRoutine
  <2>3. QED
    BY <2>2, SameNames
<1>6. QED
  BY <1>2, <1>3, <1>4, <1>5

LEMMA ReadsReturn ==
  ASSUME Typed, Walking, Returning, Reads
  PROVE  Returning'
<1>1. /\ phase = "reading" /\ phase' \in {"reading", "failed"}
      /\ UNCHANGED <<format, load, sq, cm, saved>>
  BY ReadsIs
<1>2. saved = NoMap /\ saved' = NoMap
  BY <1>1 DEF Typed
<1>3. Named'
  <2>1. SUFFICES ASSUME phase' = "reading"
                 PROVE  /\ map'.ida = (format' = "ida")
                        /\ format' = "map" => NameOnce(map')
    BY <1>1 DEF Named
  <2>2. map'.ida = (format' = "ida")
    BY <2>1, ReadsKeep DEF Typed
  <2>3. ASSUME format' = "map" PROVE NameOnce(map')
    <3>1. format = "map" /\ NameOnce(map)
      BY <1>1, <1>2, <2>3 DEF Returning, Named
    <3>2. MapSize \/ MapSegment \/ MapVariable \/ MapRoutine
      BY <3>1 DEF Reads, LinkHeading, LinkSegment, LinkGroup, LinkPublic,
         IdaLength, IdaSegment, IdaEnds, IdaProc, IdaEndp, IdaData, IdaOther, Reading
    <3>3. QED
      BY <2>1, <3>1, <3>2, MapLinesNamed
  <2>4. QED
    BY <2>2, <2>3
<1>4. Shortened' /\ Returned'
  BY <1>1, <1>2 DEF Shortened, Returned
<1>5. QED
  BY <1>3, <1>4 DEF Returning

LEMMA EndReturns ==
  ASSUME Typed, Walking, Returning, EndOfFile
  PROVE  Returning'
<1>1. /\ phase = "reading" /\ load' = load /\ saved' = saved /\ format' = format
      /\ \/ phase' = "failed"
         \/ Construct(IF format = "link" THEN LinkMap ELSE map)
  BY DEF EndOfFile
<1>2. saved = NoMap /\ saved' = NoMap
  BY <1>1 DEF Typed
<1> DEFINE m == IF format = "link" THEN LinkMap ELSE map
<1>3. m.ida = map.ida /\ (format = "map" => m = map)
  BY LinkMapOK
<1> HIDE DEF m
<1>4. CASE phase' = "failed"
  BY <1>2, <1>4 DEF Returning, Named, Shortened, Returned
<1>5. CASE Construct(m)
  <2>1. \/ phase' = "failed"
        \/ phase' = "mapping" /\ map' = m /\ cm' = Fresh(load)
    BY <1>5, ConstructIs
  <2>2. CASE phase' = "mapping" /\ map' = m /\ cm' = Fresh(load)
    <3>1. Named'
      <4>1. /\ map.ida = (format = "ida") /\ (format = "map" => NameOnce(map))
        BY <1>1, <1>2 DEF Returning, Named
      <4>2. map'.ida = (format' = "ida") /\ (format' = "map" => NameOnce(map'))
        BY <1>1, <1>3, <2>2, <4>1
      <4>3. QED
        BY <4>2 DEF Named
    <3>2. Shortened' /\ Returned'
      BY <1>1, <1>2, <2>2 DEF Shortened, Returned, Landed
    <3>3. QED
      BY <3>1, <3>2 DEF Returning
  <2>3. QED
    BY <1>4, <2>1, <2>2
<1>6. QED
  BY <1>1, <1>4, <1>5 DEF m

LEMMA ByteReturns ==
  ASSUME Typed, Walking, Returning, MapNextByte
  PROVE  Returning'
<1>1. /\ phase = "mapping" /\ cm.status = "mapping" /\ ~Build!LastByteMapped(cm, sq, map.segs)
      /\ cm' = Build!MapByte(cm, sq, map.segs)
      /\ UNCHANGED <<format, load, phase, map, pos, sq, saved>>
  BY DEF MapNextByte
<1>2. PICK n \in Nat : DOMAIN map.segs = 1..n /\ map.segs \in [1..n -> SegT]
  BY SegmentsOfMap DEF Typed
<1>3. load \in Nat /\ MapOK(map) /\ map.size \in Nat /\ WalkOK(load, cm)
  BY Numbers DEF Typed, MapOK, MapT, Walking
<1> DEFINE end == load + map.size
           V == sq.visited
<1>4. V = VisitedAt(load, map) /\ sq.entrypoints = << >>
  BY <1>1 DEF Walking
<1>5. end = load + map.size /\ V = sq.visited
  OBVIOUS
<1> HIDE DEF V, end
<1>6. DOMAIN V = load..(load + map.size - 1) /\ V \in [load..(load + map.size - 1) -> {0, 1}]
  BY <1>3, <1>4, WalkBytes
<1>7. end \in Int
  BY <1>3, <1>5
<1>8. sq.visited \in [load..(end - 1) -> {0, 1}]
  BY <1>3, <1>5, <1>6, <1>7
<1>9. cm.off \in DOMAIN V
  BY <1>1 DEF Build!LastByteMapped, V
<1>10. cm.off \in load..(end - 1)
  BY <1>3, <1>5, <1>6, <1>7, <1>9
<1>11. Named'
  BY <1>1 DEF Returning, Named
<1>12. Shortened'
  <2>1. CASE saved = NoMap /\ ~map.ida
    <3>1. /\ Landed(load, cm, map.segs, end)
          /\ cm = Fresh(load) \/ FirstOpen(load, cm, end) \/ ShortMap(load, map)
      BY <1>1, <2>1 DEF Returning, Shortened, end
    <3>2. ASSUME cm = Fresh(load) \/ FirstOpen(load, cm, end)
          PROVE  \/ cm'.status = "failed" \/ FirstOpen(load, cm', end)
                 \/ Short(load, map.segs, sq.visited, end)
      BY <1>1, <1>2, <1>3, <1>4, <1>7, <1>8, <1>10, <3>2, FirstWalkByte
    <3>3. ShortMap(load, map) <=> Short(load, map.segs, sq.visited, end)
      BY <1>4, <1>5 DEF ShortMap
    <3>4. cm'.status = "failed" \/ FirstOpen(load, cm', end) \/ ShortMap(load, map)
      BY <3>1, <3>2, <3>3
    <3>5. Landed(load, cm', map.segs, end)
      BY <1>1, <1>2, <1>3, <1>4, <1>7, <1>8, <1>10, <3>1, LandedByte
    <3>6. QED
      BY <1>1, <2>1, <3>4, <3>5 DEF Shortened, end
  <2>2. CASE ~(saved = NoMap /\ ~map.ida)
    BY <1>1, <2>2 DEF Returning, Shortened
  <2>3. QED
    BY <2>1, <2>2
<1>13. Returned'
  <2>1. SUFFICES ASSUME saved # NoMap, Whole(saved)
                 PROVE  /\ Bare(map) = Bare(saved)
                        /\ Amidst(load, cm', map.segs, sq.visited, end)
                        /\ OnEnd(cm', end)
    BY <1>1 DEF Returned, end
  <2>2. Bare(map) = Bare(saved) /\ Amidst(load, cm, map.segs, sq.visited, end)
    BY <1>1, <2>1 DEF Returning, Returned, end
  <2>3. ShortMap(load, map) /\ Sorted(map.segs) /\ TailHeld(load, map.segs, end)
    <3>1. ~saved.ida
      BY <2>1 DEF Whole
    <3>2. /\ ShortMap(load, saved) /\ Sorted(saved.segs)
          /\ TailHeld(load, saved.segs, load + saved.size)
      BY <2>1, <3>1 DEF Returning, Shortened, Kept
    <3>3. MapOK(saved)
      BY DEF Typed
    <3>4. /\ map.segs = saved.segs /\ map.size = saved.size
      BY <1>3, <2>2, <3>3, BareSame
    <3>5. VisitedAt(load, map) = VisitedAt(load, saved)
      BY <1>3, <2>2, <3>3, BareIs
    <3>6. QED
      BY <1>5, <3>2, <3>4, <3>5 DEF ShortMap
  <2>4. Short(load, map.segs, sq.visited, end)
    BY <1>4, <1>5, <2>3 DEF ShortMap
  <2>5. cm.off \in DOMAIN sq.visited
    BY <1>5, <1>9
  <2>6. Amidst(load, Build!MapByte(cm, sq, map.segs), map.segs, sq.visited, end)
    BY <1>1, <1>2, <1>3, <1>4, <1>7, <1>8, <2>2, <2>3, <2>4, <2>5, SecondWalkByte
  <2>7. cm.off = load => cm.open.lin = load
    BY <1>3, <1>7, <2>2, AmidstIs
  <2>8. OnEnd(Build!MapByte(cm, sq, map.segs), end)
    BY <1>1, <1>2, <1>3, <1>4, <1>7, <1>8, <1>10, <2>3, <2>7, OnEndByte
  <2>9. QED
    BY <1>1, <2>2, <2>6, <2>8
<1>14. QED
  BY <1>11, <1>12, <1>13 DEF Returning

LEMMA OrderedNames ==
  ASSUME NEW m, MapOK(m), NameOnce(m)
  PROVE  NameOnce(InOrder(m))
<1>1. PICK n \in Nat : DOMAIN m.segs = 1..n /\ m.segs \in [1..n -> SegT]
  BY SegmentsOfMap
<1> DEFINE o == InOrder(m).segs
<1>2. DOMAIN o = 1..n
  BY <1>1, SegsInOrder
<1>3. \A k \in 1..n : \E i \in 1..n : o[k].addr = m.segs[i].addr /\ o[k].name = m.segs[i].name
  BY <1>1, SegsInOrderHave
<1> HIDE DEF o
<1>4. ASSUME NEW i \in 1..n, NEW j \in 1..n, o[i].name = o[j].name PROVE o[i].addr = o[j].addr
  <2>1. PICK x \in 1..n : o[i].addr = m.segs[x].addr /\ o[i].name = m.segs[x].name
    BY <1>3
  <2>2. PICK y \in 1..n : o[j].addr = m.segs[y].addr /\ o[j].name = m.segs[y].name
    BY <1>3
  <2>3. QED
    BY <1>1, <1>4, <2>1, <2>2 DEF NameOnce
<1>5. QED
  BY <1>2, <1>4 DEF NameOnce, o

LEMMA OrderedKept ==
  ASSUME NEW m, MapOK(m), ~m.ida, load \in Nat, ShortMap(load, m),
         TailHeld(load, m.segs, load + m.size)
  PROVE  Kept(load, InOrder(m))
<1>1. ASSUME NEW r \in InOrder(m).routines PROVE r = WithExtents(r)
  <2>0. InOrder(m).routines = IF m.ida THEN m.routines
                              ELSE {WithExtents(x) : x \in m.routines}
    BY InOrderParts
  <2>1. PICK x \in m.routines : r = WithExtents(x)
    BY <1>1, <2>0
  <2>2. x \in RoutineT /\ Sound(x)
    BY BlocksAre
  <2>3. QED
    BY <2>1, <2>2, WithExtentsIs
<1>2. QED
  BY <1>1, OrderedShort, OrderedTail, OrderedDefault DEF Kept

LEMMA MapEndReturns ==
  ASSUME Typed, Walking, Returning, MapEnd
  PROVE  Returning'
<1> DEFINE done == Build!FinishMap(cm, sq, load + map.size)
           end == load + map.size
           V == sq.visited
<1>1. /\ phase = "mapping" /\ UNCHANGED <<format, load, saved>>
      /\ cm.status = "failed" \/ Build!LastByteMapped(cm, sq, map.segs)
      /\ done.status = "failed" => phase' = "failed"
      /\ done.status # "failed" => phase' = "loaded"
  BY DEF MapEnd
<1> HIDE DEF done
<1>2. load \in Nat /\ MapOK(map) /\ map.size \in Nat /\ WalkOK(load, cm) /\ MapOK(saved)
  BY Numbers DEF Typed, MapOK, MapT, Walking
<1>3. PICK n \in Nat : DOMAIN map.segs = 1..n /\ map.segs \in [1..n -> SegT]
  BY <1>2, SegmentsOfMap
<1>4. V = VisitedAt(load, map)
  BY <1>1 DEF Walking
<1>5. end = load + map.size /\ V = sq.visited
  OBVIOUS
<1> HIDE DEF V, end
<1>6. /\ DOMAIN V = load..(load + map.size - 1) /\ V \in [load..(load + map.size - 1) -> {0, 1}]
      /\ \A b \in DOMAIN V : V[b] \in Int /\ b \in Int
  BY <1>2, <1>4, WalkBytes
<1>7. end \in Int /\ load <= end
  BY <1>2, <1>5
<1>8. sq.visited \in [load..(end - 1) -> {0, 1}]
  BY <1>2, <1>5, <1>6, <1>7
<1>9. sq.visited \in [DOMAIN sq.visited -> Int]
  BY <1>5, <1>6
<1>10. done.status # "failed" => cm.status # "failed" /\ Build!LastByteMapped(cm, sq, map.segs)
  BY <1>1, <1>2, <1>9, FinishFails DEF done
<1>11. ASSUME saved # NoMap, Whole(saved)
       PROVE  done.status # "failed"
  <2>1. /\ Bare(map) = Bare(saved) /\ Amidst(load, cm, map.segs, sq.visited, end)
        /\ OnEnd(cm, end)
    BY <1>1, <1>5, <1>11 DEF Returning, Returned
  <2>2. Build!LastByteMapped(cm, sq, map.segs)
    BY <1>1, <1>2, <1>7, <2>1, AmidstIs
  <2>3. ShortMap(load, saved)
    BY <1>11 DEF Returning, Shortened, Kept, Whole
  <2>4. map.segs = saved.segs /\ map.size = saved.size
    BY <1>2, <2>1, BareSame
  <2>5. VisitedAt(load, map) = VisitedAt(load, saved)
    BY <1>2, <2>1, BareIs
  <2>6. Short(load, map.segs, sq.visited, end)
    BY <1>4, <1>5, <2>3, <2>4, <2>5 DEF ShortMap
  <2>7. QED
    BY <1>2, <1>3, <1>5, <1>7, <1>8, <2>1, <2>2, <2>6, SecondWalkFinish DEF done
<1>12. CASE phase' = "failed"
  <2>1. done.status = "failed"
    BY <1>1, <1>12
  <2>2. Named' /\ Shortened' /\ Returned'
    BY <1>1, <1>11, <1>12, <2>1 DEF Returning, Named, Shortened, Returned
  <2>3. QED
    BY <2>2 DEF Returning
<1>13. CASE phase' = "loaded"
  <2>1. PICK U \in SUBSET UnclaimedT :
               IsFiniteSet(U) /\ map' = InOrder([map EXCEPT !.unclaimed = U])
    BY <1>13, MapEndIs
  <2> DEFINE w == [map EXCEPT !.unclaimed = U]
  <2>2. /\ MapOK(w) /\ w.unclaimed = U /\ w.ida = map.ida /\ w.size = map.size
        /\ w.segs = map.segs /\ w.routines = map.routines /\ w.vars = map.vars
        /\ VisitedAt(load, w) = VisitedAt(load, map)
    BY <1>2, <2>1, OtherUnclaimed
  <2>3. map' = InOrder(w)
    BY <2>1
  <2> HIDE DEF w
  <2>4. done.status # "failed"
    BY <1>1, <1>13
  <2>5. map'.ida = map.ida
    BY <2>2, <2>3, InOrderParts
  <2>6. Named'
    <3>1. SUFFICES ASSUME saved = NoMap
                   PROVE  /\ map'.ida = (format = "ida")
                          /\ format = "map" => NameOnce(map')
      BY <1>1 DEF Named
    <3>2. map.ida = (format = "ida") /\ (format = "map" => NameOnce(map))
      BY <1>1, <3>1 DEF Returning, Named
    <3>3. ASSUME NameOnce(map) PROVE NameOnce(map')
      <4>1. NameOnce(w)
        BY <2>2, <3>3, SameNames
      <4>2. QED
        BY <2>2, <2>3, <4>1, OrderedNames
    <3>4. QED
      BY <2>5, <3>2, <3>3
  <2>7. ASSUME saved = NoMap, ~map'.ida PROVE Kept(load, map')
    <3>1. /\ Landed(load, cm, map.segs, end)
          /\ cm = Fresh(load) \/ FirstOpen(load, cm, end) \/ ShortMap(load, map)
      BY <1>1, <1>5, <1>10, <2>4, <2>5, <2>7 DEF Returning, Shortened
    <3>2. ASSUME cm = Fresh(load) \/ FirstOpen(load, cm, end)
          PROVE  Short(load, map.segs, sq.visited, end)
      BY <1>2, <1>3, <1>5, <1>7, <1>8, <1>10, <2>4, <3>2, FirstWalkFinish DEF done
    <3>3. ShortMap(load, map) <=> Short(load, map.segs, sq.visited, end)
      BY <1>4, <1>5 DEF ShortMap
    <3>4. ShortMap(load, w)
      BY <2>2, <3>1, <3>2, <3>3 DEF ShortMap
    <3>5. cm.status # "failed"
      BY <1>10, <2>4
    <3>6. TailHeld(load, map.segs, end)
      BY <1>2, <1>3, <1>5, <1>7, <1>8, <1>10, <2>4, <3>1, <3>5, FirstWalkTail DEF done
    <3>7. QED
      BY <1>2, <1>5, <2>2, <2>3, <2>5, <2>7, <3>4, <3>6, OrderedKept
  <2>8. Shortened'
    BY <1>1, <1>13, <2>7 DEF Returning, Shortened
  <2>9. Returned'
    <3>1. SUFFICES ASSUME saved # NoMap, Whole(saved)
                   PROVE  Bare(map') = Bare(saved)
      BY <1>1, <1>13 DEF Returned
    <3>2. Bare(map) = Bare(saved)
      BY <1>1, <3>1 DEF Returning, Returned
    <3>3. Kept(load, saved) /\ ~saved.ida
      BY <3>1 DEF Returning, Shortened, Whole
    <3>4. /\ w.size = saved.size /\ w.segs = saved.segs /\ w.routines = saved.routines
          /\ w.vars = saved.vars /\ w.ida = saved.ida
      BY <1>2, <2>2, <3>2, BareSame
    <3>5. /\ Sorted(w.segs) /\ Defaulted(w) /\ DefaultSegs(w) \subseteq DataSegs(w)
          /\ \A r \in w.routines : r = WithExtents(r)
      BY <3>1, <3>3, <3>4 DEF Kept, Defaulted, Whole, DefaultSegs, DataSegs
    <3>6. InOrder(w) = w
      BY <2>2, <3>3, <3>4, <3>5, StaysInOrder
    <3>7. Bare(w) = Bare(saved)
      BY <1>2, <2>2, <3>4, BareSame
    <3>8. QED
      BY <2>3, <3>6, <3>7
  <2>10. QED
    BY <2>6, <2>8, <2>9 DEF Returning
<1>14. QED
  BY <1>1, <1>12, <1>13

LEMMA SaveReturns ==
  ASSUME Typed, Walking, Returning, SaveAndReload
  PROVE  Returning'
<1>1. /\ phase = "loaded" /\ saved = NoMap /\ format # "link" /\ map.routines # {}
      /\ Savable(map, load) /\ saved' = map /\ load' = load
      /\ Reread(map).ok => Construct(Reread(map).map)
  BY DEF SaveAndReload
<1>2. MapOK(map) /\ load \in Nat /\ format \in {"map", "link", "ida"}
  BY Numbers DEF Typed
<1>3. map.ida = (format = "ida") /\ (format = "map" => NameOnce(map))
  BY <1>1 DEF Returning, Named
<1>4. saved' # NoMap
  BY <1>1, HeaderIs, NewFileOK DEF NoMap, NewFile
<1>5. Named'
  BY <1>4 DEF Named
<1>6. Shortened'
  <2>1. ASSUME ~map.ida PROVE Kept(load, map)
    BY <1>1, <2>1 DEF Returning, Shortened
  <2>2. QED
    BY <1>1, <1>4, <2>1 DEF Shortened
<1>7. ASSUME Whole(map)
      PROVE  /\ phase' = "mapping" /\ Bare(map') = Bare(map)
             /\ Amidst(load, cm', map'.segs, sq'.visited, load + map'.size)
             /\ OnEnd(cm', load + map'.size)
  <2>1. ~map.ida /\ format = "map" /\ NameOnce(map)
    BY <1>1, <1>2, <1>3, <1>7 DEF Whole
  <2>2. ~Overlapping(map, load)
    BY <1>1, <2>1, LoadedMap
  <2>3. \A r \in map.routines : r = WithExtents(r) /\ MainBlock(r) # {}
    BY <1>1, <1>7, <2>1 DEF Returning, Shortened, Kept, Whole
  <2>4. Reread(map).ok /\ Reread(map).map = Bare(map)
    BY <1>1, <1>2, <2>1, <2>2, <2>3, RereadAgain
  <2>5. Construct(Bare(map))
    BY <1>1, <2>4
  <2> DEFINE b == Bare(map)
  <2>6. MapOK(b) /\ ~b.ida /\ ~Overlapping(b, load)
    BY <1>2, <2>1, <2>2, BareIs
  <2>7. Bare(b) = b
    <3>1. b.unclaimed = {}
      BY <1>2, BareIs
    <3> HIDE DEF b
    <3>2. QED
      BY <2>6, <3>1 DEF Bare, MapOK, MapT
  <2> HIDE DEF b
  <2>8. phase' = "mapping" /\ map' = b /\ cm' = Fresh(load)
    BY <1>2, <2>5, <2>6, ConstructsAgain DEF b
  <2>9. cm'.off = load /\ map'.size \in Nat
    BY <1>2, <2>6, <2>8, NewWalk DEF MapOK, MapT
  <2>10. QED
    BY <1>2, <2>7, <2>8, <2>9 DEF b, Amidst, OnEnd
<1>8. Returned'
  BY <1>1, <1>7 DEF Returned
<1>9. QED
  BY <1>5, <1>6, <1>8 DEF Returning

LEMMA StepReturns ==
  ASSUME Typed, Walking, Returning, [Next]_state
  PROVE  Returning'
<1>1. CASE Reads
  BY <1>1, ReadsReturn
<1>2. CASE EndOfFile
  BY <1>2, EndReturns
<1>3. CASE MapNextByte
  BY <1>3, ByteReturns
<1>4. CASE MapEnd
  BY <1>4, MapEndReturns
<1>5. CASE SaveAndReload
  BY <1>5, SaveReturns
<1>6. CASE UNCHANGED state
  BY <1>6 DEF state, Returning, Named, Shortened, Returned
<1>7. QED
  BY <1>1, <1>2, <1>3, <1>4, <1>5, <1>6 DEF Next, Reads

(* A map that is saved and read again comes back as it was, whatever it    *)
(* was loaded from, but for the maps RoundTrip names (CodeMap::save and    *)
(* loadFromMapFile). *)
THEOREM SavedComesBack == Spec => []RoundTrip
<1>1. Typed /\ Returning => RoundTrip
  <2>1. SUFFICES ASSUME Typed, Returning, saved # NoMap, ~saved.ida,
                        \A r \in saved.routines : MainBlock(r) # {},
                        DefaultSegs(saved) \subseteq DataSegs(saved)
                 PROVE  /\ phase # "failed"
                        /\ [map EXCEPT !.unclaimed = saved.unclaimed] = saved
    BY DEF RoundTrip
  <2>2. Whole(saved)
    BY <2>1 DEF Whole
  <2>3. phase \in {"mapping", "loaded"} /\ Bare(map) = Bare(saved)
    BY <2>1, <2>2 DEF Returning, Returned
  <2>4. MapOK(map) /\ MapOK(saved)
    BY <2>1 DEF Typed
  <2>5. QED
    BY <2>3, <2>4, BareSame
<1>2. Init => Typed /\ Walking /\ Returning
  BY WalkingInit, ReturningInit
<1>3. Typed /\ Walking /\ Returning /\ [Next]_state => (Typed /\ Walking /\ Returning)'
  BY StepKeeps, StepReturns
<1>4. QED
  BY <1>1, <1>2, <1>3, PTL DEF Spec
=============================================================================
