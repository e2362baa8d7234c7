------------------------- MODULE CompareCode_proofs -------------------------
(***************************************************************************)
(* The equivalences a comparison relies on, for every pair of images, map  *)
(* of the reference and set of options: code addresses that were met stay  *)
(* one-to-one, data offsets keep to their limit.  Then the walk itself:    *)
(* its queues, the routines it knows of, and the blocks it comes through.  *)
(*                                                                         *)
(* Nearly every step either leaves the offset map alone, resets its stack  *)
(* part, or compares two instructions: then the map goes through the match *)
(* of their operands, that of their destinations, the branch that is       *)
(* followed, and perhaps a guess.  Each of these keeps it good.            *)
(***************************************************************************)
EXTENDS CompareCode, QueueTableLemmas

-----------------------------------------------------------------------------
(* The equivalences: each kind of match keeps code addresses one-to-one    *)
(* and data offsets within the limit, whatever is matched.  Only a guess   *)
(* (setCode) is free to break that, so a set of guessed places is left     *)
(* out.                                                                    *)

Shape(m) ==
  /\ m = [code |-> m.code, stack |-> m.stack, data |-> m.data, maxData |-> m.maxData]
  /\ m.data \in [DataOffset -> SUBSET DataOffset]
  /\ m.maxData \in Nat

(* The code addresses that were met and not guessed. *)
Met(m, guessed) == [x \in DOMAIN m.code \ guessed |-> m.code[x].lin]

Good(m, guessed) == Shape(m) /\ OneToOne(Met(m, guessed)) /\ DataWithinSegments(m)

-----------------------------------------------------------------------------
LEMMA OneToOneOfMet ==
  ASSUME NEW m, NEW guessed
  PROVE  OneToOne(Met(m, guessed)) <=>
           \A x, y \in DOMAIN m.code \ guessed : m.code[x].lin = m.code[y].lin => x = y
BY DEF OneToOne, Met

LEMMA SetCodeParts ==
  ASSUME NEW m, Shape(m), NEW from, NEW to
  PROVE  LET n == SetCode(m, from, to)
         IN /\ Shape(n) /\ n.stack = m.stack /\ n.data = m.data /\ n.maxData = m.maxData
            /\ DOMAIN n.code = DOMAIN m.code \cup {from.lin}
            /\ \A x \in DOMAIN n.code : n.code[x] = IF x = from.lin THEN to ELSE m.code[x]
BY DEF Shape, SetCode, Put

(* Data is bounded whatever happens to code and stack. *)
LEMMA SameDataWithin ==
  ASSUME NEW m, NEW n, DataWithinSegments(m), n.data = m.data, n.maxData = m.maxData
  PROVE  DataWithinSegments(n)
BY DEF DataWithinSegments

(* A match of code addresses writes only a pair that is free on both sides. *)
LEMMA CodeMatchGood ==
  ASSUME NEW m, NEW guessed, Good(m, guessed), NEW from, NEW to
  PROVE  Good(CodeMatch(m, from, to).map, guessed)
<1> DEFINE n == CodeMatch(m, from, to).map
           free == /\ from.lin \notin DOMAIN m.code
                   /\ \A x \in DOMAIN m.code : m.code[x].lin # to.lin
<1>1. \/ n = m
      \/ free /\ n = SetCode(m, from, to)
  BY DEF CodeMatch, Accept, Refuse
<1>2. CASE n = m
  BY <1>2
<1>3. CASE free /\ n = SetCode(m, from, to)
  <2>1. /\ Shape(n) /\ n.data = m.data /\ n.maxData = m.maxData
        /\ DOMAIN n.code = DOMAIN m.code \cup {from.lin}
        /\ \A x \in DOMAIN n.code : n.code[x] = IF x = from.lin THEN to ELSE m.code[x]
    BY <1>3, SetCodeParts DEF Good
  <2> HIDE DEF n
  <2>2. \A x, y \in DOMAIN n.code \ guessed : n.code[x].lin = n.code[y].lin => x = y
    BY <1>3, <2>1, OneToOneOfMet DEF Good
  <2>3. QED
    BY <2>1, <2>2, OneToOneOfMet, SameDataWithin DEF Good, n
<1>4. QED
  BY <1>1, <1>2, <1>3

(* A guess may break anything about the place it guesses, nothing else. *)
LEMMA GuessGood ==
  ASSUME NEW m, NEW guessed, Good(m, guessed), NEW from, NEW to
  PROVE  Good(SetCode(m, from, to), guessed \cup {from.lin})
<1> DEFINE n == SetCode(m, from, to)
<1>1. /\ Shape(n) /\ n.data = m.data /\ n.maxData = m.maxData
      /\ DOMAIN n.code = DOMAIN m.code \cup {from.lin}
      /\ \A x \in DOMAIN n.code : n.code[x] = IF x = from.lin THEN to ELSE m.code[x]
  BY SetCodeParts DEF Good
<1> HIDE DEF n
<1>2. \A x, y \in DOMAIN n.code \ (guessed \cup {from.lin}) :
        n.code[x].lin = n.code[y].lin => x = y
  BY <1>1, OneToOneOfMet DEF Good
<1>3. QED
  BY <1>1, <1>2, OneToOneOfMet, SameDataWithin DEF Good, n

-----------------------------------------------------------------------------
LEMMA StackMatchGood ==
  ASSUME NEW m, NEW guessed, Good(m, guessed), NEW from, NEW to
  PROVE  Good(StackMatch(m, from, to).map, guessed)
<1> DEFINE n == StackMatch(m, from, to).map
<1>1. /\ Shape(n) /\ n.code = m.code /\ n.data = m.data /\ n.maxData = m.maxData
  BY DEF StackMatch, Accept, Refuse, Shape, Good
<1> HIDE DEF n
<1>2. QED
  BY <1>1, SameDataWithin DEF Good, Met, n

LEMMA ResetStackGood ==
  ASSUME NEW m, NEW guessed, Good(m, guessed)
  PROVE  Good(ResetStack(m), guessed)
<1> DEFINE n == ResetStack(m)
<1>1. /\ Shape(n) /\ n.code = m.code /\ n.data = m.data /\ n.maxData = m.maxData
  BY DEF ResetStack, Shape, Good
<1> HIDE DEF n
<1>2. QED
  BY <1>1, SameDataWithin DEF Good, Met, n

-----------------------------------------------------------------------------
(* Data offsets: finitely many, so that users and partners can be counted. *)

LEMMA OffsetsFinite == \A S \in SUBSET DataOffset : IsFiniteSet(S) /\ Cardinality(S) \in Nat
<1>1. WordSize - 1 \in Int
  BY WordAssumption
<1>2. IsFiniteSet(DataOffset)
  BY <1>1, FS_Interval DEF DataOffset
<1>3. QED
  BY <1>2, FS_Subset, FS_CardinalityType

LEMMA OneMore ==
  ASSUME NEW S \in SUBSET DataOffset, NEW x \in DataOffset, NEW n \in Nat, Cardinality(S) < n
  PROVE  Cardinality(S \cup {x}) <= n
<1>1. IsFiniteSet(S) /\ Cardinality(S) \in Nat
  BY OffsetsFinite
<1>2. Cardinality(S \cup {x}) = Cardinality(S) \/ Cardinality(S \cup {x}) = Cardinality(S) + 1
  BY <1>1, FS_AddElement
<1>3. QED
  BY <1>1, <1>2

LEMMA OffsetOfInt == \A o \in Int : o % WordSize \in DataOffset
BY WordAssumption DEF DataOffset

(* A new partner is given to an offset only where both still have room. *)
LEMMA DataMatchGood ==
  ASSUME NEW m, NEW guessed, Good(m, guessed), NEW from \in Int, NEW to \in Int
  PROVE  Good(DataMatch(m, from, to).map, guessed)
<1> DEFINE f == from % WordSize
           t == to % WordSize
           users(o) == {x \in DataOffset : o \in m.data[x]}
           n == DataMatch(m, from, to).map
           more == [m EXCEPT !.data[f] = @ \cup {t}]
<1>1. f \in DataOffset /\ t \in DataOffset
  BY OffsetOfInt
<1>2. Shape(m) /\ DataWithinSegments(m)
  BY DEF Good
<1>3. \/ n = m
      \/ /\ n = more
         /\ Cardinality(m.data[f]) < m.maxData /\ Cardinality(users(t)) < m.maxData
  BY DEF DataMatch, Accept, Refuse
<1>4. CASE n = m
  BY <1>4
<1>5. CASE n = more /\ Cardinality(m.data[f]) < m.maxData /\ Cardinality(users(t)) < m.maxData
  <2>1. /\ more = [code |-> more.code, stack |-> more.stack, data |-> more.data,
                   maxData |-> more.maxData]
        /\ more.code = m.code /\ more.maxData = m.maxData
        /\ more.data = [m.data EXCEPT ![f] = @ \cup {t}]
    BY <1>2 DEF Shape
  <2> HIDE DEF more, f, t
  <2>2. /\ more.data \in [DataOffset -> SUBSET DataOffset]
        /\ more.data[f] = m.data[f] \cup {t}
        /\ \A o \in DataOffset : o # f => more.data[o] = m.data[o]
    BY <1>1, <1>2, <2>1 DEF Shape
  <2>3. \A o \in DataOffset : Cardinality(more.data[o]) <= m.maxData
    <3> SUFFICES ASSUME NEW o \in DataOffset PROVE Cardinality(more.data[o]) <= m.maxData
      OBVIOUS
    <3>1. CASE o = f
      <4>1. m.data[f] \in SUBSET DataOffset /\ m.maxData \in Nat
        BY <1>1, <1>2 DEF Shape
      <4>2. QED
        BY <1>1, <1>5, <2>2, <3>1, <4>1, OneMore
    <3>2. CASE o # f
      BY <1>2, <2>2, <3>2 DEF DataWithinSegments
    <3>3. QED
      BY <3>1, <3>2
  <2>4. \A o \in DataOffset :
          Cardinality({x \in DataOffset : o \in more.data[x]}) <= m.maxData
    <3> SUFFICES ASSUME NEW o \in DataOffset
                 PROVE  Cardinality({x \in DataOffset : o \in more.data[x]}) <= m.maxData
      OBVIOUS
    <3>1. CASE o = t
      <4>1. {x \in DataOffset : o \in more.data[x]} = users(t) \cup {f}
        BY <1>1, <2>2, <3>1
      <4>2. users(t) \in SUBSET DataOffset /\ m.maxData \in Nat
        BY <1>2 DEF Shape
      <4>3. Cardinality(users(t) \cup {f}) <= m.maxData
        <5> HIDE DEF users
        <5>1. QED
          BY <1>1, <1>5, <4>2, OneMore
      <4>4. QED
        BY <4>1, <4>3
    <3>2. CASE o # t
      <4>1. {x \in DataOffset : o \in more.data[x]} = users(o)
        BY <1>1, <2>2, <3>2
      <4>2. QED
        BY <1>2, <4>1 DEF DataWithinSegments
    <3>3. QED
      BY <3>1, <3>2
  <2>5. Shape(more) /\ DataWithinSegments(more)
    BY <1>2, <2>1, <2>2, <2>3, <2>4 DEF Shape, DataWithinSegments
  <2>6. Met(more, guessed) = Met(m, guessed)
    BY <2>1 DEF Met
  <2>7. QED
    BY <1>5, <2>5, <2>6 DEF Good
<1>6. QED
  BY <1>3, <1>4, <1>5

-----------------------------------------------------------------------------

HistShape(h) ==
  h = [pairs |-> h.pairs, guessed |-> h.guessed, last |-> h.last, frame |-> h.frame,
       back |-> h.back, short |-> h.short, strayed |-> h.strayed]

(* The case is one the constants allow. *)
CaseTyped ==
  /\ \A x \in Byte : Decodes(case.ref[x]) /\ Decodes(case.tgt[x])
  /\ case.entry \in Located /\ case.tentry \in Located
  /\ case.dataSegs \in Nat
  /\ DOMAIN case.rmap = 1..Len(case.rmap) /\ Len(case.rmap) \in Nat
  /\ \A n \in DOMAIN case.rmap : OfImage(case.rmap[n])
  /\ \A n \in DOMAIN case.rmap : case.tmap[n] \in Located \cup {InvalidAddr}
  /\ \A x \in DOMAIN case.rsegs : case.rsegs[x] \in SegTypes
  /\ case.opt.refSkip \in Nat /\ case.opt.tgtSkip \in Nat

CInv == CaseTyped /\ HistShape(hist) /\ Good(off, hist.guessed)

LEMMA HistGuessed ==
  ASSUME NEW h, HistShape(h), NEW g
  PROVE  LET n == [h EXCEPT !.guessed = g] IN HistShape(n) /\ n.guessed = g
BY DEF HistShape

LEMMA HistBack ==
  ASSUME NEW h, HistShape(h), NEW b, NEW s
  PROVE  LET n == [h EXCEPT !.back = b, !.strayed = s] IN HistShape(n) /\ n.guessed = h.guessed
<1> DEFINE k == [h EXCEPT !.back = b]
<1>1. HistShape(k) /\ k.guessed = h.guessed
  BY DEF HistShape
<1> HIDE DEF k
<1>2. LET n == [k EXCEPT !.strayed = s] IN HistShape(n) /\ n.guessed = k.guessed
  BY <1>1 DEF HistShape
<1>3. QED
  BY <1>1, <1>2 DEF k

LEMMA HistShort ==
  ASSUME NEW h, HistShape(h), NEW s
  PROVE  LET n == [h EXCEPT !.short = s]
         IN /\ HistShape(n) /\ n.guessed = h.guessed /\ n.pairs = h.pairs /\ n.last = h.last
            /\ n.frame = h.frame /\ n.short = s /\ n.strayed = h.strayed
BY DEF HistShape

LEMMA HistAccepted ==
  ASSUME NEW h, HistShape(h), NEW p, NEW f
  PROVE  LET n == [h EXCEPT !.pairs = p, !.frame = f] IN HistShape(n) /\ n.guessed = h.guessed
<1> DEFINE k == [h EXCEPT !.pairs = p]
<1>1. HistShape(k) /\ k.guessed = h.guessed
  BY DEF HistShape
<1> HIDE DEF k
<1>2. LET n == [k EXCEPT !.frame = f] IN HistShape(n) /\ n.guessed = k.guessed
  BY <1>1 DEF HistShape
<1>3. QED
  BY <1>1, <1>2 DEF k

-----------------------------------------------------------------------------
(* The map a step leaves, piece by piece.                                  *)

LEMMA OffsetMatchGood ==
  ASSUME NEW guessed, Good(off, guessed), NEW r, NEW t, r.ofs \in Int, t.ofs \in Int
  PROVE  Good(OffsetMatch(r, t).map, guessed)
<1>1. OffsetMatch(r, t) \in {Accept(off), CodeMatch(off, LinearAddr(r.ofs), LinearAddr(t.ofs)),
                             DataMatch(off, r.ofs, t.ofs), StackMatch(off, r.ofs, t.ofs)}
  BY DEF OffsetMatch
<1>2. Accept(off).map = off
  BY DEF Accept
<1>3. QED
  BY <1>1, <1>2, CodeMatchGood, DataMatchGood, StackMatchGood

LEMMA InstructionsMatchGood ==
  ASSUME NEW guessed, Good(off, guessed), NEW r, NEW t, r.ofs \in Int, t.ofs \in Int
  PROVE  Good(InstructionsMatch(r, t).off, guessed)
<1> DEFINE m == OffsetMatch(r, t).map
           b == BranchMatch(r, t, m)
<1>1. Good(m, guessed)
  BY OffsetMatchGood
<1>2. b.off \in {m, CodeMatch(m, BranchDest(r, rc), BranchDest(t, tc)).map}
  BY DEF BranchMatch, Verdict
<1>3. Good(b.off, guessed)
  BY <1>1, <1>2, CodeMatchGood
<1>4. VariantMatch(r).off = off
  BY DEF VariantMatch, Verdict
<1>5. InstructionsMatch(r, t).off \in {off, m, b.off}
  BY <1>4 DEF InstructionsMatch, Verdict
<1>6. QED
  BY <1>1, <1>3, <1>5

LEMMA FollowGood ==
  ASSUME NEW guessed, NEW map, Good(map, guessed), NEW skipped
  PROVE  Good(Follow(skipped, map).off, guessed)
<1> DEFINE m == CodeMatch(map, RefDest, TgtDest).map
<1>1. FollowCall(map).off \in {map, m}
  BY DEF FollowCall, Outcome
<1>2. FollowJump(map).off \in {map, m}
  BY DEF FollowJump, Outcome
<1>3. Follow(skipped, map).off \in {map, m}
  BY <1>1, <1>2 DEF Follow, Outcome
<1>4. QED
  BY <1>3, CodeMatchGood

LEMMA WithGuessGood ==
  ASSUME NEW guessed, NEW map, Good(map, guessed), NEW at, NEW tat
  PROVE  Good(WithGuess(map, at, tat),
              IF Guesses(at, map) THEN guessed \cup {NextBlock(at).b} ELSE guessed)
<1>1. BlockAddr(NextBlock(at)).lin = NextBlock(at).b
  BY DEF BlockAddr
<1>2. QED
  BY <1>1, GuessGood DEF WithGuess

(* A pair of instructions that passed, skipped over or not. *)
LEMMA ProceedGood ==
  ASSUME CInv, Compared, NEW skipped, NEW STATE map, Good(map, hist.guessed),
         NEW STATE at, NEW STATE tat, NEW STATE note, HistShape(note), note.guessed = hist.guessed,
         Proceed(skipped, map, at, tat, note)
  PROVE  CInv'
<1> DEFINE f == Follow(skipped, map)
<1>1. CaseTyped'
  BY DEF CInv, Compared, CaseTyped
<1>2. Good(f.off, hist.guessed)
  BY FollowGood
<1>3. CASE f.fail \/ f.error
  <2>1. off' = f.off /\ hist' = note
    BY <1>3 DEF Proceed
  <2>2. QED
    BY <1>1, <1>2, <2>1 DEF CInv
<1>4. CASE ~(f.fail \/ f.error)
  <2> DEFINE guessed == IF Guesses(at, f.off) THEN note.guessed \cup {NextBlock(at).b}
                        ELSE note.guessed
  <2>1. /\ off' = WithGuess(f.off, at, tat)
        /\ hist' = [note EXCEPT !.guessed = guessed]
    BY <1>4 DEF Proceed
  <2>2. Good(off', guessed)
    BY <1>2, <2>1, WithGuessGood
  <2> HIDE DEF guessed
  <2>3. HistShape(hist') /\ hist'.guessed = guessed
    BY <2>1, HistGuessed
  <2>4. QED
    BY <1>1, <2>2, <2>3 DEF CInv
<1>5. QED
  BY <1>3, <1>4

-----------------------------------------------------------------------------
(* The initial state knows one pair, the two entrypoints, and no data.     *)
LEMMA NoPartners ==
  ASSUME NEW m, m.data = [x \in DataOffset |-> {}], m.maxData \in Nat
  PROVE  DataWithinSegments(m)
<1> SUFFICES ASSUME NEW o \in DataOffset
             PROVE  /\ Cardinality(m.data[o]) <= m.maxData
                    /\ Cardinality({x \in DataOffset : o \in m.data[x]}) <= m.maxData
  BY DEF DataWithinSegments
<1>1. m.data[o] = {} /\ {x \in DataOffset : o \in m.data[x]} = {}
  OBVIOUS
<1>2. Cardinality({}) <= m.maxData
  BY FS_EmptySet
<1>3. QED
  BY <1>1, <1>2

LEMMA InitTyped == Init => CaseTyped
<1> SUFFICES ASSUME Init PROVE CaseTyped
  OBVIOUS
<1>1. PICK p \in Programs, m \in RefMaps, o \in Options :
        /\ case.ref = p.ref /\ case.tgt = p.tgt /\ case.entry = p.entry
        /\ case.tentry = p.tentry
        /\ case.rmap = m.rmap /\ case.rsegs = m.rsegs /\ case.dataSegs = m.dataSegs
        /\ case.tmap = m.tmap /\ case.opt = o
  BY DEF Init
<1>2. QED
  BY <1>1, CaseAssumption DEF CaseTyped

LEMMA InitGood == Init => CInv
<1> SUFFICES ASSUME Init PROVE CInv
  OBVIOUS
<1>1. CaseTyped
  BY InitTyped
<1> DEFINE new == NewOffsetMap(case.dataSegs)
<1>2. Shape(new) /\ DOMAIN new.code = {} /\ new.data = [x \in DataOffset |-> {}]
  BY <1>1 DEF NewOffsetMap, Shape, CaseTyped
<1>3. DataWithinSegments(new)
  BY <1>2, NoPartners DEF Shape
<1> HIDE DEF new
<1>4. off = SetCode(new, case.entry, case.tentry)
  BY DEF Init, new
<1>5. /\ Shape(off) /\ off.data = new.data /\ off.maxData = new.maxData
      /\ DOMAIN off.code = {case.entry.lin}
  BY <1>2, <1>4, SetCodeParts
<1>6. Good(off, {})
  BY <1>3, <1>5, OneToOneOfMet, SameDataWithin DEF Good
<1>7. HistShape(hist) /\ hist.guessed = {}
  BY DEF Init, HistShape
<1>8. QED
  BY <1>1, <1>6, <1>7 DEF CInv

(* Steps that take a location from the queue. *)
LEMMA TakeGood ==
  ASSUME CInv, Take, \/ UNCHANGED hist
                     \/ \E last : hist' = [hist EXCEPT !.last = last]
  PROVE  CInv'
<1>1. CaseTyped'
  BY DEF CInv, Take, CaseTyped
<1>2. HistShape(hist') /\ hist'.guessed = hist.guessed
  BY DEF CInv, HistShape
<1>3. Good(off', hist.guessed)
  BY ResetStackGood DEF CInv, Take
<1>4. QED
  BY <1>1, <1>2, <1>3 DEF CInv

(* Steps that leave the map, what is compared and the guesses alone. *)
LEMMA RestGood ==
  ASSUME CInv, UNCHANGED <<case, off, hist>>
  PROVE  CInv'
BY DEF CInv, CaseTyped

LEMMA ComparedInside ==
  ASSUME CInv, Compared
  PROVE  R.ofs \in Int /\ T.ofs \in Int
BY DEF CInv, CaseTyped, Decodes, Compared, Inside, R, T

LEMMA NextGood == CInv /\ [Next]_vars => CInv'
<1> SUFFICES ASSUME CInv, [Next]_vars PROVE CInv'
  OBVIOUS
<1>1. CASE Finish
  BY <1>1, RestGood DEF Finish
<1>2. CASE StopAfterEntry
  BY <1>2, RestGood DEF StopAfterEntry
<1>3. CASE ReachStop
  BY <1>3, TakeGood DEF ReachStop
<1>4. CASE SkipCompared
  BY <1>4, TakeGood DEF SkipCompared
<1>5. CASE NotInMap
  BY <1>5, TakeGood DEF NotInMap, Compares
<1>6. CASE NoBlockThere
  BY <1>6, TakeGood DEF NoBlockThere, InMap, Compares
<1>7. CASE SkipExcluded
  BY <1>7, TakeGood DEF SkipExcluded, InMap, Compares
<1>8. CASE EnterKnown
  BY <1>8, TakeGood DEF EnterKnown, Wanted, InMap, Compares
<1>9. CASE EnterByName
  BY <1>9, TakeGood DEF EnterByName, Wanted, InMap, Compares
<1>10. CASE EnterBySearch
  BY <1>10, TakeGood DEF EnterBySearch, Searching, Wanted, InMap, Compares
<1>11. CASE SearchFails
  BY <1>11, TakeGood DEF SearchFails, Searching, Wanted, InMap, Compares
<1>12. CASE EnterWithoutMap
  BY <1>12, TakeGood DEF EnterWithoutMap, Compares
<1>13. CASE LeaveImage
  <2>1. /\ UNCHANGED <<case, off>> /\ HistShape(hist)
        /\ hist' = [hist EXCEPT !.short = hist.short \cup {rout}]
    BY <1>13 DEF LeaveImage, CInv
  <2>2. HistShape(hist') /\ hist'.guessed = hist.guessed
    BY <2>1, HistShort
  <2>3. QED
    BY <2>1, <2>2 DEF CInv, CaseTyped
<1>14. CASE DecodeFails
  BY <1>14, RestGood DEF DecodeFails
<1>15. CASE Mismatch
  BY <1>15, RestGood DEF Mismatch, Compared
<1>16. CASE SkipRef
  <2>1. /\ Compared /\ HistShape(hist) /\ Good(off, hist.guessed)
        /\ Proceed(TRUE, off, [rc EXCEPT !.lin = @ + R.len], tc, hist)
    BY <1>16 DEF SkipRef, CInv
  <2>2. QED
    BY <2>1, ProceedGood
<1>17. CASE SkipTgt
  <2> DEFINE note == [hist EXCEPT !.back = {p \in hist.pairs : p[1].lin >= Rewound.lin /\ p[1].lin < rc.lin},
                                  !.strayed = @ \/ Strays]
  <2>1. /\ Compared /\ Good(off, hist.guessed)
        /\ Proceed(TRUE, off, Rewound, [tc EXCEPT !.lin = @ + T.len], note)
    BY <1>17 DEF SkipTgt, CInv
  <2>2. HistShape(note) /\ note.guessed = hist.guessed
    BY HistBack DEF CInv
  <2> HIDE DEF note
  <2>3. QED
    BY <2>1, <2>2, ProceedGood
<1>18. CASE Accepted
  <2> DEFINE v == InstructionsMatch(R, T)
             note == [hist EXCEPT !.pairs = @ \cup {<<rc, tc>>},
                                  !.frame = IF v.off.stack = off.stack THEN @ ELSE rout]
             tat == IF v.res = "VARIANT" THEN v.tc ELSE [tc EXCEPT !.lin = @ + T.len]
  <2>1. /\ Compared
        /\ Proceed(FALSE, v.off, [rc EXCEPT !.lin = @ + R.len], tat, note)
    BY <1>18 DEF Accepted
  <2>2. Good(v.off, hist.guessed)
    BY <2>1, ComparedInside, InstructionsMatchGood DEF CInv
  <2>3. HistShape(note) /\ note.guessed = hist.guessed
    BY HistAccepted DEF CInv
  <2> HIDE DEF note, v, tat
  <2>4. QED
    BY <2>1, <2>2, <2>3, ProceedGood
<1>19. CASE UNCHANGED vars
  BY <1>19, RestGood DEF vars
<1>20. QED
  BY <1>1, <1>2, <1>3, <1>4, <1>5, <1>6, <1>7, <1>8, <1>9, <1>10, <1>11, <1>12, <1>13,
     <1>14, <1>15, <1>16, <1>17, <1>18, <1>19 DEF Next

LEMMA EquivalencesGood == Spec => []CInv
BY InitGood, NextGood, PTL DEF Spec

-----------------------------------------------------------------------------
(* For every comparison: no two code addresses of the reference that were  *)
(* met, as entrypoints or destinations, stand for one of the target.       *)
THEOREM MetCodeOneToOne == Spec => []CodeOneToOne
<1>1. CInv => CodeOneToOne
  BY DEF CInv, Good, Met, CodeOneToOne
<1>2. QED
  BY <1>1, EquivalencesGood, PTL

(* For every comparison: a data offset has at most as many partners, in    *)
(* either direction, as there are data segments (OffsetMap::dataMatch).    *)
THEOREM DataPartnersBounded == Spec => []DataBounded
<1>1. CInv => DataBounded
  BY DEF CInv, Good, DataBounded
<1>2. QED
  BY <1>1, EquivalencesGood, PTL
-----------------------------------------------------------------------------
(* Places: those of the reference are addresses, those of the target have  *)
(* a segment, so that none of them is the invalid address; what lies       *)
(* outside of the image need not even have a linear address.               *)

Sited(a) == a = [seg |-> a.seg, lin |-> a.lin] /\ a.seg \in Nat

LEMMA SitedValid == ASSUME NEW a, Sited(a) PROVE IsValid(a)
BY DEF Sited, IsValid, InvalidAddr

LEMMA LocatedParts ==
  ASSUME NEW a \in Located
  PROVE  /\ Sited(a) /\ a \in Addresses /\ IsValid(a)
         /\ a.lin \in Byte /\ InSegment(a.lin, a.seg)
<1>1. a \in [seg : Nat, lin : Byte] /\ InSegment(a.lin, a.seg)
  BY DEF Located
<1>2. Sited(a) /\ a.lin \in Byte
  BY <1>1 DEF Sited
<1>3. a \in Addresses
  BY <1>1, SizeAssumption DEF Addresses, Byte
<1>4. QED
  BY <1>1, <1>2, <1>3, SitedValid

LEMMA BranchDestType ==
  ASSUME NEW i, Decodes(i), NEW at \in Addresses
  PROVE  /\ BranchDest(i, at) \in Addresses
         /\ BranchDest(i, at).lin \in Byte => InSegment(BranchDest(i, at).lin, BranchDest(i, at).seg)
         /\ at.seg \in Nat => Sited(BranchDest(i, at)) \/ BranchDest(i, at) = InvalidAddr
         /\ IsJump(i) => BranchDest(i, at) = Wrap(at.seg, i.to)
<1>1. at.seg \in Int /\ i.to \in Int
  BY DEF Addresses, Decodes
<1>2. CASE i.kind \in {"jmp", "jcc", "call"}
  <2>1. BranchDest(i, at) = Wrap(at.seg, i.to)
    BY <1>2 DEF BranchDest
  <2>2. /\ Wrap(at.seg, i.to) \in Addresses
        /\ InSegment(Wrap(at.seg, i.to).lin, Wrap(at.seg, i.to).seg)
    BY <1>1, WrapInSegment
  <2>3. Wrap(at.seg, i.to) = [seg |-> at.seg, lin |-> at.seg + ((i.to - at.seg) % SegSize)]
    BY DEF Wrap
  <2>4. at.seg \in Nat => Sited(Wrap(at.seg, i.to))
    BY <2>3 DEF Sited
  <2>5. QED
    BY <2>1, <2>2, <2>4
<1>3. CASE i.kind = "callfar"
  <2>1. BranchDest(i, at) = [seg |-> i.seg, lin |-> i.to]
    BY <1>3 DEF BranchDest
  <2>2. i.seg \in Nat /\ (i.to # NoAddr => InSegment(i.to, i.seg))
    BY <1>3 DEF Decodes
  <2>3. i.to \in Byte => i.to # NoAddr
    BY SizeAssumption DEF Byte, NoAddr
  <2>4. QED
    BY <1>1, <1>3, <2>1, <2>2, <2>3 DEF Addresses, Sited, IsJump
<1>4. CASE i.kind \notin {"jmp", "jcc", "call", "callfar"}
  <2>1. BranchDest(i, at) = InvalidAddr
    BY <1>4 DEF BranchDest
  <2>2. InvalidAddr.lin \notin Byte /\ InvalidAddr \in Addresses
    BY SizeAssumption DEF InvalidAddr, Byte, Addresses
  <2>3. QED
    BY <1>4, <2>1, <2>2 DEF IsJump
<1>5. QED
  BY <1>2, <1>3, <1>4

LEMMA LinearAddrSited == ASSUME NEW o \in Nat PROVE Sited(LinearAddr(o))
<1>1. o \div SegSize \in Nat
  BY SizeAssumption
<1>2. (o \div SegSize) * SegSize \in Nat
  BY <1>1, SizeAssumption
<1>3. QED
  BY <1>2 DEF LinearAddr, Sited

(* The code map only ever gains places of the target.                      *)
CodesSited(m) == \A x \in DOMAIN m.code : Sited(m.code[x])

Extends(m, n) == \A x \in DOMAIN m.code : x \in DOMAIN n.code /\ n.code[x] = m.code[x]

LEMMA ExtendsTransitive ==
  ASSUME NEW l, NEW m, NEW n, Extends(l, m), Extends(m, n)
  PROVE  Extends(l, n)
BY DEF Extends

(* A code match that succeeds leaves the two equivalent.                   *)
LEMMA CodeMatchExtends ==
  ASSUME NEW m, Shape(m), NEW from, NEW to
  PROVE  LET c == CodeMatch(m, from, to)
         IN /\ Extends(m, c.map) /\ Shape(c.map) /\ c.map.stack = m.stack
            /\ CodesSited(m) /\ (IsValid(to) => Sited(to)) => CodesSited(c.map)
            /\ c.ok => from.lin \in DOMAIN c.map.code /\ c.map.code[from.lin].lin = to.lin
<1> DEFINE c == CodeMatch(m, from, to)
           n == SetCode(m, from, to)
           free == /\ from.lin \notin DOMAIN m.code /\ IsValid(to)
                   /\ \A x \in DOMAIN m.code : m.code[x].lin # to.lin
<1>1. \/ c.map = m /\ (c.ok => from.lin \in DOMAIN m.code /\ SameCode(m, from, to))
      \/ c.map = n /\ free
  BY DEF CodeMatch, Accept, Refuse
<1>2. CASE c.map = m /\ (c.ok => from.lin \in DOMAIN m.code /\ SameCode(m, from, to))
  BY <1>2 DEF Extends, SameCode, GetCode
<1>3. CASE c.map = n /\ free
  <2>1. /\ Shape(n) /\ DOMAIN n.code = DOMAIN m.code \cup {from.lin} /\ n.stack = m.stack
        /\ \A x \in DOMAIN n.code : n.code[x] = IF x = from.lin THEN to ELSE m.code[x]
    BY SetCodeParts
  <2> HIDE DEF n
  <2>2. Extends(m, n)
    BY <1>3, <2>1 DEF Extends
  <2>3. CodesSited(m) /\ Sited(to) => CodesSited(n)
    BY <2>1 DEF CodesSited
  <2>4. from.lin \in DOMAIN n.code /\ n.code[from.lin] = to
    BY <2>1
  <2>5. QED
    BY <1>3, <2>1, <2>2, <2>3, <2>4
<1>4. QED
  BY <1>1, <1>2, <1>3
LEMMA DataMatchExtends ==
  ASSUME NEW m, Shape(m), NEW from \in Int, NEW to \in Int
  PROVE  LET n == DataMatch(m, from, to).map
         IN Shape(n) /\ n.code = m.code /\ n.stack = m.stack
<1> DEFINE f == from % WordSize
           t == to % WordSize
           n == DataMatch(m, from, to).map
           more == [m EXCEPT !.data[f] = @ \cup {t}]
<1>1. f \in DataOffset /\ t \in DataOffset
  BY OffsetOfInt
<1>2. n = m \/ n = more
  BY DEF DataMatch, Accept, Refuse
<1> HIDE DEF n, f, t
<1>3. /\ more = [code |-> more.code, stack |-> more.stack, data |-> more.data,
                 maxData |-> more.maxData]
      /\ more.code = m.code /\ more.stack = m.stack /\ more.maxData = m.maxData
      /\ more.data = [m.data EXCEPT ![f] = @ \cup {t}]
  BY DEF Shape
<1> HIDE DEF more
<1>4. Shape(more)
  BY <1>1, <1>3 DEF Shape
<1>5. QED
  BY <1>2, <1>3, <1>4 DEF n

LEMMA StackMatchExtends ==
  ASSUME NEW m, Shape(m), NEW from, NEW to
  PROVE  LET n == StackMatch(m, from, to).map
         IN Shape(n) /\ n.code = m.code
BY DEF StackMatch, Accept, Refuse, Shape

LEMMA OffsetMatchExtends ==
  ASSUME Shape(off), CodesSited(off), NEW r, NEW t, r.ofs \in Nat, t.ofs \in Nat
  PROVE  LET n == OffsetMatch(r, t).map
         IN Shape(n) /\ Extends(off, n) /\ CodesSited(n)
<1> DEFINE c == CodeMatch(off, LinearAddr(r.ofs), LinearAddr(t.ofs)).map
           d == DataMatch(off, r.ofs, t.ofs).map
           s == StackMatch(off, r.ofs, t.ofs).map
<1>1. OffsetMatch(r, t).map \in {off, c, d, s}
  BY DEF OffsetMatch, Accept
<1>2. Shape(off) /\ Extends(off, off) /\ CodesSited(off)
  BY DEF Extends
<1>3. Shape(c) /\ Extends(off, c) /\ CodesSited(c)
  BY CodeMatchExtends, LinearAddrSited
<1>4. Shape(d) /\ Extends(off, d) /\ CodesSited(d)
  <2>1. Shape(d) /\ d.code = off.code
    BY DataMatchExtends
  <2> HIDE DEF d
  <2>2. QED
    BY <1>2, <2>1 DEF Extends, CodesSited
<1>5. Shape(s) /\ Extends(off, s) /\ CodesSited(s)
  <2>1. Shape(s) /\ s.code = off.code
    BY StackMatchExtends
  <2> HIDE DEF s
  <2>2. QED
    BY <1>2, <2>1 DEF Extends, CodesSited
<1> HIDE DEF c, d, s
<1>6. QED
  BY <1>1, <1>2, <1>3, <1>4, <1>5

LEMMA InstructionsMatchExtends ==
  ASSUME Shape(off), CodesSited(off), NEW r, NEW t, Decodes(r), Decodes(t),
         rc \in Addresses, tc \in Addresses, Sited(tc)
  PROVE  LET v == InstructionsMatch(r, t)
         IN Shape(v.off) /\ Extends(off, v.off) /\ CodesSited(v.off) /\ Sited(v.tc)
<1> DEFINE m == OffsetMatch(r, t).map
           c == CodeMatch(m, BranchDest(r, rc), BranchDest(t, tc)).map
           b == BranchMatch(r, t, m)
           v == InstructionsMatch(r, t)
<1>1. Shape(m) /\ Extends(off, m) /\ CodesSited(m)
  BY OffsetMatchExtends DEF Decodes
<1>2. Shape(c) /\ Extends(off, c) /\ CodesSited(c)
  <2>1. IsValid(BranchDest(t, tc)) => Sited(BranchDest(t, tc))
    BY BranchDestType DEF Sited, IsValid
  <2>2. QED
    BY <1>1, <2>1, CodeMatchExtends, ExtendsTransitive
<1>3. Shape(off) /\ Extends(off, off) /\ CodesSited(off)
  BY DEF Extends
<1>4. b.off \in {m, c} /\ b.tc = tc
  BY DEF BranchMatch, Verdict
<1>5. VariantMatch(r).off = off /\ Sited(VariantMatch(r).tc)
  BY DEF VariantMatch, Verdict, Sited
<1>6. Sited([tc EXCEPT !.lin = @ + t.len])
  BY DEF Sited
<1> HIDE DEF m, b
<1>7. v.off \in {off, m, b.off} /\ Sited(v.tc)
  BY <1>4, <1>5, <1>6 DEF InstructionsMatch, Verdict, m, b
<1> HIDE DEF c, v
<1>8. QED
  BY <1>1, <1>2, <1>3, <1>4, <1>7 DEF v

LEMMA FollowExtends ==
  ASSUME NEW map, Shape(map), NEW skipped
  PROVE  LET n == Follow(skipped, map).off
         IN /\ Shape(n) /\ Extends(map, n) /\ n.stack = map.stack
            /\ CodesSited(map) /\ (IsValid(TgtDest) => Sited(TgtDest)) => CodesSited(n)
<1> DEFINE m == CodeMatch(map, RefDest, TgtDest).map
           n == Follow(skipped, map).off
<1>1. FollowCall(map).off \in {map, m}
  BY DEF FollowCall, Outcome
<1>2. FollowJump(map).off \in {map, m}
  BY DEF FollowJump, Outcome
<1>3. n \in {map, m}
  BY <1>1, <1>2 DEF Follow, Outcome
<1>4. /\ Shape(m) /\ Extends(map, m) /\ m.stack = map.stack
      /\ CodesSited(map) /\ (IsValid(TgtDest) => Sited(TgtDest)) => CodesSited(m)
  BY CodeMatchExtends
<1>5. Extends(map, map)
  BY DEF Extends
<1> HIDE DEF n, m
<1>6. QED
  BY <1>3, <1>4, <1>5 DEF n

(* A guess is made only where nothing is known. *)
LEMMA WithGuessExtends ==
  ASSUME NEW map, Shape(map), CodesSited(map), NEW at, NEW tat, Sited(tat)
  PROVE  LET n == WithGuess(map, at, tat)
         IN Shape(n) /\ Extends(map, n) /\ CodesSited(n) /\ n.stack = map.stack
<1> DEFINE from == BlockAddr(NextBlock(at))
           to == Guess(at, tat)
           n == SetCode(map, from, to)
<1>1. Sited(to)
  BY DEF Guess, Wrap, Sited
<1> HIDE DEF to, from
<1>2. CASE ~Guesses(at, map)
  BY <1>2 DEF WithGuess, Extends
<1>3. CASE Guesses(at, map)
  <2>1. ~IsValid(GetCode(map, from))
    BY <1>3 DEF Guesses, from
  <2>2. from.lin \notin DOMAIN map.code
    BY <2>1, SitedValid DEF GetCode, CodesSited
  <2>3. /\ Shape(n) /\ DOMAIN n.code = DOMAIN map.code \cup {from.lin} /\ n.stack = map.stack
        /\ \A x \in DOMAIN n.code : n.code[x] = IF x = from.lin THEN to ELSE map.code[x]
    BY SetCodeParts
  <2>4. WithGuess(map, at, tat) = n
    BY <1>3 DEF WithGuess, from, to
  <2> HIDE DEF n
  <2>5. QED
    BY <1>1, <2>2, <2>3, <2>4 DEF Extends, CodesSited
<1>4. QED
  BY <1>2, <1>3
-----------------------------------------------------------------------------
(* Queueing the routines of a map, one after the other.                    *)

LEMMA EntriesLocated ==
  ASSUME CaseTyped, NEW n \in DOMAIN case.rmap
  PROVE  Entry(Routine(n)) \in Located /\ Routine(n).near \in BOOLEAN
BY DEF CaseTyped, OfImage, Entry, Routine

(* The recursion is well defined: up to every routine there is a function  *)
(* that follows it.                                                        *)
LEMMA SaveRoutinesSteps ==
  ASSUME CaseTyped, NEW q, NEW S, NEW near
  PROVE  \E saved : /\ SaveRoutines(q, S, near) = saved[Len(case.rmap)]
                    /\ saved[0] = q
                    /\ \A n \in 1..Len(case.rmap) :
                         saved[n] = IF n \in S
                                    THEN SaveCall(saved[n - 1], Entry(Routine(n)), near[n])
                                    ELSE saved[n - 1]
<1> DEFINE N == Len(case.rmap)
           Go(x, n) == IF n \in S THEN SaveCall(x, Entry(Routine(n)), near[n]) ELSE x
           Upto(f, m) == DOMAIN f = 0..m /\ f[0] = q /\ \A n \in 1..m : f[n] = Go(f[n - 1], n)
           Defined == {m \in Nat : \E f : Upto(f, m)}
           Whole(f) == [n \in 0..N |->
                          IF n = 0 THEN q
                          ELSE IF n \in S THEN SaveCall(f[n - 1], Entry(Routine(n)), near[n])
                          ELSE f[n - 1]]
<1>1. N \in Nat
  BY DEF CaseTyped
<1> HIDE DEF Go, N
<1>2. 0 \in Defined
  <2>1. Upto([n \in 0..0 |-> q], 0)
    OBVIOUS
  <2>2. \E f : Upto(f, 0)
    BY <2>1
  <2>3. QED
    BY <2>2
<1>3. ASSUME NEW m \in 1..N, m - 1 \in Defined
      PROVE  m \in Defined
  <2>1. PICK f : Upto(f, m - 1)
    BY <1>3
  <2>2. m \in Nat \ {0}
    BY <1>1
  <2> DEFINE g == [n \in 0..m |-> IF n = m THEN Go(f[m - 1], m) ELSE f[n]]
  <2>3. DOMAIN g = 0..m /\ g[0] = q
    BY <2>1, <2>2
  <2>4. ASSUME NEW n \in 1..m PROVE g[n] = Go(g[n - 1], n)
    <3>1. CASE n = m
      BY <2>2, <3>1
    <3>2. CASE n # m
      <4>1. n \in 1..(m - 1) /\ n \in 0..m /\ n - 1 \in 0..m /\ n - 1 # m
        BY <2>2, <3>2
      <4>2. f[n] = Go(f[n - 1], n)
        BY <2>1, <4>1
      <4>3. QED
        BY <3>2, <4>1, <4>2
    <3>3. QED
      BY <3>1, <3>2
  <2>5. Upto(g, m)
    BY <2>3, <2>4
  <2>6. \E h : Upto(h, m)
    BY <2>5
  <2>7. QED
    BY <2>2, <2>6
<1>4. PICK f : Upto(f, N)
  <2> HIDE DEF Defined
  <2>1. 0..N \subseteq Defined
    BY <1>1, <1>2, <1>3, Upwards
  <2>2. N \in Defined
    BY <1>1, <2>1
  <2>3. QED
    BY <2>2 DEF Defined
<1> DEFINE g == [n \in 0..N |-> f[n]]
<1>5. \A n \in 0..N : g[n] = f[n]
  OBVIOUS
<1>6. \A n \in 0..N : n # 0 => n - 1 \in 0..N /\ n \in 1..N
  BY <1>1
<1>7. \A n \in 0..N : g[n] = IF n = 0 THEN q ELSE Go(g[n - 1], n)
  BY <1>4, <1>5, <1>6
<1>8. \A n \in 0..N : g[n] = Whole(g)[n]
  BY <1>7 DEF Go
<1>9. g = Whole(g)
  BY <1>8
<1> DEFINE saved == CHOOSE h : h = Whole(h)
<1>10. saved = Whole(saved)
  BY <1>9
<1>11. SaveRoutines(q, S, near) = saved[N]
  BY DEF SaveRoutines, N
<1> HIDE DEF saved
<1>12. \A n \in 0..N : saved[n] = IF n = 0 THEN q ELSE Go(saved[n - 1], n)
  <2>1. \A n \in 0..N : saved[n] = Whole(saved)[n]
    BY <1>10
  <2>2. QED
    BY <2>1 DEF Go
<1>13. saved[0] = q /\ \A n \in 1..N : saved[n] = Go(saved[n - 1], n)
  BY <1>1, <1>12
<1>14. QED
  BY <1>11, <1>13 DEF Go, N

(* What queueing them leaves: the queue grows by calls, and every one of   *)
(* the routines is known.                                                  *)
LEMMA SaveRoutinesType ==
  ASSUME CaseTyped, NEW q \in Queues, NEW S, S \subseteq DOMAIN case.rmap,
         NEW near, \A n \in S : near[n] \in BOOLEAN
  PROVE  LET r == SaveRoutines(q, S, near)
         IN /\ r \in Queues /\ Grows(q, r) /\ r.visited = q.visited /\ Adds(q, r, Byte)
            /\ AllCalls(q) => AllCalls(r)
            /\ HasHomes(q) => HasHomes(r)
            /\ \A n \in S : KnownEntrypoint(r, Entry(Routine(n)).lin)
            /\ S = {} => r = q
<1> DEFINE N == Len(case.rmap)
<1>1. N \in Nat /\ DOMAIN case.rmap = 1..N
  BY DEF CaseTyped
<1>2. PICK saved :
        /\ SaveRoutines(q, S, near) = saved[N]
        /\ saved[0] = q
        /\ \A n \in 1..N : saved[n] = IF n \in S
                                      THEN SaveCall(saved[n - 1], Entry(Routine(n)), near[n])
                                      ELSE saved[n - 1]
  BY SaveRoutinesSteps
<1> HIDE DEF N
<1> DEFINE Fine(r, n) ==
      /\ r \in Queues /\ Grows(q, r) /\ r.visited = q.visited /\ Adds(q, r, Byte)
      /\ AllCalls(q) => AllCalls(r)
      /\ HasHomes(q) => HasHomes(r)
      /\ \A m \in S : m <= n => KnownEntrypoint(r, Entry(Routine(m)).lin)
      /\ S = {} => r = q
    Until == {n \in 0..N : Fine(saved[n], n)}
<1>3. 0 \in Until
  <2>1. Grows(q, q) /\ Adds(q, q, Byte)
    BY AddsNothing DEF Grows
  <2>2. \A m \in S : ~ m <= 0
    BY <1>1
  <2>3. QED
    BY <1>1, <1>2, <2>1, <2>2
<1>4. ASSUME NEW n \in 1..N, n - 1 \in Until
      PROVE  n \in Until
  <2> DEFINE l == saved[n - 1]
             r == saved[n]
             e == Entry(Routine(n))
  <2>1. Fine(l, n - 1) /\ n \in 0..N /\ n \in DOMAIN case.rmap /\ n \in Nat
    BY <1>1, <1>4
  <2>2. \A m \in S : m <= n => m <= n - 1 \/ m = n
    BY <1>1, <2>1
  <2>3. CASE n \notin S
    <3>1. r = l
      BY <1>2, <2>3
    <3>2. \A m \in S : m <= n => m <= n - 1
      BY <2>2, <2>3
    <3> HIDE DEF l, r
    <3>3. Fine(r, n)
      BY <2>1, <3>1, <3>2
    <3>4. QED
      BY <2>1, <3>3 DEF r
  <2>4. CASE n \in S
    <3>1. r = SaveCall(l, e, near[n]) /\ near[n] \in BOOLEAN
      BY <1>2, <2>4
    <3>2. e \in Addresses /\ e.lin \in Byte /\ InSegment(e.lin, e.seg) /\ Sited(e)
      BY <2>1, EntriesLocated, LocatedParts
    <3> HIDE DEF l, r, e
    <3>3. /\ r \in Queues /\ Grows(l, r) /\ r.visited = l.visited
          /\ KnownEntrypoint(r, e.lin)
      BY <2>1, <3>1, <3>2, SaveCallType, SaveCallKnows
    <3>4. Adds(l, r, {e.lin})
      BY <2>1, <3>1, <3>2, SaveCallAdds
    <3>5. Adds(l, r, Byte)
      BY <3>2, <3>4, AddsMore
    <3>6. Grows(q, r) /\ Adds(q, r, Byte)
      BY <2>1, <3>3, <3>5, GrowsTransitive, AddsTransitive
    <3>7. /\ AllCalls(q) => AllCalls(r)
          /\ HasHomes(q) => HasHomes(r)
      BY <2>1, <3>1, <3>2, SaveCallAddsCalls, SaveCallKeepsHomes DEF Sited
    <3>8. ASSUME NEW m \in S, m <= n
          PROVE  KnownEntrypoint(r, Entry(Routine(m)).lin)
      <4>1. CASE m = n
        BY <3>3, <4>1 DEF e
      <4>2. CASE m # n
        <5>1. KnownEntrypoint(l, Entry(Routine(m)).lin)
          BY <2>1, <2>2, <3>8, <4>2
        <5>2. QED
          BY <3>3, <5>1 DEF KnownEntrypoint, Grows
      <4>3. QED
        BY <4>1, <4>2
    <3>9. Fine(r, n)
      BY <2>1, <2>4, <3>3, <3>6, <3>7, <3>8
    <3>10. QED
      BY <2>1, <3>9 DEF r
  <2>5. QED
    BY <2>3, <2>4
<1>5. N \in Until
  <2> HIDE DEF Until
  <2>1. 0..N \subseteq Until
    BY <1>1, <1>3, <1>4, Upwards
  <2>2. QED
    BY <1>1, <2>1
<1>6. Fine(saved[N], N)
  BY <1>5
<1>7. \A m \in S : m <= N
  BY <1>1
<1>8. QED
  BY <1>2, <1>6, <1>7
-----------------------------------------------------------------------------
(* The byte maps and the target's queue.                                   *)

(* A routine without a name marks with the id of none. *)
LEMMA MarkType ==
  ASSUME NEW q \in Queues, NEW at \in Int, NEW len \in Int,
         NEW id \in {NULL_ROUTINE} \cup DOMAIN q.entrypoints
  PROVE  LET r == SetRoutineIdx(q, at, len, id)
         IN /\ r \in Queues /\ Grows(q, r)
            /\ r.queue = q.queue /\ r.entrypoints = q.entrypoints /\ r.cur = q.cur
            /\ \A b \in Byte : r.visited[b] = IF b \in at..(at + len - 1) THEN id ELSE q.visited[b]
<1> DEFINE v == [b \in Byte |-> IF b \in at..(at + len - 1) THEN id ELSE q.visited[b]]
           r == [q EXCEPT !.visited = v]
<1>1. /\ q \in ScanQueues /\ OwnersKnown(q) /\ q.visited \in [Byte -> RoutineIds]
      /\ q.entrypoints \in Seq(Entrypoints)
  BY DEF Queues, ScanQueues, Consistent
<1>2. id \in RoutineIds
  BY <1>1 DEF RoutineIds, NULL_ROUTINE
<1>3. v \in [Byte -> RoutineIds]
  BY <1>1, <1>2
<1>4. \A b \in Byte : v[b] \in {BAD_ROUTINE, NULL_ROUTINE} \cup DOMAIN q.entrypoints
  BY <1>1 DEF OwnersKnown
<1>5. \A b \in Byte : v[b] = IF b \in at..(at + len - 1) THEN id ELSE q.visited[b]
  OBVIOUS
<1>6. SetRoutineIdx(q, at, len, id) = r
  BY DEF SetRoutineIdx
<1> HIDE DEF v
<1>7. r \in Queues /\ Grows(q, r)
  BY <1>3, <1>4, OwnersChange
<1>8. r.visited = v /\ r.queue = q.queue /\ r.entrypoints = q.entrypoints /\ r.cur = q.cur
  BY <1>1 DEF ScanQueues
<1>9. QED
  BY <1>5, <1>6, <1>7, <1>8

LEMMA FirstInIs ==
  ASSUME NEW S, S \subseteq Nat, S # {}
  PROVE  FirstIn(S) \in S
BY LeastExists DEF FirstIn

(* Every entrypoint of the target's queue keeps having its name. *)
NamesKept(q, names) ==
  q \in Queues /\ names \in Seq(Int) /\ Len(names) = RoutineCount(q)

LEMMA TargetCallType ==
  ASSUME NEW q, NEW names, NamesKept(q, names), NEW dest \in Addresses, NEW near \in BOOLEAN,
         NEW name \in Int,
         IsValid(dest) => dest.lin \in Byte /\ InSegment(dest.lin, dest.seg)
  PROVE  LET p == TargetCall(q, names, dest, near, name)
         IN NamesKept(p[1], p[2]) /\ Grows(q, p[1])
<1> DEFINE s == SaveCall(q, dest, near)
           p == TargetCall(q, names, dest, near, name)
<1>1. CASE ~IsValid(dest)
  <2>1. p[1] = q /\ p[2] = names
    BY <1>1 DEF TargetCall
  <2>2. QED
    BY <2>1 DEF Grows
<1>2. CASE IsValid(dest)
  <2>1. s \in Queues /\ Grows(q, s)
    BY <1>2, SaveCallType DEF NamesKept
  <2>2. RoutineCount(s) = RoutineCount(q) \/ RoutineCount(s) = RoutineCount(q) + 1
    BY SaveCallCounts DEF NamesKept
  <2>3. RoutineCount(q) \in Nat
    BY DEF NamesKept, Queues, ScanQueues, RoutineCount
  <2>4. p[1] = s /\ p[2] = IF RoutineCount(s) > RoutineCount(q) THEN Append(names, name) ELSE names
    BY <1>2 DEF TargetCall
  <2> HIDE DEF s, p
  <2>5. /\ Append(names, name) \in Seq(Int)
        /\ Len(Append(names, name)) = Len(names) + 1
    BY DEF NamesKept
  <2>6. CASE RoutineCount(s) = RoutineCount(q)
    BY <2>1, <2>3, <2>4, <2>6 DEF NamesKept, p
  <2>7. CASE RoutineCount(s) = RoutineCount(q) + 1
    BY <2>1, <2>3, <2>4, <2>5, <2>7 DEF NamesKept, p
  <2>8. QED
    BY <2>2, <2>6, <2>7
<1>3. QED
  BY <1>1, <1>2

LEMMA TargetIdType ==
  ASSUME NEW q, NEW names, NamesKept(q, names), NEW name
  PROVE  TargetId(names, name) \in {NULL_ROUTINE} \cup DOMAIN q.entrypoints
<1> DEFINE S == {i \in DOMAIN names : names[i] = name}
<1>1. DOMAIN names = 1..RoutineCount(q) /\ DOMAIN q.entrypoints = 1..RoutineCount(q)
  BY DEF NamesKept, Queues, ScanQueues, RoutineCount
<1>2. S \subseteq Nat /\ S \subseteq DOMAIN q.entrypoints
  BY <1>1
<1> HIDE DEF S
<1>3. S # {} => FirstIn(S) \in S
  BY <1>2, FirstInIs
<1>4. TargetId(names, name) = NULL_ROUTINE \/ (S # {} /\ TargetId(names, name) = FirstIn(S))
  BY DEF TargetId, S
<1>5. QED
  BY <1>2, <1>3, <1>4

(* What is found lies in the image. *)
LEMMA CandidatesInside ==
  ASSUME NEW blk, NEW lin
  PROVE  Candidates(blk, lin) \subseteq Byte
<1>1. ASSUME NEW u \in Unvisited(tq), NEW starts, NEW k
      PROVE  FoundIn(u, starts, k) \subseteq Byte
  <2>1. PICK p \in Byte \X Byte : u = [b |-> p[1], e |-> IF p[2] = CodeSize - 1 - 1
                                                         THEN CodeSize - 1 ELSE p[2]]
    BY <1>1 DEF Unvisited
  <2>2. p[1] \in Byte /\ p[2] \in Byte
    OBVIOUS
  <2>3. u.b \in Byte /\ u.e \in Byte
    BY <2>1, <2>2, SizeAssumption DEF Byte
  <2>4. BlockBytes(u) \subseteq Byte
    BY <2>3, SizeAssumption DEF BlockBytes, Byte
  <2> DEFINE here(a) == \A j \in 1..k :
                          LET x == a + (starts[j] - starts[1])
                          IN /\ x \in Byte /\ SameForm(case.ref[starts[j]], case.tgt[x])
                             /\ case.ref[starts[j]].len = case.tgt[x].len
                             /\ x + case.tgt[x].len - 1 <= u.e
             S == {a \in BlockBytes(u) : here(a)}
  <2>5. FoundIn(u, starts, k) = IF S = {} THEN {} ELSE {FirstIn(S)}
    BY DEF FoundIn
  <2>6. S \subseteq Byte /\ S \subseteq Nat
    BY <2>4, SizeAssumption DEF Byte
  <2> HIDE DEF S
  <2>7. S # {} => FirstIn(S) \in Byte
    BY <2>6, FirstInIs
  <2>8. QED
    BY <2>5, <2>7
<1>2. \A starts, k : FoundAnywhere(starts, k) \subseteq Byte
  BY <1>1 DEF FoundAnywhere
<1>3. Candidates(blk, lin) = {} \/ \E starts, k : Candidates(blk, lin) = FoundAnywhere(starts, k)
  BY DEF Candidates
<1>4. QED
  BY <1>2, <1>3

(* The place found for lin is in one of the target's segments. *)
LEMMA TargetAtLocated ==
  ASSUME tsegs \in Tables, NEW lin \in Byte, SegmentsOver(lin) # {}
  PROVE  TargetAt(lin) \in Located
<1> DEFINE S == SegmentsOver(lin)
<1>1. \A s \in S : s \in Byte /\ InSegment(lin, s)
  BY DEF SegmentsOver, Tables, Distinct
<1>2. S \subseteq Nat /\ \A s \in S : s <= lin
  BY <1>1, SizeAssumption DEF Byte, InSegment
<1>3. lin \in Nat
  BY SizeAssumption DEF Byte
<1> HIDE DEF S
<1>4. \E s \in S : \A o \in S : s >= o
  BY <1>2, <1>3, GreatestExists DEF S
<1>5. \A s \in S : \A o \in S : s >= o <=> o <= s
  BY <1>2
<1>6. \E s \in S : \A o \in S : o <= s
  BY <1>4, <1>5
<1> DEFINE last == CHOOSE s \in S : \A o \in S : o <= s
<1>7. TargetAt(lin) = [seg |-> last, lin |-> lin]
  BY DEF TargetAt, S
<1>8. last \in S
  BY <1>6
<1> HIDE DEF last
<1>9. last \in Nat /\ InSegment(lin, last)
  BY <1>1, <1>2, <1>8
<1>10. QED
  BY <1>7, <1>9 DEF Located
-----------------------------------------------------------------------------
(* Types.  Besides them: the point being compared belongs to a routine of  *)
(* the queue (saveJump indexes the entrypoints with it), a block is only   *)
(* known of a routine of the map, and a place in the target is either one  *)
(* with a segment or none.                                                 *)

QueuesTyped ==
  /\ sq \in Queues /\ 1 \in DOMAIN sq.entrypoints /\ HasHomes(sq)
  /\ phase = "compare" => sq.cur.idx \in DOMAIN sq.entrypoints

TargetTyped ==
  /\ NamesKept(tq, tnames) /\ tsegs \in Tables
  /\ tid \in {NULL_ROUTINE} \cup DOMAIN tq.entrypoints

Places == {a \in Addresses : a.seg \in Nat \/ a = InvalidAddr}

PlacesTyped ==
  /\ CodesSited(off)
  /\ rc \in Places /\ (Sited(tc) \/ tc = InvalidAddr)

InRoutine ==
  IF WithMap THEN phase = "compare" => rout \in DOMAIN case.rmap ELSE block = NoBlock

SkipShape(s) ==
  /\ s = [ref |-> s.ref, tgt |-> s.tgt, rorg |-> s.rorg, torg |-> s.torg]
  /\ s.ref \in Nat /\ s.tgt \in Nat /\ s.rorg \in Places
  /\ s.ref <= case.opt.refSkip /\ s.tgt <= case.opt.tgtSkip

TInv == QueuesTyped /\ TargetTyped /\ PlacesTyped /\ InRoutine /\ SkipShape(skip)

(* What is known of the two instructions that are compared. *)
LEMMA LoopFacts ==
  ASSUME CInv, TInv, Compared
  PROVE  /\ phase = "compare"
         /\ rc \in Addresses /\ rc.lin \in Byte /\ rc.lin \in Int /\ rc.seg \in Nat
         /\ tc \in Addresses /\ tc.lin \in Byte /\ Sited(tc)
         /\ Decodes(R) /\ Decodes(T) /\ R.len \in Nat \ {0} /\ T.len \in Nat \ {0}
         /\ RefDest \in Addresses /\ TgtDest \in Addresses
         /\ IsValid(RefDest) => Sited(RefDest)
         /\ IsValid(TgtDest) => Sited(TgtDest)
         /\ RefDest.lin \in Byte => InSegment(RefDest.lin, RefDest.seg)
         /\ TgtDest.lin \in Byte => InSegment(TgtDest.lin, TgtDest.seg)
<1>1. phase = "compare" /\ rc.lin \in Byte /\ tc.lin \in Byte
  BY DEF Compared, Inside
<1>2. \A b \in Byte : b \in Int /\ b # -1
  BY SizeAssumption DEF Byte
<1>3. Sited(tc)
  BY <1>1, <1>2 DEF TInv, PlacesTyped, InvalidAddr
<1>4. tc \in Addresses
  BY <1>1, <1>2, <1>3 DEF Sited, Addresses
<1>5. rc \in Addresses /\ rc.lin \in Int /\ rc.seg \in Nat
  BY <1>1, <1>2 DEF TInv, PlacesTyped, Places, InvalidAddr
<1>6. Decodes(R) /\ Decodes(T)
  BY <1>1 DEF CInv, CaseTyped, R, T
<1>7. R.len \in Nat \ {0} /\ T.len \in Nat \ {0}
  BY <1>6 DEF Decodes
<1>8. tc.seg \in Nat
  BY <1>3 DEF Sited
<1>9. (IsValid(RefDest) => Sited(RefDest)) /\ (IsValid(TgtDest) => Sited(TgtDest))
  BY <1>4, <1>5, <1>6, <1>8, BranchDestType DEF RefDest, TgtDest, IsValid
<1>10. QED
  BY <1>1, <1>3, <1>4, <1>5, <1>6, <1>7, <1>9, BranchDestType DEF RefDest, TgtDest

LEMMA MarkedType ==
  ASSUME CInv, TInv, Compared
  PROVE  /\ MarkedRef \in Queues /\ Grows(sq, MarkedRef) /\ MarkedRef.cur = sq.cur
         /\ MarkedRef.queue = sq.queue /\ MarkedRef.entrypoints = sq.entrypoints
         /\ \A b \in Byte : MarkedRef.visited[b] \in {VISITED_ID, sq.visited[b]}
         /\ MarkedRef.visited[rc.lin] = VISITED_ID
         /\ MarkedTgt \in Queues /\ Grows(tq, MarkedTgt)
         /\ MarkedTgt.entrypoints = tq.entrypoints
<1>1. /\ rc.lin \in Byte /\ rc.lin \in Int /\ R.len \in Nat \ {0}
      /\ tc.lin \in Byte /\ tc.lin \in Int /\ T.len \in Nat \ {0}
  BY LoopFacts DEF Addresses
<1>2. sq \in Queues /\ VISITED_ID \in {NULL_ROUTINE} \cup DOMAIN sq.entrypoints
  BY DEF TInv, QueuesTyped, VISITED_ID
<1>3. tq \in Queues /\ tid \in {NULL_ROUTINE} \cup DOMAIN tq.entrypoints
  BY DEF TInv, TargetTyped, NamesKept
<1>4. /\ MarkedRef \in Queues /\ Grows(sq, MarkedRef) /\ MarkedRef.cur = sq.cur
      /\ MarkedRef.queue = sq.queue /\ MarkedRef.entrypoints = sq.entrypoints
      /\ \A b \in Byte : MarkedRef.visited[b] =
           IF b \in rc.lin..(rc.lin + R.len - 1) THEN VISITED_ID ELSE sq.visited[b]
  BY <1>1, <1>2, MarkType DEF MarkedRef
<1>5. rc.lin \in rc.lin..(rc.lin + R.len - 1)
  BY <1>1
<1>6. /\ MarkedTgt \in Queues /\ Grows(tq, MarkedTgt) /\ MarkedTgt.entrypoints = tq.entrypoints
  BY <1>1, <1>3, MarkType DEF MarkedTgt
<1>7. QED
  BY <1>1, <1>4, <1>5, <1>6

(* The routine at an address is one of the map that holds it, the only one *)
(* where routines are apart.                                               *)
LEMMA RoutineAtType ==
  ASSUME CaseTyped, NEW lin
  PROVE  /\ RoutineAt(lin) \in Int
         /\ RoutineAt(lin) # 0 =>
              RoutineAt(lin) \in DOMAIN case.rmap /\ Holds(Routine(RoutineAt(lin)), lin)
<1> DEFINE S == {n \in DOMAIN case.rmap : Holds(Routine(n), lin)}
<1>1. S \subseteq Nat
  BY DEF CaseTyped
<1>2. RoutineAt(lin) = IF S = {} THEN 0 ELSE FirstIn(S)
  BY DEF RoutineAt
<1>3. S # {} => FirstIn(S) \in S
  <2> HIDE DEF S
  <2>1. QED
    BY <1>1, FirstInIs
<1>4. QED
  BY <1>1, <1>2, <1>3

LEMMA ElementType ==
  ASSUME NEW set, NEW s \in Seq(set), NEW i \in DOMAIN s
  PROVE  s[i] \in set
OBVIOUS

LEMMA NextBlockIs ==
  ASSUME CaseTyped, rout \in DOMAIN case.rmap, NEW at, NextBlock(at) # NoBlock
  PROVE  /\ \E i \in DOMAIN Routine(rout).reach : NextBlock(at) = Routine(rout).reach[i]
         /\ NextBlock(at).b \in Byte /\ NextBlock(at).e \in Int
<1> DEFINE reach == Routine(rout).reach
           S == {i \in DOMAIN reach : reach[i].b >= at.lin}
<1>1. reach \in Seq([b : Byte, e : Int])
  BY DEF CaseTyped, OfImage, Routine
<1>2. NextBlock(at) = IF S = {} THEN NoBlock ELSE reach[FirstIn(S)]
  BY DEF NextBlock, NextReachable, FirstBlock
<1>3. S # {}
  BY <1>2
<1> HIDE DEF reach
<1>4. S \subseteq Nat /\ S \subseteq DOMAIN reach
  BY <1>1
<1> HIDE DEF S
<1>5. FirstIn(S) \in DOMAIN reach
  BY <1>3, <1>4, FirstInIs
<1>6. reach[FirstIn(S)] \in [b : Byte, e : Int]
  BY <1>1, <1>5, ElementType
<1>7. QED
  BY <1>2, <1>3, <1>5, <1>6 DEF reach
-----------------------------------------------------------------------------
(* What a step of the loop makes of the queues.                            *)

(* r is q as a walk goes on: places were added to it, none was lost.       *)
Continues(q, r) == r \in Queues /\ Grows(q, r) /\ Adds(q, r, Byte)

LEMMA ContinuesSame ==
  ASSUME NEW q \in Queues
  PROVE  Continues(q, q)
BY AddsNothing DEF Continues, Grows

LEMMA ContinuesTransitive ==
  ASSUME NEW q, NEW r, NEW s, Continues(q, r), Continues(r, s)
  PROVE  Continues(q, s)
BY GrowsTransitive, AddsTransitive DEF Continues

(* A call that is followed is queued; a routine it makes known has its     *)
(* place in the target.                                                    *)
LEMMA FollowCallType ==
  ASSUME CInv, TInv, Compared, NEW map, Shape(map)
  PROVE  LET f == FollowCall(map)
         IN /\ Continues(MarkedRef, f.sq) /\ f.sq.visited = MarkedRef.visited
            /\ AllCalls(MarkedRef) => AllCalls(f.sq)
            /\ HasHomes(f.sq)
            /\ ~f.fail /\ ~f.error =>
                 \A i \in DOMAIN f.sq.entrypoints :
                   \/ i \in DOMAIN MarkedRef.entrypoints
                   \/ f.sq.entrypoints[i].addr.lin \in DOMAIN f.off.code
            /\ NamesKept(f.tq, f.names) /\ Grows(MarkedTgt, f.tq)
<1> DEFINE q == SaveBranch(MarkedRef, RefDest, TRUE, R.kind = "call")
           fresh == RoutineCount(q) > RoutineCount(sq)
           m == CodeMatch(map, RefDest, TgtDest)
           called == RoutineAt(RefDest.lin)
           named == TargetCall(MarkedTgt, tnames, TgtDest, T.kind # "callfar", called)
           f == FollowCall(map)
<1>1. /\ RefDest \in Addresses /\ TgtDest \in Addresses
      /\ RefDest.lin \in Byte => InSegment(RefDest.lin, RefDest.seg)
      /\ TgtDest.lin \in Byte => InSegment(TgtDest.lin, TgtDest.seg)
      /\ IsValid(RefDest) => RefDest.seg \in Nat
  BY LoopFacts DEF Sited
<1>2. /\ MarkedRef \in Queues /\ MarkedTgt \in Queues
      /\ MarkedRef.entrypoints = sq.entrypoints /\ MarkedTgt.entrypoints = tq.entrypoints
      /\ MarkedRef.cur = sq.cur
  BY MarkedType
<1>3. MarkedRef.cur.idx \in DOMAIN MarkedRef.entrypoints
  BY <1>2, LoopFacts DEF TInv, QueuesTyped
<1>4. q \in Queues /\ Grows(MarkedRef, q) /\ q.visited = MarkedRef.visited
  BY <1>1, <1>2, <1>3, SaveBranchType
<1>5. Adds(MarkedRef, q, Byte) /\ Adds(MarkedRef, q, {RefDest.lin})
  BY <1>1, <1>2, SaveBranchAdds
<1>6. /\ AllCalls(MarkedRef) => AllCalls(q)
      /\ HasHomes(q)
  <2>1. HasHomes(MarkedRef)
    BY <1>2 DEF TInv, QueuesTyped, HasHomes
  <2>2. QED
    BY <1>1, <1>2, <2>1, SaveCallAddsCalls, SaveCallKeepsHomes DEF SaveBranch
<1>7. fresh \/ DOMAIN q.entrypoints = DOMAIN MarkedRef.entrypoints
  <2>1. q = MarkedRef \/ q = SaveCall(MarkedRef, RefDest, R.kind = "call")
    BY DEF SaveBranch
  <2>2. RoutineCount(MarkedRef) = RoutineCount(sq) /\ RoutineCount(sq) \in Nat
    BY <1>2 DEF RoutineCount, Queues, ScanQueues
  <2> HIDE DEF q
  <2>3. RoutineCount(q) = RoutineCount(MarkedRef) + 1
        \/ DOMAIN q.entrypoints = DOMAIN MarkedRef.entrypoints
    BY <1>2, <2>1, SaveCallCounts
  <2>4. QED
    BY <2>2, <2>3
<1>8. m.ok => RefDest.lin \in DOMAIN m.map.code
  BY CodeMatchExtends
<1>9. NamesKept(MarkedTgt, tnames) /\ Grows(MarkedTgt, MarkedTgt)
  BY <1>2 DEF TInv, TargetTyped, NamesKept, RoutineCount, Grows
<1>10. \/ IsValid(TgtDest) /\ TgtDest.lin \notin Byte
       \/ NamesKept(named[1], named[2]) /\ Grows(MarkedTgt, named[1])
  <2>1. called \in Int
    BY RoutineAtType DEF CInv
  <2> HIDE DEF called
  <2>2. QED
    BY <1>1, <1>9, <2>1, TargetCallType
<1> HIDE DEF q, m, called, named
<1>11. /\ f.sq = q
       /\ \/ f.tq = MarkedTgt /\ f.names = tnames
          \/ /\ f.tq = named[1] /\ f.names = named[2]
             /\ ~(IsValid(TgtDest) /\ TgtDest.lin \notin Byte)
       /\ ~f.fail /\ ~f.error /\ fresh => m.ok /\ f.off = m.map
  BY DEF FollowCall, Outcome, q, m, called, named
<1> HIDE DEF f, fresh
<1>12. ~f.fail /\ ~f.error =>
         \A i \in DOMAIN f.sq.entrypoints :
           \/ i \in DOMAIN MarkedRef.entrypoints
           \/ f.sq.entrypoints[i].addr.lin \in DOMAIN f.off.code
  BY <1>5, <1>7, <1>8, <1>11 DEF Adds
<1>13. QED
  BY <1>4, <1>5, <1>6, <1>9, <1>10, <1>11, <1>12 DEF Continues, f

LEMMA FollowType ==
  ASSUME CInv, TInv, Compared, NEW map, Shape(map), NEW skipped
  PROVE  LET f == Follow(skipped, map)
         IN /\ Continues(MarkedRef, f.sq) /\ f.sq.visited = MarkedRef.visited
            /\ AllCalls(MarkedRef) => AllCalls(f.sq)
            /\ HasHomes(f.sq)
            /\ ~f.fail /\ ~f.error =>
                 \A i \in DOMAIN f.sq.entrypoints :
                   \/ i \in DOMAIN MarkedRef.entrypoints
                   \/ f.sq.entrypoints[i].addr.lin \in DOMAIN f.off.code
            /\ NamesKept(f.tq, f.names) /\ Grows(MarkedTgt, f.tq)
<1> DEFINE f == Follow(skipped, map)
<1>1. CASE f = FollowCall(map)
  BY <1>1, FollowCallType
<1>2. CASE f.sq = MarkedRef /\ f.tq = MarkedTgt /\ f.names = tnames
  <2>1. Continues(MarkedRef, MarkedRef) /\ HasHomes(MarkedRef)
    BY MarkedType, ContinuesSame DEF TInv, QueuesTyped, HasHomes
  <2>2. NamesKept(MarkedTgt, tnames) /\ Grows(MarkedTgt, MarkedTgt)
    BY MarkedType DEF TInv, TargetTyped, NamesKept, RoutineCount, Grows
  <2> HIDE DEF f
  <2>3. QED
    BY <1>2, <2>1, <2>2 DEF f
<1>3. QED
  BY <1>1, <1>2 DEF Follow, FollowJump, Outcome

(* The next block of the routine joins in front. *)
LEMMA QueueNextType ==
  ASSUME CInv, InRoutine, phase = "compare", NEW q \in Queues,
         q.cur.idx \in DOMAIN q.entrypoints, NEW at
  PROVE  LET r == QueueNext(q, at)
         IN Continues(q, r) /\ r.visited = q.visited /\ r.entrypoints = q.entrypoints
<1> DEFINE next == BlockAddr(NextBlock(at))
<1>1. CASE ~HasNext(at)
  BY <1>1, ContinuesSame DEF QueueNext
<1>2. CASE HasNext(at)
  <2>1. QueueNext(q, at) = SaveJump(q, next)
    BY <1>2 DEF QueueNext
  <2>2. rout \in DOMAIN case.rmap
    BY <1>2 DEF InRoutine, HasNext, PastBlock
  <2>3. next.lin \in Byte
    BY <1>2, <2>2, NextBlockIs DEF HasNext, BlockAddr, CInv
  <2> HIDE DEF next
  <2>4. /\ SaveJump(q, next) \in Queues /\ Grows(q, SaveJump(q, next))
        /\ SaveJump(q, next).visited = q.visited
    BY <2>3, SaveJumpType
  <2>5. Adds(q, SaveJump(q, next), Byte)
    BY <2>3, SaveJumpAdds, AddsMore
  <2>6. SaveJump(q, next).entrypoints = q.entrypoints
    BY DEF SaveJump, Queues, ScanQueues
  <2>7. QED
    BY <2>1, <2>4, <2>5, <2>6 DEF Continues
<1>3. QED
  BY <1>1, <1>2

(* Where the queue has run empty, the missed routines are in it. *)
LEMMA CheckMissedType ==
  ASSUME CaseTyped, NEW q \in Queues, NEW names
  PROVE  LET r == CheckMissed(q, names)
         IN /\ Continues(q, r) /\ r.visited = q.visited
            /\ q.queue # << >> => r = q
            /\ q.queue = << >> => AllCalls(r)
            /\ HasHomes(q) => HasHomes(r)
            /\ r.queue = << >> =>
                 \A n \in Missed(names) : KnownEntrypoint(r, Routine(n).extents.b)
            /\ ~WithMap => r = q
<1> DEFINE near == [n \in DOMAIN case.rmap |-> Routine(n).near]
           S == Missed(names)
           r == CheckMissed(q, names)
<1>1. CASE q.queue # << >>
  <2>1. r = q
    BY <1>1 DEF CheckMissed
  <2>2. QED
    BY <1>1, <2>1, ContinuesSame
<1>2. CASE q.queue = << >>
  <2>1. r = SaveRoutines(q, S, near)
    BY <1>2 DEF CheckMissed
  <2>2. S \subseteq DOMAIN case.rmap
    BY DEF Missed
  <2>3. \A n \in S : near[n] \in BOOLEAN
    BY <2>2, EntriesLocated
  <2> HIDE DEF S, near, r
  <2>4. /\ r \in Queues /\ Grows(q, r) /\ r.visited = q.visited /\ Adds(q, r, Byte)
        /\ AllCalls(q) => AllCalls(r)
        /\ HasHomes(q) => HasHomes(r)
        /\ \A n \in S : KnownEntrypoint(r, Entry(Routine(n)).lin)
        /\ S = {} => r = q
    BY <2>1, <2>2, <2>3, SaveRoutinesType
  <2>5. AllCalls(q)
    BY <1>2 DEF AllCalls
  <2>6. \A n : Entry(Routine(n)).lin = Routine(n).extents.b
    BY DEF Entry
  <2>7. ~WithMap => S = {}
    BY <2>2 DEF WithMap
  <2>8. QED
    BY <1>2, <2>4, <2>5, <2>6, <2>7 DEF Continues, S, r
<1>3. QED
  BY <1>1, <1>2
-----------------------------------------------------------------------------
(* The types hold at the start and are kept.                               *)

LEMMA SeededParts ==
  ASSUME NEW addr \in Located
  PROVE  LET q == SeededQueue(addr, VISITED_ID)
         IN /\ q \in Queues /\ DOMAIN q.entrypoints = {1} /\ RoutineCount(q) = 1
            /\ q.entrypoints[1].addr = addr
            /\ DOMAIN q.queue = {1} /\ q.queue[1].idx = 1 /\ q.queue[1].call
            /\ q.visited = [b \in Byte |-> NULL_ROUTINE] /\ HasHomes(q)
<1> DEFINE point == [addr |-> addr, idx |-> 1, call |-> TRUE]
           ep == [addr |-> addr, idx |-> 1, near |-> TRUE]
           q == SeededQueue(addr, 1)
<1>1. q \in Queues
  BY LocatedParts, SeededQueueType
<1>2. q = [EmptyQueue EXCEPT !.queue = <<point>>, !.entrypoints = <<ep>>]
  BY DEF SeededQueue
<1>3. /\ q.queue = <<point>> /\ q.entrypoints = <<ep>>
      /\ q.visited = [b \in Byte |-> NULL_ROUTINE]
  BY <1>2 DEF EmptyQueue
<1>4. ep.addr = addr /\ point.idx = 1 /\ point.call
  OBVIOUS
<1>5. addr.seg \in Nat
  BY LocatedParts DEF Sited
<1> HIDE DEF q, ep, point
<1>6. QED
  BY <1>1, <1>3, <1>4, <1>5 DEF RoutineCount, VISITED_ID, HasHomes, q

LEMMA SeededType ==
  ASSUME CaseTyped
  PROVE  /\ Continues(EmptyQueue, Seeded) /\ AllCalls(Seeded)
         /\ Seeded.visited = [b \in Byte |-> NULL_ROUTINE]
         /\ ~WithMap => Seeded.queue = << >>
         /\ Seeded.queue # << >> => 1 \in DOMAIN Seeded.entrypoints
         /\ HasHomes(Seeded)
<1> DEFINE S == {n \in DOMAIN case.rmap : ~IsExcluded(Routine(n)) /\ ~Routine(n).external}
           near == [n \in DOMAIN case.rmap |-> FALSE]
<1>1. S \subseteq DOMAIN case.rmap /\ \A n \in S : near[n] \in BOOLEAN
  OBVIOUS
<1>2. Seeded = SaveRoutines(EmptyQueue, S, near)
  BY DEF Seeded
<1>3. /\ EmptyQueue.queue = << >> /\ AllCalls(EmptyQueue) /\ HasHomes(EmptyQueue)
      /\ EmptyQueue.visited = [b \in Byte |-> NULL_ROUTINE]
  BY DEF EmptyQueue, AllCalls, HasHomes
<1>4. ~WithMap => S = {}
  BY DEF WithMap
<1> HIDE DEF S, near
<1>5. /\ Seeded \in Queues /\ Grows(EmptyQueue, Seeded) /\ Seeded.visited = EmptyQueue.visited
      /\ Adds(EmptyQueue, Seeded, Byte) /\ AllCalls(Seeded) /\ HasHomes(Seeded)
      /\ S = {} => Seeded = EmptyQueue
  BY <1>1, <1>2, <1>3, EmptyQueueType, SaveRoutinesType
<1>6. Seeded.queue # << >> => 1 \in DOMAIN Seeded.entrypoints
  <2>1. /\ Seeded.entrypoints \in Seq(Entrypoints) /\ Seeded.queue \in Seq(Points)
        /\ Consistent(Seeded)
    BY <1>5 DEF Queues, ScanQueues
  <2>2. Seeded.queue # << >> => 1 \in DOMAIN Seeded.queue
    BY <2>1
  <2>3. Seeded.queue # << >> => DOMAIN Seeded.entrypoints # {}
    BY <2>1, <2>2 DEF Consistent, PointBelongs
  <2>4. QED
    BY <2>1, <2>3
<1>7. QED
  BY <1>3, <1>4, <1>5, <1>6 DEF Continues

LEMMA InitTypes == Init => TInv
<1> SUFFICES ASSUME Init PROVE TInv
  OBVIOUS
<1>1. CaseTyped
  BY InitTyped
<1>2. case.entry \in Located /\ case.tentry \in Located
  BY <1>1 DEF CaseTyped
<1>3. phase = "next" /\ rout = 0 /\ block = NoBlock /\ tid = NULL_ROUTINE
      /\ rc = InvalidAddr /\ tc = InvalidAddr /\ skip = NoSkip
  BY DEF Init
<1>4. QueuesTyped
  <2>1. \/ sq = Seeded /\ Seeded.queue # << >>
        \/ sq = SeededQueue(case.entry, VISITED_ID)
    BY DEF Init
  <2>2. QED
    BY <1>1, <1>2, <1>3, <2>1, SeededType, SeededParts DEF QueuesTyped, Continues
<1>5. TargetTyped
  <2>1. tq = SeededQueue(case.tentry, VISITED_ID) /\ tnames = << RoutineAt(case.entry.lin) >>
        /\ tsegs = StoreSegment(<< >>, NoName, "CODE", case.tentry.seg)
    BY DEF Init
  <2>2. tq \in Queues /\ RoutineCount(tq) = 1
    BY <1>2, <2>1, SeededParts
  <2>3. RoutineAt(case.entry.lin) \in Int
    BY <1>1, RoutineAtType
  <2>4. tnames \in Seq(Int) /\ Len(tnames) = 1
    BY <2>1, <2>3
  <2>5. << >> \in Tables
    BY DEF Tables, Distinct
  <2>6. case.tentry.seg \in Int
    BY <1>2 DEF Located
  <2>7. tsegs \in Tables
    BY <2>1, <2>5, <2>6, StoreSegmentType DEF SegTypes
  <2>8. QED
    BY <1>3, <2>2, <2>4, <2>7 DEF TargetTyped, NamesKept
<1>6. PlacesTyped
  <2> DEFINE new == NewOffsetMap(case.dataSegs)
  <2>1. Shape(new) /\ DOMAIN new.code = {}
    BY <1>1 DEF NewOffsetMap, Shape, CaseTyped
  <2>2. off = SetCode(new, case.entry, case.tentry)
    BY DEF Init
  <2> HIDE DEF new
  <2>3. /\ DOMAIN off.code = {case.entry.lin}
        /\ \A x \in DOMAIN off.code : off.code[x] = IF x = case.entry.lin THEN case.tentry
                                                   ELSE new.code[x]
    BY <2>1, <2>2, SetCodeParts
  <2>4. CodesSited(off)
    BY <1>2, <2>3, LocatedParts DEF CodesSited
  <2>5. QED
    BY <1>3, <2>4 DEF PlacesTyped, Places, InvalidAddr, Addresses
<1>7. InRoutine
  BY <1>3 DEF InRoutine
<1>8. SkipShape(skip)
  BY <1>1, <1>3 DEF SkipShape, NoSkip, Places, InvalidAddr, Addresses, CaseTyped
<1>9. QED
  BY <1>4, <1>5, <1>6, <1>7, <1>8 DEF TInv
(* A location taken from the queue. *)
LEMMA TakeFacts ==
  ASSUME CInv, QueuesTyped, PlacesTyped, Take
  PROVE  /\ sq' = NextPoint(sq) /\ sq' \in Queues
         /\ sq'.entrypoints = sq.entrypoints /\ sq'.visited = sq.visited
         /\ sq'.cur.idx \in DOMAIN sq'.entrypoints
         /\ rc' = Point.addr /\ rc' \in Places /\ rc'.lin \in Byte /\ HasHomes(sq')
         /\ Shape(off') /\ off'.code = off.code /\ CodesSited(off') /\ case' = case
         /\ Sited(KnownTarget) \/ KnownTarget = InvalidAddr
<1>1. sq \in Queues /\ sq.queue # << >> /\ sq' = NextPoint(sq)
  BY DEF QueuesTyped, Take, Considering
<1>2. /\ NextPoint(sq) \in Queues /\ NextPoint(sq).cur = Head(sq.queue)
      /\ PointBelongs(NextPoint(sq), Head(sq.queue)) /\ Head(sq.queue) \in Points
  BY <1>1, NextPointType
<1>3. NextPoint(sq).entrypoints = sq.entrypoints /\ NextPoint(sq).visited = sq.visited
  BY <1>1 DEF NextPoint, Queues, ScanQueues
<1>4. Point.addr \in Places /\ Point.addr.lin \in Byte /\ HasHomes(sq')
  <2>1. Point \in Points /\ PointBelongs(NextPoint(sq), Point)
    BY <1>2 DEF Point
  <2>2. HasHomes(NextPoint(sq))
    BY <1>3 DEF QueuesTyped, HasHomes
  <2>3. Point.addr.seg \in Nat /\ Point.addr.lin \in Byte
    BY <2>1, <2>2 DEF PointBelongs, HasHomes
  <2>4. QED
    BY <1>1, <2>1, <2>2, <2>3 DEF Points, Places
<1>5. Shape(off') /\ off'.code = off.code
  BY DEF Take, ResetStack, CInv, Good, Shape
<1>6. Sited(KnownTarget) \/ KnownTarget = InvalidAddr
  BY DEF KnownTarget, GetCode, PlacesTyped, CodesSited
<1>7. QED
  BY <1>1, <1>2, <1>3, <1>4, <1>5, <1>6 DEF Take, PointBelongs, PlacesTyped, CodesSited

(* The steps of the outer loop that take a location and compare nothing. *)
LEMMA TakeTypes ==
  ASSUME CInv, TInv, Take, UNCHANGED <<skip, tq, tnames, tsegs, tid>>, phase' # "compare",
         tc' \in {tc, KnownTarget}, ~WithMap => UNCHANGED block
  PROVE  TInv'
<1>1. QueuesTyped'
  BY TakeFacts DEF TInv, QueuesTyped
<1>2. TargetTyped'
  BY DEF TInv, TargetTyped
<1>3. PlacesTyped'
  BY TakeFacts DEF TInv, PlacesTyped
<1>4. InRoutine'
  BY TakeFacts DEF TInv, InRoutine, WithMap
<1>5. SkipShape(skip)'
  BY TakeFacts DEF TInv, SkipShape
<1>6. QED
  BY <1>1, <1>2, <1>3, <1>4, <1>5 DEF TInv

LEMMA SkipCounters ==
  ASSUME CaseTyped, NEW s, SkipShape(s)
  PROVE  SkipShape([s EXCEPT !.ref = 0, !.tgt = 0])
<1> DEFINE t == [s EXCEPT !.ref = 0]
           u == [t EXCEPT !.tgt = 0]
<1>1. /\ t = [ref |-> t.ref, tgt |-> t.tgt, rorg |-> t.rorg, torg |-> t.torg]
      /\ t.ref = 0 /\ t.tgt = s.tgt /\ t.rorg = s.rorg
  BY DEF SkipShape
<1> HIDE DEF t
<1>2. /\ u = [ref |-> u.ref, tgt |-> u.tgt, rorg |-> u.rorg, torg |-> u.torg]
      /\ u.ref = 0 /\ u.tgt = 0 /\ u.rorg = s.rorg
  BY <1>1
<1> HIDE DEF u
<1>3. 0 \in Nat /\ s.ref \in Nat /\ s.tgt \in Nat /\ s.ref <= case.opt.refSkip
      /\ s.tgt <= case.opt.tgtSkip /\ s.rorg \in Places
  BY DEF SkipShape
<1>4. 0 <= case.opt.refSkip /\ 0 <= case.opt.tgtSkip
  BY DEF CaseTyped
<1>5. SkipShape(u)
  BY <1>2, <1>3, <1>4 DEF SkipShape
<1>6. QED
  BY <1>5 DEF t, u

(* The steps that go on to compare. *)
LEMMA BeginTypes ==
  ASSUME CInv, TInv, Wanted, NEW STATE at, Sited(at), NamesKept(tq', tnames'), Begin(at)
  PROVE  TInv'
<1>1. /\ Take /\ WithMap /\ Here # 0 /\ rout' = Here /\ block' = HereBlock
  BY DEF Wanted, InMap, Compares
<1>2. QueuesTyped'
  BY <1>1, TakeFacts DEF TInv, QueuesTyped
<1>3. TargetTyped'
  <2>1. tsegs' = StoreSegment(tsegs, NoName, "CODE", at.seg) /\ at.seg \in Int
    BY DEF Begin, Sited
  <2>2. tsegs' \in Tables
    BY <2>1, StoreSegmentType DEF TInv, TargetTyped, SegTypes
  <2>3. tid' \in {NULL_ROUTINE} \cup DOMAIN tq'.entrypoints
    BY TargetIdType DEF Begin
  <2>4. QED
    BY <2>2, <2>3 DEF TargetTyped
<1>4. PlacesTyped'
  <2>1. tc' = at
    BY DEF Begin
  <2>2. QED
    BY <1>1, <2>1, TakeFacts DEF TInv, PlacesTyped
<1>5. InRoutine'
  BY <1>1, RoutineAtType, TakeFacts DEF InRoutine, WithMap, Here, CInv, TInv
<1>6. SkipShape(skip)'
  <2>1. skip' = [skip EXCEPT !.ref = 0, !.tgt = 0] /\ case' = case
    BY <1>1, TakeFacts DEF Begin, TInv
  <2>2. SkipShape(skip')
    BY <2>1, SkipCounters DEF TInv, CInv
  <2>3. QED
    BY <2>1, <2>2 DEF SkipShape
<1>7. QED
  BY <1>2, <1>3, <1>4, <1>5, <1>6 DEF TInv
LEMMA EnterFoundTypes ==
  ASSUME CInv, TInv, Wanted, NEW STATE at, at \in Located, EnterFound(at)
  PROVE  TInv'
<1> DEFINE called == TargetCall(tq, tnames, at, Routine(Here).near, Here)
<1>1. Here \in DOMAIN case.rmap /\ Here \in Int
  BY RoutineAtType DEF Wanted, InMap, Here, CInv
<1>2. Routine(Here).near \in BOOLEAN
  BY <1>1, EntriesLocated DEF CInv
<1>3. NamesKept(tq, tnames)
  BY DEF TInv, TargetTyped
<1>4. Sited(at) /\ at \in Addresses /\ at.lin \in Byte /\ InSegment(at.lin, at.seg)
  BY LocatedParts
<1>5. NamesKept(called[1], called[2])
  BY <1>1, <1>2, <1>3, <1>4, TargetCallType
<1>6. (tq' = called[1] /\ tnames' = called[2]) \/ (tq' = tq /\ tnames' = tnames)
  BY DEF EnterFound
<1> HIDE DEF called
<1>7. NamesKept(tq', tnames')
  BY <1>3, <1>5, <1>6
<1>8. Begin(at)
  BY DEF EnterFound
<1>9. QED
  BY <1>4, <1>7, <1>8, BeginTypes

(* A pair of instructions that passed. *)
LEMMA ProceedTypes ==
  ASSUME CInv, TInv, Compared, NEW skipped, NEW STATE map, Shape(map), CodesSited(map),
         NEW STATE at, at \in Places, NEW STATE tat, Sited(tat), NEW STATE note,
         Proceed(skipped, map, at, tat, note), SkipShape(skip')
  PROVE  TInv' /\ Extends(map, off')
<1> DEFINE f == Follow(skipped, map)
           q == QueueNext(f.sq, at)
<1>1. /\ MarkedRef \in Queues /\ Grows(sq, MarkedRef) /\ MarkedRef.cur = sq.cur
      /\ MarkedRef.queue = sq.queue /\ MarkedRef.entrypoints = sq.entrypoints
      /\ Grows(tq, MarkedTgt)
  BY MarkedType
<1>2. /\ Continues(MarkedRef, f.sq) /\ f.sq.visited = MarkedRef.visited
      /\ NamesKept(f.tq, f.names) /\ Grows(MarkedTgt, f.tq) /\ HasHomes(f.sq)
  BY FollowType
<1>3. Shape(f.off) /\ Extends(map, f.off) /\ CodesSited(f.off)
  BY FollowExtends, LoopFacts
<1>4. /\ phase = "compare" /\ case' = case /\ rout' = rout /\ block' = block /\ tid' = tid
  BY DEF Compared, place
<1> HIDE DEF f
<1>5. sq.cur.idx \in DOMAIN sq.entrypoints /\ 1 \in DOMAIN sq.entrypoints
  BY <1>4 DEF TInv, QueuesTyped
<1>6. Continues(sq, f.sq) /\ HasHomes(f.sq)
  BY <1>1, <1>2, AddsNothing, ContinuesTransitive DEF Continues
<1>7. /\ Continues(f.sq, q) /\ q.visited = f.sq.visited /\ q.entrypoints = f.sq.entrypoints
  <2>1. f.sq \in Queues /\ f.sq.cur.idx \in DOMAIN f.sq.entrypoints
    BY <1>5, <1>6 DEF Continues, Grows
  <2>2. QED
    BY <1>4, <2>1, QueueNextType DEF TInv
<1> HIDE DEF q
<1>8. Continues(sq, q) /\ HasHomes(q)
  BY <1>6, <1>7, ContinuesTransitive DEF HasHomes
<1>9. /\ Continues(q, CheckMissed(q, entered)) /\ HasHomes(CheckMissed(q, entered))
      /\ CheckMissed(q, entered).visited = q.visited
  BY <1>8, CheckMissedType DEF Continues, CInv
<1>10. sq' \in {f.sq, q, CheckMissed(q, entered)}
  BY DEF Proceed, LeaveLoop, f, q
<1>11. Continues(sq, sq') /\ HasHomes(sq')
  BY <1>6, <1>8, <1>9, <1>10, ContinuesTransitive
<1>12. QueuesTyped'
  BY <1>5, <1>11 DEF QueuesTyped, Continues, Grows
<1>13. tq' = f.tq /\ tnames' = f.names
  BY DEF Proceed, f
<1>14. tsegs' \in Tables
  <2>1. FarSegment \in Tables
    <3>1. CASE R.kind = "callfar" /\ WithMap /\ R.seg \in DOMAIN case.rsegs
      <4>1. case.rsegs[R.seg] \in SegTypes
        BY <3>1 DEF CInv, CaseTyped
      <4>2. (IF T.kind = "callfar" THEN T.seg ELSE 0) \in Int
        BY LoopFacts DEF Decodes
      <4>3. QED
        BY <3>1, <4>1, <4>2, StoreSegmentType DEF FarSegment, TInv, TargetTyped
    <3>2. QED
      BY <3>1 DEF FarSegment, TInv, TargetTyped
  <2>2. QED
    BY <2>1 DEF Proceed, TInv, TargetTyped
<1>15. TargetTyped'
  <2>1. tid \in {NULL_ROUTINE} \cup DOMAIN f.tq.entrypoints
    BY <1>1, <1>2 DEF TInv, TargetTyped, Grows
  <2>2. QED
    BY <1>2, <1>4, <1>13, <1>14, <2>1 DEF TargetTyped
<1>16. Extends(map, off') /\ CodesSited(off')
  <2>1. off' = f.off \/ off' = WithGuess(f.off, at, tat)
    BY DEF Proceed, f
  <2>2. LET n == WithGuess(f.off, at, tat) IN Extends(f.off, n) /\ CodesSited(n)
    BY <1>3, WithGuessExtends
  <2>3. QED
    BY <1>3, <2>1, <2>2, ExtendsTransitive
<1>17. PlacesTyped'
  <2>1. (rc' = rc /\ tc' = tc) \/ (rc' = at /\ tc' = tat)
    BY DEF Proceed
  <2>2. QED
    BY <1>16, <2>1 DEF PlacesTyped, TInv
<1>18. InRoutine'
  BY <1>4 DEF TInv, InRoutine, WithMap
<1>19. SkipShape(skip)'
  BY <1>4 DEF SkipShape
<1>20. QED
  BY <1>12, <1>15, <1>16, <1>17, <1>18, <1>19 DEF TInv
(* Steps that leave the places and queues they compare alone. *)
LEMMA RestTypes ==
  ASSUME TInv, UNCHANGED <<case, off, rout, block, tid, skip, tnames, tsegs>>, phase' # "compare",
         sq' \in Queues, 1 \in DOMAIN sq'.entrypoints, HasHomes(sq'), tq' \in Queues,
         tq'.entrypoints = tq.entrypoints,
         rc' \in Places, Sited(tc') \/ tc' = InvalidAddr
  PROVE  TInv'
<1>1. QueuesTyped'
  BY DEF QueuesTyped
<1>2. TargetTyped'
  BY DEF TInv, TargetTyped, NamesKept, RoutineCount
<1>3. PlacesTyped'
  BY DEF TInv, PlacesTyped
<1>4. InRoutine'
  BY DEF TInv, InRoutine, WithMap
<1>5. SkipShape(skip)'
  BY DEF TInv, SkipShape
<1>6. QED
  BY <1>1, <1>2, <1>3, <1>4, <1>5 DEF TInv

LEMMA StutterTypes == ASSUME TInv, UNCHANGED vars PROVE TInv'
<1>1. QueuesTyped'
  BY DEF TInv, QueuesTyped, vars
<1>2. TargetTyped'
  BY DEF TInv, TargetTyped, vars
<1>3. PlacesTyped'
  BY DEF TInv, PlacesTyped, vars
<1>4. InRoutine'
  BY DEF TInv, InRoutine, WithMap, vars
<1>5. SkipShape(skip)'
  BY DEF TInv, SkipShape, vars
<1>6. QED
  BY <1>1, <1>2, <1>3, <1>4, <1>5 DEF TInv

(* The three ways a pair can pass, as one: where the code map, the places  *)
(* and the skips are then.                                                 *)
Passed(skipped, map, at, tat, note) ==
  /\ Shape(map) /\ Extends(off, map) /\ CodesSited(map)
  /\ at \in Places /\ Sited(tat) /\ SkipShape(skip')
  /\ Proceed(skipped, map, at, tat, note)

LEMMA SkipRefPasses ==
  ASSUME CInv, TInv, SkipRef
  PROVE  Passed(TRUE, off, [rc EXCEPT !.lin = @ + R.len], tc, hist)
<1>1. /\ Compared /\ MaySkipRef
      /\ skip' = [skip EXCEPT !.ref = @ + 1, !.rorg = IF skip.ref = 0 THEN rc ELSE @]
      /\ Proceed(TRUE, off, [rc EXCEPT !.lin = @ + R.len], tc, hist)
  BY DEF SkipRef
<1>2. Shape(off) /\ Extends(off, off) /\ CodesSited(off)
  BY DEF CInv, Good, Extends, TInv, PlacesTyped
<1>3. rc \in Addresses /\ rc.seg \in Nat /\ Sited(tc) /\ R.len \in Nat
  BY <1>1, LoopFacts
<1>4. [rc EXCEPT !.lin = @ + R.len] \in Places
  BY <1>3 DEF Places, Addresses
<1>5. SkipShape(skip')
  <2> DEFINE org == IF skip.ref = 0 THEN rc ELSE skip.rorg
             t == [skip EXCEPT !.ref = @ + 1]
             u == [t EXCEPT !.rorg = org]
  <2>1. SkipShape(skip)
    BY DEF TInv
  <2>2. org \in Places
    BY <1>3, <2>1 DEF SkipShape, Places
  <2>3. skip' = u
    BY <1>1, <2>1 DEF SkipShape
  <2>4. /\ t = [ref |-> t.ref, tgt |-> t.tgt, rorg |-> t.rorg, torg |-> t.torg]
        /\ t.ref = skip.ref + 1 /\ t.tgt = skip.tgt
    BY <2>1 DEF SkipShape
  <2> HIDE DEF t, org
  <2>5. /\ u = [ref |-> u.ref, tgt |-> u.tgt, rorg |-> u.rorg, torg |-> u.torg]
        /\ u.ref = skip.ref + 1 /\ u.tgt = skip.tgt /\ u.rorg = org
    BY <2>4
  <2> HIDE DEF u
  <2>6. skip.ref + 1 <= case.opt.refSkip
    BY <1>1 DEF MaySkipRef
  <2>7. QED
    BY <2>1, <2>2, <2>3, <2>5, <2>6 DEF SkipShape
<1>6. QED
  BY <1>1, <1>2, <1>3, <1>4, <1>5 DEF Passed
RewindNote ==
  [hist EXCEPT !.back = {p \in hist.pairs : p[1].lin >= Rewound.lin /\ p[1].lin < rc.lin},
               !.strayed = @ \/ Strays]

LEMMA SkipTgtPasses ==
  ASSUME CInv, TInv, SkipTgt
  PROVE  Passed(TRUE, off, Rewound, [tc EXCEPT !.lin = @ + T.len], RewindNote)
<1>1. /\ Compared /\ MaySkipTgt
      /\ skip' = [skip EXCEPT !.ref = 0, !.tgt = @ + 1, !.torg = IF skip.tgt = 0 THEN tc ELSE @]
      /\ Proceed(TRUE, off, Rewound, [tc EXCEPT !.lin = @ + T.len], RewindNote)
  BY DEF SkipTgt, RewindNote
<1>2. Shape(off) /\ Extends(off, off) /\ CodesSited(off)
  BY DEF CInv, Good, Extends, TInv, PlacesTyped
<1>3. rc \in Addresses /\ rc.seg \in Nat /\ Sited(tc) /\ SkipShape(skip)
  BY <1>1, LoopFacts DEF TInv
<1>4. Rewound \in Places
  BY <1>3 DEF Rewound, SkipShape, Places
<1>5. Sited([tc EXCEPT !.lin = @ + T.len])
  BY <1>3 DEF Sited
<1>6. SkipShape(skip')
  <2> DEFINE org == IF skip.tgt = 0 THEN tc ELSE skip.torg
             t == [skip EXCEPT !.ref = 0]
             u == [t EXCEPT !.tgt = @ + 1]
             v == [u EXCEPT !.torg = org]
  <2>1. skip' = v
    BY <1>1, <1>3 DEF SkipShape
  <2>2. /\ t = [ref |-> t.ref, tgt |-> t.tgt, rorg |-> t.rorg, torg |-> t.torg]
        /\ t.ref = 0 /\ t.tgt = skip.tgt /\ t.rorg = skip.rorg
    BY <1>3 DEF SkipShape
  <2> HIDE DEF t, org
  <2>3. /\ u = [ref |-> u.ref, tgt |-> u.tgt, rorg |-> u.rorg, torg |-> u.torg]
        /\ u.ref = 0 /\ u.tgt = skip.tgt + 1 /\ u.rorg = skip.rorg
    BY <2>2
  <2> HIDE DEF u
  <2>4. /\ v = [ref |-> v.ref, tgt |-> v.tgt, rorg |-> v.rorg, torg |-> v.torg]
        /\ v.ref = 0 /\ v.tgt = skip.tgt + 1 /\ v.rorg = skip.rorg
    BY <2>3
  <2> HIDE DEF v
  <2>5. skip.tgt + 1 <= case.opt.tgtSkip
    BY <1>1 DEF MaySkipTgt
  <2>6. 0 <= case.opt.refSkip
    BY DEF CInv, CaseTyped
  <2>7. QED
    BY <1>3, <2>1, <2>4, <2>5, <2>6 DEF SkipShape
<1>7. QED
  BY <1>1, <1>2, <1>4, <1>5, <1>6 DEF Passed

After(v) == IF v.res = "VARIANT" THEN v.tc ELSE [tc EXCEPT !.lin = @ + T.len]

MatchNote(v) ==
  [hist EXCEPT !.pairs = @ \cup {<<rc, tc>>},
               !.frame = IF v.off.stack = off.stack THEN @ ELSE rout]

LEMMA AcceptedPasses ==
  ASSUME CInv, TInv, Accepted
  PROVE  LET v == InstructionsMatch(R, T)
         IN Passed(FALSE, v.off, [rc EXCEPT !.lin = @ + R.len], After(v), MatchNote(v))
<1> DEFINE v == InstructionsMatch(R, T)
<1>1. /\ Compared /\ skip' = SkipsAfter(v.res)
      /\ Proceed(FALSE, v.off, [rc EXCEPT !.lin = @ + R.len], After(v), MatchNote(v))
  BY DEF Accepted, After, MatchNote
<1>2. Shape(off) /\ CodesSited(off)
  BY DEF CInv, Good, TInv, PlacesTyped
<1>3. /\ rc \in Addresses /\ rc.seg \in Nat /\ tc \in Addresses /\ Sited(tc) /\ R.len \in Nat
      /\ Decodes(R) /\ Decodes(T)
  BY <1>1, LoopFacts
<1>4. Shape(v.off) /\ Extends(off, v.off) /\ CodesSited(v.off) /\ Sited(v.tc)
  BY <1>2, <1>3, InstructionsMatchExtends
<1> HIDE DEF v
<1>5. [rc EXCEPT !.lin = @ + R.len] \in Places
  BY <1>3 DEF Places, Addresses
<1>6. Sited(After(v))
  BY <1>3, <1>4 DEF Sited, After
<1>7. SkipShape(skip')
  <2>1. SkipShape(skip)
    BY DEF TInv
  <2>2. SkipShape(NoSkip)
    BY DEF SkipShape, NoSkip, Places, InvalidAddr, Addresses, CInv, CaseTyped
  <2>3. skip' = NoSkip \/ skip' = skip
    BY <1>1 DEF SkipsAfter
  <2>4. QED
    BY <2>1, <2>2, <2>3
<1>8. Passed(FALSE, v.off, [rc EXCEPT !.lin = @ + R.len], After(v), MatchNote(v))
  BY <1>1, <1>4, <1>5, <1>6, <1>7 DEF Passed
<1>9. QED
  BY <1>8 DEF v

LEMMA PassedTypes ==
  ASSUME CInv, TInv, Compared, NEW skipped, NEW STATE map, NEW STATE at, NEW STATE tat,
         NEW STATE note, Passed(skipped, map, at, tat, note)
  PROVE  TInv' /\ Extends(off, off')
<1>1. /\ Shape(map) /\ Extends(off, map) /\ CodesSited(map)
      /\ at \in Places /\ Sited(tat) /\ SkipShape(skip')
      /\ Proceed(skipped, map, at, tat, note)
  BY DEF Passed
<1>2. TInv' /\ Extends(map, off')
  BY <1>1, ProceedTypes
<1>3. QED
  BY <1>1, <1>2, ExtendsTransitive

(* The places of the target that were looked up lie in the image. *)
LEMMA NamedLocated ==
  ASSUME CInv, Here # 0, IsValid(NamedTarget)
  PROVE  NamedTarget \in Located
BY RoutineAtType DEF NamedTarget, IsValid, CInv, CaseTyped, Here

LEMMA FoundLocated ==
  ASSUME TInv, Found # {}, SegmentsOver(FirstIn(Found)) # {}
  PROVE  TargetAt(FirstIn(Found)) \in Located
<1>1. Found \subseteq Byte
  BY CandidatesInside DEF Found
<1>2. Found \subseteq Nat
  BY <1>1, SizeAssumption DEF Byte
<1>3. FirstIn(Found) \in Byte
  BY <1>1, <1>2, FirstInIs
<1>4. QED
  BY <1>3, TargetAtLocated DEF TInv, TargetTyped

(* Every step keeps the types, and what is known to be equivalent. *)
LEMMA NextTypes == CInv /\ TInv /\ [Next]_vars => TInv' /\ Extends(off, off')
<1> SUFFICES ASSUME CInv, TInv, [Next]_vars PROVE TInv' /\ Extends(off, off')
  OBVIOUS
<1>1. /\ sq \in Queues /\ 1 \in DOMAIN sq.entrypoints /\ HasHomes(sq) /\ tq \in Queues
      /\ rc \in Places /\ (Sited(tc) \/ tc = InvalidAddr)
  BY DEF TInv, QueuesTyped, TargetTyped, NamesKept, PlacesTyped
<1>2. ASSUME off'.code = off.code PROVE Extends(off, off')
  BY <1>2 DEF Extends
<1>3. Take => Extends(off, off')
  BY <1>2, TakeFacts DEF TInv
<1>4. CASE Finish
  BY <1>1, <1>2, <1>4, RestTypes DEF Finish, Done, skips, target, place
<1>5. CASE StopAfterEntry
  <2>1. /\ NextPoint(sq) \in Queues /\ NextPoint(sq).entrypoints = sq.entrypoints
        /\ HasHomes(NextPoint(sq))
    BY <1>1, <1>5, NextPointType DEF StopAfterEntry, NextPoint, HasHomes, Queues, ScanQueues
  <2>2. QED
    BY <1>1, <1>2, <1>5, <2>1, RestTypes DEF StopAfterEntry, Done, skips, target, place
<1>6. CASE ReachStop
  BY <1>3, <1>6, TakeTypes DEF ReachStop, Done, skips, target, place
<1>7. CASE SkipCompared
  BY <1>3, <1>7, TakeTypes DEF SkipCompared, Take, Considering, skips, target, place
<1>8. CASE NotInMap
  BY <1>3, <1>8, TakeTypes DEF NotInMap, Compares, Done, skips, target
<1>9. CASE NoBlockThere
  BY <1>3, <1>9, TakeTypes DEF NoBlockThere, InMap, Compares, Done, skips, target
<1>10. CASE SkipExcluded
  BY <1>3, <1>10, TakeTypes DEF SkipExcluded, InMap, Compares, Take, Considering, skips, target
<1>11. CASE SearchFails
  BY <1>3, <1>11, TakeTypes DEF SearchFails, Searching, Wanted, InMap, Compares, Done, skips, target
<1>12. CASE EnterKnown
  <2>1. /\ Wanted /\ IsValid(KnownTarget) /\ tq' = tq /\ tnames' = tnames /\ Begin(KnownTarget)
        /\ Take
    BY <1>12 DEF EnterKnown, Wanted, InMap, Compares
  <2>2. Sited(KnownTarget)
    BY <2>1, TakeFacts DEF IsValid, TInv
  <2>3. NamesKept(tq', tnames')
    BY <2>1 DEF TInv, TargetTyped, NamesKept
  <2>4. QED
    BY <1>3, <2>1, <2>2, <2>3, BeginTypes
<1>13. CASE EnterByName
  <2>1. Wanted /\ Take /\ IsValid(NamedTarget) /\ EnterFound(NamedTarget) /\ Here # 0
    BY <1>13 DEF EnterByName, Wanted, InMap, Compares
  <2>2. NamedTarget \in Located
    BY <2>1, NamedLocated
  <2>3. QED
    BY <1>3, <2>1, <2>2, EnterFoundTypes
<1>14. CASE EnterBySearch
  <2>1. /\ Wanted /\ Take /\ Found # {} /\ SegmentsOver(FirstIn(Found)) # {}
        /\ EnterFound(TargetAt(FirstIn(Found)))
    BY <1>14 DEF EnterBySearch, Searching, Wanted, InMap, Compares
  <2>2. TargetAt(FirstIn(Found)) \in Located
    BY <2>1, FoundLocated
  <2>3. QED
    BY <1>3, <2>1, <2>2, EnterFoundTypes
<1>15. CASE EnterWithoutMap
  <2>1. /\ Take /\ ~WithMap /\ tc' = KnownTarget /\ skip' = [skip EXCEPT !.ref = 0, !.tgt = 0]
        /\ tid' = TargetId(tnames, 0) /\ tq' = tq /\ tnames' = tnames /\ tsegs' = tsegs
        /\ block' = block
    BY <1>15 DEF EnterWithoutMap, Compares, target
  <2>2. QueuesTyped'
    BY <2>1, TakeFacts DEF TInv, QueuesTyped
  <2>3. TargetTyped'
    BY <2>1, TargetIdType DEF TInv, TargetTyped, NamesKept
  <2>4. PlacesTyped'
    BY <2>1, TakeFacts DEF TInv, PlacesTyped
  <2>5. InRoutine'
    BY <2>1, TakeFacts DEF TInv, InRoutine, WithMap
  <2>6. SkipShape(skip)'
    BY <2>1, TakeFacts, SkipCounters DEF TInv, CInv, SkipShape
  <2>7. QED
    BY <1>3, <2>1, <2>2, <2>3, <2>4, <2>5, <2>6 DEF TInv
<1>16. CASE LeaveImage
  <2>1. Continues(sq, CheckMissed(sq, entered)) /\ HasHomes(CheckMissed(sq, entered))
    BY <1>1, CheckMissedType DEF CInv
  <2>2. sq' \in Queues /\ 1 \in DOMAIN sq'.entrypoints /\ HasHomes(sq') /\ phase' # "compare"
    BY <1>1, <1>16, <2>1 DEF LeaveImage, LeaveLoop, Done, Continues, Grows
  <2>3. QED
    BY <1>1, <1>2, <1>16, <2>2, RestTypes DEF LeaveImage, skips, target, place
<1>17. CASE DecodeFails
  BY <1>1, <1>2, <1>17, RestTypes DEF DecodeFails, Done, skips, target, place
<1>18. CASE Mismatch
  <2>1. Compared /\ sq' = MarkedRef /\ tq' = MarkedTgt
    BY <1>18 DEF Mismatch
  <2>2. /\ sq' \in Queues /\ sq'.entrypoints = sq.entrypoints
        /\ tq' \in Queues /\ tq'.entrypoints = tq.entrypoints /\ HasHomes(sq')
    BY <1>1, <2>1, MarkedType DEF HasHomes
  <2>3. QED
    BY <1>1, <1>2, <1>18, <2>2, RestTypes DEF Mismatch, Compared, Done, skips, place
<1>19. CASE SkipRef
  BY <1>19, SkipRefPasses, PassedTypes DEF SkipRef
<1>20. CASE SkipTgt
  BY <1>20, SkipTgtPasses, PassedTypes DEF SkipTgt
<1>21. CASE Accepted
  BY <1>21, AcceptedPasses, PassedTypes DEF Accepted
<1>22. CASE UNCHANGED vars
  BY <1>2, <1>22, StutterTypes DEF vars
<1>23. QED
  BY <1>4, <1>5, <1>6, <1>7, <1>8, <1>9, <1>10, <1>11, <1>12, <1>13, <1>14, <1>15,
     <1>16, <1>17, <1>18, <1>19, <1>20, <1>21, <1>22 DEF Next
LEMMA TypesHold == Spec => [](CInv /\ TInv)
<1>1. Init => CInv /\ TInv
  BY InitGood, InitTypes
<1>2. CInv /\ TInv /\ [Next]_vars => (CInv /\ TInv)'
  BY NextGood, NextTypes
<1>3. QED
  BY <1>1, <1>2, PTL DEF Spec

(* For every comparison: both queues stay consistent, each entrypoint of   *)
(* the target keeps its name, and skips keep to the limits.                *)
THEOREM ComparisonTyped == Spec => []CompareTypeOK
<1>1. CInv /\ TInv => CompareTypeOK
  BY DEF TInv, QueuesTyped, TargetTyped, NamesKept, Queues, SkipShape, CompareTypeOK
<1>2. QED
  BY <1>1, TypesHold, PTL

(* For every comparison: what an address was found to stand for is never   *)
(* replaced (OffsetMap::codeMatch, and the guess of checkComparisonStop).  *)
THEOREM EquivalencesStay == Spec => CodeMapStable
<1>1. CInv /\ TInv /\ [Next]_vars =>
        [\A x \in DOMAIN off.code : x \in DOMAIN off'.code /\ off'.code[x] = off.code[x]]_vars
  BY NextTypes DEF Extends
<1>2. QED
  BY <1>1, TypesHold, PTL DEF Spec, CodeMapStable
-----------------------------------------------------------------------------
(* The queue after a pair of instructions that passed.                     *)

JumpsAtFront(q, starts) ==
  \A j \in DOMAIN q.queue :
    q.queue[j].call \/ (j = 1 /\ WithMap /\ q.queue[j].addr.lin \in starts)

(* Where the blocks of the routine being compared start. *)
BlockStarts == {Routine(rout).reach[i].b : i \in DOMAIN Routine(rout).reach}

LEMMA QueueNextPoints ==
  ASSUME CInv, InRoutine, phase = "compare", NEW q \in Queues, AllCalls(q), NEW at
  PROVE  /\ JumpsAtFront(QueueNext(q, at), BlockStarts)
         /\ ~HasNext(at) => QueueNext(q, at) = q
<1>1. CASE ~HasNext(at)
  BY <1>1 DEF QueueNext, JumpsAtFront, AllCalls
<1>2. CASE HasNext(at)
  <2> DEFINE dest == BlockAddr(NextBlock(at))
             home == q.entrypoints[q.cur.idx].addr.seg
             p == [addr |-> [seg |-> home, lin |-> dest.lin], idx |-> q.cur.idx, call |-> FALSE]
             r == SaveJump(q, dest)
  <2>1. QueueNext(q, at) = r
    BY <1>2 DEF QueueNext
  <2>2. WithMap /\ rout \in DOMAIN case.rmap
    BY <1>2 DEF InRoutine, HasNext, PastBlock
  <2>3. dest.lin \in BlockStarts
    BY <1>2, <2>2, NextBlockIs DEF HasNext, BlockAddr, BlockStarts, CInv
  <2>4. p.addr.lin = dest.lin
    OBVIOUS
  <2>5. q \in ScanQueues /\ q.queue \in Seq(Points)
    BY DEF Queues, ScanQueues
  <2>6. r = q \/ r.queue = <<p>> \o q.queue
    BY <2>5 DEF SaveJump, ScanQueues
  <2> HIDE DEF r, p, dest
  <2>7. \A j \in DOMAIN (<<p>> \o q.queue) :
          \/ j = 1 /\ (<<p>> \o q.queue)[j] = p
          \/ j - 1 \in DOMAIN q.queue /\ (<<p>> \o q.queue)[j] = q.queue[j - 1]
    BY <2>5
  <2>8. JumpsAtFront(r, BlockStarts)
    BY <2>2, <2>3, <2>4, <2>6, <2>7 DEF JumpsAtFront, AllCalls
  <2>9. QED
    BY <1>2, <2>1, <2>8
<1>3. QED
  BY <1>1, <1>2

(* Going on, the queue q holds calls alone; in the end at most the first   *)
(* point is a jump, to a block of the routine.  What became known has its  *)
(* place in the target.                                                    *)
Walked(q) ==
  /\ Continues(sq, q) /\ q.visited = MarkedRef.visited
  /\ phase' \in {"compare", "next", "done"}
  /\ phase' # "done" =>
       \A i \in DOMAIN q.entrypoints :
         i \in DOMAIN sq.entrypoints \/ q.entrypoints[i].addr.lin \in DOMAIN off'.code
  /\ phase' = "compare" => sq' = q /\ (AllCalls(sq) => AllCalls(q))
  /\ phase' = "next" => /\ sq' = CheckMissed(q, entered)
                        /\ AllCalls(sq) => JumpsAtFront(q, BlockStarts)
  /\ phase' = "done" => result' \in {"mismatch", "error"}

LEMMA ProceedWalks ==
  ASSUME CInv, TInv, Compared, NEW skipped, NEW STATE map, NEW STATE at, NEW STATE tat,
         NEW STATE note, Passed(skipped, map, at, tat, note)
  PROVE  off'.stack = map.stack /\ \E q : Walked(q)
<1> DEFINE f == Follow(skipped, map)
           q == QueueNext(f.sq, at)
<1>1. /\ MarkedRef \in Queues /\ Grows(sq, MarkedRef)
      /\ MarkedRef.queue = sq.queue /\ MarkedRef.entrypoints = sq.entrypoints
  BY MarkedType
<1>2. /\ Shape(map) /\ CodesSited(map) /\ Sited(tat) /\ Proceed(skipped, map, at, tat, note)
  BY DEF Passed
<1>3. /\ Continues(MarkedRef, f.sq) /\ f.sq.visited = MarkedRef.visited
      /\ AllCalls(MarkedRef) => AllCalls(f.sq)
      /\ ~f.fail /\ ~f.error =>
           \A i \in DOMAIN f.sq.entrypoints :
             \/ i \in DOMAIN MarkedRef.entrypoints
             \/ f.sq.entrypoints[i].addr.lin \in DOMAIN f.off.code
  BY <1>2, FollowType
<1>4. Shape(f.off) /\ CodesSited(f.off) /\ f.off.stack = map.stack
  BY <1>2, FollowExtends, LoopFacts
<1>5. LET n == WithGuess(f.off, at, tat) IN Extends(f.off, n) /\ n.stack = f.off.stack
  BY <1>2, <1>4, WithGuessExtends
<1>6. \/ /\ f.fail \/ f.error
         /\ phase' = "done" /\ result' \in {"mismatch", "error"} /\ off' = f.off
      \/ /\ ~f.fail /\ ~f.error /\ off' = WithGuess(f.off, at, tat)
         /\ IF PastBlock(at) \/ PastStop(at) THEN phase' = "next" /\ sq' = CheckMissed(q, entered)
            ELSE phase' = phase /\ sq' = q
  BY <1>2 DEF Proceed, Done, LeaveLoop
<1>7. phase = "compare" /\ InRoutine /\ sq.cur.idx \in DOMAIN sq.entrypoints
  BY DEF Compared, TInv, QueuesTyped
<1>8. off'.stack = map.stack
  BY <1>4, <1>5, <1>6
<1> HIDE DEF f
<1>9. Continues(sq, f.sq) /\ f.sq \in Queues /\ f.sq.cur.idx \in DOMAIN f.sq.entrypoints
  BY <1>1, <1>3, <1>7, AddsNothing, ContinuesTransitive DEF Continues, Grows
<1>10. Continues(f.sq, q) /\ q.visited = f.sq.visited /\ q.entrypoints = f.sq.entrypoints
  BY <1>7, <1>9, QueueNextType
<1>11. AllCalls(f.sq) => (JumpsAtFront(q, BlockStarts) /\ (~HasNext(at) => q = f.sq))
  BY <1>7, <1>9, QueueNextPoints
<1> HIDE DEF q
<1>12. AllCalls(sq) => AllCalls(f.sq)
  BY <1>1, <1>3 DEF AllCalls
<1>13. Continues(sq, q) /\ q.visited = MarkedRef.visited
  BY <1>3, <1>9, <1>10, ContinuesTransitive
<1>14. phase' = "compare" => ~HasNext(at) /\ sq' = q
  BY <1>6 DEF HasNext
<1>15. phase' # "done" =>
         \A i \in DOMAIN q.entrypoints :
           i \in DOMAIN sq.entrypoints \/ q.entrypoints[i].addr.lin \in DOMAIN off'.code
  BY <1>1, <1>3, <1>5, <1>6, <1>10 DEF Extends
<1>16. Walked(q)
  BY <1>6, <1>7, <1>11, <1>12, <1>13, <1>14, <1>15 DEF Walked
<1>17. QED
  BY <1>8, <1>16
-----------------------------------------------------------------------------
(* What becomes of the history and the result in a step.                   *)

HistParts(h, n) ==
  n.pairs = h.pairs /\ n.last = h.last /\ n.frame = h.frame /\ n.short = h.short

LEMMA HistLast ==
  ASSUME NEW h, HistShape(h), NEW l
  PROVE  LET n == [h EXCEPT !.last = l]
         IN /\ n.pairs = h.pairs /\ n.last = l /\ n.frame = h.frame
            /\ n.short = h.short /\ n.strayed = h.strayed
BY DEF HistShape

LEMMA ProceedHist ==
  ASSUME NEW skipped, NEW map, NEW at, NEW tat, NEW STATE note, HistShape(note),
         Proceed(skipped, map, at, tat, note)
  PROVE  HistParts(note, hist') /\ hist'.strayed = note.strayed
<1>1. hist' = note \/ \E g : hist' = [note EXCEPT !.guessed = g]
  BY DEF Proceed
<1>2. ASSUME NEW g, hist' = [note EXCEPT !.guessed = g]
      PROVE  HistParts(note, hist') /\ hist'.strayed = note.strayed
  BY <1>2 DEF HistShape, HistParts
<1>3. QED
  BY <1>1, <1>2 DEF HistParts

LEMMA NoteParts ==
  ASSUME HistShape(hist), NEW v
  PROVE  /\ HistShape(RewindNote) /\ HistParts(hist, RewindNote)
         /\ RewindNote.strayed = (hist.strayed \/ Strays)
         /\ HistShape(MatchNote(v))
         /\ MatchNote(v).pairs = hist.pairs \cup {<<rc, tc>>}
         /\ MatchNote(v).last = hist.last
         /\ MatchNote(v).frame = IF v.off.stack = off.stack THEN hist.frame ELSE rout
         /\ MatchNote(v).short = hist.short /\ MatchNote(v).strayed = hist.strayed
<1>1. /\ HistShape(RewindNote) /\ HistParts(hist, RewindNote)
      /\ RewindNote.strayed = (hist.strayed \/ Strays)
  <2> DEFINE back == {p \in hist.pairs : p[1].lin >= Rewound.lin /\ p[1].lin < rc.lin}
             strayed == (hist.strayed \/ Strays)
             half == [hist EXCEPT !.back = back]
             note == [half EXCEPT !.strayed = strayed]
  <2>1. RewindNote = note
    BY DEF RewindNote, HistShape
  <2> HIDE DEF back, strayed
  <2>2. HistShape(half) /\ HistParts(hist, half)
    BY DEF HistShape, HistParts
  <2> HIDE DEF half
  <2>3. HistShape(note) /\ HistParts(half, note) /\ note.strayed = strayed
    BY <2>2 DEF HistShape, HistParts
  <2>4. QED
    BY <2>1, <2>2, <2>3 DEF HistParts, strayed
<1> DEFINE p == hist.pairs \cup {<<rc, tc>>}
           f == IF v.off.stack = off.stack THEN hist.frame ELSE rout
           t == [hist EXCEPT !.pairs = p]
           u == [t EXCEPT !.frame = f]
<1>2. MatchNote(v) = u
  BY DEF MatchNote, HistShape
<1> HIDE DEF p, f
<1>3. /\ HistShape(t) /\ t.pairs = p /\ t.last = hist.last
      /\ t.short = hist.short /\ t.strayed = hist.strayed
  BY DEF HistShape
<1> HIDE DEF t
<1>4. /\ HistShape(u) /\ u.pairs = p /\ u.last = hist.last /\ u.frame = f
      /\ u.short = hist.short /\ u.strayed = hist.strayed
  BY <1>3 DEF HistShape
<1>5. QED
  BY <1>1, <1>2, <1>4 DEF p, f

LEMMA CaseStays == [Next]_vars => case' = case
BY DEF Next, Finish, StopAfterEntry, ReachStop, NotInMap, NoBlockThere, SearchFails, LeaveImage,
       DecodeFails, Mismatch, Searching, Wanted, InMap, Compares, Take, Compared, SkipCompared,
       SkipExcluded, EnterKnown, EnterByName, EnterBySearch, EnterWithoutMap, SkipRef, SkipTgt,
       Accepted, vars

(* Pairs are only added where instructions are accepted, and a comparison  *)
(* that is done stays as it is.                                            *)
LEMMA NextPairs ==
  ASSUME CInv, [Next]_vars
  PROVE  /\ \/ hist'.pairs = hist.pairs
            \/ Accepted /\ hist'.pairs = hist.pairs \cup {<<rc, tc>>}
         /\ phase = "done" => UNCHANGED vars
         /\ phase # "done" /\ result = "none" => phase' = "done" \/ result' = "none"
<1>1. HistShape(hist)
  BY DEF CInv
<1>2. CASE \/ Finish \/ StopAfterEntry \/ ReachStop \/ NotInMap \/ NoBlockThere
           \/ SearchFails \/ DecodeFails \/ Mismatch
  BY <1>2 DEF Finish, StopAfterEntry, ReachStop, NotInMap, NoBlockThere, SearchFails,
              DecodeFails, Mismatch, Done, Searching, Wanted, InMap, Compares, Take,
              Considering, Compared
<1>3. CASE \/ SkipCompared \/ SkipExcluded \/ EnterKnown \/ EnterByName \/ EnterBySearch
           \/ EnterWithoutMap
  <2>1. \E l : hist' = [hist EXCEPT !.last = l]
    BY <1>3 DEF SkipCompared, SkipExcluded, EnterKnown, EnterByName, EnterBySearch,
                EnterWithoutMap
  <2>2. hist'.pairs = hist.pairs
    BY <1>1, <2>1, HistLast
  <2>3. phase = "next" /\ result' = result
    BY <1>3 DEF SkipCompared, SkipExcluded, EnterKnown, EnterByName, EnterBySearch,
                EnterWithoutMap, Searching, Wanted, InMap, Compares, Take, Considering,
                EnterFound, Begin
  <2>4. QED
    BY <2>2, <2>3
<1>4. ASSUME Compared, NEW skipped, NEW map, NEW at, NEW tat, NEW STATE note, HistShape(note),
             Proceed(skipped, map, at, tat, note)
      PROVE  /\ phase = "compare" /\ (result = "none" => phase' = "done" \/ result' = "none")
             /\ hist'.pairs = note.pairs
  BY <1>4, ProceedHist DEF Compared, Proceed, Done, LeaveLoop, HistParts
<1>5. CASE SkipRef
  BY <1>1, <1>4, <1>5 DEF SkipRef
<1>6. CASE SkipTgt
  <2>1. Compared /\ Proceed(TRUE, off, Rewound, [tc EXCEPT !.lin = @ + T.len], RewindNote)
    BY <1>6 DEF SkipTgt, RewindNote
  <2>2. HistShape(RewindNote) /\ RewindNote.pairs = hist.pairs
    BY <1>1, NoteParts DEF HistParts
  <2>3. QED
    BY <1>4, <2>1, <2>2
<1>7. CASE Accepted
  <2> DEFINE v == InstructionsMatch(R, T)
  <2>1. Compared /\ Proceed(FALSE, v.off, [rc EXCEPT !.lin = @ + R.len], After(v), MatchNote(v))
    BY <1>7 DEF Accepted, After, MatchNote
  <2>2. HistShape(MatchNote(v)) /\ MatchNote(v).pairs = hist.pairs \cup {<<rc, tc>>}
    BY <1>1, NoteParts
  <2>3. QED
    BY <1>4, <1>7, <2>1, <2>2
<1>8. CASE LeaveImage
  <2>1. hist' = [hist EXCEPT !.short = hist.short \cup {rout}]
    BY <1>8 DEF LeaveImage
  <2>2. hist'.pairs = hist.pairs
    BY <1>1, <2>1, HistShort
  <2>3. QED
    BY <1>8, <2>2 DEF LeaveImage, LeaveLoop, Done
<1>9. CASE UNCHANGED vars
  BY <1>9 DEF vars
<1>10. QED
  BY <1>2, <1>3, <1>5, <1>6, <1>7, <1>8, <1>9 DEF Next
-----------------------------------------------------------------------------
(* Jumps.                                                                  *)

JInv ==
  /\ phase # "done" => result = "none"
  /\ JumpsFollowMap

(* Where a pair of jumps was accepted, they lead to equivalent places.     *)
LEMMA AcceptedJumps ==
  ASSUME CInv, TInv, Accepted, IsJump(R), IsJump(T), result = "none", result' # "mismatch"
  PROVE  RefDest.lin \in DOMAIN off'.code /\ off'.code[RefDest.lin].lin = TgtDest.lin
<1> DEFINE v == InstructionsMatch(R, T)
           at == [rc EXCEPT !.lin = @ + R.len]
           tat == After(v)
           f == Follow(FALSE, v.off)
           m == CodeMatch(v.off, RefDest, TgtDest)
<1>1. Compared /\ Passed(FALSE, v.off, at, tat, MatchNote(v))
  BY AcceptedPasses DEF Accepted
<1>2. Shape(v.off) /\ Sited(tat) /\ Proceed(FALSE, v.off, at, tat, MatchNote(v))
  BY <1>1 DEF Passed
<1>3. /\ rc \in Addresses /\ rc.seg \in Nat /\ tc \in Addresses /\ tc.seg \in Nat
      /\ Decodes(R) /\ Decodes(T)
  BY <1>1, LoopFacts DEF Sited
<1>4. ASSUME NEW i, Decodes(i), IsJump(i), NEW a \in Addresses, a.seg \in Nat
      PROVE  IsValid(BranchDest(i, a))
  <2>1. BranchDest(i, a) = Wrap(a.seg, i.to)
    BY <1>4, BranchDestType
  <2>2. Wrap(a.seg, i.to).seg = a.seg /\ InvalidAddr.seg = -1
    BY DEF Wrap, InvalidAddr
  <2>3. QED
    BY <1>4, <2>1, <2>2 DEF IsValid
<1>5. IsValid(RefDest) /\ IsValid(TgtDest)
  BY <1>3, <1>4 DEF RefDest, TgtDest
<1>6. f = FollowJump(v.off)
  BY DEF Follow, IsJump, IsCall
<1> DEFINE g == FollowJump(v.off)
<1>7. (g.fail <=> ~m.ok) /\ g.off = m.map /\ ~g.error
  <2> HIDE DEF v
  <2>1. /\ g.fail = (IsValid(RefDest) /\ IsValid(TgtDest) /\ ~m.ok) /\ g.error = FALSE
        /\ g.off = IF IsValid(RefDest) /\ IsValid(TgtDest) THEN m.map ELSE v.off
    BY DEF FollowJump, Outcome
  <2> HIDE DEF g, m
  <2>2. QED
    BY <1>5, <2>1
<1>8. CodesSited(v.off)
  BY <1>1 DEF Passed
<1>9. /\ m.ok => RefDest.lin \in DOMAIN m.map.code /\ m.map.code[RefDest.lin].lin = TgtDest.lin
      /\ Shape(m.map) /\ CodesSited(m.map)
  BY <1>1, <1>2, <1>5, <1>8, CodeMatchExtends, LoopFacts
<1> HIDE DEF m, v, g
<1>10. m.ok /\ off' = WithGuess(m.map, at, tat)
  BY <1>2, <1>6, <1>7 DEF Proceed, Done, g
<1> HIDE DEF at, tat
<1>11. Extends(m.map, off')
  BY <1>2, <1>9, <1>10, WithGuessExtends
<1>12. QED
  BY <1>9, <1>10, <1>11 DEF Extends

LEMMA NextJumps == CInv /\ TInv /\ JInv /\ [Next]_vars => JInv'
<1> SUFFICES ASSUME CInv, TInv, JInv, [Next]_vars PROVE JInv'
  OBVIOUS
<1>1. CASE phase = "done"
  <2>1. UNCHANGED vars
    BY <1>1, NextPairs
  <2>2. QED
    BY <2>1 DEF JInv, JumpsFollowMap, LeadAlike, vars
<1>2. CASE phase # "done"
  <2>1. result = "none" /\ (phase' # "done" => result' = "none")
    BY <1>2, NextPairs DEF JInv
  <2>2. Extends(off, off')
    BY NextTypes
  <2>4. case' = case
    BY CaseStays
  <2>5. ASSUME result' # "mismatch", NEW p \in hist'.pairs,
               IsJump(case'.ref[p[1].lin]), IsJump(case'.tgt[p[2].lin])
        PROVE  LeadAlike(p)'
    <3>1. CASE p \in hist.pairs
      <4>1. LeadAlike(p)
        BY <2>1, <2>4, <2>5, <3>1 DEF JInv, JumpsFollowMap
      <4>2. QED
        BY <2>2, <2>4, <4>1 DEF LeadAlike, Extends
    <3>2. CASE p \notin hist.pairs
      <4>1. Accepted /\ p = <<rc, tc>>
        BY <2>5, <3>2, NextPairs
      <4>2. p[1] = rc /\ p[2] = tc
        BY <4>1
      <4>3. IsJump(R) /\ IsJump(T)
        BY <2>4, <2>5, <4>2 DEF R, T
      <4>4. RefDest.lin \in DOMAIN off'.code /\ off'.code[RefDest.lin].lin = TgtDest.lin
        BY <2>1, <2>5, <4>1, <4>3, AcceptedJumps
      <4>5. QED
        BY <2>4, <4>2, <4>4 DEF LeadAlike, RefDest, TgtDest, R, T
    <3>3. QED
      BY <3>1, <3>2
  <2>6. QED
    BY <2>1, <2>5 DEF JInv, JumpsFollowMap
<1>3. QED
  BY <1>1, <1>2

(* For every comparison: jumps compared with each other lead to places     *)
(* that stand for each other, for as long as the comparison goes on and    *)
(* when it has ended, unless it failed (comparisonLoop, codeMatch).        *)
THEOREM JumpsStayAlike == Spec => []JumpsFollowMap
<1>1. Init => JInv
  BY DEF Init, JInv, JumpsFollowMap
<1>2. JInv => JumpsFollowMap
  BY DEF JInv
<1>3. QED
  BY <1>1, <1>2, NextJumps, TypesHold, PTL DEF Spec
-----------------------------------------------------------------------------
(* Stack offsets.  What makes them those of the routine being compared is  *)
(* the order of the queue: a point that is no call, before which they are  *)
(* not forgotten, is taken right after it was queued.                      *)

(* A map that was loaded: no two routines share a byte, no block is empty. *)
MapsApart == \A m \in RefMaps : RoutinesApart(m.rmap) /\ BlocksValid(m.rmap)

FrameInv ==
  /\ \E m \in RefMaps : case.rmap = m.rmap
  /\ phase = "compare" => AllCalls(sq) /\ (off.stack # << >> => hist.frame = rout)
  /\ phase = "next" =>
       \A i \in DOMAIN sq.queue :
         \/ sq.queue[i].call
         \/ /\ i = 1 /\ WithMap
            /\ off.stack # << >> => hist.frame = RoutineAt(sq.queue[i].addr.lin)

LEMMA OwnBlock ==
  ASSUME MapsApart, CInv, FrameInv, rout \in DOMAIN case.rmap, NEW x \in BlockStarts
  PROVE  RoutineAt(x) = rout
<1>1. RoutinesApart(case.rmap) /\ BlocksValid(case.rmap)
  BY DEF MapsApart, FrameInv
<1>2. Routine(rout).reach \in Seq([b : Byte, e : Int])
  BY DEF CInv, CaseTyped, OfImage, Routine
<1>3. PICK i \in DOMAIN Routine(rout).reach : x = Routine(rout).reach[i].b
  BY DEF BlockStarts
<1>4. Routine(rout).reach[i] \in [b : Byte, e : Int]
  BY <1>2, ElementType
<1>5. x \in Byte /\ x \in Int /\ Routine(rout).reach[i].e \in Int
  BY <1>3, <1>4, SizeAssumption DEF Byte
<1>6. x <= Routine(rout).reach[i].e
  BY <1>1, <1>3 DEF BlocksValid, Routine
<1>7. x \in BlockBytes(Routine(rout).reach[i])
  BY <1>3, <1>5, <1>6 DEF BlockBytes
<1>8. Holds(Routine(rout), x)
  BY <1>7 DEF Holds
<1>9. RoutineAt(x) # 0
  <2> DEFINE S == {n \in DOMAIN case.rmap : Holds(Routine(n), x)}
  <2>1. RoutineAt(x) = IF S = {} THEN 0 ELSE FirstIn(S)
    BY DEF RoutineAt
  <2>2. rout \in S /\ S \subseteq Nat \ {0}
    BY <1>8 DEF CInv, CaseTyped
  <2> HIDE DEF S
  <2>3. FirstIn(S) \in S
    BY <2>2, FirstInIs
  <2>4. QED
    BY <2>1, <2>2, <2>3
<1>10. RoutineAt(x) \in DOMAIN case.rmap /\ Holds(Routine(RoutineAt(x)), x)
  BY <1>9, RoutineAtType DEF CInv
<1>11. QED
  BY <1>1, <1>5, <1>8, <1>10 DEF RoutinesApart, Routine

(* Taking a location leaves calls alone in the queue. *)
LEMMA TakeFrame ==
  ASSUME CInv, TInv, FrameInv, Take
  PROVE  /\ AllCalls(sq')
         /\ off'.stack # << >> => WithMap /\ hist.frame = RoutineAt(Point.addr.lin)
<1>1. /\ sq \in Queues /\ sq.queue # << >> /\ sq' = NextPoint(sq) /\ phase = "next"
      /\ sq \in ScanQueues /\ sq.queue \in Seq(Points)
  BY DEF Take, Considering, TInv, QueuesTyped, Queues, ScanQueues
<1>2. sq'.queue = Tail(sq.queue)
  BY <1>1 DEF NextPoint, ScanQueues
<1>3. 1 \in DOMAIN sq.queue /\ Point = sq.queue[1]
  BY <1>1 DEF Point
<1>4. \A j \in DOMAIN Tail(sq.queue) :
        j + 1 \in DOMAIN sq.queue /\ j + 1 # 1 /\ Tail(sq.queue)[j] = sq.queue[j + 1]
  BY <1>1
<1>5. AllCalls(sq')
  BY <1>1, <1>2, <1>4 DEF AllCalls, FrameInv
<1>6. CASE Point.call
  <2>1. off' = [off EXCEPT !.stack = << >>]
    BY <1>6 DEF Take, ResetStack
  <2>2. off'.stack = << >>
    BY <2>1 DEF CInv, Good, Shape
  <2>3. QED
    BY <1>5, <2>2
<1>7. CASE ~Point.call
  <2>1. off' = off
    BY <1>7 DEF Take
  <2>2. WithMap /\ (off.stack # << >> => hist.frame = RoutineAt(Point.addr.lin))
    BY <1>1, <1>3, <1>7 DEF FrameInv
  <2>3. QED
    BY <1>5, <2>1, <2>2
<1>8. QED
  BY <1>6, <1>7

LEMMA PassedFrame ==
  ASSUME MapsApart, CInv, TInv, FrameInv, Compared, NEW skipped, NEW STATE map, NEW STATE at,
         NEW STATE tat, NEW STATE note, Passed(skipped, map, at, tat, note), HistShape(note),
         map.stack # << >> => note.frame = rout
  PROVE  FrameInv'
<1>1. phase = "compare" /\ case' = case /\ rout' = rout /\ entered' = entered
  BY DEF Compared, place, seen
<1>2. AllCalls(sq)
  BY <1>1 DEF FrameInv
<1>3. off'.stack = map.stack /\ \E q : Walked(q)
  BY ProceedWalks
<1>4. hist'.frame = note.frame
  BY ProceedHist DEF Passed, HistParts
<1>5. PICK q : Walked(q)
  BY <1>3
<1>6. CASE phase' = "compare"
  <2>1. AllCalls(sq')
    BY <1>2, <1>5, <1>6 DEF Walked
  <2>2. QED
    BY <1>1, <1>3, <1>4, <1>6, <2>1 DEF FrameInv
<1>7. CASE phase' = "next"
  <2>1. sq' = CheckMissed(q, entered) /\ JumpsAtFront(q, BlockStarts) /\ q \in Queues
    BY <1>2, <1>5, <1>7 DEF Walked, Continues
  <2>2. sq' = q \/ AllCalls(sq')
    BY <2>1, CheckMissedType DEF CInv
  <2>3. ASSUME sq' = q, NEW i \in DOMAIN sq'.queue, ~sq'.queue[i].call
        PROVE  /\ i = 1 /\ WithMap'
               /\ off'.stack # << >> => hist'.frame = (RoutineAt(sq.queue[i].addr.lin))'
    <3>1. i = 1 /\ WithMap /\ sq'.queue[i].addr.lin \in BlockStarts
      BY <2>1, <2>3 DEF JumpsAtFront
    <3>2. rout \in DOMAIN case.rmap
      BY <1>1, <3>1 DEF TInv, InRoutine
    <3>3. PICK x : x = sq'.queue[i].addr.lin
      OBVIOUS
    <3>4. RoutineAt(x) = rout
      BY <3>1, <3>2, <3>3, OwnBlock
    <3>5. (RoutineAt(sq.queue[i].addr.lin))' = RoutineAt(x)
      BY <1>1, <3>3 DEF RoutineAt, Routine
    <3>6. (RoutineAt(sq.queue[i].addr.lin))' = rout
      BY <3>4, <3>5
    <3>7. QED
      BY <1>1, <1>3, <1>4, <3>1, <3>6 DEF WithMap
  <2>4. QED
    BY <1>1, <1>7, <2>2, <2>3 DEF FrameInv, AllCalls
<1>8. CASE phase' = "done"
  BY <1>1, <1>8 DEF FrameInv
<1>9. QED
  BY <1>5, <1>6, <1>7, <1>8 DEF Walked

LEMMA NextFrame == MapsApart /\ CInv /\ TInv /\ FrameInv /\ [Next]_vars => FrameInv'
<1> SUFFICES ASSUME MapsApart, CInv, TInv, FrameInv, [Next]_vars PROVE FrameInv'
  OBVIOUS
<1>1. case' = case /\ HistShape(hist)
  BY CaseStays DEF CInv
<1>2. CASE phase' = "done"
  BY <1>1, <1>2 DEF FrameInv
<1>3. CASE SkipCompared \/ SkipExcluded
  <2>1. Take /\ phase' = "next"
    BY <1>3 DEF SkipCompared, SkipExcluded, InMap, Compares, Take, Considering
  <2>2. AllCalls(sq')
    BY <2>1, TakeFrame
  <2>3. QED
    BY <1>1, <2>1, <2>2 DEF FrameInv, AllCalls
<1>4. CASE EnterKnown \/ EnterByName \/ EnterBySearch \/ EnterWithoutMap
  <2>1. /\ Take /\ phase' = "compare" /\ \E l : hist' = [hist EXCEPT !.last = l]
        /\ WithMap => rout' = RoutineAt(Point.addr.lin)
    BY <1>4 DEF EnterKnown, EnterByName, EnterBySearch, EnterWithoutMap, Searching, Wanted,
                InMap, Compares, EnterFound, Begin, Here
  <2>2. hist'.frame = hist.frame
    BY <1>1, <2>1, HistLast
  <2>3. QED
    BY <1>1, <2>1, <2>2, TakeFrame DEF FrameInv
<1>5. CASE LeaveImage
  <2>1. AllCalls(sq) /\ sq \in Queues
    BY <1>5 DEF LeaveImage, FrameInv, TInv, QueuesTyped
  <2>2. phase' = "next" => sq' = CheckMissed(sq, entered)
    BY <1>5 DEF LeaveImage, LeaveLoop, Done
  <2>3. phase' \in {"next", "done"}
    BY <1>5 DEF LeaveImage, LeaveLoop, Done
  <2>4. phase' = "next" => AllCalls(sq')
    BY <2>1, <2>2, CheckMissedType DEF CInv
  <2>5. QED
    BY <1>1, <2>3, <2>4 DEF FrameInv, AllCalls
<1>6. CASE SkipRef
  <2>1. Compared /\ Passed(TRUE, off, [rc EXCEPT !.lin = @ + R.len], tc, hist)
    BY <1>6, SkipRefPasses DEF SkipRef
  <2>2. off.stack # << >> => hist.frame = rout
    BY <2>1 DEF Compared, FrameInv
  <2>3. QED
    BY <1>1, <2>1, <2>2, PassedFrame
<1>7. CASE SkipTgt
  <2>1. Compared /\ Passed(TRUE, off, Rewound, [tc EXCEPT !.lin = @ + T.len], RewindNote)
    BY <1>7, SkipTgtPasses DEF SkipTgt
  <2>2. HistShape(RewindNote) /\ RewindNote.frame = hist.frame
    BY <1>1, NoteParts DEF HistParts
  <2>3. off.stack # << >> => RewindNote.frame = rout
    BY <2>1, <2>2 DEF Compared, FrameInv
  <2>4. QED
    BY <2>1, <2>2, <2>3, PassedFrame
<1>8. CASE Accepted
  <2> DEFINE v == InstructionsMatch(R, T)
  <2>1. Compared /\ Passed(FALSE, v.off, [rc EXCEPT !.lin = @ + R.len], After(v), MatchNote(v))
    BY <1>8, AcceptedPasses DEF Accepted
  <2>2. /\ HistShape(MatchNote(v))
        /\ MatchNote(v).frame = IF v.off.stack = off.stack THEN hist.frame ELSE rout
    BY <1>1, NoteParts
  <2>3. v.off.stack # << >> => MatchNote(v).frame = rout
    BY <2>1, <2>2 DEF Compared, FrameInv
  <2>4. QED
    BY <2>1, <2>2, <2>3, PassedFrame
<1>9. CASE UNCHANGED vars
  BY <1>9 DEF FrameInv, AllCalls, WithMap, RoutineAt, Routine, vars
<1>10. CASE \/ Finish \/ StopAfterEntry \/ ReachStop \/ NotInMap \/ NoBlockThere
            \/ SearchFails \/ DecodeFails \/ Mismatch
  BY <1>2, <1>10 DEF Finish, StopAfterEntry, ReachStop, NotInMap, NoBlockThere, SearchFails,
                     DecodeFails, Mismatch, Done
<1>11. QED
  BY <1>3, <1>4, <1>5, <1>6, <1>7, <1>8, <1>9, <1>10 DEF Next

LEMMA InitFrame == Init => FrameInv
<1> SUFFICES ASSUME Init PROVE FrameInv
  OBVIOUS
<1>1. \E m \in RefMaps : case.rmap = m.rmap
  BY DEF Init
<1>2. phase = "next" /\ (sq = Seeded \/ sq = SeededQueue(case.entry, VISITED_ID))
  BY DEF Init
<1>3. AllCalls(Seeded)
  BY InitTyped, SeededType
<1>4. AllCalls(SeededQueue(case.entry, VISITED_ID))
  BY InitTyped, SeededParts DEF CaseTyped, AllCalls
<1>5. QED
  BY <1>1, <1>2, <1>3, <1>4 DEF FrameInv, AllCalls

(* For every comparison with a map whose routines share no byte: stack     *)
(* offsets that decide about an instruction were met in the same routine   *)
(* (analysis.cpp resetStack, processed in the order of the queue).         *)
THEOREM StackOffsetsOfRoutine ==
  ASSUME MapsApart
  PROVE  Spec => []StackOfRoutine
<1>1. FrameInv => StackOfRoutine
  BY DEF FrameInv, StackOfRoutine
<1>2. CInv /\ TInv /\ FrameInv /\ [Next]_vars => FrameInv'
  BY NextFrame
<1>3. QED
  BY <1>1, <1>2, InitFrame, TypesHold, PTL DEF Spec
-----------------------------------------------------------------------------
(* Missed routines: whenever the loop is left with nothing queued, all of  *)
(* them are known.                                                         *)

MissedKnown == \A n \in Missed(entered) : KnownEntrypoint(sq, Routine(n).extents.b)

MissedInv ==
  /\ phase # "done" => result = "none"
  /\ phase = "next" /\ hist.last = "compared" /\ WithMap /\ sq.queue = << >> => MissedKnown
  /\ MissedAreQueued

LEMMA LeftMissed ==
  ASSUME CInv, NEW q \in Queues, sq' = CheckMissed(q, entered), entered' = entered,
         case' = case, sq'.queue = << >>
  PROVE  MissedKnown'
<1>1. \A n \in Missed(entered) : KnownEntrypoint(sq', Routine(n).extents.b)
  BY CheckMissedType DEF CInv
<1>2. QED
  BY <1>1 DEF MissedKnown, Missed, Routine, IsExcluded

LEMMA NextMissed == CInv /\ TInv /\ MissedInv /\ [Next]_vars => MissedInv'
<1> SUFFICES ASSUME CInv, TInv, MissedInv, [Next]_vars PROVE MissedInv'
  OBVIOUS
<1>1. case' = case /\ HistShape(hist)
  BY CaseStays DEF CInv
<1>2. CASE phase = "done"
  <2>1. UNCHANGED vars
    BY <1>2, NextPairs
  <2>2. QED
    BY <2>1 DEF MissedInv, MissedKnown, MissedAreQueued, Missed, Complete, Routine, WithMap,
                IsExcluded, vars
<1>3. CASE phase # "done"
  <2>1. result = "none" /\ (phase' # "done" => result' = "none")
    BY <1>3, NextPairs DEF MissedInv
  <2>2. ASSUME phase' # "done",
               phase' = "next" /\ hist'.last = "compared" /\ WithMap' /\ sq'.queue = << >>
                 => MissedKnown'
        PROVE  MissedInv'
    BY <2>1, <2>2 DEF MissedInv, MissedAreQueued, Complete
  <2>3. ASSUME phase' = "done", ~Complete' PROVE MissedInv'
    BY <2>3 DEF MissedInv, MissedAreQueued
  <2>4. CASE Finish
    <3>1. /\ phase = "next" /\ sq.queue = << >> /\ phase' = "done"
          /\ UNCHANGED <<case, sq, hist, entered>>
      BY <2>4 DEF Finish, Done, seen
    <3>2. WithMap /\ hist.last = "compared" => MissedKnown
      BY <3>1 DEF MissedInv
    <3>3. MissedAreQueued'
      BY <3>1, <3>2 DEF MissedAreQueued, MissedKnown, Missed, Routine, WithMap, IsExcluded
    <3>4. QED
      BY <3>1, <3>3 DEF MissedInv
  <2>5. CASE StopAfterEntry \/ ReachStop
    <3>1. phase' = "done" /\ (case.opt.noCall \/ IsValid(case.opt.stop))
      BY <2>5 DEF StopAfterEntry, StopsHere, ReachStop, PastStop, Done
    <3>2. QED
      BY <1>1, <2>3, <3>1 DEF Complete
  <2>6. CASE \/ NotInMap \/ NoBlockThere \/ SearchFails \/ DecodeFails \/ Mismatch
    BY <2>3, <2>6 DEF NotInMap, NoBlockThere, SearchFails, DecodeFails, Mismatch, Done, Complete
  <2>7. CASE SkipCompared \/ SkipExcluded
    <3>1. phase' = "next" /\ hist' = [hist EXCEPT !.last = "skipped"]
      BY <2>7 DEF SkipCompared, SkipExcluded, InMap, Compares, Take, Considering
    <3>2. hist'.last = "skipped"
      BY <1>1, <3>1, HistLast
    <3>3. QED
      BY <2>2, <3>1, <3>2
  <2>8. CASE EnterKnown \/ EnterByName \/ EnterBySearch \/ EnterWithoutMap
    <3>1. phase' = "compare"
      BY <2>8 DEF EnterKnown, EnterByName, EnterBySearch, EnterWithoutMap, EnterFound, Begin
    <3>2. QED
      BY <2>2, <3>1
  <2>9. CASE LeaveImage
    <3>1. entered' = entered /\ sq \in Queues
      BY <2>9 DEF LeaveImage, seen, TInv, QueuesTyped
    <3>2. \/ phase' = "done" /\ result' = "mismatch"
          \/ phase' = "next" /\ sq' = CheckMissed(sq, entered)
      BY <2>9 DEF LeaveImage, LeaveLoop, Done
    <3>3. QED
      BY <1>1, <2>2, <2>3, <3>1, <3>2, LeftMissed DEF Complete
  <2>10. ASSUME Compared, NEW skipped, NEW STATE map, NEW STATE at, NEW STATE tat,
                NEW STATE note, Passed(skipped, map, at, tat, note)
         PROVE  MissedInv'
    <3>1. PICK q : Walked(q)
      BY <2>10, ProceedWalks
    <3>2. entered' = entered /\ q \in Queues
      BY <2>10, <3>1 DEF Compared, seen, Walked, Continues
    <3>3. phase' = "next" => sq' = CheckMissed(q, entered)
      BY <3>1 DEF Walked
    <3>4. phase' = "done" => ~Complete'
      BY <3>1 DEF Walked, Complete
    <3>5. QED
      BY <1>1, <2>2, <2>3, <3>2, <3>3, <3>4, LeftMissed
  <2>11. CASE SkipRef
    BY <2>10, <2>11, SkipRefPasses DEF SkipRef
  <2>12. CASE SkipTgt
    BY <2>10, <2>12, SkipTgtPasses DEF SkipTgt
  <2>13. CASE Accepted
    BY <2>10, <2>13, AcceptedPasses DEF Accepted
  <2>14. CASE UNCHANGED vars
    BY <2>14 DEF MissedInv, MissedKnown, MissedAreQueued, Missed, Complete, Routine, WithMap,
                 IsExcluded, vars
  <2>15. QED
    BY <1>3, <2>4, <2>5, <2>6, <2>7, <2>8, <2>9, <2>11, <2>12, <2>13, <2>14 DEF Next
<1>4. QED
  BY <1>2, <1>3

(* For every comparison: one that finds no difference, and compared its    *)
(* last location, knows every routine of the map (checkMissedRoutines).    *)
THEOREM MissedRoutinesQueued == Spec => []MissedAreQueued
<1>1. Init => MissedInv
  <2>1. ASSUME Init PROVE HistShape(hist) /\ hist.last = "none" /\ phase = "next" /\ result = "none"
    BY <2>1 DEF Init, HistShape
  <2>2. QED
    BY <2>1 DEF MissedInv, MissedAreQueued, Complete
<1>2. MissedInv => MissedAreQueued
  BY DEF MissedInv
<1>3. QED
  BY <1>1, <1>2, NextMissed, TypesHold, PTL DEF Spec
-----------------------------------------------------------------------------
(* Every entrypoint that was queued: it is settled, its call is waiting,   *)
(* or it is the location being compared, before its first instruction.     *)

Outside(a) == a \in DOMAIN off.code /\ off.code[a].lin \notin Byte

Settled(a) ==
  \/ sq.visited[a] = VISITED_ID
  \/ WithMap /\ RoutineAt(a) \in excluded
  \/ Outside(a)

AtFirst(a) == phase = "compare" /\ rc.lin = a /\ (tc.lin \notin Byte => Outside(a))

EntryLin(i) == sq.entrypoints[i].addr.lin

QueuedInv ==
  /\ phase # "done" => result = "none"
  /\ phase # "done" => \A b \in Byte : sq.visited[b] \in {NULL_ROUTINE, VISITED_ID}
  /\ phase # "done" /\ ~WithMap => \A i \in DOMAIN sq.entrypoints : EntryLin(i) \in DOMAIN off.code
  /\ phase # "done" => \A i \in DOMAIN sq.entrypoints :
                         Settled(EntryLin(i)) \/ QueuesCall(sq, i) \/ AtFirst(EntryLin(i))
  /\ QueuedCompared

LEMMA SettledStays ==
  ASSUME NEW a, Settled(a), case' = case, excluded \subseteq excluded', Extends(off, off'),
         sq'.visited[a] \in {VISITED_ID, sq.visited[a]}
  PROVE  Settled(a)'
<1>1. CASE sq.visited[a] = VISITED_ID
  BY <1>1 DEF Settled
<1>2. CASE WithMap /\ RoutineAt(a) \in excluded
  <2>1. WithMap' /\ RoutineAt(a)' = RoutineAt(a)
    BY <1>2 DEF WithMap, RoutineAt, Routine
  <2>2. QED
    BY <1>2, <2>1 DEF Settled
<1>3. CASE Outside(a)
  BY <1>3 DEF Settled, Outside, Extends
<1>4. QED
  BY <1>1, <1>2, <1>3 DEF Settled

LEMMA EntryLinType ==
  ASSUME TInv, NEW i \in DOMAIN sq.entrypoints
  PROVE  EntryLin(i) \in Byte
BY DEF TInv, QueuesTyped, Queues, Consistent, EntrypointsNumbered, EntryLin

(* The location that is taken is the one whose call leaves the queue. *)
LEMMA TakeQueued ==
  ASSUME CInv, TInv, QueuedInv, Take, case' = case, excluded \subseteq excluded',
         NEW i \in DOMAIN sq'.entrypoints
  PROVE  /\ i \in DOMAIN sq.entrypoints /\ EntryLin(i)' = EntryLin(i)
         /\ Settled(EntryLin(i))' \/ QueuesCall(sq', i) \/ EntryLin(i) = Point.addr.lin
<1>1. /\ sq \in Queues /\ sq.queue # << >> /\ phase = "next" /\ Point = Head(sq.queue)
      /\ sq.queue \in Seq(Points) /\ sq \in ScanQueues /\ Consistent(sq)
  BY DEF Take, Considering, Point, TInv, QueuesTyped, Queues, ScanQueues
<1>2. /\ sq' = NextPoint(sq) /\ sq'.entrypoints = sq.entrypoints /\ sq'.visited = sq.visited
      /\ off'.code = off.code
  BY TakeFacts DEF TInv
<1>3. sq'.queue = Tail(sq.queue)
  BY <1>1, <1>2 DEF NextPoint, ScanQueues
<1>4. i \in DOMAIN sq.entrypoints /\ EntryLin(i)' = EntryLin(i)
  BY <1>2 DEF EntryLin
<1>5. CASE Settled(EntryLin(i))
  <2>1. PICK a : a = EntryLin(i)
    OBVIOUS
  <2>2. Extends(off, off')
    BY <1>2 DEF Extends
  <2>3. Settled(a)'
    BY <1>2, <1>5, <2>1, <2>2, SettledStays
  <2>4. Settled(EntryLin(i))'
    BY <1>4, <2>1, <2>3 DEF Settled, Outside, RoutineAt
  <2>5. QED
    BY <1>4, <2>4
<1>6. CASE QueuesCall(sq, i)
  <2>1. PICK j \in DOMAIN sq.queue : sq.queue[j].call /\ sq.queue[j].idx = i
    BY <1>6 DEF QueuesCall
  <2>2. CASE j = 1
    <3>1. sq.queue[j] = Point
      BY <1>1, <2>2
    <3>2. Point.addr.lin = EntryLin(i)
      BY <1>1, <2>1, <3>1 DEF Consistent, PointBelongs, EntryLin
    <3>3. QED
      BY <1>4, <3>2
  <2>3. CASE j # 1
    <3>1. j - 1 \in DOMAIN Tail(sq.queue) /\ Tail(sq.queue)[j - 1] = sq.queue[j]
      BY <1>1, <2>1, <2>3
    <3>2. QueuesCall(sq', i)
      BY <1>3, <2>1, <3>1 DEF QueuesCall
    <3>3. QED
      BY <1>4, <3>2
  <2>4. QED
    BY <2>2, <2>3
<1>7. QED
  BY <1>1, <1>4, <1>5, <1>6 DEF QueuedInv, AtFirst
LEMMA TakeKeepsQueued ==
  ASSUME CInv, TInv, QueuedInv, Take, case' = case, excluded \subseteq excluded',
         phase' # "done", result' = "none",
         \A i \in DOMAIN sq.entrypoints :
           EntryLin(i) = Point.addr.lin =>
             (Settled(EntryLin(i)))' \/ (AtFirst(EntryLin(i)))'
  PROVE  QueuedInv'
<1>1. /\ sq'.entrypoints = sq.entrypoints /\ sq'.visited = sq.visited /\ off'.code = off.code
  BY TakeFacts DEF TInv
<1>2. ASSUME NEW i \in DOMAIN sq'.entrypoints
      PROVE  (Settled(EntryLin(i)))' \/ QueuesCall(sq', i) \/ (AtFirst(EntryLin(i)))'
  BY <1>2, TakeQueued
<1>3. ASSUME ~WithMap', NEW i \in DOMAIN sq'.entrypoints
      PROVE  EntryLin(i)' \in DOMAIN off'.code
  <2>1. ~WithMap /\ phase # "done" /\ i \in DOMAIN sq.entrypoints
    BY <1>1, <1>3 DEF WithMap, Take, Considering
  <2>2. EntryLin(i) \in DOMAIN off.code
    BY <2>1 DEF QueuedInv
  <2>3. QED
    BY <1>1, <2>2 DEF EntryLin
<1>4. \A b \in Byte : sq'.visited[b] \in {NULL_ROUTINE, VISITED_ID}
  BY <1>1 DEF QueuedInv, Take, Considering
<1>5. QueuedCompared'
  BY DEF QueuedCompared, Complete
<1>6. QED
  BY <1>2, <1>3, <1>4, <1>5 DEF QueuedInv

(* What the loop leaves: the location it was at is visited. *)
LEMMA PassedKeepsQueued ==
  ASSUME CInv, TInv, QueuedInv, Compared, NEW skipped, NEW STATE map, NEW STATE at,
         NEW STATE tat, NEW STATE note, Passed(skipped, map, at, tat, note),
         phase' # "done", result' = "none"
  PROVE  QueuedInv'
<1>1. /\ phase = "compare" /\ case' = case /\ excluded' = excluded /\ rc.lin \in Byte
  BY DEF Compared, Inside, seen
<1>2. Extends(off, off')
  BY PassedTypes
<1>3. PICK q : Walked(q)
  BY ProceedWalks
<1>4. Continues(sq, q) /\ q \in Queues /\ q.visited = MarkedRef.visited
  BY <1>3 DEF Walked, Continues
<1>5. sq' = q \/ sq' = CheckMissed(q, entered)
  BY <1>3 DEF Walked
<1>6. LET r == CheckMissed(q, entered)
      IN Continues(q, r) /\ r.visited = q.visited /\ (~WithMap => r = q)
  BY <1>4, CheckMissedType DEF CInv
<1>7. Continues(sq, sq') /\ sq'.visited = MarkedRef.visited
  BY <1>4, <1>5, <1>6, ContinuesTransitive
<1>8. /\ \A b \in Byte : MarkedRef.visited[b] \in {VISITED_ID, sq.visited[b]}
      /\ MarkedRef.visited[rc.lin] = VISITED_ID
  BY MarkedType
<1>9. ASSUME ~WithMap', NEW i \in DOMAIN sq'.entrypoints
      PROVE  EntryLin(i)' \in DOMAIN off'.code
  <2>1. ~WithMap /\ sq' = q
    BY <1>1, <1>5, <1>6, <1>9 DEF WithMap
  <2>2. CASE i \in DOMAIN sq.entrypoints
    <3>1. EntryLin(i)' = EntryLin(i)
      BY <1>7, <2>2 DEF Continues, Grows, EntryLin
    <3>2. EntryLin(i) \in DOMAIN off.code
      BY <1>1, <2>1, <2>2 DEF QueuedInv
    <3>3. QED
      BY <1>2, <3>1, <3>2 DEF Extends
  <2>3. CASE i \notin DOMAIN sq.entrypoints
    BY <1>3, <1>9, <2>1, <2>3 DEF Walked, EntryLin
  <2>4. QED
    BY <2>2, <2>3
<1>10. ASSUME NEW i \in DOMAIN sq'.entrypoints
       PROVE  (Settled(EntryLin(i)))' \/ QueuesCall(sq', i)
  <2>1. CASE i \notin DOMAIN sq.entrypoints
    BY <1>7, <1>10, <2>1 DEF Continues, Adds
  <2>2. CASE i \in DOMAIN sq.entrypoints
    <3>1. PICK a : a = EntryLin(i)
      OBVIOUS
    <3>2. EntryLin(i)' = a /\ a \in Byte
      BY <1>7, <2>2, <3>1, EntryLinType DEF Continues, Grows, EntryLin
    <3>3. sq'.visited[a] \in {VISITED_ID, sq.visited[a]}
      BY <1>7, <1>8, <3>2
    <3>4. CASE Settled(a)
      <4>1. Settled(a)'
        BY <1>1, <1>2, <3>3, <3>4, SettledStays
      <4>2. QED
        BY <3>2, <4>1 DEF Settled, Outside, RoutineAt
    <3>5. CASE QueuesCall(sq, i)
      BY <1>7, <3>5, AddsKeepsCalls DEF Continues
    <3>6. CASE AtFirst(a)
      <4>1. sq'.visited[a] = VISITED_ID
        BY <1>7, <1>8, <3>6 DEF AtFirst
      <4>2. QED
        BY <3>2, <4>1 DEF Settled
    <3>7. QED
      BY <1>1, <2>2, <3>1, <3>4, <3>5, <3>6 DEF QueuedInv
  <2>3. QED
    BY <2>1, <2>2
<1>11. \A b \in Byte : sq'.visited[b] \in {NULL_ROUTINE, VISITED_ID}
  BY <1>1, <1>7, <1>8 DEF QueuedInv
<1>12. QueuedCompared'
  BY DEF QueuedCompared, Complete
<1>13. QED
  BY <1>9, <1>10, <1>11, <1>12 DEF QueuedInv
(* A location whose place in the target is outside of the image. *)
LEMMA LeaveKeepsQueued ==
  ASSUME CInv, TInv, QueuedInv, LeaveImage, phase' # "done", result' = "none"
  PROVE  QueuedInv'
<1>1. /\ phase = "compare" /\ ~Inside /\ UNCHANGED <<case, off, rc, tc, excluded>>
      /\ phase' = "next" /\ sq' = CheckMissed(sq, entered)
  BY DEF LeaveImage, LeaveLoop, Done, seen
<1>2. sq \in Queues
  BY DEF TInv, QueuesTyped
<1>3. Continues(sq, sq') /\ sq'.visited = sq.visited /\ (~WithMap => sq' = sq)
  BY <1>1, <1>2, CheckMissedType DEF CInv
<1>4. ASSUME NEW i \in DOMAIN sq'.entrypoints
      PROVE  (Settled(EntryLin(i)))' \/ QueuesCall(sq', i)
  <2>1. CASE i \notin DOMAIN sq.entrypoints
    BY <1>3, <1>4, <2>1 DEF Continues, Adds
  <2>2. CASE i \in DOMAIN sq.entrypoints
    <3>1. PICK a : a = EntryLin(i)
      OBVIOUS
    <3>2. EntryLin(i)' = a /\ a \in Byte
      BY <1>3, <2>2, <3>1, EntryLinType DEF Continues, Grows, EntryLin
    <3>3. CASE QueuesCall(sq, i)
      BY <1>3, <3>3, AddsKeepsCalls DEF Continues
    <3>4. CASE AtFirst(a)
      <4>1. Outside(a)
        BY <1>1, <3>2, <3>4 DEF AtFirst, Inside
      <4>2. QED
        BY <1>1, <3>2, <4>1 DEF Settled, Outside
    <3>5. CASE Settled(a)
      <4>1. Settled(a)'
        BY <1>1, <1>3, <3>5, SettledStays DEF Extends
      <4>2. QED
        BY <3>2, <4>1 DEF Settled, Outside, RoutineAt
    <3>6. QED
      BY <1>1, <2>2, <3>1, <3>3, <3>4, <3>5 DEF QueuedInv
  <2>3. QED
    BY <2>1, <2>2
<1>5. ASSUME ~WithMap', NEW i \in DOMAIN sq'.entrypoints
      PROVE  EntryLin(i)' \in DOMAIN off'.code
  BY <1>1, <1>3, <1>5 DEF QueuedInv, WithMap, EntryLin
<1>6. \A b \in Byte : sq'.visited[b] \in {NULL_ROUTINE, VISITED_ID}
  BY <1>1, <1>3 DEF QueuedInv
<1>7. QueuedCompared'
  BY DEF QueuedCompared, Complete
<1>8. QED
  BY <1>4, <1>5, <1>6, <1>7 DEF QueuedInv

LEMMA NextQueued == CInv /\ TInv /\ QueuedInv /\ [Next]_vars => QueuedInv'
<1> SUFFICES ASSUME CInv, TInv, QueuedInv, [Next]_vars PROVE QueuedInv'
  OBVIOUS
<1>1. case' = case
  BY CaseStays
<1>2. CASE UNCHANGED vars
  BY <1>2 DEF QueuedInv, QueuedCompared, Complete, Settled, Outside, AtFirst, EntryLin,
              WithMap, RoutineAt, Routine, vars
<1>3. CASE phase = "done"
  BY <1>2, <1>3, NextPairs
<1>4. CASE phase # "done" /\ phase' = "done" /\ ~Complete'
  BY <1>4 DEF QueuedInv, QueuedCompared
<1>5. CASE phase # "done" /\ ~(phase' = "done" /\ ~Complete') /\ ~UNCHANGED vars
  <2>1. phase # "done" /\ result = "none" /\ (phase' # "done" => result' = "none")
    BY <1>5, NextPairs DEF QueuedInv
  <2>2. CASE Finish
    <3>1. /\ phase = "next" /\ sq.queue = << >> /\ phase' = "done"
          /\ UNCHANGED <<case, sq, off, excluded>>
      BY <2>2 DEF Finish, Done, seen
    <3>2. \A i \in DOMAIN sq.entrypoints : Settled(EntryLin(i))
      BY <2>1, <3>1 DEF QueuedInv, QueuesCall, AtFirst
    <3>3. QueuedCompared'
      BY <3>1, <3>2 DEF QueuedCompared, Settled, Outside, EntryLin, WithMap, RoutineAt, Routine
    <3>4. QED
      BY <3>1, <3>3 DEF QueuedInv
  <2>3. CASE \/ StopAfterEntry \/ ReachStop \/ NotInMap \/ NoBlockThere \/ SearchFails
             \/ DecodeFails \/ Mismatch
    <3>1. phase' = "done" /\ ~Complete'
      BY <1>1, <2>3 DEF StopAfterEntry, StopsHere, ReachStop, PastStop, NotInMap, NoBlockThere,
                        SearchFails, DecodeFails, Mismatch, Done, Complete
    <3>2. QED
      BY <1>5, <3>1
  <2>4. CASE SkipCompared
    <3>1. Take /\ phase' # "done" /\ excluded' = excluded /\ ~Unseen
      BY <2>1, <2>4 DEF SkipCompared, seen
    <3>2. ASSUME NEW i \in DOMAIN sq.entrypoints, EntryLin(i) = Point.addr.lin
          PROVE  (Settled(EntryLin(i)))'
      <4>1. sq.visited[EntryLin(i)] = VISITED_ID
        BY <2>1, <3>1, <3>2, EntryLinType DEF Unseen, QueuedInv
      <4>2. sq'.entrypoints = sq.entrypoints /\ sq'.visited = sq.visited
        BY <3>1, TakeFacts DEF TInv
      <4>3. QED
        BY <4>1, <4>2 DEF Settled, EntryLin
    <3>3. QED
      BY <1>1, <2>1, <3>1, <3>2, TakeKeepsQueued
  <2>5. CASE SkipExcluded
    <3>1. /\ Take /\ phase' # "done" /\ WithMap /\ excluded' = excluded \cup {Here}
      BY <2>1, <2>5 DEF SkipExcluded, InMap, Compares
    <3>2. ASSUME NEW i \in DOMAIN sq.entrypoints, EntryLin(i) = Point.addr.lin
          PROVE  (Settled(EntryLin(i)))'
      <4>1. sq'.entrypoints = sq.entrypoints
        BY <3>1, TakeFacts DEF TInv
      <4>2. PICK a : a = EntryLin(i)
        OBVIOUS
      <4>3. EntryLin(i)' = a /\ Here = RoutineAt(a)
        BY <3>2, <4>1, <4>2 DEF EntryLin, Here
      <4>4. (RoutineAt(EntryLin(i)))' = RoutineAt(a)
        BY <1>1, <4>3 DEF RoutineAt, Routine
      <4>5. WithMap'
        BY <1>1, <3>1 DEF WithMap
      <4>6. QED
        BY <3>1, <4>3, <4>4, <4>5 DEF Settled
    <3>3. QED
      BY <1>1, <2>1, <3>1, <3>2, TakeKeepsQueued
  <2>6. CASE EnterKnown \/ EnterByName \/ EnterBySearch \/ EnterWithoutMap
    <3>1. /\ Take /\ phase' = "compare" /\ excluded' = excluded
          /\ \/ tc' = KnownTarget /\ (IsValid(KnownTarget) \/ ~WithMap)
             \/ EnterByName /\ tc' = NamedTarget
             \/ EnterBySearch /\ tc' = TargetAt(FirstIn(Found))
      BY <2>6 DEF EnterKnown, EnterByName, EnterBySearch, EnterWithoutMap, Searching, Wanted,
                  InMap, Compares, EnterFound, Begin, seen
    <3>2. ASSUME NEW i \in DOMAIN sq.entrypoints, EntryLin(i) = Point.addr.lin
          PROVE  (AtFirst(EntryLin(i)))'
      <4>1. /\ sq'.entrypoints = sq.entrypoints /\ off'.code = off.code
            /\ rc' = Point.addr
        BY <3>1, TakeFacts DEF TInv
      <4>2. PICK a : a = EntryLin(i)
        OBVIOUS
      <4>3. EntryLin(i)' = a /\ rc'.lin = a
        BY <3>2, <4>1, <4>2 DEF EntryLin
      <4>4. CASE tc' = KnownTarget /\ (IsValid(KnownTarget) \/ ~WithMap)
        <5>1. KnownTarget = IF a \in DOMAIN off.code THEN off.code[a] ELSE InvalidAddr
          BY <3>2, <4>2 DEF KnownTarget, GetCode
        <5>2. a \in DOMAIN off.code
          BY <2>1, <3>2, <4>2, <4>4, <5>1 DEF IsValid, QueuedInv
        <5>3. Outside(a)' <=> tc'.lin \notin Byte
          BY <4>1, <4>4, <5>1, <5>2 DEF Outside
        <5>4. QED
          BY <3>1, <4>3, <5>3 DEF AtFirst, Outside
      <4>5. CASE EnterByName /\ tc' = NamedTarget
        <5>1. Here # 0 /\ IsValid(NamedTarget)
          BY <4>5 DEF EnterByName, Wanted, InMap
        <5>2. tc'.lin \in Byte
          BY <4>5, <5>1, NamedLocated, LocatedParts
        <5>3. QED
          BY <3>1, <4>3, <5>2 DEF AtFirst
      <4>6. CASE EnterBySearch /\ tc' = TargetAt(FirstIn(Found))
        <5>1. Found # {} /\ SegmentsOver(FirstIn(Found)) # {}
          BY <4>6 DEF EnterBySearch
        <5>2. tc'.lin \in Byte
          BY <4>6, <5>1, FoundLocated, LocatedParts
        <5>3. QED
          BY <3>1, <4>3, <5>2 DEF AtFirst
      <4>7. QED
        BY <3>1, <4>4, <4>5, <4>6
    <3>3. QED
      BY <1>1, <2>1, <3>1, <3>2, TakeKeepsQueued
  <2>7. CASE LeaveImage
    <3>1. phase' # "done"
      BY <1>5, <2>7 DEF LeaveImage, LeaveLoop, Done, Complete
    <3>2. QED
      BY <2>1, <2>7, <3>1, LeaveKeepsQueued
  <2>8. ASSUME Compared, NEW skipped, NEW STATE map, NEW STATE at, NEW STATE tat,
               NEW STATE note, Passed(skipped, map, at, tat, note)
        PROVE  QueuedInv'
    <3>1. PICK q : Walked(q)
      BY <2>8, ProceedWalks
    <3>2. phase' # "done"
      BY <1>5, <3>1 DEF Walked, Complete
    <3>3. QED
      BY <2>1, <2>8, <3>2, PassedKeepsQueued
  <2>9. CASE SkipRef
    BY <2>8, <2>9, SkipRefPasses DEF SkipRef
  <2>10. CASE SkipTgt
    BY <2>8, <2>10, SkipTgtPasses DEF SkipTgt
  <2>11. CASE Accepted
    BY <2>8, <2>11, AcceptedPasses DEF Accepted
  <2>12. QED
    BY <1>5, <2>2, <2>3, <2>4, <2>5, <2>6, <2>7, <2>9, <2>10, <2>11 DEF Next
<1>6. QED
  BY <1>2, <1>3, <1>4, <1>5

LEMMA InitQueued == Init => QueuedInv
<1> SUFFICES ASSUME Init PROVE QueuedInv
  OBVIOUS
<1>1. phase = "next" /\ result = "none"
  BY DEF Init
<1>2. \/ sq = Seeded /\ WithMap
      \/ sq = SeededQueue(case.entry, VISITED_ID)
  BY InitTyped, SeededType DEF Init
<1>3. case.entry \in Located /\ CaseTyped
  BY InitTyped DEF CaseTyped
<1>4. CASE sq = Seeded /\ WithMap
  <2>1. /\ Continues(EmptyQueue, Seeded)
        /\ Seeded.visited = [b \in Byte |-> NULL_ROUTINE]
    BY <1>3, SeededType
  <2>2. DOMAIN EmptyQueue.entrypoints = {}
    BY DEF EmptyQueue
  <2>3. \A i \in DOMAIN Seeded.entrypoints : QueuesCall(Seeded, i)
    BY <2>1, <2>2 DEF Continues, Adds
  <2>4. QED
    BY <1>1, <1>4, <2>1, <2>3 DEF QueuedInv, QueuedCompared, Complete
<1>5. CASE sq = SeededQueue(case.entry, VISITED_ID)
  <2>1. /\ DOMAIN sq.entrypoints = {1} /\ sq.entrypoints[1].addr = case.entry
        /\ DOMAIN sq.queue = {1} /\ sq.queue[1].idx = 1 /\ sq.queue[1].call
        /\ sq.visited = [b \in Byte |-> NULL_ROUTINE]
    BY <1>3, <1>5, SeededParts
  <2>2. QueuesCall(sq, 1)
    BY <2>1 DEF QueuesCall
  <2> DEFINE new == NewOffsetMap(case.dataSegs)
  <2>3. Shape(new) /\ off = SetCode(new, case.entry, case.tentry)
    BY <1>3 DEF Init, NewOffsetMap, Shape, CaseTyped
  <2> HIDE DEF new
  <2>4. case.entry.lin \in DOMAIN off.code
    BY <2>3, SetCodeParts
  <2>5. EntryLin(1) \in DOMAIN off.code
    BY <2>1, <2>4 DEF EntryLin
  <2>6. QED
    BY <1>1, <2>1, <2>2, <2>5 DEF QueuedInv, QueuedCompared, Complete
<1>6. QED
  BY <1>2, <1>4, <1>5

(* For every comparison: one that finds no difference has compared every   *)
(* entrypoint it queued, but those of excluded routines and those whose    *)
(* place in the target is outside of the image (compareCode).              *)
THEOREM QueuedEntrypointsCompared == Spec => []QueuedCompared
<1>1. QueuedInv => QueuedCompared
  BY DEF QueuedInv
<1>2. QED
  BY <1>1, InitQueued, NextQueued, TypesHold, PTL DEF Spec
-----------------------------------------------------------------------------
(* Maps laid out like the code.  What a routine owns, and which of its     *)
(* blocks comes next.                                                      *)

Laid(S) ==
  /\ BlocksValid(case.rmap) /\ BlocksApart(case.rmap) /\ BlocksInOrder(case.rmap)
  /\ FramesReach(case.ref, case.entry, case.rmap)
  /\ Instructed(case.ref, case.entry, case.rmap, S)

(* Where the extents and the blocks of a routine start. *)
HeadsOf(n) ==
  {Routine(n).extents.b} \cup {Routine(n).reach[i].b : i \in DOMAIN Routine(n).reach}

NextAfter(n, y) == NextReachable(Routine(n), y + 1)

LEMMA ReachIs ==
  ASSUME CaseTyped, BlocksValid(case.rmap), NEW n \in DOMAIN case.rmap,
         NEW i \in DOMAIN Routine(n).reach
  PROVE  /\ Routine(n).reach[i].b \in Byte /\ Routine(n).reach[i].b \in Int
         /\ Routine(n).reach[i].e \in Int
         /\ Routine(n).reach[i].b <= Routine(n).reach[i].e
         /\ Routine(n).reach[i] \in BlocksOf(Routine(n))
         /\ Routine(n).reach[i].b \in BlockBytes(Routine(n).reach[i])
         /\ Routine(n).reach[i] # NoBlock
         /\ Owns(Routine(n), Routine(n).reach[i].b)
<1> DEFINE blk == Routine(n).reach[i]
<1>1. Routine(n).reach \in Seq([b : Byte, e : Int])
  BY DEF CaseTyped, OfImage, Routine
<1>2. blk \in [b : Byte, e : Int]
  BY <1>1, ElementType
<1>3. blk.b <= blk.e
  BY DEF BlocksValid, Routine
<1>4. blk \in BlocksOf(Routine(n))
  BY DEF BlocksOf, ToSet
<1> HIDE DEF blk
<1>5. blk.b \in Byte /\ blk.b \in Int /\ blk.e \in Int /\ blk.b # -1
  BY <1>2, SizeAssumption DEF Byte
<1>6. blk # NoBlock /\ blk.b \in BlockBytes(blk)
  BY <1>3, <1>5 DEF NoBlock, BlockBytes
<1>7. Owns(Routine(n), blk.b)
  BY <1>4, <1>6 DEF Owns
<1>8. QED
  BY <1>3, <1>4, <1>5, <1>6, <1>7 DEF blk

(* Heads are instructions of their own routine. *)
LEMMA HeadsAre ==
  ASSUME CaseTyped, NEW S \in SUBSET Byte, Laid(S), NEW n \in DOMAIN case.rmap, NEW y \in HeadsOf(n)
  PROVE  y \in S /\ y \in Byte /\ y \in Int /\ Owns(Routine(n), y)
<1>1. y \in S
  BY DEF Laid, Instructed, HeadsOf, Routine
<1>2. y \in Byte /\ y \in Int
  BY <1>1, SizeAssumption DEF Byte
<1>3. CASE y = Routine(n).extents.b
  <2>1. y <= Routine(n).extents.e
    BY <1>3 DEF Laid, BlocksInOrder, Routine
  <2>2. y \in BlockBytes(Routine(n).extents)
    BY <1>2, <1>3, <2>1 DEF BlockBytes
  <2>3. QED
    BY <1>1, <1>2, <2>2 DEF Owns
<1>4. CASE y # Routine(n).extents.b
  <2>1. PICK i \in DOMAIN Routine(n).reach : y = Routine(n).reach[i].b
    BY <1>4 DEF HeadsOf
  <2>2. QED
    BY <1>1, <1>2, <2>1, ReachIs DEF Laid
<1>5. QED
  BY <1>3, <1>4

LEMMA OneOwner ==
  ASSUME NEW S \in SUBSET Byte, Laid(S), NEW m \in DOMAIN case.rmap, NEW n \in DOMAIN case.rmap,
         NEW x \in Byte, Owns(Routine(m), x), Owns(Routine(n), x)
  PROVE  m = n
BY DEF Laid, BlocksApart, Routine

LEMMA HoldsOwns ==
  ASSUME NEW n, NEW x, Holds(Routine(n), x)
  PROVE  Owns(Routine(n), x)
BY DEF Holds, Owns, BlocksOf, ToSet

(* The first reachable block from k on, none before it. *)
LEMMA NextReachableIs ==
  ASSUME CaseTyped, BlocksValid(case.rmap), NEW n \in DOMAIN case.rmap, NEW k \in Int
  PROVE  \/ /\ NextReachable(Routine(n), k) = NoBlock
            /\ \A i \in DOMAIN Routine(n).reach : Routine(n).reach[i].b < k
         \/ \E i \in DOMAIN Routine(n).reach :
              /\ NextReachable(Routine(n), k) = Routine(n).reach[i]
              /\ Routine(n).reach[i].b >= k
              /\ \A j \in DOMAIN Routine(n).reach : Routine(n).reach[j].b >= k => i <= j
<1> DEFINE reach == Routine(n).reach
           later == {i \in DOMAIN reach : reach[i].b >= k}
<1>1. DOMAIN reach \subseteq Nat
  <2>1. reach \in Seq([b : Byte, e : Int])
    BY DEF CaseTyped, OfImage, Routine
  <2> HIDE DEF reach
  <2>2. QED
    BY <2>1
<1>2. NextReachable(Routine(n), k) = IF later = {} THEN NoBlock ELSE reach[FirstIn(later)]
  BY DEF NextReachable, FirstBlock
<1>3. \A i \in DOMAIN reach : reach[i].b \in Int
  BY ReachIs
<1>4. CASE later = {}
  BY <1>2, <1>3, <1>4
<1>5. CASE later # {}
  <2> DEFINE f == FirstIn(later)
  <2>1. \E x \in later : \A y \in later : x <= y
    <3>1. later \subseteq Nat
      BY <1>1
    <3> HIDE DEF later
    <3>2. QED
      BY <1>5, <3>1, LeastExists
  <2>2. f \in later /\ \A y \in later : f <= y
    <3> HIDE DEF later
    <3>1. QED
      BY <2>1 DEF FirstIn
  <2>3. NextReachable(Routine(n), k) = reach[f]
    BY <1>2, <1>5
  <2> HIDE DEF f
  <2>4. QED
    BY <2>2, <2>3
<1>6. QED
  BY <1>4, <1>5

LEMMA NextReachableSame ==
  ASSUME NEW r, NEW k, NEW l, \A i \in DOMAIN r.reach : r.reach[i].b >= k <=> r.reach[i].b >= l
  PROVE  NextReachable(r, k) = NextReachable(r, l)
<1>1. {i \in DOMAIN r.reach : r.reach[i].b >= k} = {i \in DOMAIN r.reach : r.reach[i].b >= l}
  OBVIOUS
<1>2. QED
  BY <1>1 DEF NextReachable, FirstBlock
-----------------------------------------------------------------------------
(* The queue: all that is known or waiting is an instruction, in a segment *)
(* code is called with.                                                    *)

Calling == Frames(case.ref, case.entry, case.rmap)

Within(S, F, q) ==
  /\ \A i \in DOMAIN q.entrypoints :
       q.entrypoints[i].addr.lin \in S /\ q.entrypoints[i].addr.seg \in F
  /\ \A j \in DOMAIN q.queue : q.queue[j].addr.lin \in S

(* A place is waited for. *)
Awaits(q, x) ==
  q.visited[x] = VISITED_ID \/ \E j \in DOMAIN q.queue : q.queue[j].addr.lin = x

LEMMA AwaitsStays ==
  ASSUME NEW q, NEW r, Continues(q, r), NEW x, Awaits(q, x),
         r.visited[x] \in {VISITED_ID, q.visited[x]}
  PROVE  Awaits(r, x)
BY DEF Awaits, Continues, Adds

LEMMA SaveCallWithin ==
  ASSUME NEW S, NEW F, NEW q \in Queues, Within(S, F, q), NEW dest, NEW near \in BOOLEAN,
         dest.lin \in S, dest.seg \in F
  PROVE  Within(S, F, SaveCall(q, dest, near))
<1> DEFINE id == IsEntrypoint(q, dest.lin)
           ep == [addr |-> dest, idx |-> RoutineCount(q) + 1, near |-> near]
           point == [addr |-> dest, idx |-> RoutineCount(q) + 1, call |-> TRUE]
<1>1. q \in ScanQueues /\ q.entrypoints \in Seq(Entrypoints) /\ q.queue \in Seq(Points)
  BY DEF Queues, ScanQueues
<1>2. CASE SaveCall(q, dest, near) = q
  BY <1>2
<1>3. CASE SaveCall(q, dest, near) = UpdateNear(q, id, near) /\ id # NULL_ROUTINE
  <2> DEFINE r == UpdateNear(q, id, near)
             eps == [q.entrypoints EXCEPT ![id].near = near]
  <2>1. KnownEntrypoint(q, dest.lin)
    BY <1>3 DEF IsEntrypoint
  <2>2. id \in DOMAIN q.entrypoints
    BY <2>1, IsEntrypointFinds
  <2> HIDE DEF id
  <2>3. Grows(q, r)
    BY <2>2, UpdateNearType
  <2>4. r = q \/ r = [q EXCEPT !.entrypoints = eps]
    BY DEF UpdateNear
  <2>5. DOMAIN eps = DOMAIN q.entrypoints
    BY <1>1
  <2> HIDE DEF eps, r
  <2>6. r.queue = q.queue /\ DOMAIN r.entrypoints = DOMAIN q.entrypoints
    BY <1>1, <2>4, <2>5 DEF ScanQueues
  <2>7. Within(S, F, r)
    BY <2>3, <2>6 DEF Within, Grows
  <2>8. QED
    BY <1>3, <2>7 DEF r
<1>4. CASE SaveCall(q, dest, near) = NewRoutine(q, dest, near)
  <2>1. /\ NewRoutine(q, dest, near).entrypoints = Append(q.entrypoints, ep) /\ ep.addr = dest
        /\ NewRoutine(q, dest, near).queue = Append(q.queue, point) /\ point.addr = dest
    BY <1>1 DEF NewRoutine, ScanQueues
  <2> HIDE DEF ep, point
  <2>2. \A i \in DOMAIN Append(q.entrypoints, ep) :
          \/ i \in DOMAIN q.entrypoints /\ Append(q.entrypoints, ep)[i] = q.entrypoints[i]
          \/ Append(q.entrypoints, ep)[i] = ep
    BY <1>1
  <2>3. \A i \in DOMAIN Append(q.queue, point) :
          \/ i \in DOMAIN q.queue /\ Append(q.queue, point)[i] = q.queue[i]
          \/ Append(q.queue, point)[i] = point
    BY <1>1
  <2>4. QED
    BY <1>4, <2>1, <2>2, <2>3 DEF Within
<1>5. QED
  BY <1>2, <1>3, <1>4 DEF SaveCall

LEMMA SaveJumpWithin ==
  ASSUME NEW S, NEW F, NEW q \in Queues, Within(S, F, q), NEW dest, dest.lin \in S
  PROVE  Within(S, F, SaveJump(q, dest))
<1> DEFINE home == q.entrypoints[q.cur.idx].addr.seg
           p == [addr |-> [seg |-> home, lin |-> dest.lin], idx |-> q.cur.idx, call |-> FALSE]
           r == SaveJump(q, dest)
<1>1. q \in ScanQueues /\ q.queue \in Seq(Points)
  BY DEF Queues, ScanQueues
<1>2. r = q \/ (r.queue = <<p>> \o q.queue /\ r.entrypoints = q.entrypoints)
  BY <1>1 DEF SaveJump, ScanQueues
<1>3. p.addr.lin = dest.lin
  OBVIOUS
<1> HIDE DEF r, p
<1>4. \A j \in DOMAIN (<<p>> \o q.queue) :
        \/ (<<p>> \o q.queue)[j] = p
        \/ j - 1 \in DOMAIN q.queue /\ (<<p>> \o q.queue)[j] = q.queue[j - 1]
  BY <1>1
<1>5. Within(S, F, r)
  BY <1>2, <1>3, <1>4 DEF Within
<1>6. QED
  BY <1>5 DEF r

(* Afterwards the destination waits, if the segment of the routine reaches it. *)
LEMMA SaveJumpAwaits ==
  ASSUME NEW q \in Queues, NEW dest, q.visited[dest.lin] \in {NULL_ROUTINE, VISITED_ID},
         InSegment(dest.lin, q.entrypoints[q.cur.idx].addr.seg)
  PROVE  Awaits(SaveJump(q, dest), dest.lin)
<1> DEFINE home == q.entrypoints[q.cur.idx].addr.seg
           p == [addr |-> [seg |-> home, lin |-> dest.lin], idx |-> q.cur.idx, call |-> FALSE]
           r == SaveJump(q, dest)
<1>1. q \in ScanQueues /\ q.queue \in Seq(Points)
  BY DEF Queues, ScanQueues
<1>2. CASE q.visited[dest.lin] # NULL_ROUTINE
  <2>1. r = q
    BY <1>2 DEF SaveJump
  <2>2. QED
    BY <1>2, <2>1 DEF Awaits
<1>3. CASE HasPoint(q, dest.lin, FALSE)
  <2>1. r = q
    BY <1>3 DEF SaveJump
  <2>2. QED
    BY <1>3, <2>1 DEF Awaits, HasPoint
<1>4. CASE q.visited[dest.lin] = NULL_ROUTINE /\ ~HasPoint(q, dest.lin, FALSE)
  <2>1. r.queue = <<p>> \o q.queue
    BY <1>1, <1>4 DEF SaveJump, ScanQueues
  <2>2. p.addr.lin = dest.lin
    OBVIOUS
  <2> HIDE DEF p, r
  <2>3. 1 \in DOMAIN (<<p>> \o q.queue) /\ (<<p>> \o q.queue)[1] = p
    BY <1>1
  <2>4. Awaits(r, dest.lin)
    BY <2>1, <2>2, <2>3 DEF Awaits
  <2>5. QED
    BY <2>4 DEF r
<1>5. QED
  BY <1>2, <1>3, <1>4

(* The entries of routines are in the code. *)
LEMMA EntryWithin ==
  ASSUME CaseTyped, NEW S \in SUBSET Byte, Laid(S), NEW n \in DOMAIN case.rmap
  PROVE  Entry(Routine(n)).lin \in S /\ Entry(Routine(n)).seg \in Calling
BY DEF Laid, Instructed, Entry, Routine, Calling, Frames

LEMMA SaveRoutinesWithin ==
  ASSUME CaseTyped, NEW S \in SUBSET Byte, Laid(S), NEW q \in Queues, Within(S, Calling, q),
         NEW A, A \subseteq DOMAIN case.rmap, NEW near, \A n \in A : near[n] \in BOOLEAN
  PROVE  Within(S, Calling, SaveRoutines(q, A, near))
<1> DEFINE N == Len(case.rmap)
<1>1. N \in Nat /\ DOMAIN case.rmap = 1..N
  BY DEF CaseTyped
<1>2. PICK saved :
        /\ SaveRoutines(q, A, near) = saved[N]
        /\ saved[0] = q
        /\ \A n \in 1..N : saved[n] = IF n \in A
                                      THEN SaveCall(saved[n - 1], Entry(Routine(n)), near[n])
                                      ELSE saved[n - 1]
  BY SaveRoutinesSteps
<1> HIDE DEF N
<1> DEFINE Until == {n \in 0..N : saved[n] \in Queues /\ Within(S, Calling, saved[n])}
<1>3. 0 \in Until
  BY <1>1, <1>2
<1>4. ASSUME NEW n \in 1..N, n - 1 \in Until
      PROVE  n \in Until
  <2> DEFINE l == saved[n - 1]
             r == saved[n]
             e == Entry(Routine(n))
  <2>1. l \in Queues /\ Within(S, Calling, l) /\ n \in 0..N /\ n \in DOMAIN case.rmap
    BY <1>1, <1>4
  <2>2. CASE n \notin A
    BY <1>2, <2>1, <2>2
  <2>3. CASE n \in A
    <3>1. r = SaveCall(l, e, near[n]) /\ near[n] \in BOOLEAN
      BY <1>2, <2>3
    <3>2. /\ e \in Addresses /\ e.lin \in Byte /\ InSegment(e.lin, e.seg)
          /\ e.lin \in S /\ e.seg \in Calling
      BY <2>1, EntriesLocated, LocatedParts, EntryWithin
    <3> HIDE DEF l, r, e
    <3>3. r \in Queues /\ Within(S, Calling, r)
      BY <2>1, <3>1, <3>2, SaveCallType, SaveCallWithin
    <3>4. QED
      BY <2>1, <3>3 DEF r
  <2>4. QED
    BY <2>2, <2>3
<1>5. 0..N \subseteq Until
  <2> HIDE DEF Until
  <2>1. QED
    BY <1>1, <1>3, <1>4, Upwards
<1>6. N \in Until
  BY <1>1, <1>5
<1>7. QED
  BY <1>2, <1>6

LEMMA CheckMissedWithin ==
  ASSUME CaseTyped, NEW S \in SUBSET Byte, Laid(S), NEW q \in Queues, Within(S, Calling, q),
         NEW names
  PROVE  Within(S, Calling, CheckMissed(q, names))
<1> DEFINE near == [n \in DOMAIN case.rmap |-> Routine(n).near]
<1>1. Missed(names) \subseteq DOMAIN case.rmap
  BY DEF Missed
<1>2. \A n \in Missed(names) : near[n] \in BOOLEAN
  BY <1>1, EntriesLocated
<1>3. CheckMissed(q, names) = q \/ CheckMissed(q, names) = SaveRoutines(q, Missed(names), near)
  BY DEF CheckMissed
<1> HIDE DEF near
<1>4. QED
  BY <1>1, <1>2, <1>3, SaveRoutinesWithin
(* A call that is followed leads to an instruction. *)
LEMMA CallWithin ==
  ASSUME CInv, TInv, Compared, NEW S \in SUBSET Byte, Laid(S), IsCall(R), RefDest.lin \in Byte,
         rc.lin \in S, rc.seg \in Calling, InSegment(rc.lin, rc.seg)
  PROVE  RefDest.lin \in S /\ RefDest.seg \in Calling
<1>1. rc = [seg |-> rc.seg, lin |-> rc.lin] /\ rc.lin \in Byte
  BY LoopFacts DEF Addresses
<1>2. RefDest = BranchDest(case.ref[rc.lin], [seg |-> rc.seg, lin |-> rc.lin])
  BY <1>1 DEF RefDest, R
<1>3. RefDest.lin \in S
  BY <1>1, <1>2 DEF Laid, Instructed, Calling, R
<1>4. InvalidAddr.lin \notin Byte
  BY SizeAssumption DEF InvalidAddr, Byte
<1>5. CASE R.kind = "call"
  <2>1. RefDest = Wrap(rc.seg, R.to)
    BY <1>5 DEF RefDest, BranchDest
  <2>2. RefDest.seg = rc.seg
    BY <2>1 DEF Wrap
  <2>3. QED
    BY <1>3, <2>2
<1>6. CASE R.kind = "callfar"
  <2>1. RefDest.seg = case.ref[rc.lin].seg
    BY <1>6 DEF RefDest, BranchDest, R
  <2>2. QED
    BY <1>1, <1>3, <1>6, <2>1 DEF Calling, Frames, R
<1>7. CASE R.kind = "calli"
  BY <1>4, <1>7 DEF RefDest, BranchDest
<1>8. QED
  BY <1>5, <1>6, <1>7 DEF IsCall

LEMMA FollowWithin ==
  ASSUME CInv, TInv, Compared, NEW S \in SUBSET Byte, Laid(S), Within(S, Calling, sq),
         rc.lin \in S, rc.seg \in Calling, InSegment(rc.lin, rc.seg), NEW skipped, NEW map
  PROVE  Within(S, Calling, Follow(skipped, map).sq)
<1> DEFINE q == Follow(skipped, map).sq
           near == R.kind = "call"
<1>1. MarkedRef \in Queues /\ Within(S, Calling, MarkedRef)
  BY MarkedType DEF Within
<1>2. q = MarkedRef \/ (IsCall(R) /\ q = SaveBranch(MarkedRef, RefDest, TRUE, near))
  BY DEF Follow, FollowCall, FollowJump, Outcome
<1>3. near \in BOOLEAN
  OBVIOUS
<1> HIDE DEF q, near
<1>4. q = MarkedRef \/ (IsCall(R) /\ RefDest.lin \in Byte /\ q = SaveCall(MarkedRef, RefDest, near))
  BY <1>2 DEF SaveBranch
<1>5. IsCall(R) /\ RefDest.lin \in Byte => RefDest.lin \in S /\ RefDest.seg \in Calling
  BY CallWithin
<1>6. Within(S, Calling, q)
  BY <1>1, <1>3, <1>4, <1>5, SaveCallWithin
<1>7. QED
  BY <1>6 DEF q

(* So does the next block of the routine, which waits then. *)
LEMMA NextBlockHead ==
  ASSUME CaseTyped, NEW S \in SUBSET Byte, Laid(S), rout \in DOMAIN case.rmap, NEW at,
         NextBlock(at) # NoBlock
  PROVE  /\ NextBlock(at).b \in HeadsOf(rout) /\ NextBlock(at).b \in S
         /\ NextBlock(at).b \in Byte /\ Owns(Routine(rout), NextBlock(at).b)
<1>1. NextBlock(at).b \in HeadsOf(rout)
  BY NextBlockIs DEF HeadsOf
<1>2. QED
  BY <1>1, HeadsAre

LEMMA QueueNextWithin ==
  ASSUME CInv, InRoutine, phase = "compare", NEW S \in SUBSET Byte, Laid(S), NEW q \in Queues,
         Within(S, Calling, q), NEW at
  PROVE  Within(S, Calling, QueueNext(q, at))
<1>1. CASE ~HasNext(at)
  BY <1>1 DEF QueueNext
<1>2. CASE HasNext(at)
  <2>1. rout \in DOMAIN case.rmap /\ NextBlock(at) # NoBlock
    BY <1>2 DEF InRoutine, HasNext, PastBlock
  <2>2. BlockAddr(NextBlock(at)).lin \in S
    BY <2>1, NextBlockHead DEF BlockAddr, CInv
  <2>3. QED
    BY <1>2, <2>2, SaveJumpWithin DEF QueueNext
<1>3. QED
  BY <1>1, <1>2

Home(q) == q.entrypoints[q.cur.idx].addr.seg

LEMMA QueueNextAwaits ==
  ASSUME NEW q \in Queues, NEW at, HasNext(at), NextBlock(at).b \in Byte,
         \A b \in Byte : q.visited[b] \in {NULL_ROUTINE, VISITED_ID},
         InSegment(NextBlock(at).b, Home(q))
  PROVE  Awaits(QueueNext(q, at), NextBlock(at).b)
<1> DEFINE dest == BlockAddr(NextBlock(at))
<1>1. dest.lin = NextBlock(at).b /\ QueueNext(q, at) = SaveJump(q, dest)
  BY DEF BlockAddr, QueueNext
<1> HIDE DEF dest
<1>2. Awaits(SaveJump(q, dest), dest.lin)
  BY <1>1, SaveJumpAwaits DEF Home
<1>3. QED
  BY <1>1, <1>2
-----------------------------------------------------------------------------
(* The walk.  Where it is: at an instruction of a block of the routine, in *)
(* a segment code is called with, and the segment the next block would be  *)
(* queued with reaches the routine.                                        *)

InHome == \E x \in Byte : Owns(Routine(rout), x) /\ InSegment(x, Home(sq))

InCode(S, at) == at.lin \in S /\ at.seg \in Calling /\ InSegment(at.lin, at.seg)

Walking(S) ==
  /\ InCode(S, rc)
  /\ block \in BlocksOf(Routine(rout)) /\ rc.lin \in BlockBytes(block)
  /\ InHome

LEMMA ReachesAll ==
  ASSUME NEW S \in SUBSET Byte, Laid(S), NEW n \in DOMAIN case.rmap, NEW s \in Calling,
         NEW x \in Byte, Owns(Routine(n), x), InSegment(x, s), NEW y \in Byte, Owns(Routine(n), y)
  PROVE  InSegment(y, s)
BY DEF Laid, FramesReach, Calling, Routine

LEMMA HomeReaches ==
  ASSUME CInv, TInv, phase = "compare", NEW S \in SUBSET Byte, Laid(S), Within(S, Calling, sq),
         rout \in DOMAIN case.rmap, InHome, NEW y \in Byte, Owns(Routine(rout), y)
  PROVE  InSegment(y, Home(sq))
<1>1. Home(sq) \in Calling
  BY DEF TInv, QueuesTyped, Within, Home
<1>2. PICK x \in Byte : Owns(Routine(rout), x) /\ InSegment(x, Home(sq))
  BY DEF InHome
<1>3. QED
  BY <1>1, <1>2, ReachesAll

(* The queue and the place after a pair of instructions that passed.       *)
LEMMA PassedQueue ==
  ASSUME CInv, TInv, QueuedInv, Compared, WithMap, NEW S \in SUBSET Byte, Laid(S),
         Within(S, Calling, sq), Walking(S), NEW skipped, NEW STATE map, NEW STATE at,
         NEW STATE tat, NEW STATE note, Passed(skipped, map, at, tat, note), phase' # "done"
  PROVE  /\ Continues(sq, sq') /\ sq'.visited = MarkedRef.visited /\ Within(S, Calling, sq')
         /\ rc' = at
         /\ \/ phase' = "compare" /\ ~PastBlock(at)
            \/ phase' = "next" /\ (PastBlock(at) \/ PastStop(at))
         /\ HasNext(at) => Awaits(sq', NextBlock(at).b)
<1> DEFINE f == Follow(skipped, map)
           q == QueueNext(f.sq, at)
<1>1. /\ Shape(map) /\ Proceed(skipped, map, at, tat, note)
  BY DEF Passed
<1>2. /\ MarkedRef \in Queues /\ Grows(sq, MarkedRef)
      /\ MarkedRef.queue = sq.queue /\ MarkedRef.entrypoints = sq.entrypoints
      /\ \A b \in Byte : MarkedRef.visited[b] \in {VISITED_ID, sq.visited[b]}
  BY MarkedType
<1>3. phase = "compare" /\ InRoutine /\ rout \in DOMAIN case.rmap
      /\ sq.cur.idx \in DOMAIN sq.entrypoints
  BY DEF Compared, TInv, QueuesTyped, InRoutine
<1>4. Continues(MarkedRef, f.sq) /\ f.sq.visited = MarkedRef.visited
  BY <1>1, FollowType
<1>5. Within(S, Calling, f.sq)
  BY FollowWithin DEF Walking, InCode
<1>6. /\ ~f.fail /\ ~f.error /\ rc' = at
      /\ IF PastBlock(at) \/ PastStop(at) THEN phase' = "next" /\ sq' = CheckMissed(q, entered)
         ELSE phase' = phase /\ sq' = q
  BY <1>1 DEF Proceed, Done, LeaveLoop
<1> HIDE DEF f
<1>7. /\ Continues(sq, f.sq) /\ f.sq \in Queues
      /\ f.sq.cur.idx \in DOMAIN f.sq.entrypoints /\ Home(f.sq) = Home(sq)
  BY <1>2, <1>3, <1>4, AddsNothing, ContinuesTransitive DEF Continues, Grows, Home
<1>8. Continues(f.sq, q) /\ q.visited = f.sq.visited /\ Within(S, Calling, q)
  BY <1>3, <1>5, <1>7, QueueNextType, QueueNextWithin
<1>9. HasNext(at) => Awaits(q, NextBlock(at).b)
  <2> SUFFICES ASSUME HasNext(at) PROVE Awaits(q, NextBlock(at).b)
    OBVIOUS
  <2>1. NextBlock(at) # NoBlock
    BY DEF HasNext
  <2>2. NextBlock(at).b \in Byte /\ Owns(Routine(rout), NextBlock(at).b)
    BY <1>3, <2>1, NextBlockHead DEF CInv
  <2>3. InSegment(NextBlock(at).b, Home(f.sq))
    BY <1>3, <1>7, <2>2, HomeReaches DEF Walking
  <2>4. \A b \in Byte : f.sq.visited[b] \in {NULL_ROUTINE, VISITED_ID}
    BY <1>2, <1>3, <1>4 DEF QueuedInv
  <2>5. QED
    BY <1>7, <2>2, <2>3, <2>4, QueueNextAwaits
<1> HIDE DEF q
<1>10. Continues(sq, q) /\ q \in Queues /\ q.visited = MarkedRef.visited
  BY <1>4, <1>7, <1>8, ContinuesTransitive DEF Continues
<1>11. CASE sq' = q
  BY <1>3, <1>6, <1>8, <1>9, <1>10, <1>11
<1>12. CASE sq' = CheckMissed(q, entered)
  <2>1. Continues(q, sq') /\ sq'.visited = q.visited
    BY <1>10, <1>12, CheckMissedType DEF CInv
  <2>2. Within(S, Calling, sq')
    BY <1>8, <1>10, <1>12, CheckMissedWithin DEF CInv
  <2>3. Continues(sq, sq')
    BY <1>10, <2>1, ContinuesTransitive
  <2>4. HasNext(at) => Awaits(sq', NextBlock(at).b)
    BY <1>9, <2>1, AwaitsStays
  <2>5. QED
    BY <1>3, <1>6, <1>10, <2>1, <2>2, <2>3, <2>4
<1>13. QED
  BY <1>6, <1>11, <1>12
(* What must be true of a part y of a routine once its start was compared: *)
(* the reachable block after it is compared or waits, unless the walk is   *)
(* still in that part, is at that block, or left the routine early.        *)
Followed(n, y) ==
  LET next == NextAfter(n, y)
  IN \/ next = NoBlock \/ Awaits(sq, next.b) \/ n \in hist.short
     \/ phase = "compare" /\ (rc.lin = next.b \/ (rout = n /\ y \in BlockBytes(block)))

Chained ==
  \A n \in DOMAIN case.rmap : ~IsExcluded(Routine(n)) =>
    \A y \in HeadsOf(n) : sq.visited[y] = VISITED_ID => Followed(n, y)

LEMMA BlockIs ==
  ASSUME CaseTyped, NEW n \in DOMAIN case.rmap, NEW b \in BlocksOf(Routine(n))
  PROVE  b.b \in Int /\ b.e \in Int
<1>1. /\ Routine(n).reach \in Seq([b : Byte, e : Int])
      /\ Routine(n).unreach \in Seq([b : Byte, e : Int])
  BY DEF CaseTyped, OfImage, Routine
<1>2. b \in [b : Byte, e : Int]
  <2>1. PICK s \in {Routine(n).reach, Routine(n).unreach} : b \in ToSet(s)
    BY DEF BlocksOf
  <2>2. PICK i \in DOMAIN s : b = s[i]
    BY <2>1 DEF ToSet
  <2>3. s \in Seq([b : Byte, e : Int])
    BY <1>1
  <2>4. QED
    BY <2>2, <2>3, ElementType
<1>3. b.b \in Byte /\ b.e \in Int
  BY <1>2
<1>4. QED
  BY <1>3, SizeAssumption DEF Byte

LEMMA OwnsOfBlock ==
  ASSUME NEW r, NEW b \in BlocksOf(r), NEW x \in BlockBytes(b)
  PROVE  Owns(r, x)
BY DEF Owns

(* Leaving a block, the walk asks for the block after every part in it.    *)
LEMMA NextBlockAfter ==
  ASSUME CaseTyped, NEW S \in SUBSET Byte, Laid(S), NEW n \in DOMAIN case.rmap,
         NEW y \in HeadsOf(n), NEW b \in BlocksOf(Routine(n)), y \in BlockBytes(b),
         NEW x \in S, x \in BlockBytes(b), x + case.ref[x].len > b.e
  PROVE  NextReachable(Routine(n), x + case.ref[x].len) = NextAfter(n, y)
<1> DEFINE k == x + case.ref[x].len
           reach == Routine(n).reach
<1>1. b.b \in Int /\ b.e \in Int
  BY BlockIs
<1>2. /\ y \in Int /\ x \in Byte /\ x \in Int /\ b.b <= y /\ y <= b.e /\ b.b <= x /\ x <= b.e
  BY <1>1, HeadsAre, SizeAssumption DEF BlockBytes, Byte
<1>3. case.ref[x].len \in Int
  BY <1>2 DEF CaseTyped, Decodes
<1>4. ASSUME NEW i \in DOMAIN reach
      PROVE  reach[i].b >= k <=> reach[i].b >= y + 1
  <2>1. /\ reach[i].b \in Int /\ reach[i] \in BlocksOf(Routine(n))
        /\ reach[i].b \in BlockBytes(reach[i])
    BY <1>4, ReachIs DEF Laid
  <2>2. reach[i].b \in S
    BY <1>4, HeadsAre DEF HeadsOf
  <2>3. ASSUME reach[i].b >= y + 1 PROVE reach[i].b >= k
    <3>1. reach[i] # b
      BY <1>1, <1>2, <2>1, <2>3
    <3>2. BlockBytes(reach[i]) \cap BlockBytes(b) = {}
      BY <2>1, <3>1 DEF Laid, BlocksApart, Routine
    <3>3. reach[i].b > b.e
      BY <1>1, <1>2, <2>1, <2>3, <3>2 DEF BlockBytes
    <3>4. x < reach[i].b
      BY <1>1, <1>2, <2>1, <3>3
    <3>5. k <= reach[i].b
      BY <2>2, <3>4 DEF Laid, Instructed
    <3>6. QED
      BY <1>2, <1>3, <2>1, <3>5
  <2>4. ASSUME reach[i].b >= k PROVE reach[i].b >= y + 1
    BY <1>1, <1>2, <1>3, <2>1, <2>4
  <2>5. QED
    BY <2>3, <2>4
<1>5. \A i \in DOMAIN Routine(n).reach :
        Routine(n).reach[i].b >= k <=> Routine(n).reach[i].b >= y + 1
  BY <1>4
<1> HIDE DEF k, reach
<1>6. NextReachable(Routine(n), k) = NextReachable(Routine(n), y + 1)
  BY <1>5, NextReachableSame
<1>7. QED
  BY <1>6 DEF NextAfter, k
(* Of the instructions only the one that is compared gets marked. *)
LEMMA MarkedHead ==
  ASSUME CInv, TInv, Compared, NEW S \in SUBSET Byte, Laid(S), rc.lin \in S, NEW y \in S,
         MarkedRef.visited[y] = VISITED_ID
  PROVE  sq.visited[y] = VISITED_ID \/ y = rc.lin
<1>1. rc.lin \in Byte /\ rc.lin \in Int /\ R.len \in Nat \ {0}
  BY LoopFacts
<1>2. sq \in Queues /\ VISITED_ID \in {NULL_ROUTINE} \cup DOMAIN sq.entrypoints
  BY DEF TInv, QueuesTyped, VISITED_ID
<1>3. MarkedRef.visited[y] =
        IF y \in rc.lin..(rc.lin + R.len - 1) THEN VISITED_ID ELSE sq.visited[y]
  BY <1>1, <1>2, MarkType DEF MarkedRef
<1>4. rc.lin < y => rc.lin + R.len <= y
  BY DEF Laid, Instructed, R
<1>5. y \in Int
  BY SizeAssumption DEF Byte
<1>6. QED
  BY <1>1, <1>3, <1>4, <1>5

(* How a pair of instructions that passed goes on in the reference. *)
GoesOn(S, at) ==
  \/ at.seg = rc.seg /\ at.lin = rc.lin + R.len
  \/ InCode(S, at) /\ at.lin \in BlockBytes(block)

LEMMA NotPast ==
  ASSUME CaseTyped, rout \in DOMAIN case.rmap, block \in BlocksOf(Routine(rout)), NEW x,
         x \in BlockBytes(block)
  PROVE  block # NoBlock /\ x \in Int /\ block.b <= x /\ x <= block.e
<1>1. block.b \in Int /\ block.e \in Int
  BY BlockIs
<1>2. x \in Int /\ block.b <= x /\ x <= block.e
  BY <1>1 DEF BlockBytes
<1>3. QED
  BY <1>1, <1>2 DEF NoBlock

LEMMA PassedWalking ==
  ASSUME CInv, TInv, QueuedInv, Compared, WithMap, NEW S \in SUBSET Byte, Laid(S),
         Within(S, Calling, sq), Walking(S), NEW skipped, NEW STATE map, NEW STATE at,
         NEW STATE tat, NEW STATE note, Passed(skipped, map, at, tat, note), GoesOn(S, at),
         phase' = "compare"
  PROVE  Walking(S)'
<1>1. /\ case' = case /\ rout' = rout /\ block' = block /\ rout \in DOMAIN case.rmap
      /\ sq.cur.idx \in DOMAIN sq.entrypoints
  BY DEF Compared, place, TInv, InRoutine, QueuesTyped
<1>2. Continues(sq, sq') /\ rc' = at /\ ~PastBlock(at)
  BY PassedQueue
<1>3. Home(sq') = Home(sq)
  BY <1>1, <1>2 DEF Home, Continues, Grows
<1>4. /\ block # NoBlock /\ rc.lin \in Int /\ block.b <= rc.lin /\ rc.lin <= block.e
      /\ block.b \in Int /\ block.e \in Int
  BY <1>1, NotPast, BlockIs DEF Walking, CInv
<1>5. InCode(S, at) /\ at.lin \in BlockBytes(block)
  <2>1. CASE at.seg = rc.seg /\ at.lin = rc.lin + R.len
    <3>1. R.len \in Nat \ {0} /\ rc.lin \in Byte
      BY LoopFacts
    <3>2. at.lin <= block.e
      BY <1>4, <2>1, <3>1, <1>2 DEF PastBlock
    <3>3. at.lin \in BlockBytes(block)
      BY <1>4, <2>1, <3>1, <3>2 DEF BlockBytes
    <3>4. at.lin \in S
      <4>1. block \in BlocksOf(case.rmap[rout])
        BY DEF Walking, Routine
      <4>2. {rc.lin, rc.lin + case.ref[rc.lin].len} \subseteq BlockBytes(block)
        BY <2>1, <3>3 DEF Walking, R
      <4>3. rc.lin + case.ref[rc.lin].len \in S
        BY <1>1, <4>1, <4>2 DEF Laid, Instructed, Walking, InCode
      <4>4. QED
        BY <2>1, <4>3 DEF R
    <3>5. Owns(Routine(rout), rc.lin) /\ Owns(Routine(rout), at.lin)
      BY <3>3, OwnsOfBlock DEF Walking
    <3>6. InSegment(at.lin, at.seg)
      BY <1>1, <2>1, <3>1, <3>4, <3>5, ReachesAll DEF Walking, InCode
    <3>7. QED
      BY <2>1, <3>3, <3>4, <3>6 DEF InCode, Walking
  <2>2. QED
    BY <2>1 DEF GoesOn
<1>6. InHome'
  <2>1. PICK x \in Byte : Owns(Routine(rout), x) /\ InSegment(x, Home(sq))
    BY DEF Walking, InHome
  <2>2. QED
    BY <1>1, <1>3, <2>1 DEF InHome, Routine, Home
<1>7. Calling' = Calling /\ BlocksOf(Routine(rout))' = BlocksOf(Routine(rout))
  BY <1>1 DEF Calling, Routine
<1>8. QED
  BY <1>1, <1>2, <1>5, <1>6, <1>7 DEF Walking, InCode
(* The same after a step. *)
FollowedThen(n, y) ==
  LET next == NextAfter(n, y)
  IN \/ next = NoBlock \/ Awaits(sq', next.b) \/ n \in hist'.short
     \/ phase' = "compare" /\ (rc'.lin = next.b \/ (rout' = n /\ y \in BlockBytes(block')))

LEMMA ChainedThen ==
  ASSUME case' = case,
         \A n \in DOMAIN case.rmap : ~IsExcluded(Routine(n)) =>
           \A y \in HeadsOf(n) : sq'.visited[y] = VISITED_ID => FollowedThen(n, y)
  PROVE  Chained'
<1>1. ASSUME NEW n \in DOMAIN case'.rmap, ~(IsExcluded(Routine(n)))', NEW y \in (HeadsOf(n))',
             sq'.visited[y] = VISITED_ID
      PROVE  (Followed(n, y))'
  <2>1. n \in DOMAIN case.rmap /\ ~IsExcluded(Routine(n)) /\ y \in HeadsOf(n)
    BY <1>1 DEF IsExcluded, Routine, HeadsOf
  <2>2. FollowedThen(n, y)
    BY <1>1, <2>1
  <2>3. (NextAfter(n, y))' = NextAfter(n, y)
    BY DEF NextAfter, Routine
  <2>4. QED
    BY <2>2, <2>3 DEF FollowedThen, Followed, Awaits
<1>2. QED
  BY <1>1 DEF Chained

LEMMA NextAfterHead ==
  ASSUME CaseTyped, NEW S \in SUBSET Byte, Laid(S), NEW n \in DOMAIN case.rmap,
         NEW y \in HeadsOf(n), NextAfter(n, y) # NoBlock
  PROVE  /\ NextAfter(n, y).b \in HeadsOf(n) /\ NextAfter(n, y).b \in Byte
         /\ Owns(Routine(n), NextAfter(n, y).b)
<1>1. y + 1 \in Int
  BY HeadsAre
<1>2. \E i \in DOMAIN Routine(n).reach : NextAfter(n, y) = Routine(n).reach[i]
  BY <1>1, NextReachableIs DEF NextAfter, Laid
<1>3. NextAfter(n, y).b \in HeadsOf(n)
  BY <1>2 DEF HeadsOf
<1>4. QED
  BY <1>3, HeadsAre

LEMMA PassedChained ==
  ASSUME CInv, TInv, QueuedInv, Compared, WithMap, NEW S \in SUBSET Byte, Laid(S),
         Within(S, Calling, sq), Walking(S), Chained, NEW skipped, NEW STATE map, NEW STATE at,
         NEW STATE tat, NEW STATE note, Passed(skipped, map, at, tat, note), GoesOn(S, at),
         phase' # "done", ~PastStop(at), hist.short \subseteq hist'.short
  PROVE  Chained'
<1>1. /\ case' = case /\ rout' = rout /\ block' = block /\ rout \in DOMAIN case.rmap
      /\ phase = "compare" /\ rc.lin \in Byte
  BY LoopFacts DEF Compared, place, TInv, InRoutine
<1>2. /\ Continues(sq, sq') /\ sq'.visited = MarkedRef.visited /\ rc' = at
      /\ phase' = "compare" \/ (phase' = "next" /\ PastBlock(at))
      /\ HasNext(at) => Awaits(sq', NextBlock(at).b)
  BY PassedQueue
<1>3. /\ \A b \in Byte : sq'.visited[b] \in {VISITED_ID, sq.visited[b]}
      /\ sq'.visited[rc.lin] = VISITED_ID
  BY <1>2, MarkedType
<1>4. rc.lin \in S /\ block \in BlocksOf(Routine(rout)) /\ rc.lin \in BlockBytes(block)
  BY DEF Walking, InCode
<1>5. ASSUME NEW y \in HeadsOf(rout), y \in BlockBytes(block)
      PROVE  FollowedThen(rout, y)
  <2>1. CASE phase' = "compare"
    BY <1>1, <1>5, <2>1 DEF FollowedThen
  <2>2. CASE phase' = "next" /\ PastBlock(at)
    <3>1. at.lin \notin BlockBytes(block)
      <4>1. block.b \in Int /\ block.e \in Int /\ at.lin > block.e
        BY <1>1, <1>4, <2>2, BlockIs DEF PastBlock, CInv
      <4>2. QED
        BY <4>1 DEF BlockBytes
    <3>2. at.lin = rc.lin + case.ref[rc.lin].len
      BY <3>1 DEF GoesOn, R
    <3>3. rc.lin + case.ref[rc.lin].len > block.e
      BY <2>2, <3>2 DEF PastBlock
    <3>4. NextReachable(Routine(rout), rc.lin + case.ref[rc.lin].len) = NextAfter(rout, y)
      BY <1>1, <1>4, <1>5, <3>3, NextBlockAfter DEF CInv
    <3>5. NextBlock(at) = NextAfter(rout, y)
      BY <3>2, <3>4 DEF NextBlock
    <3>6. NextAfter(rout, y) # NoBlock => Awaits(sq', NextAfter(rout, y).b)
      BY <1>2, <2>2, <3>5 DEF HasNext
    <3>7. QED
      BY <3>6 DEF FollowedThen
  <2>3. QED
    BY <1>2, <2>1, <2>2
<1>6. ASSUME NEW n \in DOMAIN case.rmap, ~IsExcluded(Routine(n)), NEW y \in HeadsOf(n),
             sq'.visited[y] = VISITED_ID
      PROVE  FollowedThen(n, y)
  <2>1. y \in S /\ y \in Byte /\ Owns(Routine(n), y)
    BY <1>6, HeadsAre DEF CInv
  <2>2. CASE y = rc.lin
    <3>1. Owns(Routine(rout), y)
      BY <1>4, <2>2, OwnsOfBlock
    <3>2. n = rout
      BY <1>1, <2>1, <3>1, OneOwner
    <3>3. QED
      BY <1>4, <1>5, <1>6, <2>2, <3>2
  <2>3. CASE sq.visited[y] = VISITED_ID
    <3>1. Followed(n, y)
      BY <1>6, <2>3 DEF Chained
    <3>2. CASE NextAfter(n, y) = NoBlock \/ n \in hist.short
      BY <3>2 DEF FollowedThen
    <3>3. CASE NextAfter(n, y) # NoBlock /\ Awaits(sq, NextAfter(n, y).b)
      <4>1. NextAfter(n, y).b \in Byte
        BY <1>6, <3>3, NextAfterHead DEF CInv
      <4>2. Awaits(sq', NextAfter(n, y).b)
        BY <1>2, <1>3, <3>3, <4>1, AwaitsStays
      <4>3. QED
        BY <4>2 DEF FollowedThen
    <3>4. CASE rc.lin = NextAfter(n, y).b
      BY <1>3, <3>4 DEF FollowedThen, Awaits
    <3>5. CASE rout = n /\ y \in BlockBytes(block)
      BY <1>5, <1>6, <3>5
    <3>6. QED
      BY <3>1, <3>2, <3>3, <3>4, <3>5 DEF Followed
  <2>4. QED
    BY <1>2, <1>4, <1>6, <2>1, <2>2, <2>3, MarkedHead
<1>7. QED
  BY <1>1, <1>6, ChainedThen
(* All that is kept while a comparison with a map of the reference runs    *)
(* through all of it.                                                      *)
Going(S) ==
  /\ Within(S, Calling, sq)
  /\ IsValid(skip.rorg) => InCode(S, skip.rorg)
  /\ phase = "compare" => Walking(S)
  /\ Chained

LEMMA InCodeThen ==
  ASSUME NEW S, case' = case, NEW at
  PROVE  InCode(S, at) <=> (InCode(S, at))'
BY DEF InCode, Calling

LEMMA WithinThen ==
  ASSUME NEW S, case' = case, Within(S, Calling, sq')
  PROVE  (Within(S, Calling, sq))'
BY DEF Within, Calling

LEMMA PassedGoing ==
  ASSUME CInv, TInv, QueuedInv, Compared, WithMap, NEW S \in SUBSET Byte, Laid(S), Going(S),
         NEW skipped, NEW STATE map, NEW STATE at, NEW STATE tat, NEW STATE note,
         Passed(skipped, map, at, tat, note), GoesOn(S, at),
         phase' # "done", ~IsValid(case.opt.stop), hist.short \subseteq hist'.short,
         skip'.rorg \in {skip.rorg, rc, InvalidAddr}
  PROVE  Going(S)'
<1>1. case' = case /\ phase = "compare" /\ Walking(S) /\ Within(S, Calling, sq) /\ Chained
  BY DEF Compared, Going
<1>2. ~PastStop(at)
  BY DEF PastStop
<1>3. (Within(S, Calling, sq))'
  BY <1>1, PassedQueue, WithinThen
<1>4. (IsValid(skip.rorg) => InCode(S, skip.rorg))'
  <2>1. IsValid(skip'.rorg) => InCode(S, skip'.rorg)
    BY <1>1 DEF Going, Walking, IsValid
  <2>2. PICK x : x = skip'.rorg
    OBVIOUS
  <2>3. IsValid(x) => (InCode(S, x))'
    BY <1>1, <2>1, <2>2, InCodeThen
  <2>4. QED
    BY <2>2, <2>3 DEF InCode
<1>5. (phase = "compare" => Walking(S))'
  BY <1>1, PassedWalking
<1>6. Chained'
  BY <1>1, <1>2, PassedChained
<1>7. QED
  BY <1>3, <1>4, <1>5, <1>6 DEF Going

(* The three ways a pair can pass. *)
LEMMA SkipRefOrigin ==
  ASSUME TInv, SkipRef
  PROVE  skip'.rorg \in {skip.rorg, rc}
<1> DEFINE org == IF skip.ref = 0 THEN rc ELSE skip.rorg
           t == [skip EXCEPT !.ref = @ + 1]
<1>1. skip = [ref |-> skip.ref, tgt |-> skip.tgt, rorg |-> skip.rorg, torg |-> skip.torg]
  BY DEF TInv, SkipShape
<1>2. skip' = [t EXCEPT !.rorg = org]
  BY <1>1 DEF SkipRef
<1>3. t = [ref |-> t.ref, tgt |-> t.tgt, rorg |-> t.rorg, torg |-> t.torg]
  BY <1>1
<1> HIDE DEF t
<1>4. skip'.rorg = org
  BY <1>2, <1>3
<1>5. QED
  BY <1>4

LEMMA SkipTgtOrigin ==
  ASSUME TInv, SkipTgt
  PROVE  skip'.rorg = skip.rorg
<1> DEFINE org == IF skip.tgt = 0 THEN tc ELSE skip.torg
           t == [skip EXCEPT !.ref = 0]
           u == [t EXCEPT !.tgt = @ + 1]
<1>1. skip = [ref |-> skip.ref, tgt |-> skip.tgt, rorg |-> skip.rorg, torg |-> skip.torg]
  BY DEF TInv, SkipShape
<1>2. skip' = [u EXCEPT !.torg = org]
  BY <1>1 DEF SkipTgt
<1>3. /\ t = [ref |-> t.ref, tgt |-> t.tgt, rorg |-> t.rorg, torg |-> t.torg]
      /\ t.rorg = skip.rorg
  BY <1>1
<1> HIDE DEF t
<1>4. /\ u = [ref |-> u.ref, tgt |-> u.tgt, rorg |-> u.rorg, torg |-> u.torg]
      /\ u.rorg = skip.rorg
  BY <1>3
<1> HIDE DEF u
<1>5. QED
  BY <1>2, <1>4

LEMMA LoopHist ==
  ASSUME CInv, SkipRef \/ SkipTgt \/ Accepted
  PROVE  /\ hist'.short = hist.short
         /\ hist.strayed => hist'.strayed
         /\ SkipTgt => hist'.strayed = (hist.strayed \/ Strays)
<1>1. HistShape(hist)
  BY DEF CInv
<1>2. CASE SkipTgt
  <2>1. Proceed(TRUE, off, Rewound, [tc EXCEPT !.lin = @ + T.len], RewindNote)
    BY <1>2 DEF SkipTgt, RewindNote
  <2>2. /\ HistShape(RewindNote) /\ RewindNote.short = hist.short
        /\ RewindNote.strayed = (hist.strayed \/ Strays)
    BY <1>1, NoteParts DEF HistParts
  <2>3. HistParts(RewindNote, hist') /\ hist'.strayed = RewindNote.strayed
    BY <2>1, <2>2, ProceedHist
  <2>4. QED
    BY <2>2, <2>3 DEF HistParts
<1>3. CASE SkipRef
  <2>1. HistParts(hist, hist') /\ hist'.strayed = hist.strayed /\ ~SkipTgt
    BY <1>1, <1>3, ProceedHist DEF SkipRef, SkipTgt
  <2>2. QED
    BY <2>1 DEF HistParts
<1>4. CASE Accepted
  <2> DEFINE v == InstructionsMatch(R, T)
  <2>1. Proceed(FALSE, v.off, [rc EXCEPT !.lin = @ + R.len], After(v), MatchNote(v))
    BY <1>4 DEF Accepted, After, MatchNote
  <2>2. /\ HistShape(MatchNote(v)) /\ MatchNote(v).short = hist.short
        /\ MatchNote(v).strayed = hist.strayed
    BY <1>1, NoteParts
  <2>3. HistParts(MatchNote(v), hist') /\ hist'.strayed = MatchNote(v).strayed /\ ~SkipTgt
    BY <1>4, <2>1, <2>2, ProceedHist DEF Accepted, SkipTgt
  <2>4. QED
    BY <2>2, <2>3 DEF HistParts
<1>5. QED
  BY <1>2, <1>3, <1>4

LEMMA NextInstruction ==
  ASSUME CInv, TInv, Compared, NEW S
  PROVE  GoesOn(S, [rc EXCEPT !.lin = @ + R.len])
BY LoopFacts DEF GoesOn, Addresses

LEMMA LoopGoing ==
  ASSUME CInv, TInv, QueuedInv, WithMap, NEW S \in SUBSET Byte, Laid(S), Going(S),
         SkipRef \/ SkipTgt \/ Accepted,
         phase' # "done", ~IsValid(case.opt.stop), ~hist'.strayed
  PROVE  Going(S)'
<1>1. hist'.short = hist.short /\ Compared
  <2>1. hist'.short = hist.short
    BY LoopHist
  <2>2. Compared
    BY DEF SkipRef, SkipTgt, Accepted
  <2>3. QED
    BY <2>1, <2>2
<1>2. CASE SkipRef
  BY <1>1, <1>2, SkipRefPasses, NextInstruction, SkipRefOrigin, PassedGoing
<1>3. CASE SkipTgt
  <2>1. ~Strays /\ Walking(S) /\ rout \in DOMAIN case.rmap
    BY <1>1, <1>3, LoopHist DEF Compared, Going, TInv, InRoutine
  <2>2. block # NoBlock
    BY <2>1, NotPast DEF Walking, CInv
  <2>3. InCode(S, Rewound) /\ Rewound.lin \in BlockBytes(block)
    BY <2>1, <2>2 DEF Strays, Rewound, Going, Walking
  <2>4. GoesOn(S, Rewound)
    BY <2>3 DEF GoesOn
  <2>5. QED
    BY <1>1, <1>3, <2>4, SkipTgtPasses, SkipTgtOrigin, PassedGoing
<1>4. CASE Accepted
  <2>1. skip' = NoSkip \/ skip' = skip
    BY <1>4 DEF Accepted, SkipsAfter
  <2>2. skip'.rorg \in {skip.rorg, InvalidAddr}
    BY <2>1 DEF NoSkip
  <2>3. QED
    BY <1>1, <1>4, <2>2, AcceptedPasses, NextInstruction, PassedGoing
<1>5. QED
  BY <1>2, <1>3, <1>4
-----------------------------------------------------------------------------
(* Taking a location.                                                      *)

LEMMA ContainingBlock ==
  ASSUME CaseTyped, NEW n \in DOMAIN case.rmap, NEW lin, BlockContaining(Routine(n), lin) # NoBlock
  PROVE  /\ BlockContaining(Routine(n), lin) \in BlocksOf(Routine(n))
         /\ lin \in BlockBytes(BlockContaining(Routine(n), lin))
<1> DEFINE in(s) == {i \in DOMAIN s : lin \in BlockBytes(s[i])}
           first(s) == IF in(s) = {} THEN NoBlock ELSE s[FirstIn(in(s))]
<1>1. BlockContaining(Routine(n), lin) =
        IF first(Routine(n).reach) # NoBlock THEN first(Routine(n).reach)
        ELSE first(Routine(n).unreach)
  BY DEF BlockContaining, FirstBlock
<1>2. ASSUME NEW s \in Seq([b : Byte, e : Int]), first(s) # NoBlock
      PROVE  first(s) \in ToSet(s) /\ lin \in BlockBytes(first(s))
  <2>1. in(s) # {} /\ first(s) = s[FirstIn(in(s))]
    BY <1>2
  <2>2. in(s) \subseteq Nat /\ in(s) \subseteq DOMAIN s
    BY <1>2
  <2>3. FirstIn(in(s)) \in in(s)
    <3> DEFINE I == in(s)
    <3>1. I # {} /\ I \subseteq Nat
      BY <2>1, <2>2
    <3> HIDE DEF I
    <3>2. FirstIn(I) \in I
      BY <3>1, FirstInIs
    <3>3. QED
      BY <3>2 DEF I
  <2>4. QED
    BY <2>1, <2>2, <2>3 DEF ToSet
<1>3. /\ Routine(n).reach \in Seq([b : Byte, e : Int])
      /\ Routine(n).unreach \in Seq([b : Byte, e : Int])
  BY DEF CaseTyped, OfImage, Routine
<1> HIDE DEF first
<1>4. QED
  BY <1>1, <1>2, <1>3 DEF BlocksOf

(* The location that is taken is an instruction, and no other is lost. *)
LEMMA TakeWalk ==
  ASSUME CInv, TInv, Take, NEW S \in SUBSET Byte, Laid(S), Going(S)
  PROVE  /\ Within(S, Calling, sq')
         /\ rc' = Point.addr /\ InCode(S, Point.addr) /\ Home(sq') = Point.addr.seg
         /\ \A x : Awaits(sq, x) => Awaits(sq', x) \/ x = Point.addr.lin
<1>1. /\ sq \in Queues /\ sq.queue # << >> /\ Point = Head(sq.queue)
      /\ sq.queue \in Seq(Points) /\ sq \in ScanQueues
  BY DEF Take, Considering, Point, TInv, QueuesTyped, Queues, ScanQueues
<1>2. /\ sq' = NextPoint(sq) /\ sq'.entrypoints = sq.entrypoints /\ sq'.visited = sq.visited
      /\ rc' = Point.addr
  BY TakeFacts DEF TInv
<1>3. sq'.queue = Tail(sq.queue)
  BY <1>1, <1>2 DEF NextPoint, ScanQueues
<1>4. 1 \in DOMAIN sq.queue /\ Point = sq.queue[1]
  BY <1>1
<1>5. \A j \in DOMAIN Tail(sq.queue) :
        j + 1 \in DOMAIN sq.queue /\ Tail(sq.queue)[j] = sq.queue[j + 1]
  BY <1>1
<1>6. \A j \in DOMAIN sq.queue :
        j = 1 \/ (j - 1 \in DOMAIN Tail(sq.queue) /\ Tail(sq.queue)[j - 1] = sq.queue[j])
  BY <1>1
<1>7. Within(S, Calling, sq) /\ Within(S, Calling, sq')
  BY <1>2, <1>3, <1>5 DEF Going, Within
<1>8. /\ sq'.cur = Point /\ Point.idx \in DOMAIN sq'.entrypoints
      /\ Point.addr.seg = sq'.entrypoints[Point.idx].addr.seg
      /\ InSegment(Point.addr.lin, Point.addr.seg)
  BY <1>1, <1>2, NextPointType DEF PointBelongs
<1>9. InCode(S, Point.addr)
  BY <1>4, <1>7, <1>8 DEF InCode, Within
<1>10. Home(sq') = Point.addr.seg
  BY <1>8 DEF Home
<1>11. ASSUME NEW x, Awaits(sq, x)
       PROVE  Awaits(sq', x) \/ x = Point.addr.lin
  <2>1. CASE sq.visited[x] = VISITED_ID
    BY <1>2, <2>1 DEF Awaits
  <2>2. CASE sq.visited[x] # VISITED_ID
    <3>1. PICK j \in DOMAIN sq.queue : sq.queue[j].addr.lin = x
      BY <1>11, <2>2 DEF Awaits
    <3>2. QED
      BY <1>3, <1>4, <1>6, <3>1 DEF Awaits
  <2>3. QED
    BY <2>1, <2>2
<1>12. QED
  BY <1>2, <1>7, <1>9, <1>10, <1>11

(* What follows a part waits on, or is the location that was taken. *)
LEMMA TakeGoing ==
  ASSUME CInv, TInv, Take, NEW S \in SUBSET Byte, Laid(S), Going(S),
         hist'.short = hist.short, skip'.rorg = skip.rorg,
         phase' = "compare" => Walking(S)',
         \A n \in DOMAIN case.rmap : ~IsExcluded(Routine(n)) => \A y \in HeadsOf(n) :
           NextAfter(n, y) # NoBlock /\ NextAfter(n, y).b = Point.addr.lin => FollowedThen(n, y)
  PROVE  Going(S)'
<1>1. case' = case /\ sq'.visited = sq.visited /\ phase = "next"
  BY TakeFacts DEF TInv, Take, Considering
<1>2. (Within(S, Calling, sq))'
  BY <1>1, TakeWalk, WithinThen
<1>3. (IsValid(skip.rorg) => InCode(S, skip.rorg))'
  <2>1. PICK x : x = skip.rorg
    OBVIOUS
  <2>2. IsValid(x) => (InCode(S, x))'
    BY <1>1, <2>1, InCodeThen DEF Going
  <2>3. QED
    BY <2>1, <2>2 DEF InCode
<1>4. ASSUME NEW n \in DOMAIN case.rmap, ~IsExcluded(Routine(n)), NEW y \in HeadsOf(n),
             sq'.visited[y] = VISITED_ID
      PROVE  FollowedThen(n, y)
  <2>1. Followed(n, y)
    BY <1>1, <1>4 DEF Going, Chained
  <2>2. CASE NextAfter(n, y) = NoBlock \/ n \in hist.short
    BY <2>2 DEF FollowedThen
  <2>3. CASE NextAfter(n, y) # NoBlock /\ Awaits(sq, NextAfter(n, y).b)
    <3>1. Awaits(sq', NextAfter(n, y).b) \/ NextAfter(n, y).b = Point.addr.lin
      BY <2>3, TakeWalk
    <3>2. QED
      BY <1>4, <2>3, <3>1 DEF FollowedThen
  <2>4. QED
    BY <1>1, <2>1, <2>2, <2>3 DEF Followed
<1>5. Chained'
  BY <1>1, <1>4, ChainedThen
<1>6. QED
  BY <1>2, <1>3, <1>5 DEF Going
LEMMA BeginOrigin ==
  ASSUME TInv, skip' = [skip EXCEPT !.ref = 0, !.tgt = 0]
  PROVE  skip'.rorg = skip.rorg
<1> DEFINE t == [skip EXCEPT !.ref = 0]
<1>1. skip = [ref |-> skip.ref, tgt |-> skip.tgt, rorg |-> skip.rorg, torg |-> skip.torg]
  BY DEF TInv, SkipShape
<1>2. skip' = [t EXCEPT !.tgt = 0]
  BY <1>1
<1>3. /\ t = [ref |-> t.ref, tgt |-> t.tgt, rorg |-> t.rorg, torg |-> t.torg]
      /\ t.rorg = skip.rorg
  BY <1>1
<1> HIDE DEF t
<1>4. QED
  BY <1>2, <1>3

LEMMA EnterWalking ==
  ASSUME CInv, TInv, Wanted, NEW S \in SUBSET Byte, Laid(S), Going(S)
  PROVE  Walking(S)'
<1>1. /\ Take /\ Here # 0 /\ HereBlock # NoBlock /\ rout' = Here /\ block' = HereBlock
  BY DEF Wanted, InMap, Compares
<1>2. Here \in DOMAIN case.rmap
  BY <1>1, RoutineAtType DEF Here, CInv
<1>3. rc' = Point.addr /\ InCode(S, Point.addr) /\ Home(sq') = Point.addr.seg /\ case' = case
  BY <1>1, TakeWalk, TakeFacts DEF TInv
<1>4. HereBlock \in BlocksOf(Routine(Here)) /\ Point.addr.lin \in BlockBytes(HereBlock)
  BY <1>1, <1>2, ContainingBlock DEF HereBlock, CInv
<1>5. PICK at : at = Point.addr
  OBVIOUS
<1>6. PICK n : n = Here
  OBVIOUS
<1>7. BlocksOf(Routine(n))' = BlocksOf(Routine(n)) /\ Calling' = Calling
  BY <1>3 DEF Routine, Calling
<1>8. Owns(Routine(n), at.lin) /\ at.lin \in Byte /\ InSegment(at.lin, Home(sq'))
  BY <1>3, <1>4, <1>5, <1>6, OwnsOfBlock DEF InCode
<1>9. (Owns(Routine(n), at.lin))'
  BY <1>3, <1>8 DEF Routine
<1>10. InHome'
  BY <1>1, <1>6, <1>8, <1>9 DEF InHome, Home, Routine
<1>11. /\ rc' = at /\ rout' = n /\ InCode(S, at)
       /\ block' \in BlocksOf(Routine(n)) /\ at.lin \in BlockBytes(block')
  BY <1>1, <1>3, <1>4, <1>5, <1>6
<1>12. QED
  BY <1>7, <1>10, <1>11 DEF Walking, InCode, Routine

LEMMA EnterGoing ==
  ASSUME CInv, TInv, NEW S \in SUBSET Byte, Laid(S), Going(S),
         EnterKnown \/ EnterByName \/ EnterBySearch
  PROVE  Going(S)'
<1>1. /\ Wanted /\ phase' = "compare" /\ skip' = [skip EXCEPT !.ref = 0, !.tgt = 0]
      /\ \E l : hist' = [hist EXCEPT !.last = l]
  BY DEF EnterKnown, EnterByName, EnterBySearch, Searching, EnterFound, Begin
<1>2. Take /\ rc' = Point.addr
  BY <1>1 DEF Wanted, InMap, Compares, Take
<1>3. hist'.short = hist.short /\ skip'.rorg = skip.rorg
  BY <1>1, HistLast, BeginOrigin DEF CInv
<1>4. Walking(S)'
  BY <1>1, EnterWalking
<1>5. \A n, y : NextAfter(n, y).b = Point.addr.lin => FollowedThen(n, y)
  BY <1>1, <1>2 DEF FollowedThen
<1>6. QED
  BY <1>2, <1>3, <1>4, <1>5, TakeGoing

LEMMA SkipComparedGoing ==
  ASSUME CInv, TInv, QueuedInv, NEW S \in SUBSET Byte, Laid(S), Going(S), SkipCompared
  PROVE  Going(S)'
<1>1. /\ Take /\ phase = "next" /\ phase' = "next" /\ skip' = skip /\ ~Unseen
      /\ \E l : hist' = [hist EXCEPT !.last = l]
  BY DEF SkipCompared, Take, Considering, skips
<1>2. hist'.short = hist.short
  BY <1>1, HistLast DEF CInv
<1>3. Point.addr.lin \in Byte /\ sq'.visited = sq.visited
  BY <1>1, TakeWalk, TakeFacts DEF InCode, TInv
<1>4. Awaits(sq', Point.addr.lin)
  BY <1>1, <1>3 DEF Unseen, QueuedInv, Awaits
<1>5. \A n, y : NextAfter(n, y).b = Point.addr.lin => FollowedThen(n, y)
  BY <1>4 DEF FollowedThen
<1>6. QED
  BY <1>1, <1>2, <1>5, TakeGoing

(* A location of an excluded routine is not the next block of another. *)
LEMMA SkipExcludedGoing ==
  ASSUME CInv, TInv, NEW S \in SUBSET Byte, Laid(S), Going(S), SkipExcluded
  PROVE  Going(S)'
<1>1. /\ Take /\ phase = "next" /\ phase' = "next" /\ skip' = skip
      /\ Here # 0 /\ IsExcluded(Routine(Here))
      /\ \E l : hist' = [hist EXCEPT !.last = l]
  BY DEF SkipExcluded, InMap, Compares, Take, Considering, skips
<1>2. hist'.short = hist.short
  BY <1>1, HistLast DEF CInv
<1>3. Here \in DOMAIN case.rmap /\ Owns(Routine(Here), Point.addr.lin)
  BY <1>1, RoutineAtType, HoldsOwns DEF Here, CInv
<1>4. ASSUME NEW n \in DOMAIN case.rmap, ~IsExcluded(Routine(n)), NEW y \in HeadsOf(n),
             NextAfter(n, y) # NoBlock, NextAfter(n, y).b = Point.addr.lin
      PROVE  FALSE
  <2>1. Owns(Routine(n), Point.addr.lin) /\ Point.addr.lin \in Byte
    BY <1>4, NextAfterHead DEF CInv
  <2>2. n = Here
    BY <1>3, <2>1, OneOwner
  <2>3. QED
    BY <1>1, <1>4, <2>2
<1>5. QED
  BY <1>1, <1>2, <1>4, TakeGoing

(* The loop is left where the target ends. *)
LEMMA LeaveGoing ==
  ASSUME CInv, TInv, WithMap, NEW S \in SUBSET Byte, Laid(S), Going(S), LeaveImage, phase' # "done"
  PROVE  Going(S)'
<1>1. /\ phase = "compare" /\ phase' = "next" /\ sq' = CheckMissed(sq, entered) /\ case' = case
      /\ skip' = skip /\ hist' = [hist EXCEPT !.short = hist.short \cup {rout}]
  BY DEF LeaveImage, LeaveLoop, Done, skips
<1>2. hist'.short = hist.short \cup {rout}
  BY <1>1, HistShort DEF CInv
<1>3. sq \in Queues /\ rout \in DOMAIN case.rmap
  BY <1>1 DEF TInv, QueuesTyped, InRoutine
<1>4. Continues(sq, sq') /\ sq'.visited = sq.visited
  BY <1>1, <1>3, CheckMissedType DEF CInv
<1>5. Within(S, Calling, sq')
  BY <1>1, <1>3, CheckMissedWithin DEF Going, CInv
<1>6. (Within(S, Calling, sq))'
  BY <1>1, <1>5, WithinThen
<1>7. (IsValid(skip.rorg) => InCode(S, skip.rorg))'
  BY <1>1 DEF Going, InCode, Calling
<1>8. rc.lin \in Byte /\ Owns(Routine(rout), rc.lin)
  BY <1>1, OwnsOfBlock DEF Going, Walking, InCode
<1>9. ASSUME NEW n \in DOMAIN case.rmap, ~IsExcluded(Routine(n)), NEW y \in HeadsOf(n),
             sq'.visited[y] = VISITED_ID
      PROVE  FollowedThen(n, y)
  <2>1. Followed(n, y)
    BY <1>4, <1>9 DEF Going, Chained
  <2>2. CASE NextAfter(n, y) = NoBlock \/ n \in hist.short \/ n = rout
    BY <1>2, <2>2 DEF FollowedThen
  <2>3. CASE Awaits(sq, NextAfter(n, y).b)
    <3>1. Awaits(sq', NextAfter(n, y).b)
      BY <1>4, <2>3, AwaitsStays
    <3>2. QED
      BY <3>1 DEF FollowedThen
  <2>4. CASE NextAfter(n, y) # NoBlock /\ rc.lin = NextAfter(n, y).b
    <3>1. Owns(Routine(n), rc.lin)
      BY <1>9, <2>4, NextAfterHead DEF CInv
    <3>2. n = rout
      BY <1>3, <1>8, <3>1, OneOwner
    <3>3. QED
      BY <2>2, <3>2
  <2>5. QED
    BY <2>1, <2>2, <2>3, <2>4 DEF Followed
<1>10. Chained'
  BY <1>1, <1>9, ChainedThen
<1>11. QED
  BY <1>1, <1>6, <1>7, <1>10 DEF Going
-----------------------------------------------------------------------------
(* The whole comparison.                                                   *)

(* It runs through all routines of a map, and was not taken elsewhere. *)
Undisturbed ==
  phase # "done" /\ WithMap /\ ~case.opt.noCall /\ ~IsValid(case.opt.stop) /\ ~hist.strayed

RoutinesKnown ==
  phase # "done" =>
    /\ entered \subseteq DOMAIN case.rmap
    /\ \A n \in entered : IsExcluded(Routine(n)) => n \in excluded

WalkInv ==
  /\ \E S \in SUBSET Byte : Laid(S) /\ (Undisturbed => Going(S))
  /\ RoutinesKnown
  /\ BlocksCompared

LEMMA StrayedStays ==
  ASSUME CInv, [Next]_vars
  PROVE  hist.strayed => hist'.strayed
<1>1. HistShape(hist)
  BY DEF CInv
<1>2. CASE \/ Finish \/ StopAfterEntry \/ ReachStop \/ NotInMap \/ NoBlockThere
           \/ SearchFails \/ DecodeFails \/ Mismatch \/ UNCHANGED vars
  BY <1>2 DEF Finish, StopAfterEntry, ReachStop, NotInMap, NoBlockThere, SearchFails,
              DecodeFails, Mismatch, vars
<1>3. CASE \/ SkipCompared \/ SkipExcluded \/ EnterKnown \/ EnterByName \/ EnterBySearch
           \/ EnterWithoutMap
  <2>1. \E l : hist' = [hist EXCEPT !.last = l]
    BY <1>3 DEF SkipCompared, SkipExcluded, EnterKnown, EnterByName, EnterBySearch,
                EnterWithoutMap
  <2>2. hist'.strayed = hist.strayed
    BY <1>1, <2>1, HistLast
  <2>3. QED
    BY <2>2
<1>4. CASE SkipRef \/ SkipTgt \/ Accepted
  BY <1>4, LoopHist
<1>5. CASE LeaveImage
  <2>1. hist' = [hist EXCEPT !.short = hist.short \cup {rout}]
    BY <1>5 DEF LeaveImage
  <2>2. QED
    BY <1>1, <2>1, HistShort
<1>6. QED
  BY <1>2, <1>3, <1>4, <1>5 DEF Next

LEMMA NextGoing ==
  ASSUME CInv, TInv, QueuedInv, [Next]_vars, NEW S \in SUBSET Byte, Laid(S),
         Undisturbed => Going(S), Undisturbed'
  PROVE  Going(S)'
<1>1. case' = case /\ phase' # "done" /\ WithMap /\ ~IsValid(case.opt.stop) /\ ~hist'.strayed
  BY CaseStays DEF Undisturbed, WithMap
<1>2. CASE UNCHANGED vars
  <2>1. Going(S)
    BY <1>2 DEF Undisturbed, WithMap, vars
  <2>2. /\ sq' = sq /\ phase' = phase /\ skip' = skip /\ rc' = rc /\ rout' = rout
        /\ block' = block /\ hist' = hist /\ case' = case
    BY <1>2 DEF vars
  <2>3. (Within(S, Calling, sq))' /\ (IsValid(skip.rorg) => InCode(S, skip.rorg))'
    BY <2>1, <2>2 DEF Going, Within, InCode, Calling
  <2>4. (phase = "compare" => Walking(S))'
    BY <2>1, <2>2 DEF Going, Walking, InCode, InHome, Home, Calling, Routine
  <2>5. ASSUME NEW n \in DOMAIN case.rmap, ~IsExcluded(Routine(n)), NEW y \in HeadsOf(n),
               sq'.visited[y] = VISITED_ID
        PROVE  FollowedThen(n, y)
    <3>1. Followed(n, y)
      BY <2>1, <2>2, <2>5 DEF Going, Chained
    <3>2. QED
      BY <2>2, <3>1 DEF Followed, FollowedThen
  <2>6. Chained'
    BY <2>2, <2>5, ChainedThen
  <2>7. QED
    BY <2>3, <2>4, <2>6 DEF Going
<1>3. CASE ~UNCHANGED vars
  <2>1. phase # "done"
    BY <1>3, NextPairs
  <2>2. Going(S)
    BY <1>1, <2>1, StrayedStays DEF Undisturbed, WithMap
  <2>3. CASE \/ Finish \/ StopAfterEntry \/ ReachStop \/ NotInMap \/ NoBlockThere
             \/ SearchFails \/ DecodeFails \/ Mismatch
    BY <1>1, <2>3 DEF Finish, StopAfterEntry, ReachStop, NotInMap, NoBlockThere, SearchFails,
                      DecodeFails, Mismatch, Done
  <2>4. CASE EnterWithoutMap
    BY <1>1, <2>4 DEF EnterWithoutMap
  <2>5. CASE SkipCompared
    BY <2>2, <2>5, SkipComparedGoing
  <2>6. CASE SkipExcluded
    BY <2>2, <2>6, SkipExcludedGoing
  <2>7. CASE EnterKnown \/ EnterByName \/ EnterBySearch
    BY <2>2, <2>7, EnterGoing
  <2>8. CASE LeaveImage
    BY <1>1, <2>2, <2>8, LeaveGoing
  <2>9. CASE SkipRef \/ SkipTgt \/ Accepted
    BY <1>1, <2>2, <2>9, LoopGoing
  <2>10. QED
    BY <1>3, <2>1, <2>3, <2>4, <2>5, <2>6, <2>7, <2>8, <2>9 DEF Next
<1>4. QED
  BY <1>2, <1>3

LEMMA NextRoutinesKnown == CInv /\ RoutinesKnown /\ [Next]_vars => RoutinesKnown'
<1> SUFFICES ASSUME CInv, RoutinesKnown, [Next]_vars PROVE RoutinesKnown'
  OBVIOUS
<1>5. case' = case
  BY CaseStays
<1> SUFFICES ASSUME phase' # "done"
             PROVE  /\ entered' \subseteq DOMAIN case.rmap
                    /\ \A n \in entered' : IsExcluded(Routine(n)) => n \in excluded'
  BY <1>5 DEF RoutinesKnown, IsExcluded, Routine
<1>1. CASE entered' = entered /\ excluded' = excluded /\ phase # "done"
  BY <1>1 DEF RoutinesKnown
<1>2. CASE UNCHANGED vars
  BY <1>1, <1>2 DEF vars
<1>3. CASE ~UNCHANGED vars
  <2>1. phase # "done"
    BY <1>3, NextPairs
  <2>2. Here # 0 => Here \in DOMAIN case.rmap
    BY RoutineAtType DEF Here, CInv
  <2>3. CASE \/ Finish \/ StopAfterEntry \/ ReachStop \/ NotInMap \/ NoBlockThere
             \/ SearchFails \/ DecodeFails \/ Mismatch
    BY <2>3 DEF Finish, StopAfterEntry, ReachStop, NotInMap, NoBlockThere, SearchFails,
                DecodeFails, Mismatch, Done
  <2>4. CASE SkipExcluded
    <3>1. entered' = entered \cup {Here} /\ excluded' = excluded \cup {Here} /\ Here # 0
      BY <2>4 DEF SkipExcluded, InMap
    <3>2. QED
      BY <2>1, <2>2, <3>1 DEF RoutinesKnown
  <2>5. CASE EnterKnown \/ EnterByName \/ EnterBySearch
    <3>1. /\ entered' = entered \cup {Here} /\ excluded' = excluded /\ Here # 0
          /\ ~IsExcluded(Routine(Here))
      BY <2>5 DEF EnterKnown, EnterByName, EnterBySearch, Searching, EnterFound, Begin,
                  Wanted, InMap
    <3>2. QED
      BY <2>1, <2>2, <3>1 DEF RoutinesKnown
  <2>6. CASE SkipCompared \/ EnterWithoutMap \/ LeaveImage
    BY <1>1, <2>1, <2>6 DEF SkipCompared, EnterWithoutMap, LeaveImage, seen
  <2>7. CASE SkipRef \/ SkipTgt \/ Accepted
    BY <1>1, <2>1, <2>7 DEF SkipRef, SkipTgt, Accepted, Compared, seen
  <2>8. QED
    BY <1>3, <2>1, <2>3, <2>4, <2>5, <2>6, <2>7 DEF Next
<1>4. QED
  BY <1>2, <1>3
(* Of the reachable blocks behind the entry that were not compared, the    *)
(* first comes right after a part that was.                                *)
LEMMA FirstUncompared ==
  ASSUME CInv, NEW S \in SUBSET Byte, Laid(S), NEW n \in DOMAIN case.rmap,
         sq.visited[Routine(n).extents.b] = VISITED_ID,
         NEW b \in ToSet(Routine(n).reach), b.b >= Routine(n).extents.b,
         sq.visited[b.b] # VISITED_ID
  PROVE  \E y \in HeadsOf(n) :
           /\ sq.visited[y] = VISITED_ID /\ NextAfter(n, y) # NoBlock
           /\ sq.visited[NextAfter(n, y).b] # VISITED_ID
<1> DEFINE reach == Routine(n).reach
           entry == Routine(n).extents.b
           missing == {i \in DOMAIN reach :
                         reach[i].b >= entry /\ sq.visited[reach[i].b] # VISITED_ID}
<1>1. /\ reach \in Seq([b : Byte, e : Int])
      /\ \A i, j \in DOMAIN reach : i < j => reach[i].b < reach[j].b
  BY DEF CInv, CaseTyped, OfImage, Laid, BlocksInOrder, Routine
<1>2. entry \in HeadsOf(n) /\ \A i \in DOMAIN reach : reach[i].b \in HeadsOf(n)
  BY DEF HeadsOf
<1>3. entry \in Int /\ \A i \in DOMAIN reach : reach[i].b \in Int /\ reach[i] # NoBlock
  BY <1>2, HeadsAre, ReachIs DEF CInv, Laid
<1>4. missing # {}
  BY DEF ToSet
<1>5. PICK i \in missing : \A j \in missing : i <= j
  <2>1. missing \subseteq DOMAIN reach
    OBVIOUS
  <2> HIDE DEF missing
  <2>2. DOMAIN reach \subseteq Nat
    <3> HIDE DEF reach
    <3>1. QED
      BY <1>1
  <2>3. missing \subseteq Nat
    BY <2>1, <2>2
  <2>4. QED
    BY <1>4, <2>3, LeastExists
<1>6. i \in DOMAIN reach /\ reach[i].b >= entry /\ sq.visited[reach[i].b] # VISITED_ID
  BY <1>5
<1>7. i = 1 \/ i - 1 \in DOMAIN reach
  <2> HIDE DEF reach
  <2>1. QED
    BY <1>1, <1>6
<1>8. i \in Int /\ DOMAIN reach \subseteq Nat /\ \A j \in DOMAIN reach : j >= 1
  <2> HIDE DEF reach
  <2>1. QED
    BY <1>1, <1>6
<1>9. \E y \in HeadsOf(n) : /\ sq.visited[y] = VISITED_ID /\ y < reach[i].b
                            /\ \A j \in DOMAIN reach : j < i => reach[j].b <= y
  <2>1. CASE i # 1 /\ reach[i - 1].b >= entry
    <3>1. i - 1 \in DOMAIN reach
      BY <1>7, <2>1
    <3>2. i - 1 \notin missing
      BY <1>5, <1>8
    <3>3. sq.visited[reach[i - 1].b] = VISITED_ID
      BY <2>1, <3>1, <3>2
    <3>4. reach[i - 1].b < reach[i].b
      BY <1>1, <1>6, <1>8, <3>1
    <3>5. ASSUME NEW j \in DOMAIN reach, j < i PROVE reach[j].b <= reach[i - 1].b
      <4>1. j = i - 1 \/ j < i - 1
        BY <1>8, <3>5
      <4>2. QED
        BY <1>1, <1>3, <3>1, <3>5, <4>1
    <3>6. QED
      BY <1>2, <3>1, <3>3, <3>4, <3>5
  <2>2. CASE i = 1 \/ ~(reach[i - 1].b >= entry)
    <3>1. entry # reach[i].b
      BY <1>6
    <3>2. entry < reach[i].b
      BY <1>3, <1>6, <3>1
    <3>3. ASSUME NEW j \in DOMAIN reach, j < i PROVE reach[j].b <= entry
      <4>1. i # 1 /\ i - 1 \in DOMAIN reach /\ reach[i - 1].b < entry
        BY <1>3, <1>7, <1>8, <2>2, <3>3
      <4>2. j = i - 1 \/ j < i - 1
        BY <1>8, <3>3
      <4>3. reach[j].b <= reach[i - 1].b
        BY <1>1, <1>3, <3>3, <4>1, <4>2
      <4>4. QED
        BY <1>3, <3>3, <4>1, <4>3
    <3>4. QED
      BY <1>2, <3>2, <3>3
  <2>3. QED
    BY <2>1, <2>2
<1>10. PICK y \in HeadsOf(n) : /\ sq.visited[y] = VISITED_ID /\ y < reach[i].b
                               /\ \A j \in DOMAIN reach : j < i => reach[j].b <= y
  BY <1>9
<1>11. y \in Int
  BY HeadsAre DEF CInv
<1>12. NextAfter(n, y) = reach[i]
  <2>1. reach[i].b >= y + 1
    BY <1>3, <1>6, <1>10, <1>11
  <2>2. PICK k \in DOMAIN reach :
          /\ NextAfter(n, y) = reach[k] /\ reach[k].b >= y + 1
          /\ \A j \in DOMAIN reach : reach[j].b >= y + 1 => k <= j
    <3>1. y + 1 \in Int
      BY <1>11
    <3>2. ~ \A j \in DOMAIN reach : reach[j].b < y + 1
      BY <1>3, <1>6, <1>11, <2>1
    <3>3. QED
      BY <3>1, <3>2, NextReachableIs DEF NextAfter, CInv, Laid
  <2>3. k <= i
    BY <1>6, <2>1, <2>2
  <2>4. ~(k < i)
    BY <1>3, <1>10, <1>11, <2>2
  <2>5. k = i
    BY <1>8, <2>2, <2>3, <2>4
  <2>6. QED
    BY <2>2, <2>5
<1>13. QED
  BY <1>3, <1>6, <1>10, <1>12

LEMMA FinishBlocks ==
  ASSUME CInv, TInv, QueuedInv, WalkInv, Finish
  PROVE  BlocksCompared'
<1>1. /\ phase = "next" /\ sq.queue = << >> /\ result' = "match"
      /\ UNCHANGED <<case, sq, entered, excluded, hist>>
  BY DEF Finish, Done, seen
<1>2. SUFFICES ASSUME Complete', ~hist.strayed,
                      NEW n \in entered \ (excluded \cup hist.short),
                      sq.visited[Routine(n).extents.b] = VISITED_ID,
                      NEW b \in ToSet(Routine(n).reach), b.b >= Routine(n).extents.b,
                      sq.visited[b.b] # VISITED_ID
               PROVE  FALSE
  BY <1>1 DEF BlocksCompared, Routine
<1>3. n \in DOMAIN case.rmap /\ ~IsExcluded(Routine(n))
  BY <1>1, <1>2 DEF WalkInv, RoutinesKnown
<1>4. Undisturbed
  BY <1>1, <1>2, <1>3 DEF Undisturbed, Complete, WithMap
<1>5. PICK S \in SUBSET Byte : Laid(S) /\ Going(S)
  BY <1>4 DEF WalkInv
<1>6. PICK y \in HeadsOf(n) : /\ sq.visited[y] = VISITED_ID /\ NextAfter(n, y) # NoBlock
                              /\ sq.visited[NextAfter(n, y).b] # VISITED_ID
  BY <1>2, <1>3, <1>5, FirstUncompared
<1>7. Followed(n, y)
  BY <1>3, <1>5, <1>6 DEF Going, Chained
<1>8. QED
  BY <1>1, <1>2, <1>6, <1>7 DEF Followed, Awaits

LEMMA NextWalk == CInv /\ TInv /\ QueuedInv /\ WalkInv /\ [Next]_vars => WalkInv'
<1> SUFFICES ASSUME CInv, TInv, QueuedInv, WalkInv, [Next]_vars PROVE WalkInv'
  OBVIOUS
<1>1. case' = case
  BY CaseStays
<1>2. PICK S \in SUBSET Byte : Laid(S) /\ (Undisturbed => Going(S))
  BY DEF WalkInv
<1>3. Laid(S)'
  BY <1>1, <1>2 DEF Laid
<1>4. (Undisturbed => Going(S))'
  BY <1>2, NextGoing
<1>5. RoutinesKnown'
  BY NextRoutinesKnown DEF WalkInv
<1>6. BlocksCompared'
  <2>1. CASE UNCHANGED vars
    BY <2>1 DEF WalkInv, BlocksCompared, Complete, Routine, vars
  <2>2. CASE Finish
    BY <2>2, FinishBlocks
  <2>3. CASE ~UNCHANGED vars /\ ~Finish
    <3>1. phase # "done" /\ result = "none"
      BY <2>3, NextPairs DEF QueuedInv
    <3>2. ~Complete'
      <4>1. CASE phase' # "done"
        BY <3>1, <4>1, NextPairs DEF Complete
      <4>2. CASE \/ StopAfterEntry \/ ReachStop \/ NotInMap \/ NoBlockThere \/ SearchFails
                 \/ DecodeFails \/ Mismatch
        BY <1>1, <4>2 DEF StopAfterEntry, StopsHere, ReachStop, PastStop, NotInMap, NoBlockThere,
                          SearchFails, DecodeFails, Mismatch, Done, Complete
      <4>3. CASE LeaveImage
        BY <3>1, <4>3 DEF LeaveImage, LeaveLoop, Done, Complete
      <4>4. ASSUME Compared, NEW skipped, NEW STATE map, NEW STATE at, NEW STATE tat,
                   NEW STATE note, Passed(skipped, map, at, tat, note), phase' = "done"
            PROVE  ~Complete'
        BY <4>4, ProceedWalks DEF Walked, Complete
      <4>5. CASE phase' = "done" /\ SkipRef
        BY <4>4, <4>5, SkipRefPasses DEF SkipRef
      <4>6. CASE phase' = "done" /\ SkipTgt
        BY <4>4, <4>6, SkipTgtPasses DEF SkipTgt
      <4>7. CASE phase' = "done" /\ Accepted
        BY <4>4, <4>7, AcceptedPasses DEF Accepted
      <4>8. CASE \/ SkipCompared \/ SkipExcluded \/ EnterKnown \/ EnterByName \/ EnterBySearch
                 \/ EnterWithoutMap
        <5>1. phase' # "done"
          BY <3>1, <4>8 DEF SkipCompared, SkipExcluded, EnterKnown, EnterByName, EnterBySearch,
                            EnterWithoutMap, Searching, EnterFound, Begin
        <5>2. QED
          BY <4>1, <5>1
      <4>9. QED
        BY <2>3, <3>1, <4>1, <4>2, <4>3, <4>5, <4>6, <4>7, <4>8 DEF Next
    <3>3. QED
      BY <3>2 DEF BlocksCompared
  <2>4. QED
    BY <2>1, <2>2, <2>3
<1>7. QED
  BY <1>3, <1>4, <1>5, <1>6 DEF WalkInv
(* At the start nothing is compared, and the queue holds entries alone. *)
LEMMA InitGoing ==
  ASSUME Init, NEW S \in SUBSET Byte, Laid(S)
  PROVE  Going(S)
<1>1. CaseTyped /\ case.entry \in Located
  BY InitTyped DEF CaseTyped
<1>2. /\ phase = "next" /\ skip = NoSkip
      /\ sq = Seeded \/ sq = SeededQueue(case.entry, VISITED_ID)
  BY DEF Init
<1>3. CASE sq = Seeded
  <2> DEFINE A == {n \in DOMAIN case.rmap : ~IsExcluded(Routine(n)) /\ ~Routine(n).external}
             near == [n \in DOMAIN case.rmap |-> FALSE]
  <2>1. A \subseteq DOMAIN case.rmap /\ \A n \in A : near[n] \in BOOLEAN
    OBVIOUS
  <2>2. Seeded = SaveRoutines(EmptyQueue, A, near)
    BY DEF Seeded
  <2> HIDE DEF A, near
  <2>3. EmptyQueue \in Queues /\ Within(S, Calling, EmptyQueue)
    BY EmptyQueueType DEF EmptyQueue, Within
  <2>4. Within(S, Calling, Seeded)
    BY <1>1, <2>1, <2>2, <2>3, SaveRoutinesWithin
  <2>5. Seeded.visited = [b \in Byte |-> NULL_ROUTINE]
    BY <1>1, SeededType
  <2>6. Chained
    BY <1>1, <1>3, <2>5, HeadsAre DEF Chained, NULL_ROUTINE, VISITED_ID
  <2>7. QED
    BY <1>2, <1>3, <2>4, <2>6 DEF Going, NoSkip, IsValid
<1>4. CASE sq = SeededQueue(case.entry, VISITED_ID)
  <2>1. /\ sq \in Queues /\ DOMAIN sq.entrypoints = {1} /\ sq.entrypoints[1].addr = case.entry
        /\ DOMAIN sq.queue = {1} /\ sq.queue[1].idx = 1 /\ sq.queue[1].call
        /\ sq.visited = [b \in Byte |-> NULL_ROUTINE]
    BY <1>1, <1>4, SeededParts
  <2>2. sq.queue[1].addr.lin = case.entry.lin
    BY <2>1 DEF Queues, Consistent, PointBelongs
  <2>3. case.entry.lin \in S /\ case.entry.seg \in Calling
    BY DEF Laid, Instructed, Calling, Frames
  <2>4. Within(S, Calling, sq)
    BY <2>1, <2>2, <2>3 DEF Within
  <2>5. Chained
    BY <1>1, <2>1, HeadsAre DEF Chained, NULL_ROUTINE, VISITED_ID
  <2>6. QED
    BY <1>2, <2>4, <2>5 DEF Going, NoSkip, IsValid
<1>5. QED
  BY <1>2, <1>3, <1>4

LEMMA InitWalk == MapsLaidOut /\ Init => WalkInv
<1> SUFFICES ASSUME MapsLaidOut, Init PROVE WalkInv
  OBVIOUS
<1>1. PICK p \in Programs, m \in RefMaps :
        case.ref = p.ref /\ case.entry = p.entry /\ case.rmap = m.rmap
  BY DEF Init
<1>2. LaidOut(case.ref, case.entry, case.rmap)
  BY <1>1 DEF MapsLaidOut
<1>3. PICK S \in SUBSET Byte : Laid(S)
  BY <1>2 DEF LaidOut, Laid
<1>4. Going(S)
  BY <1>3, InitGoing
<1>5. result = "none" /\ entered = {}
  BY DEF Init
<1>6. QED
  BY <1>3, <1>4, <1>5 DEF WalkInv, RoutinesKnown, BlocksCompared, Complete

(* For every comparison with a map laid out like the code: one that finds  *)
(* no difference compared, of each routine whose entry it compared, all    *)
(* reachable blocks behind that entry, but where the target ended early or *)
(* a skip took the reference elsewhere (checkComparisonStop, nextReachable). *)
THEOREM RoutinesComparedWhole ==
  ASSUME MapsLaidOut
  PROVE  Spec => []BlocksCompared
<1>1. WalkInv => BlocksCompared
  BY DEF WalkInv
<1>2. Init => QueuedInv /\ WalkInv
  BY InitQueued, InitWalk
<1>3. CInv /\ TInv /\ QueuedInv /\ WalkInv /\ [Next]_vars => QueuedInv' /\ WalkInv'
  BY NextQueued, NextWalk
<1>4. QED
  BY <1>1, <1>2, <1>3, TypesHold, PTL DEF Spec
=============================================================================
