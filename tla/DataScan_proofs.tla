-------------------------- MODULE DataScan_proofs --------------------------
(***************************************************************************)
(* The two passes over data look at every byte they answer for: a match    *)
(* has compared the whole segment, and the search has read every word of   *)
(* the data segments and no other, for all images, segments and variables. *)
(*                                                                         *)
(* Both come down to where the segment of a byte ends: at the start of a   *)
(* segment with a greater base, or with the image.  The segments are in    *)
(* order, so a byte whose home is a segment lies before the start of every *)
(* later one.                                                              *)
(***************************************************************************)
EXTENDS DataScan, FiniteSetTheorems, WellFoundedInduction, TLAPS

-----------------------------------------------------------------------------
(* A set of naturals has a least member, a bounded one a greatest.         *)

LEMMA LeastExists ==
  ASSUME NEW S, S \subseteq Nat, S # {}
  PROVE  \E x \in S : \A y \in S : x <= y
<1> DEFINE R == OpToRel(<, Nat)
<1>1. IsWellFoundedOn(R, Nat)
  BY NatLessThanWellFounded
<1>2. PICK x \in S : \A y \in S : ~ (<<y, x>> \in R)
  <2> HIDE DEF R
  <2>1. QED
    BY <1>1, WFMin
<1>3. ASSUME NEW y \in S, y < x PROVE <<y, x>> \in R
  BY <1>3 DEF OpToRel
<1> HIDE DEF R
<1>4. \A y \in S : y < x \/ x <= y
  OBVIOUS
<1>5. QED
  BY <1>2, <1>3, <1>4

(* The greatest is the one least far from the bound.                       *)
LEMMA GreatestExists ==
  ASSUME NEW S, S \subseteq Nat, S # {}, NEW n \in Nat, \A s \in S : s <= n
  PROVE  \E x \in S : \A y \in S : x >= y
<1> DEFINE T == {n - s : s \in S}
<1>1. T \subseteq Nat /\ T # {}
  <2>1. \A s \in S : s \in Nat /\ s <= n
    OBVIOUS
  <2>2. \A s \in S : n - s \in Nat
    BY <2>1
  <2>3. QED
    BY <2>2
<1>2. PICK t \in T : \A u \in T : t <= u
  <2> HIDE DEF T
  <2>1. QED
    BY <1>1, LeastExists
<1>3. PICK x \in S : t = n - x
  OBVIOUS
<1>4. ASSUME NEW y \in S PROVE x >= y
  <2>1. n - y \in T
    OBVIOUS
  <2> HIDE DEF T
  <2>2. QED
    BY <2>1, <1>2, <1>3
<1>5. QED
  BY <1>4

(* The greatest of a bounded set of naturals exists, so Max is one of them. *)
LEMMA MaxOfBounded ==
  ASSUME NEW S, S \subseteq Nat, S # {}, NEW n \in Nat, \A s \in S : s <= n
  PROVE  Max(S) \in S /\ \A s \in S : Max(S) >= s
BY GreatestExists DEF Max

-----------------------------------------------------------------------------
(* What the passes are given.                                              *)

SegType == [base : Nat, data : BOOLEAN]

Given ==
  /\ \E n \in Nat : ref \in Image(n)
  /\ \E n \in Nat : tgt \in Image(n)
  /\ segs \in Seq(SegType) /\ ByBase(segs)
  /\ tseg \in SegType

LEMMA BytesOfImage ==
  ASSUME NEW n \in Nat, NEW image \in Image(n)
  PROVE  Bytes(image) = n /\ DOMAIN image = 0..(Bytes(image) - 1)
<1>1. DOMAIN image = 0..(n - 1)
  BY DEF Image
<1>2. Cardinality(0..(n - 1)) = n
  BY FS_Interval
<1>3. QED
  BY <1>1, <1>2 DEF Bytes

LEMMA GivenBytes ==
  ASSUME Given
  PROVE  /\ Bytes(ref) \in Nat /\ DOMAIN ref = 0..(Bytes(ref) - 1)
         /\ Bytes(tgt) \in Nat /\ DOMAIN tgt = 0..(Bytes(tgt) - 1)
BY BytesOfImage DEF Given

LEMMA StartOrder ==
  ASSUME NEW a \in Nat, NEW b \in Nat, a <= b
  PROVE  a * ParaSize <= b * ParaSize
BY DataScanAssumption, SMT

LEMMA SegmentsInOrder ==
  ASSUME Given
  PROVE  /\ \A i \in DOMAIN segs : segs[i].base \in Nat /\ Start(segs[i]) \in Nat
         /\ \A i, j \in DOMAIN segs : i <= j => Start(segs[i]) <= Start(segs[j])
<1>1. ParaSize \in Nat
  BY DataScanAssumption
<1>2. \A i \in DOMAIN segs : segs[i] \in SegType
  BY DEF Given
<1>3. \A i \in DOMAIN segs : segs[i].base \in Nat
  BY <1>2 DEF SegType
<1>4. \A n \in Nat : n * ParaSize \in Nat
  BY <1>1
<1>5. \A i, j \in DOMAIN segs : i <= j => segs[i].base <= segs[j].base
  <2>1. DOMAIN segs \subseteq Nat
    BY DEF Given
  <2>2. \A i, j \in DOMAIN segs : i < j => segs[i].base <= segs[j].base
    BY DEF Given, ByBase
  <2>3. QED
    BY <2>1, <2>2, <1>3
<1>6. QED
  BY <1>3, <1>4, <1>5, StartOrder DEF Start

(* A byte lies before the start of every segment behind its home. *)
LEMMA HomeEnds ==
  ASSUME Given, NEW x \in Nat, NEW i \in HomeOf(x), NEW j \in DOMAIN segs, j > i
  PROVE  x < Start(segs[j])
<1>1. Start(segs[j]) \in Nat /\ i \in Nat /\ j \in Nat
  BY SegmentsInOrder DEF Given, HomeOf
<1>2. ~ (Start(segs[j]) <= x)
  BY <1>1 DEF HomeOf
<1>3. QED
  BY <1>1, <1>2
-----------------------------------------------------------------------------
(* A comparison that has come to the end of its length has come past every *)
(* byte of the segment that both images have.                              *)

LEMMA EndsBehind ==
  ASSUME Given, seg \in DOMAIN segs, Ends # {}, NEW x \in Nat, seg \in HomeOf(x)
  PROVE  Max(Ends) * ParaSize \in Nat /\ x < Max(Ends) * ParaSize
<1>1. Ends \subseteq Nat
  BY SegmentsInOrder DEF Ends
<1>2. ASSUME NEW b \in Ends PROVE b <= segs[Len(segs)].base
  <2>1. PICK j \in DOMAIN segs : b = segs[j].base
    BY DEF Ends
  <2>2. DOMAIN segs = 1..Len(segs) /\ Len(segs) \in Nat
    BY DEF Given
  <2>3. j = Len(segs) \/ j < Len(segs)
    BY <2>2
  <2>4. Len(segs) \in DOMAIN segs
    BY <2>2
  <2>5. QED
    BY <2>1, <2>3, <2>4, SegmentsInOrder DEF Given, ByBase
<1>3. segs[Len(segs)].base \in Nat
  <2>1. Len(segs) \in DOMAIN segs
    BY DEF Given
  <2>2. QED
    BY <2>1, SegmentsInOrder
<1>4. Max(Ends) \in Ends
  BY <1>1, <1>2, <1>3, MaxOfBounded
<1>5. PICK j \in DOMAIN segs : Max(Ends) = segs[j].base /\ segs[j].base > segs[seg].base
  BY <1>4 DEF Ends
<1>6. j > seg
  <2>1. j \in Nat /\ seg \in Nat
    BY DEF Given
  <2>2. ~ (j < seg) /\ j # seg
    BY <1>5, SegmentsInOrder DEF Given, ByBase
  <2>3. QED
    BY <2>1, <2>2
<1>7. x < Start(segs[j]) /\ Start(segs[j]) \in Nat
  BY <1>6, HomeEnds, SegmentsInOrder
<1>8. QED
  BY <1>5, <1>7 DEF Start

LEMMA WholeSegment ==
  ASSUME Given, seg \in DOMAIN segs, Comparable,
         NEW x \in DOMAIN ref \ {Bytes(ref) - 1}, seg \in HomeOf(x),
         x - Start(segs[seg]) < SegSize,
         Start(tseg) + (x - Start(segs[seg])) \in DOMAIN tgt
  PROVE  /\ x - Start(segs[seg]) \in Nat /\ Length - Excess \in Int
         /\ x - Start(segs[seg]) < Length - Excess
<1> DEFINE s == Start(segs[seg])
           t == Start(tseg)
           r == Bytes(ref)
           n == Bytes(tgt)
<1>1. s \in Nat /\ r \in Nat /\ n \in Nat /\ SegSize \in Nat
  BY GivenBytes, SegmentsInOrder, DataScanAssumption
<1>2. t \in Nat
  <2>1. tseg.base \in Nat
    BY DEF Given, SegType
  <2>2. QED
    BY <2>1, DataScanAssumption DEF Start
<1>3. x \in Nat /\ x < r - 1 /\ s <= x
  BY <1>1, GivenBytes DEF HomeOf
<1>4. t + (x - s) < n /\ t < n
  BY <1>1, <1>2, GivenBytes DEF Comparable
<1>5. x - s \in Nat /\ x - s < SegSize
  BY <1>1, <1>3
<1>6. CASE Ends # {}
  <2>1. EndOffset = 0 /\ Length = Max(Ends) * ParaSize - s
    BY <1>6 DEF EndOffset, Length
  <2>2. Max(Ends) * ParaSize \in Nat /\ x < Max(Ends) * ParaSize
    BY <1>3, <1>6, EndsBehind
  <2>3. Excess = 0
    BY <1>1, <1>2, <1>4, <2>1 DEF Excess
  <2> DEFINE m == Max(Ends) * ParaSize
  <2> HIDE DEF m, s
  <2>4. x - s < m - s
    BY <1>1, <1>3, <2>2 DEF m
  <2>5. m - s \in Int
    BY <1>1, <2>2 DEF m
  <2>6. QED
    BY <1>1, <1>3, <1>5, <2>1, <2>3, <2>4, <2>5 DEF m, s
<1>7. CASE Ends = {} /\ Behind < SegSize
  <2>1. EndOffset = r - s - 1 /\ Length = r - s - 1
    BY <1>7 DEF EndOffset, Length, Behind
  <2> DEFINE end == t + EndOffset
  <2>2. end = t + (r - s - 1) /\ end \in Int
    BY <1>1, <1>2, <2>1
  <2>3. CASE end >= n
    <3>1. Excess = end - n
      BY <2>3, Zenon DEF Excess
    <3> HIDE DEF end, r, s, t, n
    <3>2. Length - Excess = n - t /\ n - t \in Int /\ x - s < n - t
      BY <1>1, <1>2, <1>3, <1>4, <2>1, <2>2, <3>1
    <3>3. QED
      BY <1>5, <3>2 DEF s
  <2>4. CASE ~ (end >= n)
    <3>1. Excess = 0
      BY <2>4, Zenon DEF Excess
    <3> HIDE DEF end, r, s, t, n
    <3>2. Length - Excess = r - s - 1 /\ r - s - 1 \in Int /\ x - s < r - s - 1
      BY <1>1, <1>3, <2>1, <3>1
    <3>3. QED
      BY <1>5, <3>2 DEF s
  <2>5. QED
    BY <2>3, <2>4
<1>8. CASE Ends = {} /\ ~ (Behind < SegSize)
  <2>1. EndOffset = 0 /\ Length = SegSize
    BY <1>8 DEF EndOffset, Length
  <2>2. Excess = 0
    BY <1>1, <1>2, <1>4, <2>1 DEF Excess
  <2>3. QED
    BY <1>1, <1>5, <2>1, <2>2
<1>9. QED
  BY <1>6, <1>7, <1>8

-----------------------------------------------------------------------------
(* The words of a data segment are those whose two bytes have it for home. *)

LEMMA WordsOfSegment ==
  ASSUME Given, NEW i \in DOMAIN segs, NEW x \in Int
  PROVE  x \in Start(segs[i])..(SearchEnd(i) - 2)
           <=> x \in 0..(Bytes(ref) - 3) /\ i \in HomeOf(x) /\ i \in HomeOf(x + 1)
<1> DEFINE s == Start(segs[i])
           r == Bytes(ref)
<1>1. s \in Nat /\ r \in Nat
  BY GivenBytes, SegmentsInOrder
<1>2. DOMAIN segs = 1..Len(segs) /\ Len(segs) \in Nat
  BY DEF Given
<1>3. CASE i < Len(segs) /\ Start(segs[i + 1]) < r
  <2> DEFINE e == Start(segs[i + 1])
  <2>1. i + 1 \in DOMAIN segs /\ i + 1 > i
    BY <1>2, <1>3
  <2>2. e \in Nat /\ SearchEnd(i) = e /\ e < r
    BY <1>3, <2>1, SegmentsInOrder DEF SearchEnd
  <2>3. ASSUME x \in 0..(r - 3), i \in HomeOf(x), i \in HomeOf(x + 1)
        PROVE  x \in s..(e - 2)
    <3>1. s <= x
      BY <2>3 DEF HomeOf
    <3>2. x + 1 < e
      BY <2>1, <2>3, HomeEnds
    <3> HIDE DEF e, s, r
    <3>3. QED
      BY <1>1, <2>2, <2>3, <3>1, <3>2
  <2>4. ASSUME x \in s..(e - 2) PROVE x \in 0..(r - 3) /\ i \in HomeOf(x) /\ i \in HomeOf(x + 1)
    <3>1. x \in 0..(r - 3) /\ s <= x /\ s <= x + 1
      <4> HIDE DEF e, s, r
      <4>1. QED
        BY <1>1, <2>2, <2>4
    <3>2. ASSUME NEW j \in DOMAIN segs, j > i PROVE x + 1 < Start(segs[j]) /\ x < Start(segs[j])
      <4>1. i + 1 <= j
        BY <1>2, <3>2
      <4>2. e <= Start(segs[j]) /\ Start(segs[j]) \in Nat
        BY <2>1, <4>1, SegmentsInOrder
      <4>3. x + 1 < e /\ x < e
        <5> HIDE DEF e, s, r
        <5>1. QED
          BY <1>1, <2>2, <2>4
      <4> HIDE DEF e
      <4>4. QED
        BY <2>2, <4>2, <4>3
    <3>3. \A j \in DOMAIN segs : Start(segs[j]) \in Nat /\ j \in Int
      BY <1>2, SegmentsInOrder
    <3>4. \A j \in DOMAIN segs : (Start(segs[j]) <= x \/ Start(segs[j]) <= x + 1) => j <= i
      BY <1>2, <3>2, <3>3
    <3>5. QED
      BY <3>1, <3>4 DEF HomeOf
  <2>5. QED
    BY <2>2, <2>3, <2>4
<1>4. CASE ~ (i < Len(segs) /\ Start(segs[i + 1]) < r)
  <2>1. SearchEnd(i) = r - 1
    BY <1>4 DEF SearchEnd
  <2>2. ASSUME x \in 0..(r - 3), i \in HomeOf(x), i \in HomeOf(x + 1)
        PROVE  x \in s..(r - 1 - 2)
    <3>1. s <= x
      BY <2>2 DEF HomeOf
    <3> HIDE DEF s, r
    <3>2. QED
      BY <1>1, <2>2, <3>1
  <2>3. ASSUME x \in s..(r - 1 - 2)
        PROVE  x \in 0..(r - 3) /\ i \in HomeOf(x) /\ i \in HomeOf(x + 1)
    <3>1. x \in 0..(r - 3) /\ s <= x /\ s <= x + 1 /\ x < r /\ x + 1 < r
      <4> HIDE DEF s, r
      <4>1. QED
        BY <1>1, <2>3
    <3>2. ASSUME NEW j \in DOMAIN segs, j > i PROVE r <= Start(segs[j])
      <4>1. i + 1 \in DOMAIN segs /\ i < Len(segs) /\ i + 1 <= j
        BY <1>2, <3>2
      <4>2. Start(segs[i + 1]) \in Nat /\ Start(segs[j]) \in Nat
            /\ Start(segs[i + 1]) <= Start(segs[j])
        BY <4>1, SegmentsInOrder
      <4>3. r <= Start(segs[i + 1])
        BY <1>1, <1>4, <4>1, <4>2
      <4>4. QED
        BY <1>1, <4>2, <4>3
    <3>3. \A j \in DOMAIN segs : Start(segs[j]) \in Nat /\ j \in Int
      BY <1>2, SegmentsInOrder
    <3>4. \A j \in DOMAIN segs : (Start(segs[j]) <= x \/ Start(segs[j]) <= x + 1) => j <= i
      <4> HIDE DEF r
      <4>1. QED
        BY <1>1, <1>2, <3>1, <3>2, <3>3
    <3>5. QED
      BY <3>1, <3>4 DEF HomeOf
  <2>4. QED
    BY <2>1, <2>2, <2>3
<1>5. QED
  BY <1>3, <1>4
-----------------------------------------------------------------------------
(* What is compared and what is found at each step.                        *)

AllSame(n) == \A i \in 0..(n - 1) : Same(i) \/ Ignored(i)

ComparedSoFar ==
  /\ pc \in {"start", "asked"} => at = 0
  /\ pc \in {"asked", "compare", "match"} => seg \in DOMAIN segs
  /\ pc \in {"compare", "match"} =>
       Comparable /\ size = Length - Excess /\ at \in Nat /\ AllSame(at)
  /\ pc = "match" => at >= size

FoundBefore(n) ==
  {p \in (0..(Bytes(ref) - 3)) \X DOMAIN vars :
     /\ \E i \in HomeOf(p[1]) \cap HomeOf(p[1] + 1) : i < n /\ segs[i].data
     /\ Names(p[1], p[2])}

FoundSoFar ==
  /\ pc = "start" => refs = {}
  /\ pc = "search" => at \in 1..(Len(segs) + 1) /\ refs = FoundBefore(at)
  /\ pc = "found" => refs = FoundBefore(Len(segs) + 1)

DataInv == Given /\ ComparedSoFar /\ FoundSoFar

LEMMA InitData == Init => DataInv
<1> SUFFICES ASSUME Init PROVE DataInv
  OBVIOUS
<1>1. Given
  BY DataScanAssumption DEF Init, Given, SegType
<1>2. QED
  BY <1>1 DEF Init, DataInv, ComparedSoFar, FoundSoFar

LEMMA FoundInSegment ==
  ASSUME Given, NEW n \in DOMAIN segs
  PROVE  FoundBefore(n + 1) = FoundBefore(n) \cup (IF segs[n].data THEN RefsIn(n) ELSE {})
<1>1. DOMAIN segs = 1..Len(segs) /\ Len(segs) \in Nat /\ n \in Nat
  BY DEF Given
<1>2. \A x \in Int : HomeOf(x) \subseteq DOMAIN segs
  BY DEF HomeOf
<1>3. \A i \in DOMAIN segs : i < n + 1 <=> i < n \/ i = n
  BY <1>1
<1>4. SearchEnd(n) - 2 \in Int /\ Start(segs[n]) \in Int /\ Bytes(ref) \in Nat
  <2>1. \A i \in DOMAIN segs : Start(segs[i]) \in Nat
    BY SegmentsInOrder
  <2>2. n < Len(segs) => n + 1 \in DOMAIN segs
    BY <1>1
  <2>3. QED
    BY <2>1, <2>2, GivenBytes DEF SearchEnd
<1>5. ASSUME NEW p \in Int \X DOMAIN vars
      PROVE  p \in FoundBefore(n + 1)
               <=> p \in FoundBefore(n) \/ (segs[n].data /\ p \in RefsIn(n))
  <2>1. PICK x \in Int, k \in DOMAIN vars : p = <<x, k>>
    OBVIOUS
  <2>2. p[1] = x /\ p[2] = k
    BY <2>1
  <2>3. p \in RefsIn(n) <=> x \in Start(segs[n])..(SearchEnd(n) - 2) /\ Names(x, k)
    BY <2>1, <2>2 DEF RefsIn
  <2>4. p \in RefsIn(n)
          <=> x \in 0..(Bytes(ref) - 3) /\ n \in HomeOf(x) \cap HomeOf(x + 1) /\ Names(x, k)
    BY <2>3, WordsOfSegment
  <2>5. \A m : p \in FoundBefore(m)
                 <=> /\ x \in 0..(Bytes(ref) - 3)
                     /\ \E i \in HomeOf(x) \cap HomeOf(x + 1) : i < m /\ segs[i].data
                     /\ Names(x, k)
    BY <2>1, <2>2 DEF FoundBefore
  <2>6. QED
    BY <1>2, <1>3, <2>4, <2>5
<1>6. FoundBefore(n) \subseteq Int \X DOMAIN vars /\ FoundBefore(n + 1) \subseteq Int \X DOMAIN vars
  BY <1>4 DEF FoundBefore
<1>7. RefsIn(n) \subseteq Int \X DOMAIN vars
  BY <1>4 DEF RefsIn
<1>8. QED
  BY <1>5, <1>6, <1>7

LEMMA CompareStep ==
  ASSUME DataInv, [Next]_scan
  PROVE  ComparedSoFar'
<1> USE DEF DataInv, given, asked
<1>1. CASE Ask
  BY <1>1 DEF Ask, ComparedSoFar
<1>2. CASE BeginCompare
  <2>1. /\ UNCHANGED <<ref, tgt, segs, vars, seg, tseg, extData, at>>
        /\ pc' \in {"compare", "error"} /\ at = 0 /\ seg \in DOMAIN segs
        /\ pc' = "compare" => Comparable /\ size' = Length - Excess
    BY <1>2 DEF BeginCompare, ComparedSoFar
  <2>2. Comparable' = Comparable /\ Length' = Length /\ Excess' = Excess
    BY <2>1 DEF Comparable, Length, Excess, Ends, Behind, EndOffset, Start, Bytes
  <2>3. AllSame(at)'
    BY <2>1 DEF AllSame
  <2>4. QED
    BY <2>1, <2>2, <2>3 DEF ComparedSoFar
<1>3. CASE CompareByte \/ EndCompare
  <2>1. UNCHANGED <<ref, tgt, segs, vars, seg, tseg, extData, size>> /\ pc = "compare"
    BY <1>3 DEF CompareByte, EndCompare
  <2>2. Comparable' = Comparable /\ Length' = Length /\ Excess' = Excess
    BY <2>1 DEF Comparable, Length, Excess, Ends, Behind, EndOffset, Start, Bytes
  <2>3. \A i : (Same(i) <=> Same(i)') /\ (Ignored(i) <=> Ignored(i)')
    BY <2>1 DEF Same, Ignored, Before, InSeg, ByteAt, Start
  <2>4. at' \in Nat /\ AllSame(at)'
    <3>1. at \in Nat /\ AllSame(at)
      BY <2>1 DEF ComparedSoFar
    <3>2. CASE at' = at
      BY <2>3, <3>1, <3>2 DEF AllSame
    <3>3. CASE at' = at + 1 /\ (Same(at) \/ Ignored(at))
      <4>1. \A i \in 0..(at' - 1) : i \in 0..(at - 1) \/ i = at
        BY <3>1, <3>3
      <4>2. QED
        BY <2>3, <3>1, <3>3, <4>1 DEF AllSame
    <3>4. QED
      BY <1>3, <3>2, <3>3 DEF CompareByte, EndCompare
  <2>5. pc' \in {"compare", "match", "mismatch"} /\ (pc' = "match" => at' >= size')
    BY <1>3, <2>1 DEF CompareByte, EndCompare
  <2>6. QED
    BY <2>1, <2>2, <2>4, <2>5 DEF ComparedSoFar
<1>4. CASE BeginSearch \/ SearchSegment \/ EndSearch
  BY <1>4 DEF BeginSearch, SearchSegment, EndSearch, ComparedSoFar
<1>5. CASE UNCHANGED scan
  <2>1. UNCHANGED <<ref, tgt, segs, vars, seg, tseg, extData, size, at, pc>>
    BY <1>5 DEF scan
  <2>2. Comparable' = Comparable /\ Length' = Length /\ Excess' = Excess
    BY <2>1 DEF Comparable, Length, Excess, Ends, Behind, EndOffset, Start, Bytes
  <2>3. AllSame(at)' = AllSame(at)
    BY <2>1 DEF AllSame, Same, Ignored, Before, InSeg, ByteAt, Start
  <2>4. QED
    BY <2>1, <2>2, <2>3 DEF ComparedSoFar
<1>6. QED
  BY <1>1, <1>2, <1>3, <1>4, <1>5 DEF Next
LEMMA SearchStep ==
  ASSUME DataInv, [Next]_scan
  PROVE  FoundSoFar'
<1> USE DEF DataInv, given, asked
<1>1. CASE ~ UNCHANGED scan /\ ~ BeginSearch /\ ~ SearchSegment /\ ~ EndSearch
  BY <1>1 DEF Next, Ask, BeginCompare, CompareByte, EndCompare, FoundSoFar
<1>2. ASSUME UNCHANGED <<ref, tgt, segs, vars>>
      PROVE  \A m : FoundBefore(m) = FoundBefore(m)'
  BY <1>2 DEF FoundBefore, HomeOf, Start, Bytes, Names, WordAt
<1>3. CASE BeginSearch
  <2>1. UNCHANGED <<ref, tgt, segs, vars, refs>> /\ pc = "start"
    BY <1>3 DEF BeginSearch
  <2>2. FoundBefore(1) = {}
    <3>1. \A x : HomeOf(x) \subseteq DOMAIN segs
      BY DEF HomeOf
    <3>2. DOMAIN segs = 1..Len(segs) /\ Len(segs) \in Nat
      BY DEF Given
    <3>3. QED
      BY <3>1, <3>2 DEF FoundBefore
  <2>3. pc' = "search" => at' = 1
    BY <1>3 DEF BeginSearch
  <2>4. pc' \in {"error", "search"}
    BY <1>3 DEF BeginSearch
  <2>5. Len(segs) \in Nat /\ refs = {}
    BY <2>1 DEF Given, FoundSoFar
  <2>6. FoundBefore(1)' = {}
    BY <1>2, <2>1, <2>2
  <2>7. 1 \in 1..(Len(segs) + 1)
    BY <2>5
  <2>8. QED
    BY <2>1, <2>3, <2>4, <2>5, <2>6, <2>7 DEF FoundSoFar
<1>4. CASE SearchSegment
  <2>1. /\ UNCHANGED <<ref, tgt, segs, vars, pc>> /\ pc = "search" /\ at <= Len(segs)
        /\ at' = at + 1
        /\ refs' = refs \cup (IF segs[at].data THEN RefsIn(at) ELSE {})
    BY <1>4 DEF SearchSegment
  <2>2. at \in 1..(Len(segs) + 1) /\ refs = FoundBefore(at) /\ Len(segs) \in Nat
    BY <2>1 DEF FoundSoFar, Given
  <2>3. at \in DOMAIN segs /\ at + 1 \in 1..(Len(segs) + 1)
    BY <2>1, <2>2 DEF Given
  <2>4. refs' = FoundBefore(at + 1)
    BY <2>1, <2>2, <2>3, FoundInSegment
  <2>5. refs' = FoundBefore(at)'
    BY <1>2, <2>1, <2>4
  <2>6. QED
    BY <2>1, <2>3, <2>5 DEF FoundSoFar
<1>5. CASE EndSearch
  <2>1. /\ UNCHANGED <<ref, tgt, segs, vars, at, refs>> /\ pc = "search" /\ pc' = "found"
        /\ at > Len(segs)
    BY <1>5 DEF EndSearch
  <2>2. at \in 1..(Len(segs) + 1) /\ refs = FoundBefore(at) /\ Len(segs) \in Nat
    BY <2>1 DEF FoundSoFar, Given
  <2>3. at = Len(segs) + 1
    BY <2>1, <2>2
  <2>4. FoundBefore(Len(segs) + 1) = FoundBefore(Len(segs) + 1)'
    BY <1>2, <2>1
  <2>5. QED
    BY <2>1, <2>2, <2>3, <2>4 DEF FoundSoFar
<1>6. CASE UNCHANGED scan
  <2>1. UNCHANGED <<ref, tgt, segs, vars, at, refs, pc>>
    BY <1>6 DEF scan
  <2>2. FoundBefore(at) = FoundBefore(at)' /\ FoundBefore(Len(segs) + 1) = FoundBefore(Len(segs) + 1)'
    BY <1>2, <2>1
  <2>3. QED
    BY <2>1, <2>2 DEF FoundSoFar
<1>7. QED
  BY <1>1, <1>3, <1>4, <1>5, <1>6

LEMMA DataInvariant == Spec => []DataInv
<1>1. ASSUME DataInv, [Next]_scan PROVE Given'
  <2>1. UNCHANGED <<ref, tgt, segs, vars, tseg>>
    BY <1>1 DEF Next, Ask, BeginCompare, CompareByte, EndCompare, BeginSearch, SearchSegment,
                EndSearch, scan, given, asked
  <2>2. QED
    BY <1>1, <2>1 DEF DataInv, Given
<1>2. DataInv /\ [Next]_scan => DataInv'
  BY <1>1, CompareStep, SearchStep DEF DataInv
<1>3. QED
  BY <1>2, InitData, PTL DEF Spec

(* compareData answers that two segments match only when every byte of the *)
(* segment that both images have is the same, or is laid to an external    *)
(* variable, but for the last byte of the reference: no length it works    *)
(* out from the segments that follow stops it early.                       *)
THEOREM MatchComparesAll == Spec => []MatchMeansEqual
<1>1. DataInv => MatchMeansEqual
  <2> SUFFICES ASSUME DataInv, pc = "match", NEW x \in DOMAIN ref \ {Bytes(ref) - 1},
                      seg \in HomeOf(x), x - Start(segs[seg]) < SegSize,
                      Start(tseg) + (x - Start(segs[seg])) \in DOMAIN tgt
               PROVE  Same(x - Start(segs[seg])) \/ Ignored(x - Start(segs[seg]))
    BY Zenon DEF MatchMeansEqual
  <2> DEFINE i == x - Start(segs[seg])
  <2>1. /\ Given /\ seg \in DOMAIN segs /\ Comparable /\ at \in Nat /\ AllSame(at)
        /\ at >= size /\ size = Length - Excess
    BY DEF DataInv, ComparedSoFar
  <2>2. i \in Nat /\ i < size /\ size \in Int
    BY <2>1, WholeSegment
  <2> HIDE DEF i
  <2>3. i \in 0..(at - 1)
    BY <2>1, <2>2
  <2>4. QED
    BY <2>1, <2>3 DEF AllSame, i
<1>2. QED
  BY <1>1, DataInvariant, PTL

(* findDataRefs finds every word that lies within a data segment and is    *)
(* the offset of a variable, but for the word the image ends with, and     *)
(* nothing that straddles two segments or lies in code.                    *)
THEOREM SearchFindsAll == Spec => []RefsAreDataWords
<1>1. DataInv => RefsAreDataWords
  <2> SUFFICES ASSUME DataInv, pc = "found" PROVE RefsAreDataWords
    BY DEF RefsAreDataWords
  <2>1. Given /\ refs = FoundBefore(Len(segs) + 1)
    BY DEF DataInv, FoundSoFar
  <2>2. \A i \in DOMAIN segs : i < Len(segs) + 1
    BY <2>1 DEF Given
  <2>3. \A x : HomeOf(x) \subseteq DOMAIN segs
    BY DEF HomeOf
  <2>4. \A x : (\E i \in HomeOf(x) \cap HomeOf(x + 1) : i < Len(segs) + 1 /\ segs[i].data)
                 <=> \E i \in HomeOf(x) \cap HomeOf(x + 1) : segs[i].data
    BY <2>2, <2>3, Zenon
  <2>5. QED
    BY <2>1, <2>4 DEF RefsAreDataWords, FoundBefore
<1>2. QED
  BY <1>1, DataInvariant, PTL
=============================================================================
