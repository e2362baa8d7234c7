------------------------------ MODULE DataScan ------------------------------
(***************************************************************************)
(* The two passes over data: compareData of mzdiff --data, which compares  *)
(* a data segment of two executables byte by byte, and findDataRefs of     *)
(* mzptr, which looks for words that could be offsets of variables         *)
(* (analysis.cpp).                                                         *)
(*                                                                         *)
(* Addresses are taken from the load segment on, as compareData does; a    *)
(* map has its segments and variables sorted (CodeMap::sort).              *)
(***************************************************************************)
EXTENDS Naturals, Sequences, FiniteSetsExt

CONSTANTS RefSizes, TgtSizes, \* sizes of the load modules
          ByteBase,           \* 256: values of a byte
          ParaSize, SegSize,  \* 16 and 64K
          SegLists,           \* segments of a map, by increasing base
          TgtSegs,            \* segments the target's map may have
          VarLists            \* variables of the reference, by address

(* CodeMap::sort leaves the segments by base, which two may share.         *)
ByBase(list) == \A i, j \in DOMAIN list : i < j => list[i].base <= list[j].base

ASSUME DataScanAssumption ==
  /\ RefSizes \subseteq Nat /\ TgtSizes \subseteq Nat
  /\ ParaSize \in Nat /\ SegSize \in Nat
  /\ \A list \in SegLists : list \in Seq([base : Nat, data : BOOLEAN]) /\ ByBase(list)
  /\ \A s \in TgtSegs : s \in [base : Nat, data : BOOLEAN]

VARIABLES ref, tgt,           \* the bytes of the two load modules
          segs, vars,         \* the reference's map
          seg, tseg,          \* the segments asked for, the first by index
          extData,            \* Options::extData
          size,               \* compareSize
          at,                 \* next byte to compare, next segment to search
          refs,               \* references found: place and variable
          pc

given == <<ref, tgt, segs, vars>>
asked == <<seg, tseg, extData>>
scan == <<given, asked, size, at, refs, pc>>

Image(n) == [0..(n - 1) -> 0..(ByteBase - 1)]
Bytes(image) == Cardinality(DOMAIN image)

(* What memory holds past a load module: Memory fills it with a pattern,   *)
(* here one byte of it. *)
Pattern == ByteBase - 1
ByteAt(image, x) == IF x \in DOMAIN image THEN image[x] ELSE Pattern

Start(s) == s.base * ParaSize

Init ==
  /\ \E n \in RefSizes : ref \in Image(n)
  /\ \E n \in TgtSizes : tgt \in Image(n)
  /\ segs \in SegLists /\ vars \in VarLists
  /\ seg = 1 /\ tseg \in TgtSegs /\ extData = FALSE
  /\ size = 0 /\ at = 0 /\ refs = {} /\ pc = "start"

-----------------------------------------------------------------------------
(* The extent of the comparison.                                           *)

(* Each segment past the end found so far becomes the end.                 *)
Ends == {segs[i].base : i \in {j \in DOMAIN segs :
           segs[j].base > segs[seg].base /\ Start(segs[j]) < Bytes(ref)}}

(* What is left of the image behind the segment's first byte; the segment  *)
(* ends with it, at its last byte, or 64K on. *)
Behind == Bytes(ref) - Start(segs[seg]) - 1

EndOffset == IF Ends = {} /\ Behind < SegSize THEN Behind ELSE 0

(* Mutated form: the end is inclusive whatever it is.                      *)
LengthInclusive ==
  IF Ends # {} THEN Max(Ends) * ParaSize - Start(segs[seg]) - 1
  ELSE IF Behind < SegSize THEN Behind ELSE SegSize

Length ==
  IF Ends # {} THEN Max(Ends) * ParaSize - Start(segs[seg])
  ELSE IF Behind < SegSize THEN Behind ELSE SegSize

(* The target's end is the offset of the reference's end in its segment.   *)
Excess ==
  LET end == Start(tseg) + EndOffset
  IN IF end >= Bytes(tgt) THEN end - Bytes(tgt) ELSE 0

Comparable ==
  /\ segs[seg].data /\ tseg.data
  /\ Start(segs[seg]) < Bytes(ref) /\ Start(tseg) < Bytes(tgt)
  /\ Length <= SegSize

(* The segments are looked up by the names given to mzdiff.                *)
Ask ==
  /\ pc = "start"
  /\ seg' \in DOMAIN segs /\ extData' \in BOOLEAN
  /\ pc' = "asked"
  /\ UNCHANGED <<given, tseg, size, at, refs>>

BeginCompare ==
  /\ pc = "asked"
  /\ IF Comparable THEN pc' = "compare" /\ size' = Length - Excess
                   ELSE pc' = "error" /\ size' = 0
  /\ UNCHANGED <<given, asked, at, refs>>

-----------------------------------------------------------------------------
(* The comparison.                                                         *)

InSeg(k) == vars[k].base = segs[seg].base

(* The variable a mismatch is laid to: the last one not behind it, or else *)
(* the first of the segment.                                               *)
Before(off) ==
  LET all == {k \in DOMAIN vars : InSeg(k)}
      sooner == {k \in all : vars[k].off <= off}
  IN IF sooner # {} THEN {Max(sooner)} ELSE IF all # {} THEN {Min(all)} ELSE {}

Same(i) == ref[Start(segs[seg]) + i] = ByteAt(tgt, Start(tseg) + i)
Ignored(i) == ~extData /\ \E k \in Before(i) : vars[k].external

CompareByte ==
  /\ pc = "compare" /\ at < size
  /\ IF Same(at) \/ Ignored(at) THEN at' = at + 1 /\ UNCHANGED pc
                                ELSE pc' = "mismatch" /\ UNCHANGED at
  /\ UNCHANGED <<given, asked, size, refs>>

EndCompare ==
  /\ pc = "compare" /\ at >= size
  /\ pc' = "match"
  /\ UNCHANGED <<given, asked, size, at, refs>>

-----------------------------------------------------------------------------
(* The search for references.                                              *)

(* No variables, no search.                                                *)
BeginSearch ==
  /\ pc = "start"
  /\ IF vars = << >> THEN pc' = "error" /\ UNCHANGED at ELSE pc' = "search" /\ at' = 1
  /\ UNCHANGED <<given, asked, size, refs>>

(* Mutated form: the end of every segment is its last byte.                *)
SearchEndInclusive(i) ==
  IF i < Len(segs) /\ Start(segs[i + 1]) < Bytes(ref) THEN Start(segs[i + 1]) - 1
  ELSE Bytes(ref) - 1

SearchEnd(i) ==
  IF i < Len(segs) /\ Start(segs[i + 1]) < Bytes(ref) THEN Start(segs[i + 1])
  ELSE Bytes(ref) - 1

WordAt(x) == ref[x] + ByteBase * ref[x + 1]

(* Words that lie before the end; zero is no reference.                    *)
Names(x, k) == WordAt(x) # 0 /\ WordAt(x) = vars[k].off

RefsIn(i) ==
  {p \in (Start(segs[i])..(SearchEnd(i) - 2)) \X DOMAIN vars : Names(p[1], p[2])}

(* mzptr loads at segment 0x1000, so no end is near zero, where the code's *)
(* unsigned arithmetic would wrap around.                                  *)
SearchSegment ==
  /\ pc = "search" /\ at <= Len(segs)
  /\ IF ~segs[at].data THEN at' = at + 1 /\ UNCHANGED <<refs, pc>>
     ELSE refs' = refs \cup RefsIn(at) /\ at' = at + 1 /\ UNCHANGED pc
  /\ UNCHANGED <<given, asked, size>>

EndSearch ==
  /\ pc = "search" /\ at > Len(segs)
  /\ pc' = "found"
  /\ UNCHANGED <<given, asked, size, at, refs>>

Next == Ask \/ BeginCompare \/ CompareByte \/ EndCompare \/ BeginSearch \/ SearchSegment \/ EndSearch

Spec == Init /\ [][Next]_scan

-----------------------------------------------------------------------------
(* The segment a byte belongs to: the last one that starts at or before it. *)
HomeOf(x) == {i \in DOMAIN segs :
                /\ Start(segs[i]) <= x
                /\ \A j \in DOMAIN segs : Start(segs[j]) <= x => j <= i}

(* A match vouches for every byte of the segment asked for that both       *)
(* images have, but for differences laid to an external variable and for   *)
(* the last byte of the reference, which the length leaves out             *)
(* (compareData; analysis.cpp:841 takes size - 1 for an end that is        *)
(* exclusive everywhere else). *)
MatchMeansEqual ==
  pc = "match" =>
    \A x \in DOMAIN ref \ {Bytes(ref) - 1} :
      LET i == x - Start(segs[seg])
      IN /\ seg \in HomeOf(x)
         /\ i < SegSize
         /\ Start(tseg) + i \in DOMAIN tgt
         => Same(i) \/ Ignored(i)

(* The search finds every word that lies within one data segment and is    *)
(* the offset of a variable, and nothing else, but for the word the image  *)
(* ends with (findDataRefs, whose end of a segment is sometimes exclusive  *)
(* and sometimes not). *)
RefsAreDataWords ==
  pc = "found" =>
    refs = {p \in (0..(Bytes(ref) - 3)) \X DOMAIN vars :
              /\ \E i \in HomeOf(p[1]) \cap HomeOf(p[1] + 1) : segs[i].data
              /\ Names(p[1], p[2])}

(* "find segment past the segment we are looking at" (analysis.cpp:832):   *)
(* the comparison does not reach into a segment with a greater base.       *)
EndsAtNextSegment ==
  pc = "compare" =>
    \A j \in DOMAIN segs :
      segs[j].base > segs[seg].base => Start(segs[seg]) + size <= Start(segs[j])
=============================================================================
