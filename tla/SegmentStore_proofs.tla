------------------------ MODULE SegmentStore_proofs ------------------------
(***************************************************************************)
(* What any sequence of storeSegment calls keeps of the segment table, for *)
(* every size of image and every segment asked for.  The type of the table *)
(* and the uniqueness of its addresses are proved together: the lookup of  *)
(* a segment by address needs both.                                        *)
(***************************************************************************)
EXTENDS SegmentStore, QueueTableLemmas

-----------------------------------------------------------------------------
(* Every table the specification reaches is one. *)
LEMMA TableInvariant == TableSpec => [](segments \in Tables)
<1>1. TableInit => segments \in Tables
  BY DEF TableInit, Tables, Distinct
<1>2. segments \in Tables /\ [TableNext]_segments => (segments \in Tables)'
  <2> SUFFICES ASSUME segments \in Tables, [TableNext]_segments
               PROVE  segments' \in Tables
    OBVIOUS
  <2>1. ASSUME NEW name \in UserNames \cup {NoName}, NEW type \in SegTypes,
               NEW addr \in Addrs, Store(name, type, addr)
        PROVE  segments' \in Tables
    <3>1. name \in Names \cup {NoName} /\ addr \in Int
      BY <2>1, StoreAssumption
    <3>2. QED
      BY <2>1, <3>1, StoreSegmentType DEF Store
  <2>2. CASE ClearSegments
    BY <2>2 DEF ClearSegments, Tables, Distinct
  <2>3. CASE UNCHANGED segments
    BY <2>3
  <2>4. QED
    BY <2>1, <2>2, <2>3 DEF TableNext
<1>3. QED
  BY <1>1, <1>2, PTL DEF TableSpec

(* The table is always a list of named segments. *)
THEOREM TableTypeCorrect == TableSpec => []TableTypeOK
<1>1. segments \in Tables => TableTypeOK
  BY DEF Tables, TableTypeOK
<1>2. QED
  BY <1>1, TableInvariant, PTL

(* Replacing a stack segment and refusing a known address never leave two  *)
(* segments at one address, so getSegment(Word) has one answer.            *)
THEOREM TableAddressesUnique == TableSpec => []OneSegmentPerAddress
<1>1. segments \in Tables => OneSegmentPerAddress
  BY DEF Tables, Distinct, OneSegmentPerAddress
<1>2. QED
  BY <1>1, TableInvariant, PTL

(* While a table lives, an address keeps a segment, and only a STACK one   *)
(* ever changes its type.                                                  *)
THEOREM TableTypesStable == TableSpec => TypeOnlyFromStackToData
<1>1. segments \in Tables /\ [TableNext]_segments
        => [segments' # << >> => Keeps(segments, segments')]_segments
  <2> SUFFICES ASSUME segments \in Tables, TableNext, segments' # << >>
               PROVE  Keeps(segments, segments')
    OBVIOUS
  <2>1. PICK name \in UserNames \cup {NoName}, type \in SegTypes, addr \in Addrs :
          Store(name, type, addr)
    BY DEF TableNext, ClearSegments
  <2>2. name \in Names \cup {NoName} /\ addr \in Int
    BY <2>1, StoreAssumption
  <2>3. QED
    BY <2>1, <2>2, StoreSegmentKeeps DEF Store
<1>2. [segments' # << >> => Keeps(segments, segments')]_segments
        => [segments' # << >> =>
              \A i \in DOMAIN segments : \E j \in DOMAIN segments' :
                /\ segments'[j].addr = segments[i].addr
                /\ \/ segments'[j].type = segments[i].type
                   \/ segments[i].type = "STACK" /\ segments'[j].type = "DATA"]_segments
  BY DEF Keeps
<1>3. QED
  BY <1>1, <1>2, TableInvariant, PTL DEF TableSpec, TypeOnlyFromStackToData
-----------------------------------------------------------------------------
(* Automatic names. *)
Indices(segs, type) == {i \in DOMAIN segs : segs[i].type = type}

LEMMA IndicesFinite ==
  ASSUME NEW segs \in Seq(Segments), NEW type
  PROVE  IsFiniteSet(Indices(segs, type)) /\ CountOfType(segs, type) = Cardinality(Indices(segs, type))
<1>1. DOMAIN segs = 1..Len(segs) /\ Len(segs) \in Nat
  OBVIOUS
<1>2. IsFiniteSet(DOMAIN segs)
  BY <1>1, FS_Interval
<1>3. QED
  BY <1>2, FS_Subset DEF Indices, CountOfType

LEMMA NameNumber ==
  ASSUME NEW segs \in Seq(Segments), NEW i \in DOMAIN segs
  PROVE  segs[i].name[2] \in Nat
<1>1. segs[i] \in Segments
  OBVIOUS
<1>2. segs[i].name \in (SegTypes \cup {"user"}) \X Nat
  BY <1>1 DEF Segments, Names
<1>3. QED
  BY <1>2

(* A segment more counts for its own type only. *)
LEMMA CountAppended ==
  ASSUME NEW segs \in Seq(Segments), NEW new \in Segments, NEW type
  PROVE  CountOfType(Append(segs, new), type)
           = CountOfType(segs, type) + (IF new.type = type THEN 1 ELSE 0)
<1> DEFINE grown == Append(segs, new)
           n == Len(segs) + 1
<1>1. /\ grown \in Seq(Segments) /\ DOMAIN grown = 1..n /\ n \in Nat \ {0}
      /\ DOMAIN segs = 1..(n - 1) /\ grown[n] = new
      /\ \A i \in DOMAIN segs : grown[i] = segs[i]
  OBVIOUS
<1> HIDE DEF grown, n
<1>2. CountOfType(segs, type) \in Nat
  BY CountOfTypeIsNat
<1>3. CASE new.type = type
  <2>1. n \notin Indices(segs, type)
    BY <1>1 DEF Indices
  <2>2. /\ DOMAIN grown = DOMAIN segs \cup {n}
        /\ grown[n].type = type
    BY <1>1, <1>3
  <2>3. Indices(grown, type) = Indices(segs, type) \cup {n}
    <3>1. \A i : i \in Indices(grown, type) <=> i \in Indices(segs, type) \/ i = n
      BY <1>1, <2>2 DEF Indices
    <3>2. QED
      BY <3>1
  <2>4. Cardinality(Indices(grown, type)) = Cardinality(Indices(segs, type)) + 1
    BY <2>1, <2>3, IndicesFinite, FS_AddElement
  <2>5. CountOfType(grown, type) = CountOfType(segs, type) + 1
    BY <1>1, <2>4, IndicesFinite
  <2>6. QED
    BY <1>3, <2>5 DEF grown
<1>4. CASE new.type # type
  <2>1. Indices(grown, type) = Indices(segs, type)
    BY <1>1, <1>4 DEF Indices
  <2>2. CountOfType(grown, type) = CountOfType(segs, type)
    BY <1>1, <2>1, IndicesFinite
  <2>3. QED
    BY <1>2, <1>4, <2>2 DEF grown
<1>5. QED
  BY <1>3, <1>4

(* A segment less does not lower the count of any other type. *)
LEMMA CountRemoved ==
  ASSUME NEW segs \in Tables, NEW at \in DOMAIN segs, NEW type, segs[at].type # type
  PROVE  CountOfType(segs, type) <= CountOfType(RemoveSegment(segs, at), type)
<1> DEFINE rest == RemoveSegment(segs, at)
           moved == [i \in Indices(segs, type) |-> IF i < at THEN i ELSE i - 1]
<1>1. /\ segs \in Seq(Segments) /\ Len(segs) \in Nat /\ DOMAIN segs = 1..Len(segs)
      /\ at \in 1..Len(segs) /\ rest \in Seq(Segments)
  BY RemoveSegmentType DEF Tables
<1>2. /\ DOMAIN rest = 1..(Len(segs) - 1)
      /\ \A j \in 1..(Len(segs) - 1) : rest[j] = IF j < at THEN segs[j] ELSE segs[j + 1]
  BY DEF RemoveSegment
<1> HIDE DEF rest
<1>3. ASSUME NEW i \in Indices(segs, type)
      PROVE  /\ i \in 1..Len(segs) /\ i # at
             /\ (IF i < at THEN i ELSE i - 1) \in Indices(rest, type)
  <2>1. i \in 1..Len(segs) /\ segs[i].type = type /\ i # at
    BY <1>1 DEF Indices
  <2>2. CASE i < at
    BY <1>1, <1>2, <2>1, <2>2 DEF Indices
  <2>3. CASE i > at
    <3>1. i - 1 \in 1..(Len(segs) - 1) /\ ~(i - 1 < at)
      BY <1>1, <2>1, <2>3
    <3>2. rest[i - 1] = segs[(i - 1) + 1]
      BY <1>2, <3>1
    <3>3. (i - 1) + 1 = i
      BY <2>1
    <3>4. QED
      BY <1>2, <2>1, <2>3, <3>1, <3>2, <3>3 DEF Indices
  <2>4. QED
    BY <1>1, <2>1, <2>2, <2>3
<1>4. moved \in Injection(Indices(segs, type), Indices(rest, type))
  <2>1. moved \in [Indices(segs, type) -> Indices(rest, type)]
    BY <1>3
  <2>2. ASSUME NEW i \in Indices(segs, type), NEW j \in Indices(segs, type),
               moved[i] = moved[j]
        PROVE  i = j
    <3>1. i \in Nat /\ j \in Nat /\ i # at /\ j # at /\ at \in Nat
      BY <1>1, <1>3
    <3>2. (IF i < at THEN i ELSE i - 1) = (IF j < at THEN j ELSE j - 1)
      BY <2>2
    <3>3. QED
      BY <3>1, <3>2
  <2>3. QED
    BY <2>1, <2>2 DEF Injection, IsInjective
<1> HIDE DEF moved
<1>5. Cardinality(Indices(segs, type)) <= Cardinality(Indices(rest, type))
  BY <1>1, <1>4, IndicesFinite, FS_Injection
<1>6. QED
  BY <1>1, <1>5, IndicesFinite DEF rest

(* A code or data segment's automatic name is of its own type, numbered no *)
(* higher than the segments of that type there are, and no two share one.  *)
Automatic(segment) == segment.name[1] \in {"CODE", "DATA"}

Numbered(segs) ==
  /\ \A i \in DOMAIN segs :
       Automatic(segs[i]) =>
         /\ segs[i].type = segs[i].name[1]
         /\ segs[i].name[2] <= CountOfType(segs, segs[i].type)
  /\ \A i, j \in DOMAIN segs :
       Automatic(segs[i]) /\ segs[i].name = segs[j].name => i = j

LEMMA AddKeepsNumbers ==
  ASSUME NEW segs \in Seq(Segments), Numbered(segs),
         NEW name \in UserNames \cup {NoName}, NamesGiven,
         NEW type \in SegTypes, NEW addr \in Byte
  PROVE  Numbered(AddSegment(segs, name, type, addr))
<1> DEFINE count == CountOfType(segs, type)
           full == IF name = NoName THEN AutoName(type, count + 1) ELSE name
           new == [name |-> full, type |-> type, addr |-> addr]
           grown == Append(segs, new)
           n == Len(segs) + 1
<1>1. count \in Nat
  BY CountOfTypeIsNat
<1>2. full \in Names
  BY StoreAssumption, NewNameType
<1>3. full[1] \in {"CODE", "DATA"} => full = <<type, count + 1>>
  <2>1. CASE name = NoName
    BY <2>1 DEF AutoName
  <2>2. CASE name # NoName
    BY <2>2 DEF NamesGiven, SegTypes
  <2>3. QED
    BY <2>1, <2>2
<1> HIDE DEF full, count
<1>4. new \in Segments /\ new.name = full /\ new.type = type
  BY <1>2, SizeAssumption DEF Segments, Byte
<1> HIDE DEF new
<1>5. /\ DOMAIN grown = 1..n /\ n \in Nat /\ DOMAIN segs = 1..(n - 1)
      /\ grown[n] = new /\ \A i \in DOMAIN segs : grown[i] = segs[i]
  BY <1>4
<1>6. \A t : /\ CountOfType(segs, t) \in Nat
             /\ CountOfType(grown, t) = CountOfType(segs, t) + (IF type = t THEN 1 ELSE 0)
  BY <1>4, CountAppended, CountOfTypeIsNat
<1> HIDE DEF grown, n
<1>7. ASSUME NEW i \in DOMAIN grown, Automatic(grown[i])
      PROVE  /\ grown[i].type = grown[i].name[1]
             /\ grown[i].name[2] <= CountOfType(grown, grown[i].type)
  <2>1. CASE i \in DOMAIN segs
    <3>1. /\ segs[i].type = segs[i].name[1]
          /\ segs[i].name[2] <= CountOfType(segs, segs[i].type)
      BY <1>5, <1>7, <2>1 DEF Numbered
    <3>2. segs[i].name[2] \in Int
      BY <2>1, NameNumber
    <3>3. CountOfType(segs, segs[i].type) <= CountOfType(grown, segs[i].type)
      BY <1>6
    <3>4. segs[i].name[2] <= CountOfType(grown, segs[i].type)
      BY <1>6, <3>1, <3>2, <3>3
    <3>5. QED
      BY <1>5, <2>1, <3>1, <3>4
  <2>2. CASE i = n
    <3>1. full = <<type, count + 1>>
      BY <1>3, <1>4, <1>5, <1>7, <2>2 DEF Automatic
    <3>2. CountOfType(grown, type) = count + 1
      BY <1>6 DEF count
    <3>3. QED
      BY <1>1, <1>4, <1>5, <2>2, <3>1, <3>2
  <2>3. QED
    BY <1>5, <2>1, <2>2
<1>8. ASSUME NEW i \in DOMAIN segs, Automatic(segs[i]) \/ full[1] \in {"CODE", "DATA"}
      PROVE  segs[i].name # full
  <2> SUFFICES ASSUME segs[i].name = full PROVE FALSE
    OBVIOUS
  <2>1. Automatic(segs[i]) /\ full = <<type, count + 1>>
    BY <1>3, <1>8 DEF Automatic
  <2>2. segs[i].type = type /\ count + 1 <= count
    BY <2>1 DEF Numbered, count
  <2>3. QED
    BY <1>1, <2>2
<1>9. ASSUME NEW i \in DOMAIN grown, NEW j \in DOMAIN grown,
             Automatic(grown[i]), grown[i].name = grown[j].name
      PROVE  i = j
  <2>1. CASE i \in DOMAIN segs /\ j \in DOMAIN segs
    BY <1>5, <1>9, <2>1 DEF Numbered
  <2>2. CASE i = n /\ j = n
    BY <2>2
  <2>3. CASE i \in DOMAIN segs /\ j = n
    BY <1>4, <1>5, <1>8, <1>9, <2>3
  <2>4. CASE i = n /\ j \in DOMAIN segs
    BY <1>4, <1>5, <1>8, <1>9, <2>4 DEF Automatic
  <2>5. QED
    BY <1>5, <2>1, <2>2, <2>3, <2>4
<1>10. Numbered(grown)
  BY <1>7, <1>9 DEF Numbered
<1>11. QED
  BY <1>10 DEF AddSegment, grown, new, full, count

(* A stack segment is never automatic in this sense: taking one away       *)
(* leaves the numbers of the others in range.                              *)
LEMMA RemoveKeepsNumbers ==
  ASSUME NEW segs \in Tables, Numbered(segs),
         NEW at \in DOMAIN segs, segs[at].type = "STACK"
  PROVE  Numbered(RemoveSegment(segs, at))
<1> DEFINE rest == RemoveSegment(segs, at)
<1>1. /\ segs \in Seq(Segments) /\ Len(segs) \in Nat /\ DOMAIN segs = 1..Len(segs)
      /\ at \in 1..Len(segs) /\ rest \in Seq(Segments)
  BY RemoveSegmentType DEF Tables
<1>2. /\ DOMAIN rest = 1..(Len(segs) - 1)
      /\ \A j \in 1..(Len(segs) - 1) : rest[j] = IF j < at THEN segs[j] ELSE segs[j + 1]
  BY DEF RemoveSegment
<1>3. \A t : t # "STACK" => CountOfType(segs, t) <= CountOfType(rest, t)
  BY CountRemoved
<1> HIDE DEF rest
<1> DEFINE from(j) == IF j < at THEN j ELSE j + 1
<1>4. ASSUME NEW j \in DOMAIN rest
      PROVE  from(j) \in DOMAIN segs /\ rest[j] = segs[from(j)] /\ j \in Int
  BY <1>1, <1>2
<1>5. \A i, j \in DOMAIN rest : from(i) = from(j) => i = j
  BY <1>1, <1>2
<1> HIDE DEF from
<1>6. ASSUME NEW j \in DOMAIN rest, Automatic(rest[j])
      PROVE  /\ rest[j].type = rest[j].name[1]
             /\ rest[j].name[2] <= CountOfType(rest, rest[j].type)
  <2>1. /\ rest[j].type = rest[j].name[1] /\ rest[j].type # "STACK"
        /\ rest[j].name[2] <= CountOfType(segs, rest[j].type)
    BY <1>4, <1>6 DEF Numbered, Automatic
  <2>2. CountOfType(segs, rest[j].type) <= CountOfType(rest, rest[j].type)
    BY <1>3, <2>1
  <2>3. /\ CountOfType(segs, rest[j].type) \in Int /\ CountOfType(rest, rest[j].type) \in Int
        /\ rest[j].name[2] \in Int
    BY <1>1, CountOfTypeIsNat, NameNumber
  <2>4. QED
    BY <2>1, <2>2, <2>3
<1>7. \A i, j \in DOMAIN rest : Automatic(rest[i]) /\ rest[i].name = rest[j].name => i = j
  BY <1>4, <1>5 DEF Numbered
<1>8. QED
  BY <1>6, <1>7 DEF Numbered, rest

(* storeSegment keeps the numbering. *)
LEMMA StoreKeepsNumbers ==
  ASSUME NEW segs \in Tables, Numbered(segs),
         NEW name \in UserNames \cup {NoName}, NamesGiven,
         NEW type \in SegTypes, NEW addr \in Int
  PROVE  Numbered(StoreSegment(segs, name, type, addr))
<1>1. CASE StoreSegment(segs, name, type, addr) = segs
  BY <1>1
<1>2. CASE addr \in Byte /\ ~HasSegment(segs, addr)
  BY <1>2, AddKeepsNumbers DEF StoreSegment, Tables
<1>3. CASE /\ addr \in Byte /\ HasSegment(segs, addr)
           /\ segs[IndexAt(segs, addr)].type = "STACK" /\ type = "DATA"
  <2>1. IndexAt(segs, addr) \in DOMAIN segs
    BY <1>3, IndexAtFinds
  <2>2. RemoveSegment(segs, IndexAt(segs, addr)) \in Seq(Segments)
    BY <2>1, RemoveSegmentType DEF Tables
  <2>3. Numbered(RemoveSegment(segs, IndexAt(segs, addr)))
    BY <1>3, <2>1, RemoveKeepsNumbers
  <2>4. QED
    BY <1>3, <2>2, <2>3, AddKeepsNumbers DEF StoreSegment
<1>4. QED
  BY <1>1, <1>2, <1>3 DEF StoreSegment

(* No two code or data segments share an automatic name, however segments  *)
(* come and stack segments turn out to be data: findSegment by name, and a *)
(* saved map, mean one segment.                                            *)
THEOREM AutomaticNamesUnique ==
  ASSUME NamesGiven
  PROVE  TableSpec => []CodeAndDataNamesUnique
<1> DEFINE Inv == segments \in Tables /\ Numbered(segments)
<1>1. TableInit => Numbered(segments)
  BY DEF TableInit, Numbered
<1>2. segments \in Tables /\ Numbered(segments) /\ [TableNext]_segments => Numbered(segments)'
  <2> SUFFICES ASSUME segments \in Tables, Numbered(segments), [TableNext]_segments
               PROVE  Numbered(segments')
    BY DEF Numbered, Automatic, CountOfType
  <2>1. ASSUME NEW name \in UserNames \cup {NoName}, NEW type \in SegTypes,
               NEW addr \in Addrs, Store(name, type, addr)
        PROVE  Numbered(segments')
    BY <2>1, StoreAssumption, StoreKeepsNumbers DEF Store
  <2>2. CASE ClearSegments
    BY <2>2 DEF ClearSegments, Numbered
  <2>3. CASE UNCHANGED segments
    BY <2>3
  <2>4. QED
    BY <2>1, <2>2, <2>3 DEF TableNext
<1>3. Numbered(segments) => CodeAndDataNamesUnique
  BY DEF Numbered, Automatic, CodeAndDataNamesUnique
<1>4. QED
  BY <1>1, <1>2, <1>3, TableInvariant, PTL DEF TableSpec
=============================================================================
