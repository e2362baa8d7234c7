-------------------------- MODULE QueueTableLemmas --------------------------
(***************************************************************************)
(* What address arithmetic and the operations of the segment table and of  *)
(* the search queue do, for every size of image: lemmas about the          *)
(* operators of Image, SegmentTable and ScanQueue, for the proofs about    *)
(* the specifications built from them; and the facts about numbers those   *)
(* proofs need.                                                            *)
(***************************************************************************)
EXTENDS ScanQueue, SegmentTable, SegmentOrder, FiniteSetTheorems, WellFoundedInduction, TLAPS

-----------------------------------------------------------------------------
(* Numbers.  That a set of naturals has a least member stands in for       *)
(* induction: the least counterexample is the step that would fail.        *)

LEMMA LeastExists ==
  ASSUME NEW S, S \subseteq Nat, S # {}
  PROVE  \E x \in S : \A y \in S : x <= y
<1> DEFINE R == OpToRel(<, Nat)
<1>1. IsWellFoundedOn(R, Nat)
  BY NatLessThanWellFounded
<1>2. PICK x \in S : \A y \in S : ~ (<<y, x>> \in R)
  <2> HIDE DEF R
  <2>1. QED
    BY <1>1, WFMin
<1>3. ASSUME NEW y \in S, y < x PROVE <<y, x>> \in R
  BY <1>3 DEF OpToRel
<1> HIDE DEF R
<1>4. \A y \in S : y < x \/ x <= y
  OBVIOUS
<1>5. QED
  BY <1>2, <1>3, <1>4

(* A bounded set has a greatest member: the one least far from the bound.  *)
LEMMA GreatestExists ==
  ASSUME NEW S, S \subseteq Nat, S # {}, NEW n \in Nat, \A s \in S : s <= n
  PROVE  \E x \in S : \A y \in S : x >= y
<1> DEFINE T == {n - s : s \in S}
<1>1. T \subseteq Nat /\ T # {}
  <2>1. \A s \in S : s \in Nat /\ s <= n
    OBVIOUS
  <2>2. \A s \in S : n - s \in Nat
    BY <2>1
  <2>3. QED
    BY <2>2
<1>2. PICK t \in T : \A u \in T : t <= u
  <2> HIDE DEF T
  <2>1. QED
    BY <1>1, LeastExists
<1>3. PICK x \in S : t = n - x
  OBVIOUS
<1>4. ASSUME NEW y \in S PROVE x >= y
  <2>1. n - y \in T
    OBVIOUS
  <2> HIDE DEF T
  <2>2. QED
    BY <2>1, <1>2, <1>3
<1>5. QED
  BY <1>4

(* A set without a least counterexample has none: what holds at 0 and from *)
(* each number at the next one up to n holds up to n.                      *)
LEMMA Upwards ==
  ASSUME NEW n \in Nat, NEW S, 0 \in S, \A k \in 1..n : k - 1 \in S => k \in S
  PROVE  0..n \subseteq S
<1> DEFINE T == {k \in 0..n : k \notin S}
<1>1. T \subseteq Nat
  OBVIOUS
<1>2. SUFFICES ASSUME T # {} PROVE FALSE
  OBVIOUS
<1>3. PICK k \in T : \A j \in T : k <= j
  <2> HIDE DEF T
  <2>1. QED
    BY <1>1, <1>2, LeastExists
<1>4. k # 0 /\ k \in 1..n /\ k - 1 \in 0..n /\ k - 1 < k
  OBVIOUS
<1>5. k - 1 \in S
  BY <1>3, <1>4
<1>6. QED
  BY <1>4, <1>5

-----------------------------------------------------------------------------
(* Addresses.                                                              *)

LEMMA ModuloBounds ==
  ASSUME NEW x \in Int, NEW n \in Nat \ {0}
  PROVE  x % n \in Int /\ 0 <= x % n /\ x % n < n
OBVIOUS

LEMMA WrapInSegment ==
  ASSUME NEW seg \in Int, NEW lin \in Int
  PROVE  /\ Wrap(seg, lin) \in Addresses
         /\ InSegment(Wrap(seg, lin).lin, Wrap(seg, lin).seg)
<1> DEFINE off == (lin - seg) % SegSize
<1>1. off \in Int /\ 0 <= off /\ off < SegSize
  BY ModuloBounds, SizeAssumption
<1>2. Wrap(seg, lin) = [seg |-> seg, lin |-> seg + off]
  BY DEF Wrap
<1> HIDE DEF off
<1>3. QED
  BY <1>1, <1>2, SizeAssumption DEF Addresses, InSegment

LEMMA LinearAddrType ==
  ASSUME NEW lin \in Int
  PROVE  LinearAddr(lin) \in Addresses
<1>1. lin \div SegSize \in Int
  BY SizeAssumption
<1>2. (lin \div SegSize) * SegSize \in Int
  BY <1>1, SizeAssumption
<1>3. QED
  BY <1>2 DEF LinearAddr, Addresses

-----------------------------------------------------------------------------
(* The segment table.  The lookup by address takes the first match; it     *)
(* finds the entry that is meant because no two entries share an address.  *)

(* No two entries of a table have the same address, and all lie inside. *)
Distinct(segs) ==
  \A i, j \in DOMAIN segs :
    /\ segs[i].addr \in Byte
    /\ segs[i].addr = segs[j].addr => i = j

Tables == {segs \in Seq(Segments) : Distinct(segs)}

(* Sequences with the same indices have the same length. *)
LEMMA SameInterval ==
  ASSUME NEW m \in Nat, NEW n \in Nat, 1..m = 1..n
  PROVE  m = n
<1>1. m <= n
  <2>1. m = 0 \/ m \in 1..m
    OBVIOUS
  <2>2. QED
    BY <2>1
<1>2. n <= m
  <2>1. n = 0 \/ n \in 1..n
    OBVIOUS
  <2>2. QED
    BY <2>1
<1>3. QED
  BY <1>1, <1>2

-----------------------------------------------------------------------------
(* The operators of SegmentTable on such a table.                          *)

(* The entry found at an address is one that has it. *)
LEMMA IndexAtFinds ==
  ASSUME NEW segs \in Tables, NEW addr, HasSegment(segs, addr)
  PROVE  /\ IndexAt(segs, addr) \in DOMAIN segs
         /\ segs[IndexAt(segs, addr)].addr = addr
<1>1. segs \in Seq(Segments) /\ DOMAIN segs = 1..Len(segs) /\ Len(segs) \in Nat
  BY DEF Tables
<1>2. PICK i \in DOMAIN segs : segs[i].addr = addr
  BY DEF HasSegment
<1>3. \A j \in DOMAIN segs : segs[j].addr = addr => i <= j
  BY <1>1, <1>2 DEF Tables, Distinct
<1>4. QED
  BY <1>2, <1>3 DEF IndexAt

(* The number put into an automatic name is a number. *)
LEMMA CountOfTypeIsNat ==
  ASSUME NEW segs \in Seq(Segments), NEW type
  PROVE  CountOfType(segs, type) \in Nat
<1>1. DOMAIN segs = 1..Len(segs) /\ Len(segs) \in Nat
  OBVIOUS
<1>2. IsFiniteSet(DOMAIN segs)
  BY <1>1, FS_Interval
<1>3. IsFiniteSet({i \in DOMAIN segs : segs[i].type = type})
  BY <1>2, FS_Subset
<1>4. QED
  BY <1>3, FS_CardinalityType DEF CountOfType

(* The name a segment is stored with. *)
LEMMA NewNameType ==
  ASSUME NEW segs \in Seq(Segments), NEW name \in Names \cup {NoName},
         NEW type \in SegTypes
  PROVE  (IF name = NoName THEN AutoName(type, CountOfType(segs, type) + 1)
          ELSE name) \in Names
<1>1. CountOfType(segs, type) + 1 \in Nat \ {0}
  BY CountOfTypeIsNat
<1>2. QED
  BY <1>1 DEF Names, AutoName

(* A segment at a free address of the image keeps the table a table. *)
LEMMA AddSegmentType ==
  ASSUME NEW segs \in Tables, NEW name \in Names \cup {NoName},
         NEW type \in SegTypes, NEW addr \in Byte,
         ~HasSegment(segs, addr)
  PROVE  AddSegment(segs, name, type, addr) \in Tables
<1> DEFINE full == IF name = NoName THEN AutoName(type, CountOfType(segs, type) + 1)
                   ELSE name
           new == [name |-> full, type |-> type, addr |-> addr]
<1>1. segs \in Seq(Segments) /\ Distinct(segs)
  BY DEF Tables
<1>2. full \in Names
  BY <1>1, NewNameType
<1>3. new \in Segments
  <2>1. addr \in Int
    BY SizeAssumption DEF Byte
  <2>2. QED
    BY <1>2, <2>1 DEF Segments
<1>4. AddSegment(segs, name, type, addr) = Append(segs, new)
  BY DEF AddSegment
<1> HIDE DEF full
<1>5. Append(segs, new) \in Seq(Segments)
  BY <1>1, <1>3
<1>6. Distinct(Append(segs, new))
  BY <1>1, <1>3 DEF Distinct, HasSegment
<1>7. QED
  BY <1>4, <1>5, <1>6 DEF Tables

(* A table without one of its entries is a table, and has no entry at that *)
(* entry's address any more.                                               *)
LEMMA RemoveSegmentType ==
  ASSUME NEW segs \in Tables, NEW i \in DOMAIN segs
  PROVE  /\ RemoveSegment(segs, i) \in Tables
         /\ ~HasSegment(RemoveSegment(segs, i), segs[i].addr)
<1> DEFINE rest == RemoveSegment(segs, i)
<1>1. /\ segs \in Seq(Segments) /\ Distinct(segs)
      /\ Len(segs) \in Nat /\ DOMAIN segs = 1..Len(segs)
      /\ i \in 1..Len(segs) /\ Len(segs) - 1 \in Nat
  BY DEF Tables
<1>2. /\ DOMAIN rest = 1..(Len(segs) - 1)
      /\ \A j \in 1..(Len(segs) - 1) : rest[j] = IF j < i THEN segs[j] ELSE segs[j + 1]
  BY DEF RemoveSegment
<1>3. rest \in [1..(Len(segs) - 1) -> Segments]
  BY <1>1 DEF RemoveSegment
<1>4. rest \in Seq(Segments)
  BY <1>1, <1>3
<1> HIDE DEF rest
<1>5. Distinct(rest)
  BY <1>1, <1>2 DEF Distinct
<1>6. ~HasSegment(rest, segs[i].addr)
  <2> SUFFICES ASSUME NEW j \in DOMAIN rest, rest[j].addr = segs[i].addr
               PROVE  FALSE
    BY DEF HasSegment
  <2>1. PICK k \in DOMAIN segs : k # i /\ rest[j] = segs[k]
    <3>1. j \in 1..(Len(segs) - 1) /\ j \in DOMAIN segs /\ j + 1 \in DOMAIN segs
      BY <1>1, <1>2
    <3>2. CASE j < i
      BY <1>1, <1>2, <3>1, <3>2
    <3>3. CASE ~(j < i)
      BY <1>1, <1>2, <3>1, <3>3
    <3>4. QED
      BY <3>2, <3>3
  <2>2. QED
    BY <2>1 DEF Tables, Distinct
<1>7. QED
  BY <1>4, <1>5, <1>6 DEF Tables, rest

(* storeSegment keeps the table a table, whatever it is asked to store. *)
LEMMA StoreSegmentType ==
  ASSUME NEW segs \in Tables, NEW name \in Names \cup {NoName},
         NEW type \in SegTypes, NEW addr \in Int
  PROVE  StoreSegment(segs, name, type, addr) \in Tables
<1>1. CASE addr \notin Byte
  BY <1>1 DEF StoreSegment
<1>2. CASE addr \in Byte /\ ~HasSegment(segs, addr)
  BY <1>2, AddSegmentType DEF StoreSegment
<1>3. CASE addr \in Byte /\ HasSegment(segs, addr)
  <2> DEFINE at == IndexAt(segs, addr)
  <2>1. at \in DOMAIN segs /\ segs[at].addr = addr
    BY <1>3, IndexAtFinds
  <2> HIDE DEF at
  <2>2. RemoveSegment(segs, at) \in Tables /\ ~HasSegment(RemoveSegment(segs, at), addr)
    BY <2>1, RemoveSegmentType
  <2>3. AddSegment(RemoveSegment(segs, at), name, type, addr) \in Tables
    BY <1>3, <2>2, AddSegmentType
  <2>4. QED
    BY <1>3, <2>3 DEF StoreSegment, at
<1>4. QED
  BY <1>1, <1>2, <1>3

(* Every entry of segs has one in kept for the same address, of the same   *)
(* type or DATA where it was STACK.                                        *)
Keeps(segs, kept) ==
  \A i \in DOMAIN segs : \E j \in DOMAIN kept :
    /\ kept[j].addr = segs[i].addr
    /\ \/ kept[j].type = segs[i].type
       \/ segs[i].type = "STACK" /\ kept[j].type = "DATA"

(* storeSegment loses no address, and no type but a STACK that turns out   *)
(* to be DATA.                                                             *)
LEMMA StoreSegmentKeeps ==
  ASSUME NEW segs \in Tables, NEW name \in Names \cup {NoName},
         NEW type \in SegTypes, NEW addr \in Int
  PROVE  Keeps(segs, StoreSegment(segs, name, type, addr))
<1>1. segs \in Seq(Segments) /\ DOMAIN segs = 1..Len(segs) /\ Len(segs) \in Nat
  BY DEF Tables
<1>2. CASE StoreSegment(segs, name, type, addr) = segs
  BY <1>2 DEF Keeps
<1>3. CASE ~HasSegment(segs, addr) /\ addr \in Byte
  <2>1. PICK new : AddSegment(segs, name, type, addr) = Append(segs, new)
    BY DEF AddSegment
  <2>2. Keeps(segs, Append(segs, new))
    BY <1>1 DEF Keeps
  <2>3. QED
    BY <1>3, <2>1, <2>2 DEF StoreSegment
<1>4. CASE /\ addr \in Byte /\ HasSegment(segs, addr)
           /\ segs[IndexAt(segs, addr)].type = "STACK" /\ type = "DATA"
  <2> DEFINE at == IndexAt(segs, addr)
             rest == RemoveSegment(segs, at)
             new == [name |-> IF name = NoName
                              THEN AutoName(type, CountOfType(rest, type) + 1)
                              ELSE name,
                     type |-> type, addr |-> addr]
  <2>1. at \in DOMAIN segs /\ segs[at].addr = addr
    BY <1>4, IndexAtFinds
  <2>2. new.addr = addr /\ new.type = "DATA"
    BY <1>4
  <2>3. StoreSegment(segs, name, type, addr) = Append(rest, new)
    BY <1>4 DEF StoreSegment, AddSegment
  <2> HIDE DEF at, new
  <2>4. rest \in Tables
    BY <2>1, RemoveSegmentType
  <2>5. /\ rest \in Seq(Segments) /\ DOMAIN rest = 1..(Len(segs) - 1)
        /\ \A j \in 1..(Len(segs) - 1) : rest[j] = IF j < at THEN segs[j] ELSE segs[j + 1]
    BY <2>4 DEF Tables, RemoveSegment
  <2> HIDE DEF rest
  <2>6. Len(rest) = Len(segs) - 1
    <3>1. Len(rest) \in Nat /\ 1..Len(rest) = 1..(Len(segs) - 1)
      BY <2>5
    <3>2. Len(segs) - 1 \in Nat
      BY <1>1, <2>1
    <3>3. QED
      BY <3>1, <3>2, SameInterval
  <2>7. ASSUME NEW i \in DOMAIN segs
        PROVE  \E j \in DOMAIN Append(rest, new) :
                 /\ Append(rest, new)[j].addr = segs[i].addr
                 /\ \/ Append(rest, new)[j].type = segs[i].type
                    \/ segs[i].type = "STACK" /\ Append(rest, new)[j].type = "DATA"
    <3>1. CASE i = at
      <4>1. Append(rest, new)[Len(rest) + 1] = new /\ Len(rest) + 1 \in DOMAIN Append(rest, new)
        BY <2>5
      <4>2. QED
        BY <1>4, <2>1, <2>2, <3>1, <4>1 DEF at
    <3>2. CASE i < at
      <4>1. i \in DOMAIN rest /\ rest[i] = segs[i]
        BY <1>1, <2>1, <2>5, <3>2
      <4>2. QED
        BY <2>5, <4>1
    <3>3. CASE i > at
      <4>1. i - 1 \in DOMAIN rest /\ rest[i - 1] = segs[i]
        BY <1>1, <2>1, <2>5, <3>3
      <4>2. QED
        BY <2>5, <4>1
    <3>4. QED
      BY <1>1, <2>1, <3>1, <3>2, <3>3
  <2>8. QED
    BY <2>3, <2>7 DEF Keeps
<1>5. QED
  BY <1>2, <1>3, <1>4 DEF StoreSegment

(* The same said of addresses; and a segment of the image, stored, has its *)
(* address in the table.                                                   *)
LEMMA StoreSegmentKeepsAddresses ==
  ASSUME NEW segs \in Tables, NEW name \in Names \cup {NoName},
         NEW type \in SegTypes, NEW addr \in Int,
         NEW a, HasSegment(segs, a) \/ (a = addr /\ addr \in Byte)
  PROVE  HasSegment(StoreSegment(segs, name, type, addr), a)
<1>1. CASE HasSegment(segs, a)
  BY <1>1, StoreSegmentKeeps DEF Keeps, HasSegment
<1>2. CASE a = addr /\ addr \in Byte /\ ~HasSegment(segs, addr)
  <2> DEFINE new == [name |-> IF name = NoName
                              THEN AutoName(type, CountOfType(segs, type) + 1)
                              ELSE name,
                     type |-> type, addr |-> addr]
  <2>1. StoreSegment(segs, name, type, addr) = Append(segs, new)
    BY <1>2 DEF StoreSegment, AddSegment
  <2>2. new.addr = addr
    OBVIOUS
  <2> HIDE DEF new
  <2>3. segs \in Seq(Segments)
    BY DEF Tables
  <2>4. /\ Len(segs) + 1 \in DOMAIN Append(segs, new)
        /\ Append(segs, new)[Len(segs) + 1] = new
    BY <2>3
  <2>5. QED
    BY <1>2, <2>1, <2>2, <2>4 DEF HasSegment
<1>3. QED
  BY <1>1, <1>2

-----------------------------------------------------------------------------
(* The search queue.                                                       *)

Queues == {q \in ScanQueues : Consistent(q)}

(* r is q with other owners and points, and perhaps more entrypoints: what *)
(* belonged to a routine still does.                                       *)
Grows(q, r) ==
  /\ r.cur = q.cur
  /\ DOMAIN q.entrypoints \subseteq DOMAIN r.entrypoints
  /\ \A i \in DOMAIN q.entrypoints : r.entrypoints[i].addr = q.entrypoints[i].addr

LEMMA GrowsKeepsPoints ==
  ASSUME NEW q, NEW r, Grows(q, r), NEW p, PointBelongs(q, p)
  PROVE  PointBelongs(r, p)
BY DEF Grows, PointBelongs

LEMMA GrowsTransitive ==
  ASSUME NEW q, NEW r, NEW s, Grows(q, r), Grows(r, s)
  PROVE  Grows(q, s)
BY DEF Grows

(* Bytes given to a routine that is known leave a consistent queue. *)
LEMMA OwnersChange ==
  ASSUME NEW q \in Queues, NEW v \in [Byte -> RoutineIds],
         \A b \in Byte : v[b] \in {BAD_ROUTINE, NULL_ROUTINE} \cup DOMAIN q.entrypoints
  PROVE  /\ [q EXCEPT !.visited = v] \in Queues
         /\ Grows(q, [q EXCEPT !.visited = v])
<1> DEFINE r == [q EXCEPT !.visited = v]
<1>1. q \in ScanQueues /\ Consistent(q)
  BY DEF Queues
<1>2. /\ r \in ScanQueues /\ r.visited = v /\ r.queue = q.queue
      /\ r.entrypoints = q.entrypoints /\ r.cur = q.cur
  BY <1>1 DEF ScanQueues
<1> HIDE DEF r
<1>3. Grows(q, r)
  BY <1>2 DEF Grows
<1>4. Consistent(r)
  <2>1. EntrypointsNumbered(r)
    BY <1>1, <1>2 DEF Consistent, EntrypointsNumbered
  <2>2. \A i \in DOMAIN r.queue : PointBelongs(r, r.queue[i])
    BY <1>1, <1>2, <1>3, GrowsKeepsPoints DEF Consistent
  <2>3. QueueWithoutRepeats(r)
    BY <1>1, <1>2 DEF Consistent, QueueWithoutRepeats
  <2>4. OwnersKnown(r)
    BY <1>2 DEF OwnersKnown
  <2>5. QED
    BY <2>1, <2>2, <2>3, <2>4 DEF Consistent
<1>5. QED
  BY <1>2, <1>3, <1>4 DEF Queues, r

LEMMA SetRoutineIdxType ==
  ASSUME NEW q \in Queues, NEW off \in Int, NEW len \in Int,
         NEW id \in {BAD_ROUTINE} \cup DOMAIN q.entrypoints
  PROVE  /\ SetRoutineIdx(q, off, len, id) \in Queues
         /\ Grows(q, SetRoutineIdx(q, off, len, id))
         /\ SetRoutineIdx(q, off, len, id).queue = q.queue
         /\ SetRoutineIdx(q, off, len, id).entrypoints = q.entrypoints
         /\ \A b \in Byte : SetRoutineIdx(q, off, len, id).visited[b] =
              IF b \in off..(off + len - 1) THEN id ELSE q.visited[b]
<1> DEFINE v == [b \in Byte |-> IF b \in off..(off + len - 1) THEN id ELSE q.visited[b]]
<1>1. q \in ScanQueues /\ OwnersKnown(q)
  BY DEF Queues, Consistent
<1>2. id \in RoutineIds
  BY <1>1 DEF ScanQueues, RoutineIds, BAD_ROUTINE
<1>3. v \in [Byte -> RoutineIds]
  BY <1>1, <1>2 DEF ScanQueues
<1>4. \A b \in Byte : v[b] \in {BAD_ROUTINE, NULL_ROUTINE} \cup DOMAIN q.entrypoints
  BY <1>1 DEF OwnersKnown
<1>5. SetRoutineIdx(q, off, len, id) = [q EXCEPT !.visited = v]
  BY DEF SetRoutineIdx
<1>6. \A b \in Byte : v[b] = IF b \in off..(off + len - 1) THEN id ELSE q.visited[b]
  OBVIOUS
<1> HIDE DEF v
<1>7. QED
  BY <1>1, <1>3, <1>4, <1>5, <1>6, OwnersChange DEF ScanQueues

LEMMA ClearRoutineIdxType ==
  ASSUME NEW q \in Queues, NEW off
  PROVE  /\ ClearRoutineIdx(q, off) \in Queues
         /\ Grows(q, ClearRoutineIdx(q, off))
<1> DEFINE v == [b \in Byte |-> IF b \in RunFrom(q.visited, off)
                                THEN NULL_ROUTINE ELSE q.visited[b]]
<1>1. q \in ScanQueues /\ OwnersKnown(q)
  BY DEF Queues, Consistent
<1>2. v \in [Byte -> RoutineIds]
  BY <1>1 DEF ScanQueues, RoutineIds, NULL_ROUTINE
<1>3. \A b \in Byte : v[b] \in {BAD_ROUTINE, NULL_ROUTINE} \cup DOMAIN q.entrypoints
  BY <1>1 DEF OwnersKnown
<1>4. ClearRoutineIdx(q, off) = [q EXCEPT !.visited = v]
  BY DEF ClearRoutineIdx
<1> HIDE DEF v
<1>5. QED
  BY <1>2, <1>3, <1>4, OwnersChange

(* The routine looked up at an entrypoint is the one that starts there. *)
LEMMA IsEntrypointFinds ==
  ASSUME NEW q \in Queues, NEW lin, KnownEntrypoint(q, lin)
  PROVE  /\ IsEntrypoint(q, lin) \in DOMAIN q.entrypoints
         /\ q.entrypoints[IsEntrypoint(q, lin)].addr.lin = lin
<1>1. /\ q \in ScanQueues /\ EntrypointsNumbered(q)
      /\ q.entrypoints \in Seq(Entrypoints)
      /\ DOMAIN q.entrypoints = 1..Len(q.entrypoints) /\ Len(q.entrypoints) \in Nat
  BY DEF Queues, Consistent, ScanQueues
<1>2. PICK i \in DOMAIN q.entrypoints : q.entrypoints[i].addr.lin = lin
  BY DEF KnownEntrypoint
<1>3. \A j \in DOMAIN q.entrypoints : q.entrypoints[j].addr.lin = lin => i <= j /\ i = j
  BY <1>1, <1>2 DEF EntrypointsNumbered
<1> DEFINE first == CHOOSE j \in DOMAIN q.entrypoints :
                      /\ q.entrypoints[j].addr.lin = lin
                      /\ \A k \in DOMAIN q.entrypoints :
                           q.entrypoints[k].addr.lin = lin => j <= k
<1>4. first \in DOMAIN q.entrypoints /\ q.entrypoints[first].addr.lin = lin
  BY <1>2, <1>3
<1>5. IsEntrypoint(q, lin) = q.entrypoints[first].idx
  BY DEF IsEntrypoint
<1> HIDE DEF first
<1>6. q.entrypoints[first].idx = first
  BY <1>1, <1>4 DEF EntrypointsNumbered
<1>7. QED
  BY <1>4, <1>5, <1>6

(* A known entrypoint changes nothing but its nearness. *)
LEMMA UpdateNearType ==
  ASSUME NEW q \in Queues, NEW id \in DOMAIN q.entrypoints, NEW near \in BOOLEAN
  PROVE  /\ UpdateNear(q, id, near) \in Queues
         /\ Grows(q, UpdateNear(q, id, near))
         /\ UpdateNear(q, id, near).visited = q.visited
<1>1. /\ q \in ScanQueues /\ Consistent(q) /\ q.entrypoints \in Seq(Entrypoints)
      /\ DOMAIN q.entrypoints = 1..Len(q.entrypoints) /\ Len(q.entrypoints) \in Nat
  BY DEF Queues, ScanQueues
<1>2. CASE UpdateNear(q, id, near) = q
  BY <1>2 DEF Grows
<1>3. CASE UpdateNear(q, id, near) # q
  <2> DEFINE eps == [q.entrypoints EXCEPT ![id] = [q.entrypoints[id] EXCEPT !.near = near]]
             r == [q EXCEPT !.entrypoints = eps]
  <2>1. UpdateNear(q, id, near) = r
    BY <1>1, <1>3 DEF UpdateNear, ScanQueues
  <2>2. q.entrypoints[id] \in Entrypoints
    BY <1>1
  <2>3. [q.entrypoints[id] EXCEPT !.near = near] \in Entrypoints
    BY <2>2 DEF Entrypoints
  <2>4. /\ eps \in Seq(Entrypoints) /\ DOMAIN eps = DOMAIN q.entrypoints
        /\ \A i \in DOMAIN eps : /\ eps[i].addr = q.entrypoints[i].addr
                                 /\ eps[i].idx = q.entrypoints[i].idx
    <3>1. eps \in [1..Len(q.entrypoints) -> Entrypoints]
      BY <1>1, <2>3
    <3>2. eps \in Seq(Entrypoints) /\ DOMAIN eps = DOMAIN q.entrypoints
      BY <1>1, <3>1
    <3>3. ASSUME NEW i \in DOMAIN eps
          PROVE  eps[i].addr = q.entrypoints[i].addr /\ eps[i].idx = q.entrypoints[i].idx
      BY <1>1, <2>2, <3>2 DEF Entrypoints
    <3>4. QED
      BY <3>2, <3>3
  <2> HIDE DEF eps
  <2>5. /\ r \in ScanQueues /\ r.visited = q.visited /\ r.queue = q.queue
        /\ r.entrypoints = eps /\ r.cur = q.cur
    BY <1>1, <2>4 DEF ScanQueues
  <2> HIDE DEF r
  <2>6. Grows(q, r)
    BY <2>4, <2>5 DEF Grows
  <2>7. EntrypointsNumbered(r)
    BY <1>1, <2>4, <2>5 DEF Consistent, EntrypointsNumbered
  <2>8. \A i \in DOMAIN r.queue : PointBelongs(r, r.queue[i])
    BY <1>1, <2>5, <2>6, GrowsKeepsPoints DEF Consistent
  <2>9. QueueWithoutRepeats(r) /\ OwnersKnown(r)
    BY <1>1, <2>4, <2>5 DEF Consistent, QueueWithoutRepeats, OwnersKnown
  <2>10. QED
    BY <2>1, <2>5, <2>6, <2>7, <2>8, <2>9 DEF Queues, Consistent
<1>4. QED
  BY <1>2, <1>3

(* A new routine: an entrypoint nobody has, and a call to it. *)
LEMMA NewRoutineType ==
  ASSUME NEW q \in Queues, NEW dest \in Addresses, NEW near \in BOOLEAN,
         dest.lin \in Byte, InSegment(dest.lin, dest.seg),
         ~KnownEntrypoint(q, dest.lin), ~HasPoint(q, dest.lin, TRUE)
  PROVE  /\ NewRoutine(q, dest, near) \in Queues
         /\ Grows(q, NewRoutine(q, dest, near))
         /\ NewRoutine(q, dest, near).visited = q.visited
<1> DEFINE id == Len(q.entrypoints) + 1
           point == [addr |-> dest, idx |-> id, call |-> TRUE]
           ep == [addr |-> dest, idx |-> id, near |-> near]
           r == NewRoutine(q, dest, near)
<1>1. /\ q \in ScanQueues /\ Consistent(q)
      /\ q.entrypoints \in Seq(Entrypoints) /\ q.queue \in Seq(Points)
      /\ Len(q.entrypoints) \in Nat /\ Len(q.queue) \in Nat
      /\ DOMAIN q.entrypoints = 1..Len(q.entrypoints)
      /\ DOMAIN q.queue = 1..Len(q.queue)
  BY DEF Queues, ScanQueues
<1>2. point \in Points /\ ep \in Entrypoints
  BY <1>1 DEF Points, Entrypoints, RoutineIds
<1>3. /\ r.visited = q.visited /\ r.cur = q.cur
      /\ r.queue = Append(q.queue, point)
      /\ r.entrypoints = Append(q.entrypoints, ep)
      /\ r \in ScanQueues
  <2>1. r = [q EXCEPT !.queue = Append(q.queue, point),
                      !.entrypoints = Append(q.entrypoints, ep)]
    BY DEF NewRoutine, RoutineCount
  <2> HIDE DEF point, ep, r
  <2>2. Append(q.queue, point) \in Seq(Points) /\ Append(q.entrypoints, ep) \in Seq(Entrypoints)
    BY <1>1, <1>2
  <2>3. QED
    BY <1>1, <2>1, <2>2 DEF ScanQueues
<1> HIDE DEF r
<1>4. /\ DOMAIN r.entrypoints = 1..id
      /\ \A i \in DOMAIN q.entrypoints : i \in 1..id /\ i # id /\ r.entrypoints[i] = q.entrypoints[i]
      /\ \A i \in 1..id : i = id \/ i \in DOMAIN q.entrypoints
      /\ id \in 1..id /\ r.entrypoints[id] = ep
  BY <1>1, <1>2, <1>3
<1>5. /\ DOMAIN r.queue = 1..(Len(q.queue) + 1)
      /\ \A i \in DOMAIN q.queue : r.queue[i] = q.queue[i]
      /\ \A i \in DOMAIN r.queue : i = Len(q.queue) + 1 \/ i \in DOMAIN q.queue
      /\ r.queue[Len(q.queue) + 1] = point
  BY <1>1, <1>2, <1>3
<1>6. Grows(q, r)
  BY <1>3, <1>4 DEF Grows
<1>7. EntrypointsNumbered(r)
  <2>1. ASSUME NEW i \in DOMAIN r.entrypoints
        PROVE  /\ r.entrypoints[i].idx = i /\ r.entrypoints[i].addr.lin \in Byte
               /\ InSegment(r.entrypoints[i].addr.lin, r.entrypoints[i].addr.seg)
    BY <1>1, <1>4 DEF Consistent, EntrypointsNumbered
  <2>2. ASSUME NEW i \in DOMAIN r.entrypoints, NEW j \in DOMAIN r.entrypoints,
               r.entrypoints[j].addr.lin = r.entrypoints[i].addr.lin
        PROVE  i = j
    <3>1. \A k, l \in DOMAIN q.entrypoints :
            q.entrypoints[k].addr.lin = q.entrypoints[l].addr.lin => k = l
      BY <1>1 DEF Consistent, EntrypointsNumbered
    <3>2. \A k \in DOMAIN q.entrypoints : q.entrypoints[k].addr.lin # dest.lin
      BY DEF KnownEntrypoint
    <3>3. r.entrypoints[id].addr.lin = dest.lin
      BY <1>4
    <3>4. i \in 1..id /\ j \in 1..id
      BY <1>4
    <3> HIDE DEF id, ep, point
    <3>5. CASE i \in DOMAIN q.entrypoints /\ j \in DOMAIN q.entrypoints
      BY <1>4, <2>2, <3>1, <3>5
    <3>6. CASE i = id \/ j = id
      BY <1>4, <2>2, <3>2, <3>3, <3>4, <3>6
    <3>7. QED
      BY <1>4, <3>4, <3>5, <3>6
  <2>3. QED
    BY <2>1, <2>2 DEF EntrypointsNumbered
<1>8. ASSUME NEW i \in DOMAIN r.queue
      PROVE  PointBelongs(r, r.queue[i])
  <2>1. CASE i \in DOMAIN q.queue
    BY <1>1, <1>5, <1>6, <2>1, GrowsKeepsPoints DEF Consistent
  <2>2. CASE i = Len(q.queue) + 1
    BY <1>4, <1>5, <2>2 DEF PointBelongs
  <2>3. QED
    BY <1>5, <2>1, <2>2
<1>9. QueueWithoutRepeats(r)
  <2> SUFFICES ASSUME NEW i \in DOMAIN r.queue, NEW j \in DOMAIN r.queue,
                      r.queue[i].addr.lin = r.queue[j].addr.lin,
                      r.queue[i].call = r.queue[j].call
               PROVE  i = j
    BY DEF QueueWithoutRepeats
  <2>1. CASE i \in DOMAIN q.queue /\ j \in DOMAIN q.queue
    BY <1>1, <1>5, <2>1 DEF Consistent, QueueWithoutRepeats
  <2>2. CASE i \in DOMAIN q.queue /\ j = Len(q.queue) + 1
    BY <1>5, <2>2 DEF HasPoint
  <2>3. CASE j \in DOMAIN q.queue /\ i = Len(q.queue) + 1
    BY <1>5, <2>3 DEF HasPoint
  <2>4. QED
    BY <1>5, <2>1, <2>2, <2>3
<1>10. OwnersKnown(r)
  BY <1>1, <1>3, <1>4 DEF Consistent, OwnersKnown
<1>11. QED
  BY <1>3, <1>6, <1>7, <1>8, <1>9, <1>10 DEF Queues, Consistent, r

LEMMA SaveCallType ==
  ASSUME NEW q \in Queues, NEW dest \in Addresses, NEW near \in BOOLEAN,
         dest.lin \in Byte, InSegment(dest.lin, dest.seg)
  PROVE  /\ SaveCall(q, dest, near) \in Queues
         /\ Grows(q, SaveCall(q, dest, near))
         /\ SaveCall(q, dest, near).visited = q.visited
<1>1. CASE KnownEntrypoint(q, dest.lin)
  <2>1. IsEntrypoint(q, dest.lin) \in DOMAIN q.entrypoints
    BY <1>1, IsEntrypointFinds
  <2>2. IsEntrypoint(q, dest.lin) # NULL_ROUTINE
    BY <2>1 DEF Queues, ScanQueues, NULL_ROUTINE
  <2>3. QED
    BY <2>1, <2>2, UpdateNearType DEF SaveCall
<1>2. CASE ~KnownEntrypoint(q, dest.lin)
  <2>1. IsEntrypoint(q, dest.lin) = NULL_ROUTINE
    BY <1>2 DEF IsEntrypoint
  <2>2. Grows(q, q)
    BY DEF Grows
  <2>3. QED
    BY <1>2, <2>1, <2>2, NewRoutineType DEF SaveCall
<1>3. QED
  BY <1>1, <1>2

(* A call adds one entrypoint or none. *)
LEMMA SaveCallCounts ==
  ASSUME NEW q \in Queues, NEW dest, NEW near
  PROVE  \/ /\ RoutineCount(SaveCall(q, dest, near)) = RoutineCount(q)
            /\ DOMAIN SaveCall(q, dest, near).entrypoints = DOMAIN q.entrypoints
         \/ RoutineCount(SaveCall(q, dest, near)) = RoutineCount(q) + 1
<1> DEFINE id == IsEntrypoint(q, dest.lin)
           ep == [addr |-> dest, idx |-> RoutineCount(q) + 1, near |-> near]
<1>1. q \in ScanQueues /\ q.entrypoints \in Seq(Entrypoints)
  BY DEF Queues, ScanQueues
<1>2. /\ DOMAIN UpdateNear(q, id, near).entrypoints = DOMAIN q.entrypoints
      /\ Len(UpdateNear(q, id, near).entrypoints) = Len(q.entrypoints)
  <2>1. CASE id >= RoutineCount(q) \/ id = 0
    BY <2>1 DEF UpdateNear
  <2>2. CASE ~(id >= RoutineCount(q) \/ id = 0)
    <3> DEFINE eps == [q.entrypoints EXCEPT ![id].near = near]
    <3>1. UpdateNear(q, id, near) = [q EXCEPT !.entrypoints = eps]
      BY <2>2 DEF UpdateNear
    <3>2. DOMAIN eps = DOMAIN q.entrypoints /\ Len(eps) = Len(q.entrypoints)
      BY <1>1
    <3> HIDE DEF eps, id
    <3>3. QED
      BY <1>1, <3>1, <3>2 DEF ScanQueues
  <2>3. QED
    BY <2>1, <2>2
<1>3. Len(NewRoutine(q, dest, near).entrypoints) = Len(q.entrypoints) + 1
  <2>1. NewRoutine(q, dest, near).entrypoints = Append(q.entrypoints, ep)
    BY <1>1 DEF NewRoutine, ScanQueues
  <2> HIDE DEF ep
  <2>2. QED
    BY <1>1, <2>1
<1>4. SaveCall(q, dest, near) \in {q, UpdateNear(q, id, near), NewRoutine(q, dest, near)}
  BY DEF SaveCall
<1>5. QED
  BY <1>2, <1>3, <1>4 DEF RoutineCount

(* Afterwards the destination is known: were a call to it queued already,  *)
(* it would be the entrypoint of that call.                                *)
LEMMA SaveCallKnows ==
  ASSUME NEW q \in Queues, NEW dest \in Addresses, NEW near \in BOOLEAN,
         dest.lin \in Byte, InSegment(dest.lin, dest.seg)
  PROVE  KnownEntrypoint(SaveCall(q, dest, near), dest.lin)
<1>1. Grows(q, SaveCall(q, dest, near))
  BY SaveCallType
<1>2. CASE KnownEntrypoint(q, dest.lin)
  BY <1>1, <1>2 DEF KnownEntrypoint, Grows
<1>3. CASE ~KnownEntrypoint(q, dest.lin)
  <2>1. ~HasPoint(q, dest.lin, TRUE)
    BY <1>3 DEF HasPoint, KnownEntrypoint, Queues, Consistent, PointBelongs
  <2>2. SaveCall(q, dest, near) = NewRoutine(q, dest, near)
    BY <1>3, <2>1 DEF SaveCall, IsEntrypoint
  <2> DEFINE ep == [addr |-> dest, idx |-> RoutineCount(q) + 1, near |-> near]
             r == NewRoutine(q, dest, near)
  <2>3. q \in ScanQueues /\ q.entrypoints \in Seq(Entrypoints)
    BY DEF Queues, ScanQueues
  <2>4. r.entrypoints = Append(q.entrypoints, ep) /\ ep.addr = dest
    BY <2>3 DEF NewRoutine, ScanQueues
  <2> HIDE DEF ep, r
  <2>5. /\ Len(q.entrypoints) + 1 \in DOMAIN r.entrypoints
        /\ r.entrypoints[Len(q.entrypoints) + 1] = ep
    BY <2>3, <2>4
  <2>6. QED
    BY <2>2, <2>4, <2>5 DEF KnownEntrypoint, r
<1>4. QED
  BY <1>2, <1>3

AllCalls(q) == \A i \in DOMAIN q.queue : q.queue[i].call

LEMMA SaveCallAddsCalls ==
  ASSUME NEW q \in Queues, NEW dest, NEW near, AllCalls(q)
  PROVE  AllCalls(SaveCall(q, dest, near))
<1> DEFINE id == IsEntrypoint(q, dest.lin)
           point == [addr |-> dest, idx |-> RoutineCount(q) + 1, call |-> TRUE]
<1>1. q \in ScanQueues /\ q.queue \in Seq(Points)
  BY DEF Queues, ScanQueues
<1>2. UpdateNear(q, id, near).queue = q.queue
  BY <1>1 DEF UpdateNear, ScanQueues
<1>3. AllCalls(NewRoutine(q, dest, near))
  <2>1. NewRoutine(q, dest, near).queue = Append(q.queue, point) /\ point.call
    BY <1>1 DEF NewRoutine, ScanQueues
  <2> HIDE DEF point
  <2>2. \A i \in DOMAIN Append(q.queue, point) :
          \/ i \in DOMAIN q.queue /\ Append(q.queue, point)[i] = q.queue[i]
          \/ Append(q.queue, point)[i] = point
    BY <1>1
  <2>3. QED
    BY <2>1, <2>2 DEF AllCalls
<1>4. SaveCall(q, dest, near) \in {q, UpdateNear(q, id, near), NewRoutine(q, dest, near)}
  BY DEF SaveCall
<1>5. QED
  BY <1>2, <1>3, <1>4 DEF AllCalls

(* Every entrypoint has a segment. *)
HasHomes(q) == \A i \in DOMAIN q.entrypoints : q.entrypoints[i].addr.seg \in Nat

LEMMA SaveCallKeepsHomes ==
  ASSUME NEW q \in Queues, NEW dest, NEW near \in BOOLEAN, HasHomes(q), dest.seg \in Nat
  PROVE  HasHomes(SaveCall(q, dest, near))
<1> DEFINE id == IsEntrypoint(q, dest.lin)
           ep == [addr |-> dest, idx |-> RoutineCount(q) + 1, near |-> near]
<1>1. q \in ScanQueues /\ q.entrypoints \in Seq(Entrypoints)
  BY DEF Queues, ScanQueues
<1>2. CASE SaveCall(q, dest, near) = q
  BY <1>2
<1>3. CASE SaveCall(q, dest, near) = UpdateNear(q, id, near) /\ id # NULL_ROUTINE
  <2>1. KnownEntrypoint(q, dest.lin)
    BY <1>3 DEF IsEntrypoint
  <2>2. id \in DOMAIN q.entrypoints
    BY <2>1, IsEntrypointFinds
  <2> HIDE DEF id
  <2>3. /\ UpdateNear(q, id, near).entrypoints \in Seq(Entrypoints)
        /\ Len(UpdateNear(q, id, near).entrypoints) = Len(q.entrypoints)
        /\ Grows(q, UpdateNear(q, id, near))
    <3>1. UpdateNear(q, id, near) \in Queues /\ Grows(q, UpdateNear(q, id, near))
      BY <2>2, UpdateNearType
    <3> DEFINE eps == [q.entrypoints EXCEPT ![id].near = near]
    <3>2. UpdateNear(q, id, near) = q \/ UpdateNear(q, id, near) = [q EXCEPT !.entrypoints = eps]
      BY DEF UpdateNear
    <3>3. Len(eps) = Len(q.entrypoints)
      BY <1>1
    <3> HIDE DEF eps
    <3>4. Len(UpdateNear(q, id, near).entrypoints) = Len(q.entrypoints)
      BY <1>1, <3>2, <3>3 DEF ScanQueues
    <3>5. QED
      BY <3>1, <3>4 DEF Queues, ScanQueues
  <2>4. DOMAIN UpdateNear(q, id, near).entrypoints = DOMAIN q.entrypoints
    BY <1>1, <2>3
  <2>5. QED
    BY <1>3, <2>3, <2>4 DEF HasHomes, Grows
<1>4. CASE SaveCall(q, dest, near) = NewRoutine(q, dest, near)
  <2>1. NewRoutine(q, dest, near).entrypoints = Append(q.entrypoints, ep) /\ ep.addr = dest
    BY <1>1 DEF NewRoutine, ScanQueues
  <2> HIDE DEF ep
  <2>2. \A i \in DOMAIN Append(q.entrypoints, ep) :
          \/ i \in DOMAIN q.entrypoints /\ Append(q.entrypoints, ep)[i] = q.entrypoints[i]
          \/ Append(q.entrypoints, ep)[i] = ep
    BY <1>1
  <2>3. QED
    BY <1>4, <2>1, <2>2 DEF HasHomes
<1>5. QED
  BY <1>2, <1>3, <1>4 DEF SaveCall

(* A jump's destination joins the queue as a point of the routine being    *)
(* scanned, in the segment of its entrypoint.                              *)
LEMMA SaveJumpType ==
  ASSUME NEW q \in Queues, NEW dest, dest.lin \in Byte,
         q.cur.idx \in DOMAIN q.entrypoints
  PROVE  /\ SaveJump(q, dest) \in Queues
         /\ Grows(q, SaveJump(q, dest))
         /\ SaveJump(q, dest).visited = q.visited
<1> DEFINE home == q.entrypoints[q.cur.idx].addr.seg
           point == [addr |-> [seg |-> home, lin |-> dest.lin],
                     idx |-> q.cur.idx, call |-> FALSE]
           r == SaveJump(q, dest)
<1>1. /\ q \in ScanQueues /\ Consistent(q)
      /\ q.entrypoints \in Seq(Entrypoints) /\ q.queue \in Seq(Points)
      /\ Len(q.queue) \in Nat /\ DOMAIN q.queue = 1..Len(q.queue)
  BY DEF Queues, ScanQueues
<1>2. CASE r = q
  BY <1>2 DEF Grows
<1>3. CASE r # q
  <2>1. /\ ~HasPoint(q, dest.lin, FALSE) /\ InSegment(dest.lin, home)
        /\ r = [q EXCEPT !.queue = <<point>> \o q.queue]
    BY <1>3 DEF SaveJump
  <2>2. q.entrypoints[q.cur.idx] \in Entrypoints /\ dest.lin \in Int /\ q.cur \in Points
    BY <1>1, SizeAssumption DEF Byte, ScanQueues
  <2>3. point \in Points
    BY <2>2 DEF Points, Entrypoints, Addresses
  <2>4. point.addr.lin = dest.lin /\ point.addr.seg = home /\ point.idx = q.cur.idx
        /\ point.call = FALSE
    OBVIOUS
  <2> HIDE DEF point, home, r
  <2>5. <<point>> \o q.queue \in Seq(Points)
    BY <1>1, <2>3
  <2>6. /\ r \in ScanQueues /\ r.visited = q.visited /\ r.cur = q.cur
        /\ r.queue = <<point>> \o q.queue /\ r.entrypoints = q.entrypoints
    BY <1>1, <2>1, <2>5 DEF ScanQueues
  <2>7. /\ DOMAIN r.queue = 1..(Len(q.queue) + 1)
        /\ r.queue[1] = point
        /\ \A i \in DOMAIN r.queue :
             i # 1 => i - 1 \in DOMAIN q.queue /\ r.queue[i] = q.queue[i - 1]
    BY <1>1, <2>3, <2>6
  <2>8. Grows(q, r)
    BY <2>6 DEF Grows
  <2>9. EntrypointsNumbered(r) /\ OwnersKnown(r)
    BY <1>1, <2>6 DEF Consistent, EntrypointsNumbered, OwnersKnown
  <2>10. ASSUME NEW i \in DOMAIN r.queue
         PROVE  PointBelongs(r, r.queue[i])
    <3>1. CASE i = 1
      BY <2>1, <2>4, <2>6, <2>7, <3>1 DEF PointBelongs, home
    <3>2. CASE i # 1
      BY <1>1, <2>7, <2>8, <3>2, GrowsKeepsPoints DEF Consistent
    <3>3. QED
      BY <3>1, <3>2
  <2>11. QueueWithoutRepeats(r)
    <3> SUFFICES ASSUME NEW i \in DOMAIN r.queue, NEW j \in DOMAIN r.queue,
                        r.queue[i].addr.lin = r.queue[j].addr.lin,
                        r.queue[i].call = r.queue[j].call
                 PROVE  i = j
      BY DEF QueueWithoutRepeats
    <3>1. CASE i # 1 /\ j # 1
      <4>1. PICK m \in DOMAIN q.queue : m = i - 1 /\ r.queue[i] = q.queue[m]
        BY <2>7, <3>1
      <4>2. PICK n \in DOMAIN q.queue : n = j - 1 /\ r.queue[j] = q.queue[n]
        BY <2>7, <3>1
      <4>3. m = n
        BY <1>1, <4>1, <4>2 DEF Consistent, QueueWithoutRepeats
      <4>4. QED
        BY <2>7, <4>1, <4>2, <4>3
    <3>2. CASE i = 1 /\ j # 1
      BY <2>1, <2>4, <2>7, <3>2 DEF HasPoint
    <3>3. CASE j = 1 /\ i # 1
      BY <2>1, <2>4, <2>7, <3>3 DEF HasPoint
    <3>4. QED
      BY <3>1, <3>2, <3>3
  <2>12. QED
    BY <2>6, <2>8, <2>9, <2>10, <2>11 DEF Queues, Consistent, r
<1>4. QED
  BY <1>2, <1>3

LEMMA SaveBranchType ==
  ASSUME NEW q \in Queues, NEW dest \in Addresses, NEW call \in BOOLEAN,
         NEW near \in BOOLEAN, q.cur.idx \in DOMAIN q.entrypoints,
         call /\ IsValid(dest) /\ dest.lin \in Byte => InSegment(dest.lin, dest.seg)
  PROVE  /\ SaveBranch(q, dest, call, near) \in Queues
         /\ Grows(q, SaveBranch(q, dest, call, near))
         /\ SaveBranch(q, dest, call, near).visited = q.visited
<1>1. Grows(q, q)
  BY DEF Grows
<1>2. CASE ~IsValid(dest) \/ dest.lin \notin Byte
  BY <1>1, <1>2 DEF SaveBranch
<1>3. CASE IsValid(dest) /\ dest.lin \in Byte /\ call
  BY <1>3, SaveCallType DEF SaveBranch
<1>4. CASE IsValid(dest) /\ dest.lin \in Byte /\ ~call
  BY <1>4, SaveJumpType DEF SaveBranch
<1>5. QED
  BY <1>2, <1>3, <1>4

-----------------------------------------------------------------------------
(* What an operation adds to the queue.                                    *)

QueuesCall(q, id) == \E i \in DOMAIN q.queue : q.queue[i].call /\ q.queue[i].idx = id

(* r queues all that q queues, and besides only points at bytes of at; a   *)
(* routine only r knows starts at one of them, and the call to it waits in *)
(* the queue.                                                              *)
Adds(q, r, at) ==
  /\ \A i \in DOMAIN q.queue : \E j \in DOMAIN r.queue : r.queue[j] = q.queue[i]
  /\ \A j \in DOMAIN r.queue :
       \/ r.queue[j].addr.lin \in at
       \/ \E i \in DOMAIN q.queue : q.queue[i] = r.queue[j]
  /\ \A id \in DOMAIN r.entrypoints :
       \/ id \in DOMAIN q.entrypoints
       \/ r.entrypoints[id].addr.lin \in at /\ QueuesCall(r, id)

LEMMA AddsKeepsCalls ==
  ASSUME NEW q, NEW r, NEW at, Adds(q, r, at), NEW id, QueuesCall(q, id)
  PROVE  QueuesCall(r, id)
BY DEF Adds, QueuesCall

LEMMA AddsNothing ==
  ASSUME NEW q, NEW r, NEW at, r.queue = q.queue,
         DOMAIN r.entrypoints = DOMAIN q.entrypoints
  PROVE  Adds(q, r, at)
BY DEF Adds

LEMMA AddsMore ==
  ASSUME NEW q, NEW r, NEW at, NEW more, Adds(q, r, at), at \subseteq more
  PROVE  Adds(q, r, more)
BY DEF Adds

LEMMA AddsTransitive ==
  ASSUME NEW q, NEW r, NEW s, NEW at, Adds(q, r, at), Adds(r, s, at), Grows(r, s)
  PROVE  Adds(q, s, at)
<1>1. \A i \in DOMAIN q.queue : \E j \in DOMAIN s.queue : s.queue[j] = q.queue[i]
  BY DEF Adds
<1>2. \A j \in DOMAIN s.queue :
        \/ s.queue[j].addr.lin \in at
        \/ \E i \in DOMAIN q.queue : q.queue[i] = s.queue[j]
  BY DEF Adds
<1>3. \A id \in DOMAIN s.entrypoints :
        \/ id \in DOMAIN q.entrypoints
        \/ s.entrypoints[id].addr.lin \in at /\ QueuesCall(s, id)
  BY AddsKeepsCalls DEF Adds, Grows
<1>4. QED
  BY <1>1, <1>2, <1>3 DEF Adds

LEMMA UpdateNearAdds ==
  ASSUME NEW q \in Queues, NEW id, NEW near, NEW at
  PROVE  Adds(q, UpdateNear(q, id, near), at)
<1> DEFINE r == UpdateNear(q, id, near)
<1>1. r.queue = q.queue /\ DOMAIN r.entrypoints = DOMAIN q.entrypoints
  BY DEF UpdateNear, Queues, ScanQueues
<1> HIDE DEF r
<1>2. QED
  BY <1>1, AddsNothing DEF r

LEMMA NewRoutineAdds ==
  ASSUME NEW q \in Queues, NEW dest \in Addresses, NEW near
  PROVE  Adds(q, NewRoutine(q, dest, near), {dest.lin})
<1> DEFINE id == Len(q.entrypoints) + 1
           point == [addr |-> dest, idx |-> id, call |-> TRUE]
           ep == [addr |-> dest, idx |-> id, near |-> near]
           r == NewRoutine(q, dest, near)
<1>1. /\ q \in ScanQueues /\ q.entrypoints \in Seq(Entrypoints) /\ q.queue \in Seq(Points)
      /\ Len(q.entrypoints) \in Nat /\ Len(q.queue) \in Nat
      /\ DOMAIN q.entrypoints = 1..Len(q.entrypoints)
      /\ DOMAIN q.queue = 1..Len(q.queue)
  BY DEF Queues, ScanQueues
<1>2. r.queue = Append(q.queue, point) /\ r.entrypoints = Append(q.entrypoints, ep)
  BY <1>1 DEF NewRoutine, RoutineCount, ScanQueues
<1>3. point.addr.lin = dest.lin /\ point.call /\ point.idx = id /\ ep.addr.lin = dest.lin
  OBVIOUS
<1> HIDE DEF r, point, ep
<1>4. /\ DOMAIN r.queue = 1..(Len(q.queue) + 1)
      /\ \A i \in DOMAIN q.queue : r.queue[i] = q.queue[i]
      /\ r.queue[Len(q.queue) + 1] = point
      /\ DOMAIN r.entrypoints = 1..id /\ r.entrypoints[id] = ep
  BY <1>1, <1>2
<1>5. QueuesCall(r, id)
  BY <1>1, <1>3, <1>4 DEF QueuesCall
<1>6. \A j \in DOMAIN r.queue : j = Len(q.queue) + 1 \/ j \in DOMAIN q.queue
  BY <1>1, <1>4
<1>7. \A k \in DOMAIN r.entrypoints : k = id \/ k \in DOMAIN q.entrypoints
  BY <1>1, <1>4
<1>8. \A i \in DOMAIN q.queue : i \in DOMAIN r.queue
  BY <1>1, <1>4
<1>9. QED
  BY <1>3, <1>4, <1>5, <1>6, <1>7, <1>8 DEF Adds, r

LEMMA SaveCallAdds ==
  ASSUME NEW q \in Queues, NEW dest \in Addresses, NEW near
  PROVE  Adds(q, SaveCall(q, dest, near), {dest.lin})
<1>1. Adds(q, q, {dest.lin})
  BY AddsNothing
<1>2. QED
  BY <1>1, UpdateNearAdds, NewRoutineAdds DEF SaveCall

LEMMA SaveJumpAdds ==
  ASSUME NEW q \in Queues, NEW dest
  PROVE  Adds(q, SaveJump(q, dest), {dest.lin})
<1> DEFINE point == [addr |-> [seg |-> q.entrypoints[q.cur.idx].addr.seg, lin |-> dest.lin],
                     idx |-> q.cur.idx, call |-> FALSE]
           r == SaveJump(q, dest)
<1>1. /\ q \in ScanQueues /\ q.queue \in Seq(Points)
      /\ Len(q.queue) \in Nat /\ DOMAIN q.queue = 1..Len(q.queue)
  BY DEF Queues, ScanQueues
<1>2. CASE r = q
  BY <1>2, AddsNothing
<1>3. CASE r # q
  <2>1. r = [q EXCEPT !.queue = <<point>> \o q.queue]
    BY <1>3 DEF SaveJump
  <2>2. r.queue = <<point>> \o q.queue /\ r.entrypoints = q.entrypoints
    BY <1>1, <2>1 DEF ScanQueues
  <2>3. point.addr.lin = dest.lin
    OBVIOUS
  <2> HIDE DEF point, r
  <2>4. /\ DOMAIN r.queue = 1..(Len(q.queue) + 1)
        /\ r.queue[1] = point
        /\ \A i \in DOMAIN r.queue :
             i # 1 => i - 1 \in DOMAIN q.queue /\ r.queue[i] = q.queue[i - 1]
        /\ \A i \in DOMAIN q.queue : i + 1 \in DOMAIN r.queue /\ r.queue[i + 1] = q.queue[i]
    BY <1>1, <2>2
  <2>5. QED
    BY <2>2, <2>3, <2>4 DEF Adds, r
<1>4. QED
  BY <1>2, <1>3

(* What saveBranch adds lies at the destination, if that is in the image.  *)
LEMMA SaveBranchAdds ==
  ASSUME NEW q \in Queues, NEW dest \in Addresses, NEW call, NEW near, NEW at,
         IsValid(dest) /\ dest.lin \in Byte => dest.lin \in at
  PROVE  Adds(q, SaveBranch(q, dest, call, near), at)
<1>1. CASE ~IsValid(dest) \/ dest.lin \notin Byte
  BY <1>1, AddsNothing DEF SaveBranch
<1>2. CASE IsValid(dest) /\ dest.lin \in Byte
  <2>1. Adds(q, SaveBranch(q, dest, call, near), {dest.lin})
    BY <1>2, SaveCallAdds, SaveJumpAdds DEF SaveBranch
  <2>2. QED
    BY <1>2, <2>1, AddsMore
<1>3. QED
  BY <1>1, <1>2

-----------------------------------------------------------------------------
(* Taking a point, and the queues a search starts with.                    *)

(* The point taken from the queue belongs to its routine. *)
LEMMA NextPointType ==
  ASSUME NEW q \in Queues, q.queue # << >>
  PROVE  /\ NextPoint(q) \in Queues
         /\ NextPoint(q).cur = Head(q.queue)
         /\ PointBelongs(NextPoint(q), Head(q.queue))
         /\ Head(q.queue) \in Points
<1> DEFINE r == NextPoint(q)
<1>1. /\ q \in ScanQueues /\ Consistent(q) /\ q.queue \in Seq(Points)
      /\ Len(q.queue) \in Nat \ {0} /\ DOMAIN q.queue = 1..Len(q.queue)
  BY DEF Queues, ScanQueues
<1>2. /\ Head(q.queue) = q.queue[1] /\ Head(q.queue) \in Points
      /\ Tail(q.queue) \in Seq(Points)
  BY <1>1
<1>3. /\ r \in ScanQueues /\ r.visited = q.visited /\ r.entrypoints = q.entrypoints
      /\ r.queue = Tail(q.queue) /\ r.cur = Head(q.queue)
  BY <1>1, <1>2 DEF NextPoint, ScanQueues
<1> HIDE DEF r
<1>4. /\ DOMAIN r.queue = 1..(Len(q.queue) - 1)
      /\ \A i \in DOMAIN r.queue :
           i + 1 \in DOMAIN q.queue /\ r.queue[i] = q.queue[i + 1]
  BY <1>1, <1>3
<1>5. \A p : PointBelongs(q, p) => PointBelongs(r, p)
  BY <1>3 DEF PointBelongs
<1>6. EntrypointsNumbered(r) /\ OwnersKnown(r)
  BY <1>1, <1>3 DEF Consistent, EntrypointsNumbered, OwnersKnown
<1>7. \A i \in DOMAIN r.queue : PointBelongs(r, r.queue[i])
  BY <1>1, <1>4, <1>5 DEF Consistent
<1>8. QueueWithoutRepeats(r)
  <2> SUFFICES ASSUME NEW i \in DOMAIN r.queue, NEW j \in DOMAIN r.queue,
                      r.queue[i].addr.lin = r.queue[j].addr.lin,
                      r.queue[i].call = r.queue[j].call
               PROVE  i = j
    BY DEF QueueWithoutRepeats
  <2>1. PICK m \in DOMAIN q.queue : m = i + 1 /\ r.queue[i] = q.queue[m]
    BY <1>4
  <2>2. PICK n \in DOMAIN q.queue : n = j + 1 /\ r.queue[j] = q.queue[n]
    BY <1>4
  <2>3. m = n
    BY <1>1, <2>1, <2>2 DEF Consistent, QueueWithoutRepeats
  <2>4. QED
    BY <1>4, <2>1, <2>2, <2>3
<1>9. PointBelongs(r, Head(q.queue))
  BY <1>1, <1>2, <1>5 DEF Consistent
<1>10. QED
  BY <1>2, <1>3, <1>6, <1>7, <1>8, <1>9 DEF Queues, Consistent, r

(* The queues a search starts with. *)
LEMMA EmptyQueueType == EmptyQueue \in Queues
<1>1. NullPoint \in Points
  BY DEF NullPoint, Points, InvalidAddr, Addresses, RoutineIds, NULL_ROUTINE
<1>2. EmptyQueue \in ScanQueues
  BY <1>1 DEF EmptyQueue, ScanQueues, RoutineIds, NULL_ROUTINE
<1>3. Consistent(EmptyQueue)
  BY DEF EmptyQueue, Consistent, EntrypointsNumbered, QueueWithoutRepeats, OwnersKnown
<1>4. QED
  BY <1>2, <1>3 DEF Queues

LEMMA SeededQueueType ==
  ASSUME NEW addr \in Addresses, addr.lin \in Byte, InSegment(addr.lin, addr.seg)
  PROVE  SeededQueue(addr, 1) \in Queues
<1> DEFINE point == [addr |-> addr, idx |-> 1, call |-> TRUE]
           ep == [addr |-> addr, idx |-> 1, near |-> TRUE]
           r == SeededQueue(addr, 1)
<1>1. point \in Points /\ ep \in Entrypoints
  BY DEF Points, Entrypoints, RoutineIds
<1>2. EmptyQueue \in ScanQueues
  BY EmptyQueueType DEF Queues
<1>3. r = [EmptyQueue EXCEPT !.queue = <<point>>, !.entrypoints = <<ep>>]
  BY DEF SeededQueue
<1>4. /\ r \in ScanQueues /\ r.queue = <<point>> /\ r.entrypoints = <<ep>>
      /\ r.visited = [b \in Byte |-> NULL_ROUTINE]
  <2>1. EmptyQueue.visited = [b \in Byte |-> NULL_ROUTINE]
    BY DEF EmptyQueue
  <2>2. <<point>> \in Seq(Points) /\ <<ep>> \in Seq(Entrypoints)
    BY <1>1
  <2> HIDE DEF point, ep, r
  <2>3. QED
    BY <1>2, <1>3, <2>1, <2>2 DEF ScanQueues
<1>5. /\ DOMAIN r.queue = {1} /\ r.queue[1] = point
      /\ DOMAIN r.entrypoints = {1} /\ r.entrypoints[1] = ep
  BY <1>4
<1> HIDE DEF r
<1>6. EntrypointsNumbered(r) /\ QueueWithoutRepeats(r)
  BY <1>5 DEF EntrypointsNumbered, QueueWithoutRepeats
<1>7. \A i \in DOMAIN r.queue : PointBelongs(r, r.queue[i])
  BY <1>5 DEF PointBelongs
<1>8. OwnersKnown(r)
  BY <1>4 DEF OwnersKnown
<1>9. QED
  BY <1>4, <1>6, <1>7, <1>8 DEF Queues, Consistent, r
-----------------------------------------------------------------------------
(* Lists in order.  A place is the number of keys that are not behind, and *)
(* two keys never have the same one: so every place is taken once.         *)

LEMMA NotBehindFinite ==
  ASSUME NEW n \in Nat, NEW keys \in [1..n -> Int], NEW i \in 1..n
  PROVE  /\ NotBehind(keys, i) \subseteq 1..n /\ IsFiniteSet(NotBehind(keys, i))
         /\ i \in NotBehind(keys, i) /\ Place(keys, i) \in 1..n
<1> DEFINE S == NotBehind(keys, i)
<1>1. S \subseteq 1..n /\ i \in S
  BY DEF NotBehind
<1>2. IsFiniteSet(1..n) /\ Cardinality(1..n) = n
  BY FS_Interval
<1> HIDE DEF S
<1>3. IsFiniteSet(S) /\ Cardinality(S) <= n
  <2>1. S \in SUBSET (1..n)
    BY <1>1
  <2>2. IsFiniteSet(S) /\ Cardinality(S) <= Cardinality(1..n)
    BY ONLY <1>2, <2>1, FS_Subset
  <2>3. QED
    BY <1>2, <2>2
<1>4. Cardinality(S) \in Nat /\ Cardinality(S) # 0
  BY <1>1, <1>3, FS_CardinalityType, FS_EmptySet
<1>5. QED
  BY <1>1, <1>3, <1>4 DEF S, Place

LEMMA PlaceGrows ==
  ASSUME NEW n \in Nat, NEW keys \in [1..n -> Int], NEW i \in 1..n, NEW j \in 1..n,
         keys[i] < keys[j] \/ (keys[i] = keys[j] /\ i < j)
  PROVE  Place(keys, i) < Place(keys, j)
<1> DEFINE S == NotBehind(keys, i)
           T == NotBehind(keys, j)
<1>1. S \subseteq T /\ j \notin S
  BY DEF NotBehind
<1>2. IsFiniteSet(T) /\ j \in T /\ IsFiniteSet(S)
  BY NotBehindFinite
<1> HIDE DEF S, T
<1>3. Cardinality(S) <= Cardinality(T) /\ Cardinality(S) # Cardinality(T)
  BY <1>1, <1>2, FS_Subset
<1>4. Cardinality(S) \in Nat /\ Cardinality(T) \in Nat
  BY <1>2, FS_CardinalityType
<1>5. QED
  BY <1>3, <1>4 DEF S, T, Place

LEMMA PlacesDiffer ==
  ASSUME NEW n \in Nat, NEW keys \in [1..n -> Int], NEW i \in 1..n, NEW j \in 1..n,
         Place(keys, i) = Place(keys, j)
  PROVE  i = j
<1>1. Place(keys, i) \in Nat
  BY NotBehindFinite
<1> SUFFICES ASSUME i # j PROVE FALSE
  OBVIOUS
<1>2. keys[i] \in Int /\ keys[j] \in Int
  OBVIOUS
<1>3. \/ keys[i] < keys[j] \/ (keys[i] = keys[j] /\ i < j)
      \/ keys[j] < keys[i] \/ (keys[j] = keys[i] /\ j < i)
  BY <1>2
<1>4. QED
  BY <1>1, <1>3, PlaceGrows

LEMMA EveryPlaceTaken ==
  ASSUME NEW n \in Nat, NEW keys \in [1..n -> Int], NEW k \in 1..n
  PROVE  \E i \in 1..n : Place(keys, i) = k
<1> DEFINE f == [i \in 1..n |-> Place(keys, i)]
<1>1. f \in [1..n -> 1..n]
  BY NotBehindFinite
<1>2. \A i, j \in 1..n : f[i] = f[j] => i = j
  BY PlacesDiffer
<1> HIDE DEF f
<1>3. f \in Injection(1..n, 1..n)
  BY <1>1, <1>2 DEF Injection, IsInjective
<1>4. f \in Surjection(1..n, 1..n)
  BY <1>3, FS_Interval, FS_Injection
<1>5. \E i \in 1..n : f[i] = k
  BY <1>4 DEF Surjection
<1>6. QED
  BY <1>5 DEF f

(* The order is the list itself, every place of it once. *)
LEMMA AscendingIs ==
  ASSUME NEW n \in Nat, NEW keys \in [1..n -> Int]
  PROVE  /\ Ascending(keys) \in [1..n -> 1..n]
         /\ \A k \in 1..n : Place(keys, Ascending(keys)[k]) = k
         /\ \A i \in 1..n : Ascending(keys)[Place(keys, i)] = i
<1> DEFINE o == Ascending(keys)
<1>1. DOMAIN keys = 1..n
  OBVIOUS
<1>2. o = [k \in 1..n |-> CHOOSE i \in 1..n : Place(keys, i) = k]
  BY <1>1 DEF Ascending
<1>3. \A k \in 1..n : o[k] \in 1..n /\ Place(keys, o[k]) = k
  <2> TAKE k \in 1..n
  <2>1. \E i \in 1..n : Place(keys, i) = k
    BY EveryPlaceTaken
  <2>2. QED
    BY <1>2, <2>1
<1>4. o \in [1..n -> 1..n]
  BY <1>2, <1>3
<1> HIDE DEF o
<1>5. ASSUME NEW i \in 1..n PROVE o[Place(keys, i)] = i
  <2>1. Place(keys, i) \in 1..n
    BY NotBehindFinite
  <2>2. o[Place(keys, i)] \in 1..n /\ Place(keys, o[Place(keys, i)]) = Place(keys, i)
    BY <1>3, <2>1
  <2>3. QED
    BY <2>2, PlacesDiffer
<1>6. QED
  BY <1>3, <1>4, <1>5 DEF o

LEMMA AscendingAscends ==
  ASSUME NEW n \in Nat, NEW keys \in [1..n -> Int], NEW j \in 1..n, NEW k \in 1..n, j <= k
  PROVE  keys[Ascending(keys)[j]] <= keys[Ascending(keys)[k]]
<1> DEFINE x == Ascending(keys)[j]
           y == Ascending(keys)[k]
<1>1. x \in 1..n /\ y \in 1..n /\ Place(keys, x) = j /\ Place(keys, y) = k
  BY AscendingIs
<1> HIDE DEF x, y
<1>2. SUFFICES ASSUME keys[y] < keys[x] PROVE FALSE
  BY <1>1 DEF x, y
<1>3. Place(keys, y) < Place(keys, x)
  BY <1>1, <1>2, PlaceGrows
<1>4. QED
  BY <1>1, <1>3

LEMMA AscendingStays ==
  ASSUME NEW n \in Nat, NEW keys \in [1..n -> Int],
         \A i, j \in 1..n : i <= j => keys[i] <= keys[j], NEW k \in 1..n
  PROVE  Ascending(keys)[k] = k
<1>1. \A i, j \in 1..n : j < i => keys[j] <= keys[i]
  OBVIOUS
<1>2. \A j \in 1..n : (keys[j] < keys[k] \/ (keys[j] = keys[k] /\ j <= k)) <=> j <= k
  <2> TAKE j \in 1..n
  <2>1. keys[j] \in Int /\ keys[k] \in Int
    OBVIOUS
  <2>2. j <= k => keys[j] <= keys[k]
    OBVIOUS
  <2>3. k < j => keys[k] <= keys[j]
    OBVIOUS
  <2>4. QED
    BY <2>1, <2>2, <2>3
<1>3. NotBehind(keys, k) = {j \in 1..n : j <= k}
  BY <1>2 DEF NotBehind
<1>4. {j \in 1..n : j <= k} = 1..k
  OBVIOUS
<1>5. Cardinality(1..k) = k
  BY FS_Interval
<1>6. Place(keys, k) = k
  BY <1>3, <1>4, <1>5 DEF Place
<1>7. QED
  BY <1>6, AscendingIs

-----------------------------------------------------------------------------
(* Segments in the order of their bases: the same segments. *)
LEMMA InBaseOrderIs ==
  ASSUME NEW n \in Nat, NEW S, \A x \in S : x.addr \in Int, NEW table \in [1..n -> S]
  PROVE  /\ InBaseOrder(table) \in [1..n -> S]
         /\ \A j, k \in 1..n :
              j <= k => InBaseOrder(table)[j].addr <= InBaseOrder(table)[k].addr
         /\ (\A i, j \in 1..n : i <= j => table[i].addr <= table[j].addr)
              => InBaseOrder(table) = table
<1> DEFINE keys == [i \in 1..n |-> table[i].addr]
           a == Ascending(keys)
           o == [k \in 1..n |-> table[a[k]]]
<1>1. InBaseOrder(table) = o
  BY DEF InBaseOrder
<1>2. keys \in [1..n -> Int]
  OBVIOUS
<1>3. a \in [1..n -> 1..n]
  BY <1>2, AscendingIs
<1>4. \A j, k \in 1..n : j <= k => keys[a[j]] <= keys[a[k]]
  BY <1>2, AscendingAscends
<1>5. ASSUME \A i, j \in 1..n : i <= j => table[i].addr <= table[j].addr PROVE o = table
  <2>1. \A i, j \in 1..n : i <= j => keys[i] <= keys[j]
    BY <1>5
  <2>2. \A k \in 1..n : a[k] = k
    BY <1>2, <2>1, AscendingStays
  <2> HIDE DEF a
  <2>3. o = [k \in 1..n |-> table[k]]
    BY <2>2
  <2>4. QED
    BY <2>3
<1> HIDE DEF a
<1>6. \A j, k \in 1..n : j <= k => o[j].addr <= o[k].addr
  BY <1>3, <1>4
<1>7. o \in [1..n -> S]
  BY <1>3
<1> HIDE DEF o
<1>8. QED
  BY <1>1, <1>5, <1>6, <1>7

LEMMA InBaseOrderHas ==
  ASSUME NEW n \in Nat, NEW S, \A x \in S : x.addr \in Int, NEW table \in [1..n -> S],
         NEW k \in 1..n
  PROVE  /\ \E i \in 1..n : InBaseOrder(table)[k] = table[i]
         /\ \E i \in 1..n : InBaseOrder(table)[i] = table[k]
<1> DEFINE keys == [i \in 1..n |-> table[i].addr]
<1>1. keys \in [1..n -> Int]
  OBVIOUS
<1>2. /\ Ascending(keys)[k] \in 1..n /\ Place(keys, k) \in 1..n
      /\ Ascending(keys)[Place(keys, k)] = k
  <2>1. /\ Ascending(keys) \in [1..n -> 1..n]
        /\ \A i \in 1..n : Ascending(keys)[Place(keys, i)] = i
    BY <1>1, AscendingIs
  <2>2. Place(keys, k) \in 1..n
    BY <1>1, NotBehindFinite
  <2>3. QED
    BY <2>1, <2>2
<1>3. \A i \in 1..n : InBaseOrder(table)[i] = table[Ascending(keys)[i]]
  BY DEF InBaseOrder
<1> HIDE DEF keys
<1>4. QED
  BY <1>2, <1>3
=============================================================================
