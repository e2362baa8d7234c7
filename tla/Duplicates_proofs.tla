-------------------------- MODULE Duplicates_proofs --------------------------
(***************************************************************************)
(* The edit distance up to its threshold, for all strings, and what the    *)
(* search for duplicates makes of it, for libraries and targets of any     *)
(* number of routines of any length.                                       *)
(*                                                                         *)
(* The table goes forward over prefixes, its definition backward over what *)
(* is left.  In every row some cell lies on a best way through: what was   *)
(* spent up to it and what is left after it add up to the distance, and    *)
(* nowhere to less.  So a row that lies above the threshold leaves no way  *)
(* below it.                                                               *)
(***************************************************************************)
EXTENDS Duplicates, WellFoundedInduction, TLAPS

-----------------------------------------------------------------------------
(* Numbers: a least member, and from each number to the next.              *)

LEMMA LeastExists ==
  ASSUME NEW S, S \subseteq Nat, S # {}
  PROVE  \E x \in S : \A y \in S : x <= y
<1> DEFINE R == OpToRel(<, Nat)
<1>1. IsWellFoundedOn(R, Nat)
  BY NatLessThanWellFounded
<1>2. PICK x \in S : \A y \in S : ~ (<<y, x>> \in R)
  <2> HIDE DEF R
  <2>1. QED
    BY <1>1, WFMin
<1>3. ASSUME NEW y \in S, y < x PROVE <<y, x>> \in R
  BY <1>3 DEF OpToRel
<1> HIDE DEF R
<1>4. \A y \in S : y < x \/ x <= y
  OBVIOUS
<1>5. QED
  BY <1>2, <1>3, <1>4

LEMMA Upwards ==
  ASSUME NEW n \in Nat, NEW S, 0 \in S, \A k \in 1..n : k - 1 \in S => k \in S
  PROVE  0..n \subseteq S
<1> DEFINE T == {k \in 0..n : k \notin S}
<1>1. T \subseteq Nat
  OBVIOUS
<1>2. SUFFICES ASSUME T # {} PROVE FALSE
  OBVIOUS
<1>3. PICK k \in T : \A j \in T : k <= j
  <2> HIDE DEF T
  <2>1. QED
    BY <1>1, <1>2, LeastExists
<1>4. k # 0 /\ k \in 1..n /\ k - 1 \in 0..n /\ k - 1 < k
  OBVIOUS
<1>5. k - 1 \in S
  BY <1>3, <1>4
<1>6. QED
  BY <1>4, <1>5

LEMMA GreatestUpTo ==
  ASSUME NEW n \in Nat, NEW S, S \subseteq 0..n, S # {}
  PROVE  \E x \in S : \A y \in S : y <= x
<1> DEFINE T == {k \in 0..n : n - k \in S}
<1>1. T \subseteq Nat /\ T # {}
  <2>1. PICK s \in S : TRUE
    OBVIOUS
  <2>2. s \in 0..n /\ n - s \in 0..n /\ n - (n - s) = s
    BY <2>1
  <2>3. n - s \in T
    BY <2>1, <2>2
  <2>4. QED
    BY <2>3
<1>2. PICK t \in T : \A u \in T : t <= u
  <2> HIDE DEF T
  <2>1. QED
    BY <1>1, LeastExists
<1>3. ASSUME NEW y \in S PROVE y <= n - t
  <2>1. y \in 0..n /\ n - y \in 0..n /\ n - (n - y) = y
    OBVIOUS
  <2>2. n - y \in T
    BY <2>1
  <2>3. t <= n - y
    BY <1>2, <2>2
  <2>4. QED
    BY <2>1, <2>3
<1>4. QED
  BY <1>2, <1>3

LEMMA LeastOfThree ==
  ASSUME NEW a \in Nat, NEW b \in Nat, NEW c \in Nat
  PROVE  LET l == Least({a, b, c})
         IN l \in Nat /\ (l = a \/ l = b \/ l = c) /\ l <= a /\ l <= b /\ l <= c
<1>1. \E x \in {a, b, c} : \A y \in {a, b, c} : x <= y
  BY LeastExists
<1>2. Least({a, b, c}) \in {a, b, c} /\ \A y \in {a, b, c} : Least({a, b, c}) <= y
  BY <1>1 DEF Least
<1>3. QED
  BY <1>2

-----------------------------------------------------------------------------
(* A row from the one above.                                               *)

Rows(m) == [0..m -> Nat]

CellOf(above, x, s2, left, j) ==
  Least({above[j] + 1, left + 1, above[j - 1] + Differ(x, s2[j])})

LEMMA CellType ==
  ASSUME NEW s2, Len(s2) \in Nat, NEW above \in Rows(Len(s2)), NEW x,
         NEW left \in Nat, NEW j \in 1..Len(s2)
  PROVE  LET c == CellOf(above, x, s2, left, j)
         IN /\ c \in Nat
            /\ c <= above[j] + 1 /\ c <= left + 1 /\ c <= above[j - 1] + Differ(x, s2[j])
            /\ \/ c = above[j] + 1
               \/ c = left + 1
               \/ c = above[j - 1] + Differ(x, s2[j])
<1>1. j \in 0..Len(s2) /\ j - 1 \in 0..Len(s2)
  OBVIOUS
<1>2. above[j] \in Nat /\ above[j - 1] \in Nat
  BY <1>1 DEF Rows
<1>3. Differ(x, s2[j]) \in Nat
  BY DEF Differ
<1>4. /\ above[j] + 1 \in Nat /\ left + 1 \in Nat
      /\ above[j - 1] + Differ(x, s2[j]) \in Nat
  BY <1>2, <1>3
<1>5. QED
  BY <1>4, LeastOfThree DEF CellOf

(* The cells of a row are computed from left to right.                     *)
LEMMA NextRowIs ==
  ASSUME NEW s2, Len(s2) \in Nat, NEW above \in Rows(Len(s2)), NEW x
  PROVE  LET next == NextRow(above, x, s2)
         IN /\ next \in Rows(Len(s2))
            /\ next[0] = above[0] + 1
            /\ \A j \in 1..Len(s2) : next[j] = CellOf(above, x, s2, next[j - 1], j)
<1> DEFINE m == Len(s2)
           Upto(f, k) == /\ f \in [0..k -> Nat] /\ f[0] = above[0] + 1
                         /\ \A j \in 1..k : f[j] = CellOf(above, x, s2, f[j - 1], j)
           Defined == {k \in Nat : \E f : Upto(f, k)}
           Whole(f) == [j \in 0..m |->
                          IF j = 0 THEN above[0] + 1
                          ELSE Least({above[j] + 1, f[j - 1] + 1,
                                      above[j - 1] + Differ(x, s2[j])})]
<1>1. m \in Nat /\ above[0] + 1 \in Nat
  BY DEF Rows
<1> HIDE DEF m
<1>2. 0 \in Defined
  <2>1. Upto([j \in 0..0 |-> above[0] + 1], 0)
    BY <1>1
  <2>2. \E f : Upto(f, 0)
    BY <2>1
  <2>3. QED
    BY <2>2
<1>3. ASSUME NEW k \in 1..m, k - 1 \in Defined
      PROVE  k \in Defined
  <2>1. PICK f : Upto(f, k - 1)
    BY <1>3
  <2>2. k \in Nat \ {0} /\ k - 1 \in 0..(k - 1)
    BY <1>1
  <2> DEFINE new == CellOf(above, x, s2, f[k - 1], k)
             g == [j \in 0..k |-> IF j = k THEN new ELSE f[j]]
  <2>3. f[k - 1] \in Nat
    BY <2>1, <2>2
  <2>4. new \in Nat
    BY <2>3, CellType DEF m
  <2> HIDE DEF new
  <2>5. g \in [0..k -> Nat] /\ g[0] = above[0] + 1
    BY <2>1, <2>2, <2>4
  <2>6. ASSUME NEW j \in 1..k PROVE g[j] = CellOf(above, x, s2, g[j - 1], j)
    <3>1. CASE j = k
      <4>1. g[j] = new /\ g[j - 1] = f[k - 1]
        BY <2>2, <3>1
      <4>2. QED
        BY <3>1, <4>1 DEF new
    <3>2. CASE j # k
      <4>1. j \in 1..(k - 1) /\ j \in 0..k /\ j - 1 \in 0..k /\ j - 1 # k
        BY <2>2, <3>2
      <4>2. f[j] = CellOf(above, x, s2, f[j - 1], j)
        BY <2>1, <4>1
      <4>3. QED
        BY <3>2, <4>1, <4>2
    <3>3. QED
      BY <3>1, <3>2
  <2>7. \E h : Upto(h, k)
    <3>1. Upto(g, k)
      BY <2>5, <2>6
    <3>2. QED
      BY <3>1
  <2>8. QED
    BY <2>2, <2>7
<1>4. PICK f : Upto(f, m)
  <2> HIDE DEF Defined
  <2>1. 0..m \subseteq Defined
    BY <1>1, <1>2, <1>3, Upwards
  <2>2. m \in Defined
    BY <1>1, <2>1
  <2>3. QED
    BY <2>2 DEF Defined
<1>5. \A j \in 0..m : f[j] = Whole(f)[j]
  <2>1. \A j \in 0..m : j # 0 => j \in 1..m
    BY <1>1
  <2>2. QED
    BY <1>4, <2>1 DEF CellOf
<1>6. f = Whole(f)
  BY <1>4, <1>5
<1> DEFINE next == CHOOSE h : h = Whole(h)
<1>7. next = Whole(next)
  BY <1>6
<1>8. NextRow(above, x, s2) = next
  BY DEF NextRow, m
<1> HIDE DEF next
<1>9. next[0] = above[0] + 1
  BY <1>1, <1>7
<1>10. ASSUME NEW j \in 1..m PROVE next[j] = CellOf(above, x, s2, next[j - 1], j)
  <2>1. j \in 0..m /\ j # 0
    BY <1>1
  <2>2. next[j] = Whole(next)[j]
    BY <1>7
  <2>3. QED
    BY <2>1, <2>2 DEF CellOf
<1> DEFINE Good == {j \in 0..m : next[j] \in Nat}
<1>11. 0 \in Good
  BY <1>1, <1>9
<1>12. ASSUME NEW j \in 1..m, j - 1 \in Good PROVE j \in Good
  <2>1. next[j] = CellOf(above, x, s2, next[j - 1], j) /\ j \in 0..m
    BY <1>1, <1>10
  <2>2. next[j] \in Nat
    BY <1>12, <2>1, CellType DEF m
  <2>3. QED
    BY <2>1, <2>2
<1>13. 0..m \subseteq Good
  <2> HIDE DEF Good
  <2>1. QED
    BY <1>1, <1>11, <1>12, Upwards
<1>14. next \in [0..m -> Nat]
  <2>1. next = [j \in 0..m |-> next[j]]
    BY <1>7
  <2>2. QED
    BY <1>13, <2>1
<1>15. QED
  BY <1>8, <1>9, <1>10, <1>14 DEF Rows, m
-----------------------------------------------------------------------------
(* The rows one after the other, until one is given up.                    *)

RowAfter(above, x, s2, thr) ==
  LET next == NextRow(above, x, s2)
  IN IF above = GivenUp \/ ~Below(next, thr) THEN GivenUp ELSE next

LEMMA DistanceSteps ==
  ASSUME NEW s1, Len(s1) \in Nat, NEW s2, NEW thr
  PROVE  \E row :
           /\ row[0] = FirstRow(s2)
           /\ \A i \in 1..Len(s1) : row[i] = RowAfter(row[i - 1], s1[i], s2, thr)
           /\ Distance(s1, s2, thr) = IF row[Len(s1)] = GivenUp THEN MAX_DISTANCE
                                      ELSE row[Len(s1)][Len(s2)]
<1> DEFINE n == Len(s1)
           Upto(f, k) == /\ DOMAIN f = 0..k /\ f[0] = FirstRow(s2)
                         /\ \A i \in 1..k : f[i] = RowAfter(f[i - 1], s1[i], s2, thr)
           Defined == {k \in Nat : \E f : Upto(f, k)}
           Whole(f) == [i \in 0..n |->
                          IF i = 0 THEN FirstRow(s2)
                          ELSE LET above == f[i - 1]
                                   next == NextRow(above, s1[i], s2)
                               IN IF above = GivenUp \/ ~Below(next, thr)
                                  THEN GivenUp ELSE next]
<1>1. n \in Nat
  OBVIOUS
<1> HIDE DEF n
<1>2. 0 \in Defined
  <2>1. Upto([i \in 0..0 |-> FirstRow(s2)], 0)
    OBVIOUS
  <2>2. \E f : Upto(f, 0)
    BY <2>1
  <2>3. QED
    BY <2>2
<1>3. ASSUME NEW k \in 1..n, k - 1 \in Defined
      PROVE  k \in Defined
  <2>1. PICK f : Upto(f, k - 1)
    BY <1>3
  <2>2. k \in Nat \ {0} /\ k - 1 \in 0..(k - 1)
    BY <1>1
  <2> DEFINE new == RowAfter(f[k - 1], s1[k], s2, thr)
             g == [i \in 0..k |-> IF i = k THEN new ELSE f[i]]
  <2> HIDE DEF new
  <2>3. DOMAIN g = 0..k /\ g[0] = FirstRow(s2)
    BY <2>1, <2>2
  <2>4. ASSUME NEW i \in 1..k PROVE g[i] = RowAfter(g[i - 1], s1[i], s2, thr)
    <3>1. CASE i = k
      <4>1. g[i] = new /\ g[i - 1] = f[k - 1]
        BY <2>2, <3>1
      <4>2. QED
        BY <3>1, <4>1 DEF new
    <3>2. CASE i # k
      <4>1. i \in 1..(k - 1) /\ i \in 0..k /\ i - 1 \in 0..k /\ i - 1 # k
        BY <2>2, <3>2
      <4>2. f[i] = RowAfter(f[i - 1], s1[i], s2, thr)
        BY <2>1, <4>1
      <4>3. QED
        BY <3>2, <4>1, <4>2
    <3>3. QED
      BY <3>1, <3>2
  <2>5. \E h : Upto(h, k)
    <3>1. Upto(g, k)
      BY <2>3, <2>4
    <3>2. QED
      BY <3>1
  <2>6. QED
    BY <2>2, <2>5
<1>4. PICK f : Upto(f, n)
  <2> HIDE DEF Defined
  <2>1. 0..n \subseteq Defined
    BY <1>1, <1>2, <1>3, Upwards
  <2>2. n \in Defined
    BY <1>1, <2>1
  <2>3. QED
    BY <2>2 DEF Defined
<1> DEFINE g == [i \in 0..n |-> f[i]]
<1>5. \A i \in 0..n : g[i] = Whole(g)[i]
  <2>1. \A i \in 0..n : i # 0 => i \in 1..n /\ i - 1 \in 0..n
    BY <1>1
  <2>2. \A i \in 0..n : g[i] = f[i]
    OBVIOUS
  <2>3. \A i \in 0..n : g[i] = IF i = 0 THEN FirstRow(s2) ELSE RowAfter(g[i - 1], s1[i], s2, thr)
    BY <1>4, <2>1, <2>2
  <2>4. QED
    BY <2>3 DEF RowAfter
<1>6. g = Whole(g)
  BY <1>5
<1> DEFINE row == CHOOSE h : h = Whole(h)
<1>7. row = Whole(row)
  BY <1>6
<1>8. Distance(s1, s2, thr) = IF row[n] = GivenUp THEN MAX_DISTANCE ELSE row[n][Len(s2)]
  BY DEF Distance, n
<1> HIDE DEF row
<1>9. \A i \in 0..n : row[i] = Whole(row)[i]
  BY <1>7
<1>10. row[0] = FirstRow(s2)
  BY <1>1, <1>9
<1>11. ASSUME NEW i \in 1..n PROVE row[i] = RowAfter(row[i - 1], s1[i], s2, thr)
  <2>1. i \in 0..n /\ i # 0
    BY <1>1
  <2>2. QED
    BY <1>9, <2>1 DEF RowAfter
<1>12. QED
  BY <1>8, <1>10, <1>11 DEF n

-----------------------------------------------------------------------------
(* What is left after i and j instructions, from the ends backward.        *)

EditsAt(s1, s2, e, i, j) ==
  IF i = Len(s1) THEN Len(s2) - j
  ELSE IF j = Len(s2) THEN Len(s1) - i
  ELSE Least({e[<<i + 1, j>>] + 1, e[<<i, j + 1>>] + 1,
              e[<<i + 1, j + 1>>] + Differ(s1[i + 1], s2[j + 1])})

Cells(n, m) == (0..n) \X (0..m)

LEMMA EditsAtType ==
  ASSUME NEW s1, Len(s1) \in Nat, NEW s2, Len(s2) \in Nat,
         NEW i \in 0..Len(s1), NEW j \in 0..Len(s2), NEW e,
         i # Len(s1) /\ j # Len(s2) =>
           /\ e[<<i + 1, j>>] \in Nat /\ e[<<i, j + 1>>] \in Nat
           /\ e[<<i + 1, j + 1>>] \in Nat
  PROVE  EditsAt(s1, s2, e, i, j) \in Nat
<1>1. CASE i = Len(s1) \/ j = Len(s2)
  BY <1>1 DEF EditsAt
<1>2. CASE i # Len(s1) /\ j # Len(s2)
  <2>1. /\ e[<<i + 1, j>>] + 1 \in Nat /\ e[<<i, j + 1>>] + 1 \in Nat
        /\ e[<<i + 1, j + 1>>] + Differ(s1[i + 1], s2[j + 1]) \in Nat
    BY <1>2 DEF Differ
  <2>2. Least({e[<<i + 1, j>>] + 1, e[<<i, j + 1>>] + 1,
               e[<<i + 1, j + 1>>] + Differ(s1[i + 1], s2[j + 1])}) \in Nat
    BY <2>1, LeastOfThree
  <2>3. QED
    BY <1>2, <2>2 DEF EditsAt
<1>3. QED
  BY <1>1, <1>2

LEMMA EditsSteps ==
  ASSUME NEW s1, Len(s1) \in Nat, NEW s2, Len(s2) \in Nat
  PROVE  \E e : /\ LeastEdits(s1, s2) = e[<<0, 0>>]
                /\ \A i \in 0..Len(s1), j \in 0..Len(s2) :
                     e[<<i, j>>] \in Nat /\ e[<<i, j>>] = EditsAt(s1, s2, e, i, j)
<1> DEFINE n == Len(s1)
           m == Len(s2)
           N == n + m
           Near(i, j, k) == N - i - j <= k
           Upto(f, k) == \A i \in 0..n, j \in 0..m :
                           Near(i, j, k) => /\ f[<<i, j>>] \in Nat
                                            /\ f[<<i, j>>] = EditsAt(s1, s2, f, i, j)
           Defined == {k \in Nat : \E f : Upto(f, k)}
           Whole(f) == [p \in (0..Len(s1)) \X (0..Len(s2)) |->
                          LET i == p[1]
                              j == p[2]
                          IN IF i = Len(s1) THEN Len(s2) - j
                             ELSE IF j = Len(s2) THEN Len(s1) - i
                             ELSE Least({f[<<i + 1, j>>] + 1, f[<<i, j + 1>>] + 1,
                                         f[<<i + 1, j + 1>>] + Differ(s1[i + 1], s2[j + 1])})]
<1>1. n \in Nat /\ m \in Nat /\ N \in Nat /\ N = n + m
  OBVIOUS
<1> HIDE DEF n, m, N
<1>2. ASSUME NEW i \in 0..n, NEW j \in 0..m
      PROVE  /\ Near(i, j, N)
             /\ Near(i, j, 0) => i = n /\ j = m
             /\ i # n /\ j # m => /\ i + 1 \in 0..n /\ j + 1 \in 0..m
                                  /\ \A k \in Nat : Near(i, j, k) =>
                                       /\ Near(i + 1, j, k - 1) /\ Near(i, j + 1, k - 1)
                                       /\ Near(i + 1, j + 1, k - 1)
  BY <1>1
<1>3. ASSUME NEW i \in 0..n, NEW j \in 0..m, NEW k \in Nat, Near(i, j, k), k # 0
      PROVE  i # n /\ j # m => /\ i + 1 \in 0..n /\ j + 1 \in 0..m /\ Near(i + 1, j, k - 1)
                               /\ Near(i, j + 1, k - 1) /\ Near(i + 1, j + 1, k - 1)
  BY <1>2, <1>3
<1>4. ASSUME NEW f, NEW i \in 0..n, NEW j \in 0..m, Near(i, j, 0)
      PROVE  EditsAt(s1, s2, f, i, j) = 0
  <2>1. i = n /\ j = m
    BY <1>2, <1>4
  <2>2. QED
    BY <1>1, <2>1 DEF EditsAt, n, m
<1> HIDE DEF Near
<1>5. 0 \in Defined
  <2>1. Upto([p \in Cells(n, m) |-> 0], 0)
    <3> DEFINE zero == [p \in Cells(n, m) |-> 0]
    <3>1. ASSUME NEW i \in 0..n, NEW j \in 0..m, Near(i, j, 0)
          PROVE  zero[<<i, j>>] \in Nat /\ zero[<<i, j>>] = EditsAt(s1, s2, zero, i, j)
      <4>1. zero[<<i, j>>] = 0
        BY DEF Cells
      <4> HIDE DEF zero
      <4>2. EditsAt(s1, s2, zero, i, j) = 0
        BY <1>4, <3>1
      <4>3. QED
        BY <4>1, <4>2
    <3>2. QED
      BY <3>1
  <2>2. \E f : Upto(f, 0)
    BY <2>1
  <2>3. QED
    BY <2>2
<1>6. ASSUME NEW k \in 1..N, k - 1 \in Defined
      PROVE  k \in Defined
  <2>1. PICK f : Upto(f, k - 1)
    BY <1>6
  <2>2. k \in Nat /\ k # 0 /\ k - 1 \in Nat
    BY <1>1
  <2> DEFINE g == [p \in Cells(n, m) |->
                     IF Near(p[1], p[2], k - 1) THEN f[p] ELSE EditsAt(s1, s2, f, p[1], p[2])]
  <2>3. ASSUME NEW i \in 0..n, NEW j \in 0..m
        PROVE  g[<<i, j>>] = IF Near(i, j, k - 1) THEN f[<<i, j>>] ELSE EditsAt(s1, s2, f, i, j)
    BY DEF Cells
  <2> HIDE DEF g
  <2>4. ASSUME NEW i \in 0..n, NEW j \in 0..m, Near(i, j, k)
        PROVE  g[<<i, j>>] \in Nat /\ g[<<i, j>>] = EditsAt(s1, s2, g, i, j)
    <3>1. i # n /\ j # m =>
            /\ f[<<i + 1, j>>] \in Nat /\ f[<<i, j + 1>>] \in Nat
            /\ f[<<i + 1, j + 1>>] \in Nat
            /\ g[<<i + 1, j>>] = f[<<i + 1, j>>] /\ g[<<i, j + 1>>] = f[<<i, j + 1>>]
            /\ g[<<i + 1, j + 1>>] = f[<<i + 1, j + 1>>]
      <4> SUFFICES ASSUME i # n, j # m
                   PROVE  /\ f[<<i + 1, j>>] \in Nat /\ f[<<i, j + 1>>] \in Nat
                          /\ f[<<i + 1, j + 1>>] \in Nat
                          /\ g[<<i + 1, j>>] = f[<<i + 1, j>>] /\ g[<<i, j + 1>>] = f[<<i, j + 1>>]
                          /\ g[<<i + 1, j + 1>>] = f[<<i + 1, j + 1>>]
        OBVIOUS
      <4>1. /\ i + 1 \in 0..n /\ j + 1 \in 0..m /\ Near(i + 1, j, k - 1)
            /\ Near(i, j + 1, k - 1) /\ Near(i + 1, j + 1, k - 1)
        BY <1>3, <2>2, <2>4
      <4>2. QED
        BY <2>1, <2>3, <4>1
    <3>2. EditsAt(s1, s2, g, i, j) = EditsAt(s1, s2, f, i, j)
      <4>1. i # Len(s1) /\ j # Len(s2) =>
              /\ g[<<i + 1, j>>] = f[<<i + 1, j>>] /\ g[<<i, j + 1>>] = f[<<i, j + 1>>]
              /\ g[<<i + 1, j + 1>>] = f[<<i + 1, j + 1>>]
        BY <3>1 DEF n, m
      <4>2. QED
        BY ONLY <4>1 DEF EditsAt
    <3>3. EditsAt(s1, s2, f, i, j) \in Nat
      BY <3>1, EditsAtType DEF n, m
    <3>4. g[<<i, j>>] = EditsAt(s1, s2, f, i, j)
      BY <2>1, <2>3
    <3>5. QED
      BY <3>2, <3>3, <3>4
  <2>5. \E h : Upto(h, k)
    <3>1. Upto(g, k)
      BY <2>4
    <3>2. QED
      BY <3>1
  <2>6. QED
    BY <2>2, <2>5
<1>7. PICK f : Upto(f, N)
  <2> HIDE DEF Defined
  <2>1. 0..N \subseteq Defined
    BY <1>1, <1>5, <1>6, Upwards
  <2>2. N \in Defined
    BY <1>1, <2>1
  <2>3. QED
    BY <2>2 DEF Defined
<1>8. \A i \in 0..n, j \in 0..m : f[<<i, j>>] = EditsAt(s1, s2, f, i, j)
  BY <1>2, <1>7
<1> DEFINE g == [p \in Cells(n, m) |-> f[p]]
<1>9. \A i \in 0..n, j \in 0..m : g[<<i, j>>] = f[<<i, j>>]
  BY DEF Cells
<1>10. ASSUME NEW p \in Cells(n, m) PROVE g[p] = EditsAt(s1, s2, g, p[1], p[2])
  <2>1. p[1] \in 0..n /\ p[2] \in 0..m /\ p = <<p[1], p[2]>>
    BY DEF Cells
  <2>2. ASSUME NEW h, \A i \in 0..n, j \in 0..m : h[<<i, j>>] = f[<<i, j>>],
               NEW i \in 0..n, NEW j \in 0..m
        PROVE  h[<<i, j>>] = EditsAt(s1, s2, h, i, j)
    <3>1. i # n /\ j # m => i + 1 \in 0..n /\ j + 1 \in 0..m
      BY <1>2
    <3>2. EditsAt(s1, s2, h, i, j) = EditsAt(s1, s2, f, i, j)
      <4>1. i # Len(s1) /\ j # Len(s2) =>
              /\ h[<<i + 1, j>>] = f[<<i + 1, j>>] /\ h[<<i, j + 1>>] = f[<<i, j + 1>>]
              /\ h[<<i + 1, j + 1>>] = f[<<i + 1, j + 1>>]
        BY <2>2, <3>1 DEF n, m
      <4>2. QED
        BY ONLY <4>1 DEF EditsAt
    <3>3. QED
      BY <1>8, <2>2, <3>2
  <2> HIDE DEF g
  <2>3. QED
    BY <1>9, <2>1, <2>2
<1>11. g = Whole(g)
  <2>1. \A p \in Cells(n, m) : g[p] = Whole(g)[p]
    <3> HIDE DEF g
    <3>1. QED
      BY <1>10 DEF EditsAt, Cells, n, m
  <2>2. Whole(g) = [p \in Cells(n, m) |-> Whole(g)[p]]
    BY DEF Cells, n, m
  <2>3. g = [p \in Cells(n, m) |-> g[p]]
    OBVIOUS
  <2> HIDE DEF g, Whole
  <2>4. QED
    BY <2>1, <2>2, <2>3
<1> DEFINE e == CHOOSE h : h = Whole(h)
<1>12. e = Whole(e)
  <2> HIDE DEF g, Whole
  <2>1. QED
    BY <1>11
<1>13. LeastEdits(s1, s2) = e[<<0, 0>>]
  BY DEF LeastEdits
<1> HIDE DEF e
<1>14. ASSUME NEW i \in 0..n, NEW j \in 0..m PROVE e[<<i, j>>] = EditsAt(s1, s2, e, i, j)
  <2>1. <<i, j>> \in Cells(n, m)
    BY DEF Cells
  <2>2. Whole(e)[<<i, j>>] = EditsAt(s1, s2, e, i, j)
    BY <2>1 DEF EditsAt, Cells, n, m
  <2>3. QED
    BY <1>12, <2>2
<1> DEFINE Good == {k \in 0..N : \A i \in 0..n, j \in 0..m : Near(i, j, k) => e[<<i, j>>] \in Nat}
<1>15. 0 \in Good
  BY <1>1, <1>4, <1>14
<1>16. ASSUME NEW k \in 1..N, k - 1 \in Good PROVE k \in Good
  <2>1. k \in 0..N /\ k \in Nat /\ k # 0 /\ k - 1 \in Nat
    BY <1>1
  <2>2. ASSUME NEW i \in 0..n, NEW j \in 0..m, Near(i, j, k) PROVE e[<<i, j>>] \in Nat
    <3>1. i # n /\ j # m =>
            /\ e[<<i + 1, j>>] \in Nat /\ e[<<i, j + 1>>] \in Nat
            /\ e[<<i + 1, j + 1>>] \in Nat
      BY <1>3, <1>16, <2>1, <2>2
    <3>2. EditsAt(s1, s2, e, i, j) \in Nat
      BY <3>1, EditsAtType DEF n, m
    <3>3. QED
      BY <1>14, <3>2
  <2>3. QED
    BY <2>1, <2>2
<1>17. 0..N \subseteq Good
  <2> HIDE DEF Good
  <2>1. QED
    BY <1>1, <1>15, <1>16, Upwards
<1>18. \A i \in 0..n, j \in 0..m : e[<<i, j>>] \in Nat
  <2>1. N \in Good
    BY <1>1, <1>17
  <2>2. QED
    BY <1>2, <2>1
<1>19. QED
  BY <1>13, <1>14, <1>18 DEF n, m
Rest(e, i, j) == e[<<i, j>>]
Cost(s1, s2, i, j) == Differ(s1[i + 1], s2[j + 1])

Edits(s1, s2, e) ==
  \A i \in 0..Len(s1), j \in 0..Len(s2) :
    e[<<i, j>>] \in Nat /\ e[<<i, j>>] = EditsAt(s1, s2, e, i, j)

(* Neighbours differ by what the step between them costs, and one of the   *)
(* three steps is on a best way. *)
LEMMA EditsNear ==
  ASSUME NEW s1, Len(s1) \in Nat, NEW s2, Len(s2) \in Nat, NEW e, Edits(s1, s2, e),
         NEW i \in 0..Len(s1), NEW j \in 0..Len(s2)
  PROVE  /\ Rest(e, i, j) \in Nat
         /\ i = Len(s1) => Rest(e, i, j) = Len(s2) - j
         /\ j = Len(s2) => Rest(e, i, j) = Len(s1) - i
         /\ i # Len(s1) => Rest(e, i, j) <= Rest(e, i + 1, j) + 1
         /\ j # Len(s2) => Rest(e, i, j) <= Rest(e, i, j + 1) + 1
         /\ i # Len(s1) /\ j # Len(s2) =>
              /\ Rest(e, i, j) <= Rest(e, i + 1, j + 1) + Cost(s1, s2, i, j)
              /\ \/ Rest(e, i, j) = Rest(e, i + 1, j) + 1
                 \/ Rest(e, i, j) = Rest(e, i, j + 1) + 1
                 \/ Rest(e, i, j) = Rest(e, i + 1, j + 1) + Cost(s1, s2, i, j)
<1> DEFINE n == Len(s1)
           m == Len(s2)
<1>1. n \in Nat /\ m \in Nat /\ i \in 0..n /\ j \in 0..m
  OBVIOUS
<1>2. ASSUME NEW k \in 0..n, NEW l \in 0..m
      PROVE  /\ Rest(e, k, l) \in Nat
             /\ k = n => Rest(e, k, l) = m - l
             /\ k # n /\ l = m => Rest(e, k, l) = n - k
             /\ k # n /\ l # m =>
                  Rest(e, k, l) = Least({Rest(e, k + 1, l) + 1, Rest(e, k, l + 1) + 1,
                                         Rest(e, k + 1, l + 1) + Cost(s1, s2, k, l)})
  BY DEF Edits, EditsAt, Rest, Cost
<1> HIDE DEF n, m
<1>3. ASSUME i # n, j # m
      PROVE  /\ Rest(e, i, j) <= Rest(e, i + 1, j) + 1
             /\ Rest(e, i, j) <= Rest(e, i, j + 1) + 1
             /\ Rest(e, i, j) <= Rest(e, i + 1, j + 1) + Cost(s1, s2, i, j)
             /\ \/ Rest(e, i, j) = Rest(e, i + 1, j) + 1
                \/ Rest(e, i, j) = Rest(e, i, j + 1) + 1
                \/ Rest(e, i, j) = Rest(e, i + 1, j + 1) + Cost(s1, s2, i, j)
  <2>1. i + 1 \in 0..n /\ j + 1 \in 0..m
    BY <1>1, <1>3
  <2> DEFINE a == Rest(e, i + 1, j) + 1
             b == Rest(e, i, j + 1) + 1
             c == Rest(e, i + 1, j + 1) + Cost(s1, s2, i, j)
  <2>2. a \in Nat /\ b \in Nat /\ c \in Nat
    <3>1. Rest(e, i + 1, j) \in Nat /\ Rest(e, i, j + 1) \in Nat /\ Rest(e, i + 1, j + 1) \in Nat
      BY <1>1, <1>2, <2>1
    <3>2. Cost(s1, s2, i, j) \in Nat
      BY DEF Differ, Cost
    <3>3. QED
      BY <3>1, <3>2
  <2>3. Rest(e, i, j) = Least({a, b, c})
    BY <1>1, <1>2, <1>3
  <2>4. /\ Rest(e, i, j) <= a /\ Rest(e, i, j) <= b /\ Rest(e, i, j) <= c
        /\ Rest(e, i, j) = a \/ Rest(e, i, j) = b \/ Rest(e, i, j) = c
    <3> HIDE DEF a, b, c
    <3>1. LET l == Least({a, b, c})
          IN l \in Nat /\ (l = a \/ l = b \/ l = c) /\ l <= a /\ l <= b /\ l <= c
      BY ONLY <2>2, LeastOfThree
    <3>2. QED
      BY <2>3, <3>1
  <2>5. QED
    BY <2>4
<1>4. ASSUME NEW k \in 0..n, j = m PROVE Rest(e, k, j) = n - k
  <2>1. CASE k = n
    <3>1. Rest(e, k, j) = m - j
      BY <1>1, <1>2, <2>1
    <3>2. QED
      BY <1>1, <1>4, <2>1, <3>1
  <2>2. CASE k # n
    BY <1>1, <1>2, <1>4, <2>2
  <2>3. QED
    BY <2>1, <2>2
<1>5. ASSUME i # n, j = m PROVE Rest(e, i, j) <= Rest(e, i + 1, j) + 1
  <2>1. i + 1 \in 0..n /\ i \in Nat
    BY <1>1, <1>5
  <2>2. Rest(e, i, j) = n - i /\ Rest(e, i + 1, j) = n - (i + 1)
    BY <1>1, <1>4, <1>5, <2>1
  <2>3. QED
    BY <1>1, <2>1, <2>2
<1>6. ASSUME i = n, j # m PROVE Rest(e, i, j) <= Rest(e, i, j + 1) + 1
  <2>1. j + 1 \in 0..m /\ j \in Nat
    BY <1>1, <1>6
  <2>2. Rest(e, i, j) = m - j /\ Rest(e, i, j + 1) = m - (j + 1)
    BY <1>1, <1>2, <1>6, <2>1
  <2>3. QED
    BY <1>1, <2>1, <2>2
<1>7. i # n => Rest(e, i, j) <= Rest(e, i + 1, j) + 1
  BY <1>3, <1>5
<1>8. j # m => Rest(e, i, j) <= Rest(e, i, j + 1) + 1
  BY <1>3, <1>6
<1>9. Rest(e, i, j) \in Nat /\ (i = n => Rest(e, i, j) = m - j)
  BY <1>1, <1>2
<1>10. QED
  BY <1>1, <1>3, <1>4, <1>7, <1>8, <1>9 DEF n, m

-----------------------------------------------------------------------------
(* What every row is, as long as none was given up.                        *)

OnTheWay(row, e, i, m, total) ==
  /\ row \in Rows(m)
  /\ \A j \in 1..m : row[j] <= row[j - 1] + 1
  /\ \A j \in 0..m : total <= row[j] + Rest(e, i, j)
  /\ \E j \in 0..m : row[j] + Rest(e, i, j) <= total

LEMMA FirstOnTheWay ==
  ASSUME NEW s1, Len(s1) \in Nat, NEW s2, Len(s2) \in Nat, NEW e, Edits(s1, s2, e)
  PROVE  OnTheWay(FirstRow(s2), e, 0, Len(s2), Rest(e, 0, 0))
<1> DEFINE m == Len(s2)
           row == FirstRow(s2)
           total == Rest(e, 0, 0)
           Good == {j \in 0..m : total <= j + Rest(e, 0, j)}
<1>1. m \in Nat /\ 0 \in 0..m /\ 0 \in 0..Len(s1)
  OBVIOUS
<1>2. ASSUME NEW j \in 0..m PROVE row[j] = j /\ Rest(e, 0, j) \in Nat /\ j \in Nat
  BY <1>1, EditsNear DEF FirstRow
<1>3. row \in Rows(m)
  BY DEF FirstRow, Rows
<1>4. ASSUME NEW j \in 1..m PROVE row[j] <= row[j - 1] + 1
  <2>1. j \in 0..m /\ j - 1 \in 0..m /\ j \in Nat
    BY <1>1
  <2>2. row[j] = j /\ row[j - 1] = j - 1
    BY <1>2, <2>1
  <2> HIDE DEF row
  <2>3. QED
    BY <2>1, <2>2
<1>5. 0 \in Good
  BY <1>1, <1>2
<1>6. ASSUME NEW j \in 1..m, j - 1 \in Good PROVE j \in Good
  <2>1. j \in 0..m /\ j - 1 \in 0..m /\ j - 1 # m /\ (j - 1) + 1 = j /\ j \in Nat
    BY <1>1
  <2>2. Rest(e, 0, j - 1) <= Rest(e, 0, j) + 1
    BY <1>1, <2>1, EditsNear
  <2>3. total \in Nat /\ Rest(e, 0, j) \in Nat /\ Rest(e, 0, j - 1) \in Nat
    BY <1>1, <1>2, <2>1
  <2>4. total <= (j - 1) + Rest(e, 0, j - 1)
    BY <1>6
  <2> HIDE DEF total
  <2>5. total <= j + Rest(e, 0, j)
    BY <2>1, <2>2, <2>3, <2>4
  <2>6. QED
    BY <2>1, <2>5
<1>7. 0..m \subseteq Good
  <2> HIDE DEF Good
  <2>1. QED
    BY <1>1, <1>5, <1>6, Upwards
<1>8. \A j \in 0..m : total <= row[j] + Rest(e, 0, j)
  BY <1>2, <1>7
<1>9. row[0] + Rest(e, 0, 0) <= total
  BY <1>1, <1>2
<1>10. QED
  BY <1>1, <1>3, <1>4, <1>8, <1>9 DEF OnTheWay
LEMMA NextOnTheWay ==
  ASSUME NEW s1, Len(s1) \in Nat, NEW s2, Len(s2) \in Nat, NEW e, Edits(s1, s2, e),
         NEW i \in 0..Len(s1), i # Len(s1), NEW above, NEW total \in Nat,
         OnTheWay(above, e, i, Len(s2), total)
  PROVE  LET next == NextRow(above, s1[i + 1], s2)
         IN /\ OnTheWay(next, e, i + 1, Len(s2), total)
            /\ Len(s2) # 0 => next[1] <= next[0]
<1> DEFINE m == Len(s2)
           x == s1[i + 1]
           next == NextRow(above, x, s2)
<1>1. m \in Nat /\ 0 \in 0..m /\ i \in Nat /\ i + 1 \in 0..Len(s1)
  OBVIOUS
<1>2. /\ above \in Rows(m)
      /\ \A j \in 1..m : above[j] <= above[j - 1] + 1
      /\ \A j \in 0..m : total <= above[j] + Rest(e, i, j)
      /\ \E j \in 0..m : above[j] + Rest(e, i, j) <= total
  BY DEF OnTheWay
<1> HIDE DEF x, next
<1>3. /\ next \in Rows(m) /\ next[0] = above[0] + 1
      /\ \A j \in 1..m : next[j] = CellOf(above, x, s2, next[j - 1], j)
  BY <1>2, NextRowIs DEF next
<1>4. ASSUME NEW j \in 0..m
      PROVE  above[j] \in Nat /\ next[j] \in Nat
  BY <1>2, <1>3 DEF Rows
<1>5. ASSUME NEW j \in 0..m, j # 0
      PROVE  /\ j \in 1..m /\ j - 1 \in 0..m /\ j - 1 # m /\ (j - 1) + 1 = j
             /\ Differ(x, s2[j]) = Cost(s1, s2, i, j - 1)
  <2>1. j \in 1..m /\ j - 1 \in 0..m /\ j - 1 # m /\ (j - 1) + 1 = j
    BY <1>1, <1>5
  <2>2. QED
    BY <2>1 DEF Cost, x
<1>6. ASSUME NEW j \in 1..m
      PROVE  /\ next[j] <= above[j] + 1 /\ next[j] <= next[j - 1] + 1
             /\ next[j] <= above[j - 1] + Differ(x, s2[j])
             /\ \/ next[j] = above[j] + 1
                \/ next[j] = next[j - 1] + 1
                \/ next[j] = above[j - 1] + Differ(x, s2[j])
  <2>1. j \in 0..m /\ j - 1 \in 0..m
    BY <1>1
  <2>2. next[j - 1] \in Nat
    BY <1>4, <2>1
  <2> DEFINE left == next[j - 1]
             c == CellOf(above, x, s2, left, j)
  <2>3. next[j] = c
    BY <1>3
  <2> HIDE DEF left
  <2>4. /\ c <= above[j] + 1 /\ c <= left + 1 /\ c <= above[j - 1] + Differ(x, s2[j])
        /\ \/ c = above[j] + 1
           \/ c = left + 1
           \/ c = above[j - 1] + Differ(x, s2[j])
    <3>1. left \in Nat
      BY <2>2 DEF left
    <3>2. QED
      BY <1>1, <1>2, <3>1, CellType
  <2> HIDE DEF c
  <2>5. QED
    BY <2>3, <2>4 DEF left
<1>7. \A j \in 0..m : Rest(e, i, j) \in Nat /\ Rest(e, i + 1, j) \in Nat
  BY <1>1, EditsNear

<1> DEFINE Good == {j \in 0..m : total <= next[j] + Rest(e, i + 1, j)}
<1>8. ASSUME NEW j \in 0..m PROVE Rest(e, i, j) <= Rest(e, i + 1, j) + 1
  BY EditsNear
<1>9. 0 \in Good
  <2>1. total <= above[0] + Rest(e, i, 0)
    BY <1>1, <1>2
  <2>2. Rest(e, i, 0) <= Rest(e, i + 1, 0) + 1
    BY <1>1, <1>8
  <2>3. total <= next[0] + Rest(e, i + 1, 0)
    BY <1>1, <1>3, <1>4, <1>7, <2>1, <2>2
  <2>4. QED
    BY <1>1, <2>3
<1>10. ASSUME NEW j \in 1..m, j - 1 \in Good PROVE j \in Good
  <2>1. j \in 0..m /\ j # 0
    BY <1>1
  <2>2. j - 1 \in 0..m /\ j - 1 # m /\ (j - 1) + 1 = j
    BY <1>5, <2>1
  <2>3. /\ above[j] \in Nat /\ above[j - 1] \in Nat /\ next[j] \in Nat /\ next[j - 1] \in Nat
        /\ Rest(e, i, j) \in Nat /\ Rest(e, i + 1, j) \in Nat
        /\ Rest(e, i, j - 1) \in Nat /\ Rest(e, i + 1, j - 1) \in Nat
    BY <1>4, <1>7, <2>1, <2>2
  <2>4. CASE next[j] = above[j] + 1
    <3>1. total <= above[j] + Rest(e, i, j)
      BY <1>2, <2>1
    <3>2. Rest(e, i, j) <= Rest(e, i + 1, j) + 1
      BY <1>8, <2>1
    <3>3. QED
      BY <2>1, <2>3, <2>4, <3>1, <3>2
  <2>5. CASE next[j] = next[j - 1] + 1
    <3>1. total <= next[j - 1] + Rest(e, i + 1, j - 1)
      BY <1>10
    <3>2. Rest(e, i + 1, j - 1) <= Rest(e, i + 1, j) + 1
      <4>1. ASSUME NEW k \in 0..Len(s1), NEW l \in 0..m, l # m
            PROVE  Rest(e, k, l) <= Rest(e, k, l + 1) + 1
        BY <4>1, EditsNear
      <4>2. QED
        BY <1>1, <2>2, <4>1
    <3>3. QED
      BY <2>1, <2>3, <2>5, <3>1, <3>2
  <2>6. CASE next[j] = above[j - 1] + Differ(x, s2[j])
    <3>1. total <= above[j - 1] + Rest(e, i, j - 1)
      BY <1>2, <2>2
    <3>2. Rest(e, i, j - 1) <= Rest(e, i + 1, j) + Cost(s1, s2, i, j - 1)
      BY <2>2, EditsNear
    <3>3. Differ(x, s2[j]) = Cost(s1, s2, i, j - 1) /\ Cost(s1, s2, i, j - 1) \in Nat
      BY <1>5, <2>1 DEF Cost, Differ
    <3>4. QED
      BY <2>1, <2>3, <2>6, <3>1, <3>2, <3>3
  <2>7. QED
    BY <1>6, <2>4, <2>5, <2>6
<1>11. \A j \in 0..m : total <= next[j] + Rest(e, i + 1, j)
  <2>1. 0..m \subseteq Good
    <3> HIDE DEF Good
    <3>1. QED
      BY <1>1, <1>9, <1>10, Upwards
  <2>2. QED
    BY <2>1

<1> DEFINE Best0 == {j \in 0..m : above[j] + Rest(e, i, j) <= total}
<1>12. PICK j \in Best0 : \A k \in Best0 : k <= j
  <2>1. Best0 \subseteq 0..m /\ Best0 # {}
    BY <1>2
  <2> HIDE DEF Best0
  <2>2. QED
    BY <1>1, <2>1, GreatestUpTo
<1>13. /\ j \in 0..m /\ j \in Nat /\ above[j] + Rest(e, i, j) <= total
       /\ above[j] \in Nat /\ next[j] \in Nat /\ Rest(e, i, j) \in Nat
       /\ Rest(e, i + 1, j) \in Nat
  BY <1>1, <1>4, <1>7
<1>14. next[j] <= above[j] + 1
  <2>1. CASE j = 0
    BY <1>3, <1>13, <2>1
  <2>2. CASE j # 0
    BY <1>5, <1>6, <1>13, <2>2
  <2>3. QED
    BY <2>1, <2>2
<1>15. \E k \in 0..m : next[k] + Rest(e, i + 1, k) <= total
  <2>1. CASE Rest(e, i, j) = Rest(e, i + 1, j) + 1
    <3>1. next[j] + Rest(e, i + 1, j) <= total
      BY <1>13, <1>14, <2>1
    <3>2. QED
      BY <1>13, <3>1
  <2>2. CASE j = m
    <3>1. Rest(e, i, j) = Len(s1) - i /\ Rest(e, i + 1, j) = Len(s1) - (i + 1)
      BY <1>1, <1>13, <2>2, EditsNear
    <3>2. Rest(e, i, j) = Rest(e, i + 1, j) + 1
      BY <1>1, <3>1
    <3>3. QED
      BY <2>1, <3>2
  <2>3. CASE j # m /\ Rest(e, i, j) = Rest(e, i, j + 1) + 1
    <3>1. j + 1 \in 0..m /\ j + 1 \in 1..m /\ (j + 1) - 1 = j /\ j + 1 > j
      BY <1>1, <1>13, <2>3
    <3>2. above[j + 1] <= above[j] + 1
      BY <1>2, <3>1
    <3>3. above[j + 1] \in Nat /\ Rest(e, i, j + 1) \in Nat
      BY <1>4, <1>7, <3>1
    <3>4. above[j + 1] + Rest(e, i, j + 1) <= total
      BY <1>13, <2>3, <3>2, <3>3
    <3>5. j + 1 <= j
      BY <1>12, <3>1, <3>4
    <3>6. QED
      BY <1>13, <3>5
  <2>4. CASE j # m /\ Rest(e, i, j) = Rest(e, i + 1, j + 1) + Cost(s1, s2, i, j)
    <3>1. j + 1 \in 0..m /\ j + 1 \in 1..m /\ (j + 1) - 1 = j /\ j + 1 # 0
      BY <1>1, <1>13, <2>4
    <3>2. Differ(x, s2[j + 1]) = Cost(s1, s2, i, j) /\ Cost(s1, s2, i, j) \in Nat
      BY DEF Cost, Differ, x
    <3>3. next[j + 1] <= above[j] + Differ(x, s2[j + 1])
      BY <1>6, <3>1
    <3>4. next[j + 1] \in Nat /\ Rest(e, i + 1, j + 1) \in Nat
      BY <1>4, <1>7, <3>1
    <3>5. next[j + 1] + Rest(e, i + 1, j + 1) <= total
      BY <1>13, <2>4, <3>2, <3>3, <3>4
    <3>6. QED
      BY <3>1, <3>5
  <2>5. QED
    BY <1>13, <2>1, <2>2, <2>3, <2>4, EditsNear
<1>16. m # 0 => next[1] <= next[0]
  <2>1. SUFFICES ASSUME m # 0 PROVE next[1] <= next[0]
    OBVIOUS
  <2>2. 1 \in 1..m /\ 1 \in 0..m /\ 1 - 1 = 0
    BY <1>1, <2>1
  <2>3. next[1] <= above[0] + Differ(x, s2[1])
    BY <1>6, <2>2
  <2>4. Differ(x, s2[1]) \in 0..1
    BY DEF Differ
  <2>5. QED
    BY <1>1, <1>3, <1>4, <2>2, <2>3, <2>4
<1>17. OnTheWay(next, e, i + 1, m, total)
  BY <1>3, <1>6, <1>11, <1>15 DEF OnTheWay
<1>18. QED
  BY <1>16, <1>17 DEF next, x

(* A row above the threshold leaves no way within it: neither one through  *)
(* column 0, which is not looked at. *)
LEMMA AboveIsBeyond ==
  ASSUME NEW row, NEW e, NEW i, NEW m \in Nat, m # 0, NEW total \in Nat, NEW thr \in Nat,
         OnTheWay(row, e, i, m, total), \A j \in 0..m : Rest(e, i, j) \in Nat,
         row[1] <= row[0], ~Below(row, thr)
  PROVE  thr < total
<1>1. PICK j \in 0..m : row[j] + Rest(e, i, j) <= total
  BY DEF OnTheWay
<1>2. row \in Rows(m) /\ DOMAIN row = 0..m /\ 1 \in 0..m /\ 0 \in 0..m
  <2>1. row \in Rows(m)
    BY DEF OnTheWay
  <2>2. DOMAIN row = 0..m
    BY <2>1 DEF Rows
  <2>3. 1 \in 0..m /\ 0 \in 0..m
    OBVIOUS
  <2>4. QED
    BY <2>1, <2>2, <2>3
<1>3. \A k \in 0..m : row[k] \in Nat /\ (k # 0 => thr < row[k])
  BY <1>2 DEF Below, Rows
<1>4. thr < row[j]
  BY <1>2, <1>3
<1>5. QED
  BY <1>1, <1>3, <1>4

(* The last cell of the last row is the distance. *)
LEMMA LastIsDistance ==
  ASSUME NEW row, NEW e, NEW i, NEW m \in Nat, NEW total \in Nat,
         OnTheWay(row, e, i, m, total), \A j \in 0..m : Rest(e, i, j) = m - j
  PROVE  row[m] = total
<1> DEFINE Good == {k \in 0..m : \A j \in 0..m : j <= k => row[k] <= row[j] + (k - j)}
<1>1. row \in Rows(m) /\ \A j \in 0..m : row[j] \in Nat /\ j \in Nat
  BY DEF OnTheWay, Rows
<1>2. 0 \in Good
  BY <1>1
<1>3. ASSUME NEW k \in 1..m, k - 1 \in Good PROVE k \in Good
  <2>1. k \in 0..m /\ k - 1 \in 0..m /\ row[k] <= row[k - 1] + 1
    BY DEF OnTheWay
  <2>2. ASSUME NEW j \in 0..m, j <= k PROVE row[k] <= row[j] + (k - j)
    <3>1. CASE j = k
      BY <1>1, <3>1
    <3>2. CASE j # k
      <4>1. j <= k - 1
        BY <1>1, <2>1, <2>2, <3>2
      <4>2. row[k - 1] <= row[j] + ((k - 1) - j)
        BY <1>3, <4>1
      <4>3. QED
        BY <1>1, <2>1, <4>2
    <3>3. QED
      BY <3>1, <3>2
  <2>3. QED
    BY <2>1, <2>2
<1>4. m \in Good
  <2>1. 0..m \subseteq Good
    <3> HIDE DEF Good
    <3>1. QED
      BY <1>2, <1>3, Upwards
  <2>2. QED
    BY <2>1
<1>5. PICK j \in 0..m : row[j] + Rest(e, i, j) <= total
  BY DEF OnTheWay
<1>6. row[m] <= row[j] + (m - j)
  BY <1>1, <1>4
<1>7. total <= row[m] + Rest(e, i, m) /\ Rest(e, i, m) = m - m
  BY DEF OnTheWay
<1>8. QED
  BY <1>1, <1>5, <1>6, <1>7

(* The table within the threshold is the distance, beyond it is a larger   *)
(* number, given up early or not. *)
LEMMA DistanceIs ==
  ASSUME NEW s1, Len(s1) \in Nat, NEW s2, Len(s2) \in Nat, Len(s2) # 0, NEW thr \in Nat
  PROVE  /\ LeastEdits(s1, s2) \in Nat
         /\ \/ Distance(s1, s2, thr) = LeastEdits(s1, s2)
            \/ Distance(s1, s2, thr) = MAX_DISTANCE /\ thr < LeastEdits(s1, s2)
<1> DEFINE n == Len(s1)
           m == Len(s2)
<1>1. n \in Nat /\ m \in Nat /\ m # 0
  OBVIOUS
<1>2. PICK e : LeastEdits(s1, s2) = e[<<0, 0>>] /\ Edits(s1, s2, e)
  BY EditsSteps DEF Edits
<1> DEFINE total == Rest(e, 0, 0)
<1>3. LeastEdits(s1, s2) = total
  BY <1>2 DEF Rest
<1>4. \A i \in 0..n, j \in 0..m : Rest(e, i, j) \in Nat
  BY <1>2, EditsNear
<1>5. total \in Nat
  BY <1>1, <1>4
<1> HIDE DEF total
<1>6. PICK row :
         /\ row[0] = FirstRow(s2)
         /\ \A i \in 1..Len(s1) : row[i] = RowAfter(row[i - 1], s1[i], s2, thr)
         /\ Distance(s1, s2, thr) = IF row[Len(s1)] = GivenUp THEN MAX_DISTANCE
                                    ELSE row[Len(s1)][Len(s2)]
  BY ONLY Len(s1) \in Nat, DistanceSteps
<1> DEFINE Good == {i \in 0..n : IF row[i] = GivenUp THEN thr < total
                                 ELSE OnTheWay(row[i], e, i, m, total)}
<1>7. 0 \in Good
  <2>1. FirstRow(s2) # GivenUp
    <3>1. DOMAIN FirstRow(s2) = 0..m /\ DOMAIN GivenUp = {}
      BY DEF FirstRow, GivenUp
    <3>2. 0 \in 0..m
      BY <1>1
    <3>3. QED
      BY <3>1, <3>2
  <2>2. OnTheWay(FirstRow(s2), e, 0, m, total)
    BY <1>1, <1>2, FirstOnTheWay DEF total
  <2>3. QED
    BY <1>1, <1>6, <2>1, <2>2
<1>8. ASSUME NEW i \in 1..n, i - 1 \in Good PROVE i \in Good
  <2>1. /\ i \in 0..n /\ i - 1 \in 0..n /\ i - 1 # n /\ (i - 1) + 1 = i
        /\ row[i] = RowAfter(row[i - 1], s1[i], s2, thr)
    BY <1>1, <1>6
  <2>2. CASE row[i - 1] = GivenUp
    <3>1. row[i] = GivenUp
      BY <2>1, <2>2 DEF RowAfter
    <3>2. QED
      BY <1>8, <2>1, <2>2, <3>1
  <2>3. CASE row[i - 1] # GivenUp
    <3> DEFINE above == row[i - 1]
               next == NextRow(above, s1[i], s2)
    <3>1. OnTheWay(above, e, i - 1, m, total)
      BY <1>8, <2>3
    <3>2. OnTheWay(next, e, i, m, total) /\ next[1] <= next[0]
      <4> HIDE DEF above
      <4>1. LET h == i - 1
            IN /\ OnTheWay(NextRow(above, s1[h + 1], s2), e, h + 1, m, total)
               /\ NextRow(above, s1[h + 1], s2)[1] <= NextRow(above, s1[h + 1], s2)[0]
        BY <1>1, <1>2, <1>5, <2>1, <3>1, NextOnTheWay
      <4>2. QED
        BY <2>1, <4>1
    <3>3. row[i] = IF ~Below(next, thr) THEN GivenUp ELSE next
      BY <2>1, <2>3 DEF RowAfter
    <3> HIDE DEF next
    <3>4. CASE Below(next, thr)
      <4>1. next # GivenUp
        <5>1. DOMAIN next = 0..m /\ 0 \in 0..m /\ DOMAIN GivenUp = {}
          BY <1>1, <3>2 DEF OnTheWay, Rows, GivenUp
        <5>2. QED
          BY <5>1
      <4>2. QED
        BY <2>1, <3>2, <3>3, <3>4, <4>1
    <3>5. CASE ~Below(next, thr)
      <4>1. \A j \in 0..m : Rest(e, i, j) \in Nat
        BY <1>4, <2>1
      <4>2. thr < total
        BY <1>1, <1>5, <3>2, <3>5, <4>1, AboveIsBeyond
      <4>3. QED
        BY <2>1, <3>3, <3>5, <4>2
    <3>6. QED
      BY <3>4, <3>5
  <2>4. QED
    BY <2>2, <2>3
<1>9. n \in Good
  <2>1. 0..n \subseteq Good
    <3> HIDE DEF Good
    <3>1. QED
      BY <1>1, <1>7, <1>8, Upwards
  <2>2. QED
    BY <1>1, <2>1
<1>10. CASE row[n] = GivenUp
  BY <1>3, <1>5, <1>6, <1>9, <1>10
<1>11. CASE row[n] # GivenUp
  <2>1. OnTheWay(row[n], e, n, m, total)
    BY <1>9, <1>11
  <2>2. ASSUME NEW j \in 0..m PROVE Rest(e, n, j) = m - j
    <3>1. ASSUME NEW i \in 0..n, i = n PROVE Rest(e, i, j) = m - j
      BY <1>2, <3>1, EditsNear
    <3>2. n \in 0..n
      BY <1>1
    <3>3. QED
      BY <3>1, <3>2
  <2>3. row[n][m] = total
    BY <1>1, <1>5, <2>1, <2>2, LastIsDistance
  <2>4. QED
    BY <1>3, <1>5, <1>6, <1>11, <2>3
<1>12. QED
  BY <1>10, <1>11
(* Against no instructions at all the first row is given up.               *)
LEMMA DistanceFromNothing ==
  ASSUME NEW s1, Len(s1) \in Nat, Len(s1) # 0, NEW s2, Len(s2) = 0, NEW thr
  PROVE  Distance(s1, s2, thr) = MAX_DISTANCE
<1> DEFINE n == Len(s1)
<1>1. n \in Nat /\ n # 0 /\ n \in 0..n /\ Len(s2) \in Nat /\ 0..0 = {0}
  OBVIOUS
<1>2. PICK row :
         /\ row[0] = FirstRow(s2)
         /\ \A i \in 1..Len(s1) : row[i] = RowAfter(row[i - 1], s1[i], s2, thr)
         /\ Distance(s1, s2, thr) = IF row[Len(s1)] = GivenUp THEN MAX_DISTANCE
                                    ELSE row[Len(s1)][Len(s2)]
  BY ONLY Len(s1) \in Nat, DistanceSteps
<1>3. FirstRow(s2) \in Rows(Len(s2))
  BY DEF FirstRow, Rows
<1>4. row[1] = GivenUp
  <2> DEFINE next == NextRow(FirstRow(s2), s1[1], s2)
  <2>1. next \in Rows(Len(s2))
    BY <1>1, <1>3, NextRowIs
  <2>2. row[1] = RowAfter(FirstRow(s2), s1[1], s2, thr)
    BY <1>1, <1>2
  <2>3. DOMAIN next = {0}
    BY <1>1, <2>1 DEF Rows
  <2>4. ~Below(next, thr)
    <3> HIDE DEF next
    <3>1. QED
      BY <2>3 DEF Below
  <2>5. QED
    BY <2>2, <2>4 DEF RowAfter
<1> DEFINE Good == {i \in 0..n : i # 0 => row[i] = GivenUp}
<1>5. 0 \in Good
  BY <1>1
<1>6. ASSUME NEW i \in 1..n, i - 1 \in Good PROVE i \in Good
  <2>1. i \in 0..n /\ i - 1 \in 0..n
    BY <1>1
  <2>2. CASE i = 1
    BY <1>4, <2>1, <2>2
  <2>3. CASE i # 1
    <3>1. i - 1 # 0
      BY <1>1, <2>3
    <3>2. row[i - 1] = GivenUp
      BY <1>6, <3>1
    <3>3. row[i] = RowAfter(row[i - 1], s1[i], s2, thr)
      BY <1>2
    <3>4. QED
      BY <2>1, <3>2, <3>3 DEF RowAfter
  <2>4. QED
    BY <2>2, <2>3
<1>7. row[n] = GivenUp
  <2>1. 0..n \subseteq Good
    <3> HIDE DEF Good
    <3>1. QED
      BY <1>1, <1>5, <1>6, Upwards
  <2>2. QED
    BY <1>1, <2>1
<1>8. QED
  BY <1>2, <1>7

-----------------------------------------------------------------------------
(* What the walk keeps.                                                    *)

(* What is read back is what was extracted: every signature is of one      *)
(* routine of the reference, and not empty. *)
LibraryKept ==
  /\ refs \in RefLists /\ tgts \in TgtLists /\ ratio \in MaxDists
  /\ library \in Seq(Seq(Signatures))
  /\ \A i \in DOMAIN library :
       Len(library[i]) > 0 /\ RatioOf(ratio, library[i]) < MAX_DISTANCE

(* The signatures looked for so far, and the one that still has to meet    *)
(* the others. *)
WalkKept ==
  /\ at \in Nat \ {0}
  /\ pc = "save" => at = 1
  /\ pc \in {"extract", "save"} => duplicates = << >>
  /\ pc = "search" => DOMAIN duplicates = {i \in Sought : i < at}
  /\ pc = "collide" => /\ DOMAIN duplicates = {i \in Sought : i <= at}
                       /\ at \in Sought /\ Candidates(library[at]) # {}
                       /\ duplicates[at] = Best(library[at])
  /\ pc = "check" => DOMAIN duplicates = Sought

Settled == {i \in DOMAIN duplicates : pc = "collide" => i # at}

ResultsKept ==
  \A i \in DOMAIN duplicates :
    \/ duplicates[i] = NoDuplicate
    \/ /\ Candidates(library[i]) # {}
       /\ duplicates[i] = Best(library[i])

(* Those that have met share a target only when they are equally near.     *)
SharesKept ==
  \A i, j \in Settled \cap Found :
    duplicates[i].idx = duplicates[j].idx => duplicates[i].distance = duplicates[j].distance

(* Who lost a target lost it to one that is nearer and still has it.       *)
LossesKept ==
  \A i \in Settled :
    Candidates(library[i]) # {} /\ i \notin Found =>
      \E j \in Settled \cap Found :
        /\ duplicates[j].idx = Best(library[i]).idx
        /\ duplicates[j].distance < Best(library[i]).distance

SearchInv == LibraryKept /\ WalkKept /\ ResultsKept /\ SharesKept /\ LossesKept
-----------------------------------------------------------------------------
(* The nearest candidate.                                                  *)

LEMMA SigLength ==
  ASSUME LibraryKept, NEW i \in DOMAIN library
  PROVE  /\ library[i] \in Seq(Signatures) /\ Len(library[i]) \in Nat \ {0}
         /\ Threshold(library[i]) \in Nat /\ Threshold(library[i]) < MAX_DISTANCE
<1>1. library[i] \in Seq(Signatures) /\ Len(library[i]) > 0
  BY DEF LibraryKept
<1>2. Len(library[i]) \in Nat \ {0} /\ ratio \in Nat
  BY <1>1, DuplicateAssumption DEF LibraryKept
<1>3. RatioOf(ratio, library[i]) \in Nat
  <2> DEFINE len == Len(library[i])
  <2>1. len \in Nat /\ ratio \in Nat
    BY <1>2
  <2> HIDE DEF len
  <2>2. (len * ratio) \in Nat
    BY <2>1
  <2>3. (len * ratio) \div 100 \in Nat
    BY <2>2
  <2>4. QED
    BY <2>3 DEF RatioOf, len
<1>4. QED
  BY <1>1, <1>2, <1>3 DEF LibraryKept, Threshold

LEMMA TargetLength ==
  ASSUME LibraryKept, NEW t \in DOMAIN tgts
  PROVE  /\ t \in Nat \ {0} /\ tgts[t].sigs \in Seq(Signatures)
         /\ Len(tgts[t].sigs) \in Nat
         /\ tgts[t].sigs = << >> <=> Len(tgts[t].sigs) = 0
<1>1. tgts \in Seq(Routines)
  BY DuplicateAssumption DEF LibraryKept
<1>2. t \in Nat \ {0} /\ tgts[t] \in Routines
  BY <1>1
<1>3. tgts[t].sigs \in Seq(Signatures)
  BY <1>2 DEF Routines
<1>4. QED
  BY <1>2, <1>3

(* The distance as the walk asks for it. *)
Far(sig, t) == Distance(sig, tgts[t].sigs, Threshold(sig))

LEMMA FarIs ==
  ASSUME LibraryKept, NEW i \in DOMAIN library, NEW t \in DOMAIN tgts
  PROVE  LET sig == library[i]
             least == LeastEdits(sig, tgts[t].sigs)
         IN IF least <= Threshold(sig) /\ tgts[t].sigs # << >>
            THEN Far(sig, t) = least ELSE Far(sig, t) > Threshold(sig)
<1> DEFINE sig == library[i]
           tgt == tgts[t].sigs
           thr == Threshold(sig)
<1>1. Len(sig) \in Nat /\ Len(sig) # 0 /\ thr \in Nat /\ thr < MAX_DISTANCE
  BY SigLength
<1>2. Len(tgt) \in Nat /\ (tgt = << >> <=> Len(tgt) = 0)
  BY TargetLength
<1> HIDE DEF sig, tgt, thr
<1>3. CASE Len(tgt) = 0
  <2>1. Distance(sig, tgt, thr) = MAX_DISTANCE
    BY <1>1, <1>3, DistanceFromNothing
  <2>2. QED
    BY <1>1, <1>2, <1>3, <2>1 DEF Far, sig, tgt, thr
<1>4. CASE Len(tgt) # 0
  <2> DEFINE least == LeastEdits(sig, tgt)
             shown == Distance(sig, tgt, thr)
  <2>1. /\ least \in Nat
        /\ shown = least \/ (shown = MAX_DISTANCE /\ thr < least)
    BY <1>1, <1>2, <1>4, DistanceIs
  <2> HIDE DEF least, shown
  <2>2. IF least <= thr THEN shown = least ELSE shown > thr
    BY <1>1, <2>1 DEF MAX_DISTANCE
  <2>3. QED
    BY <1>2, <1>4, <2>2 DEF Far, sig, tgt, thr, least, shown
<1>5. QED
  BY <1>3, <1>4

LEMMA CandidateIs ==
  ASSUME LibraryKept, NEW i \in DOMAIN library, NEW t \in Candidates(library[i])
  PROVE  /\ t \in DOMAIN tgts /\ t \in Nat \ {0}
         /\ Far(library[i], t) = LeastEdits(library[i], tgts[t].sigs)
         /\ Far(library[i], t) \in Nat /\ Far(library[i], t) < MAX_DISTANCE
<1> DEFINE sig == library[i]
<1>1. /\ t \in DOMAIN tgts /\ tgts[t].sigs # << >> /\ Far(sig, t) <= Threshold(sig)
  BY DEF Candidates, Eligible, Far
<1>2. t \in Nat \ {0} /\ Len(tgts[t].sigs) \in Nat /\ Len(tgts[t].sigs) # 0
  BY <1>1, TargetLength
<1>3. Len(sig) \in Nat /\ Threshold(sig) \in Nat /\ Threshold(sig) < MAX_DISTANCE
  BY SigLength
<1>4. Far(sig, t) # MAX_DISTANCE
  BY <1>1, <1>3 DEF MAX_DISTANCE
<1>5. LeastEdits(sig, tgts[t].sigs) \in Nat /\ Far(sig, t) = LeastEdits(sig, tgts[t].sigs)
  <2> DEFINE tgt == tgts[t].sigs
             thr == Threshold(sig)
  <2>1. Len(tgt) \in Nat /\ Len(tgt) # 0 /\ thr \in Nat /\ Far(sig, t) = Distance(sig, tgt, thr)
    BY <1>2, <1>3 DEF Far
  <2> HIDE DEF tgt, thr, sig
  <2>2. /\ LeastEdits(sig, tgt) \in Nat
        /\ \/ Distance(sig, tgt, thr) = LeastEdits(sig, tgt)
           \/ Distance(sig, tgt, thr) = MAX_DISTANCE /\ thr < LeastEdits(sig, tgt)
    BY <1>3, <2>1, DistanceIs
  <2>3. QED
    BY <1>4, <2>1, <2>2 DEF tgt
<1>6. QED
  BY <1>1, <1>2, <1>3, <1>5 DEF MAX_DISTANCE

LEMMA BestIs ==
  ASSUME LibraryKept, NEW i \in DOMAIN library, Candidates(library[i]) # {}
  PROVE  LET best == Best(library[i])
         IN /\ best.idx \in Candidates(library[i]) /\ best.idx # BAD_ROUTINE
            /\ best.distance = Far(library[i], best.idx)
            /\ \A t \in Candidates(library[i]) : best.distance <= Far(library[i], t)
            /\ best.distance \in Nat /\ best.distance < MAX_DISTANCE
            /\ best = [distance |-> best.distance, idx |-> best.idx]
<1> DEFINE sig == library[i]
           C == Candidates(sig)
           F == {Far(sig, t) : t \in C}
           first == CHOOSE t \in C : \A u \in C :
                      Far(sig, t) < Far(sig, u) \/ (Far(sig, t) = Far(sig, u) /\ t <= u)
<1>1. \A t \in C : t \in Nat \ {0} /\ Far(sig, t) \in Nat /\ Far(sig, t) < MAX_DISTANCE
  BY CandidateIs
<1> HIDE DEF sig, C
<1>2. C # {}
  BY DEF C, sig
<1>3. PICK f \in F : \A g \in F : f <= g
  <2>1. F \subseteq Nat /\ F # {}
    BY <1>1, <1>2
  <2> HIDE DEF F
  <2>2. QED
    BY <2>1, LeastExists
<1> DEFINE T == {t \in C : Far(sig, t) = f}
<1>4. PICK t \in T : \A u \in T : t <= u
  <2>1. T \subseteq Nat /\ T # {}
    BY <1>1, <1>3
  <2> HIDE DEF T
  <2>2. QED
    BY <2>1, LeastExists
<1>5. ASSUME NEW u \in C
      PROVE  Far(sig, t) < Far(sig, u) \/ (Far(sig, t) = Far(sig, u) /\ t <= u)
  <2>1. f <= Far(sig, u) /\ Far(sig, t) = f /\ f \in Nat /\ Far(sig, u) \in Nat
    BY <1>1, <1>3, <1>4
  <2>2. CASE Far(sig, u) = f
    BY <1>4, <2>1, <2>2
  <2>3. CASE Far(sig, u) # f
    BY <2>1, <2>3
  <2>4. QED
    BY <2>2, <2>3
<1>6. /\ first \in C
      /\ \A u \in C : Far(sig, first) < Far(sig, u)
                        \/ (Far(sig, first) = Far(sig, u) /\ first <= u)
  BY <1>4, <1>5
<1>7. Best(sig) = [distance |-> Far(sig, first), idx |-> first]
  BY DEF Best, Far, C
<1> HIDE DEF first
<1>8. \A u \in C : Far(sig, first) <= Far(sig, u)
  BY <1>1, <1>6
<1>9. first # BAD_ROUTINE
  BY <1>1, <1>6 DEF BAD_ROUTINE
<1>10. QED
  BY <1>1, <1>6, <1>7, <1>8, <1>9 DEF sig, C

(* A signature has found a target, the best one, or has none.              *)
LEMMA FoundIs ==
  ASSUME LibraryKept, ResultsKept, DOMAIN duplicates \subseteq DOMAIN library,
         NEW i \in DOMAIN duplicates
  PROVE  /\ i \in Found => /\ Candidates(library[i]) # {}
                           /\ duplicates[i] = Best(library[i])
                           /\ duplicates[i].idx # BAD_ROUTINE
                           /\ duplicates[i].distance \in Nat
                           /\ duplicates[i].distance < MAX_DISTANCE
         /\ i \notin Found => duplicates[i] = NoDuplicate
<1>1. NoDuplicate.distance = MAX_DISTANCE
  BY DEF NoDuplicate
<1>2. CASE duplicates[i] = NoDuplicate
  BY <1>1, <1>2 DEF Found, IsValid
<1>3. CASE Candidates(library[i]) # {} /\ duplicates[i] = Best(library[i])
  <2>1. i \in DOMAIN library
    OBVIOUS
  <2>2. /\ Best(library[i]).idx # BAD_ROUTINE /\ Best(library[i]).distance \in Nat
        /\ Best(library[i]).distance < MAX_DISTANCE
    BY <1>3, <2>1, BestIs
  <2>3. QED
    BY <1>3, <2>2 DEF Found, IsValid, MAX_DISTANCE
<1>4. QED
  BY <1>2, <1>3 DEF ResultsKept
-----------------------------------------------------------------------------
(* The walk along the others, in the order of their indexes.               *)

Cleared(dups, others) == [j \in DOMAIN dups |-> IF j \in others THEN NoDuplicate ELSE dups[j]]

(* After the first k, when the rivals all are at the distance y.           *)
After(dups, i, y, k) ==
  LET met == {j \in Rivals(dups, i) : j <= k}
  IN IF met = {} \/ dups[i].distance = y THEN dups
     ELSE Cleared(dups, IF dups[i].distance < y THEN met ELSE {i})

LEMMA MeetSteps ==
  ASSUME NEW dups, NEW i, Len(library) \in Nat
  PROVE  \E met : /\ met[0] = dups
                  /\ \A j \in 1..Len(library) :
                       met[j] = IF j \in DOMAIN dups THEN Meet(met[j - 1], i, j) ELSE met[j - 1]
                  /\ MeetAll(dups, i) = met[Len(library)]
<1> DEFINE n == Len(library)
           Step(before, j) == IF j \in DOMAIN dups THEN Meet(before, i, j) ELSE before
           Upto(f, k) == f[0] = dups /\ \A j \in 1..k : f[j] = Step(f[j - 1], j)
           Defined == {k \in Nat : \E f : Upto(f, k)}
           Whole(f) == [j \in 0..n |->
                          IF j = 0 THEN dups
                          ELSE LET before == f[j - 1]
                               IN IF j \in DOMAIN dups THEN Meet(before, i, j) ELSE before]
<1>1. n \in Nat
  OBVIOUS
<1> HIDE DEF n, Step
<1>2. 0 \in Defined
  <2>1. Upto([j \in 0..0 |-> dups], 0)
    OBVIOUS
  <2>2. \E f : Upto(f, 0)
    BY <2>1
  <2>3. QED
    BY <2>2
<1>3. ASSUME NEW k \in 1..n, k - 1 \in Defined
      PROVE  k \in Defined
  <2>1. PICK f : Upto(f, k - 1)
    BY <1>3
  <2>2. k \in Nat \ {0} /\ k - 1 \in 0..(k - 1)
    BY <1>1
  <2> DEFINE new == Step(f[k - 1], k)
             g == [j \in 0..k |-> IF j = k THEN new ELSE f[j]]
  <2> HIDE DEF new
  <2>3. g[0] = dups
    BY <2>1, <2>2
  <2>4. ASSUME NEW j \in 1..k PROVE g[j] = Step(g[j - 1], j)
    <3>1. CASE j = k
      <4>1. g[j] = new /\ g[j - 1] = f[k - 1]
        BY <2>2, <3>1
      <4>2. QED
        BY <3>1, <4>1 DEF new
    <3>2. CASE j # k
      <4>1. j \in 1..(k - 1) /\ j \in 0..k /\ j - 1 \in 0..k /\ j - 1 # k
        BY <2>2, <3>2
      <4>2. f[j] = Step(f[j - 1], j)
        BY <2>1, <4>1
      <4>3. QED
        BY <3>2, <4>1, <4>2
    <3>3. QED
      BY <3>1, <3>2
  <2>5. \E h : Upto(h, k)
    <3>1. Upto(g, k)
      BY <2>3, <2>4
    <3>2. QED
      BY <3>1
  <2>6. QED
    BY <2>2, <2>5
<1>4. PICK f : Upto(f, n)
  <2> HIDE DEF Defined
  <2>1. 0..n \subseteq Defined
    BY <1>1, <1>2, <1>3, Upwards
  <2>2. n \in Defined
    BY <1>1, <2>1
  <2>3. QED
    BY <2>2 DEF Defined
<1> DEFINE g == [j \in 0..n |-> f[j]]
<1>5. \A j \in 0..n : g[j] = Whole(g)[j]
  <2>1. \A j \in 0..n : j # 0 => j \in 1..n /\ j - 1 \in 0..n
    BY <1>1
  <2>2. \A j \in 0..n : g[j] = f[j]
    OBVIOUS
  <2>3. \A j \in 0..n : g[j] = IF j = 0 THEN dups ELSE Step(g[j - 1], j)
    BY <1>4, <2>1, <2>2
  <2>4. QED
    BY <2>3 DEF Step
<1>6. g = Whole(g)
  BY <1>5
<1> DEFINE met == CHOOSE h : h = Whole(h)
<1>7. met = Whole(met)
  BY <1>6
<1>8. MeetAll(dups, i) = met[n]
  BY DEF MeetAll, n
<1> HIDE DEF met
<1>9. \A j \in 0..n : met[j] = Whole(met)[j]
  BY <1>7
<1>10. met[0] = dups
  BY <1>1, <1>9
<1>11. ASSUME NEW j \in 1..n
       PROVE  met[j] = IF j \in DOMAIN dups THEN Meet(met[j - 1], i, j) ELSE met[j - 1]
  <2>1. j \in 0..n /\ j # 0
    BY <1>1
  <2>2. QED
    BY <1>9, <2>1
<1>12. QED
  BY <1>8, <1>10, <1>11 DEF n

LEMMA MeetAllIs ==
  ASSUME NEW dups, NEW n \in Nat, n = Len(library), DOMAIN dups \subseteq 1..n,
         NEW i \in DOMAIN dups, dups[i].idx # BAD_ROUTINE, dups[i].distance \in Nat,
         \A j \in DOMAIN dups : dups[j].idx = BAD_ROUTINE => dups[j] = NoDuplicate,
         NEW y \in Nat, \A j \in Rivals(dups, i) : dups[j].distance = y
  PROVE  MeetAll(dups, i) = After(dups, i, y, n)
<1> DEFINE R == Rivals(dups, i)
           x == dups[i].distance
<1>1. PICK met : /\ met[0] = dups
                 /\ \A j \in 1..n :
                      met[j] = IF j \in DOMAIN dups THEN Meet(met[j - 1], i, j) ELSE met[j - 1]
                 /\ MeetAll(dups, i) = met[n]
  BY MeetSteps
<1> DEFINE Good == {k \in 0..n : met[k] = After(dups, i, y, k)}
<1>2. ASSUME NEW j \in R
      PROVE  /\ j \in DOMAIN dups /\ j # i /\ dups[j].idx = dups[i].idx
             /\ dups[j].distance = y /\ j \in 1..n
  BY DEF Rivals
<1>3. NoDuplicate = [distance |-> MAX_DISTANCE, idx |-> BAD_ROUTINE]
  BY DEF NoDuplicate
<1>4. 0 \in Good
  <2>1. {j \in R : j <= 0} = {}
    BY <1>2
  <2>2. After(dups, i, y, 0) = dups
    BY <2>1 DEF After
  <2>3. QED
    BY <1>1, <2>2
<1>5. ASSUME NEW k \in 1..n, k - 1 \in Good PROVE k \in Good
  <2> DEFINE before == met[k - 1]
             old == {j \in R : j <= k - 1}
             new == {j \in R : j <= k}
  <2>1. /\ k \in 0..n /\ before = After(dups, i, y, k - 1)
        /\ met[k] = IF k \in DOMAIN dups THEN Meet(before, i, k) ELSE before
    BY <1>1, <1>5
  <2>2. new = IF k \in R THEN old \cup {k} ELSE old
    BY <1>2
  <2>3. k \notin old
    OBVIOUS
  <2> HIDE DEF before, old, new
  <2>4. before = IF old = {} \/ x = y THEN dups
                 ELSE Cleared(dups, IF x < y THEN old ELSE {i})
    BY <2>1 DEF After, old
  <2>5. After(dups, i, y, k) = IF new = {} \/ x = y THEN dups
                               ELSE Cleared(dups, IF x < y THEN new ELSE {i})
    BY DEF After, new
  <2>6. SUFFICES met[k] = After(dups, i, y, k)
    BY <2>1
  <2>7. old \subseteq R /\ i \notin R /\ i \notin old
    BY <1>2 DEF old
  <2>8. CASE k \notin R
    <3>1. After(dups, i, y, k) = before
      BY <2>2, <2>4, <2>5, <2>8
    <3>2. k \in DOMAIN dups => Meet(before, i, k) = before
      <4> SUFFICES ASSUME k \in DOMAIN dups PROVE Meet(before, i, k) = before
        OBVIOUS
      <4>1. CASE k = i
        BY <4>1 DEF Meet
      <4>2. CASE k # i
        <5>1. dups[k].idx # dups[i].idx
          BY <2>8, <4>2 DEF Rivals
        <5>2. before[k] = dups[k]
          BY <2>4, <2>7, <2>8, <4>2 DEF Cleared
        <5>3. CASE before[i] = dups[i]
          BY <5>1, <5>2, <5>3 DEF Meet
        <5>4. CASE before[i] # dups[i]
          <6>1. before[i] = NoDuplicate
            BY <2>4, <2>7, <5>4 DEF Cleared
          <6>2. before[k].idx = BAD_ROUTINE => before[k] = NoDuplicate
            BY <5>2
          <6>3. QED
            BY <1>3, <6>1, <6>2 DEF Meet, MAX_DISTANCE
        <5>5. QED
          BY <5>3, <5>4
      <4>3. QED
        BY <4>1, <4>2
    <3>3. QED
      BY <2>1, <3>1, <3>2
  <2>9. CASE k \in R
    <3>1. /\ k \in DOMAIN dups /\ k # i /\ dups[k].idx = dups[i].idx
          /\ dups[k].distance = y /\ new = old \cup {k}
      BY <1>2, <2>2, <2>9
    <3>2. met[k] = Meet(before, i, k)
      BY <2>1, <3>1
    <3>3. CASE x < y
      <4>1. before = IF old = {} THEN dups ELSE Cleared(dups, old)
        BY <2>4, <3>3
      <4>2. before[k] = dups[k] /\ before[i] = dups[i] /\ DOMAIN before = DOMAIN dups
        BY <2>3, <2>7, <3>1, <4>1 DEF Cleared
      <4>3. met[k] = [before EXCEPT ![k] = NoDuplicate]
        BY <3>1, <3>2, <3>3, <4>2 DEF Meet
      <4>4. met[k] = [j \in DOMAIN dups |-> IF j = k THEN NoDuplicate ELSE before[j]]
        BY <4>2, <4>3
      <4>5. \A j \in DOMAIN dups : before[j] = IF j \in old THEN NoDuplicate ELSE dups[j]
        BY <4>1 DEF Cleared
      <4>6. met[k] = Cleared(dups, new)
        BY <3>1, <4>4, <4>5 DEF Cleared
      <4>7. new # {} /\ x # y
        BY <1>2, <3>1, <3>3
      <4>8. QED
        BY <2>5, <3>3, <4>6, <4>7
    <3>4. CASE x = y
      <4>1. before = dups
        BY <2>4, <3>4
      <4>2. met[k] = dups
        BY <3>1, <3>2, <3>4, <4>1 DEF Meet
      <4>3. QED
        BY <2>5, <3>4, <4>2
    <3>5. CASE x > y /\ old = {}
      <4>1. before = dups
        BY <2>4, <3>5
      <4>2. met[k] = [dups EXCEPT ![i] = NoDuplicate]
        BY <3>1, <3>2, <3>5, <4>1 DEF Meet
      <4>3. met[k] = Cleared(dups, {i})
        BY <4>2 DEF Cleared
      <4>4. QED
        BY <2>5, <3>1, <3>5, <4>3
    <3>6. CASE x > y /\ old # {}
      <4>1. before = Cleared(dups, {i})
        BY <2>4, <3>6
      <4>2. before[k] = dups[k] /\ before[i] = NoDuplicate
        BY <3>1, <4>1 DEF Cleared
      <4>3. before[k].idx # before[i].idx
        BY <1>3, <3>1, <4>2
      <4>4. met[k] = before
        BY <3>2, <4>3 DEF Meet
      <4>5. QED
        BY <2>5, <3>1, <3>6, <4>1, <4>4
    <3>7. QED
      BY <3>3, <3>4, <3>5, <3>6
  <2>10. QED
    BY <2>8, <2>9
<1>6. 0..n \subseteq Good
  <2> HIDE DEF Good
  <2>1. QED
    BY <1>4, <1>5, Upwards
<1>7. n \in Good
  BY <1>6
<1>8. QED
  BY <1>1, <1>7
-----------------------------------------------------------------------------
(* The invariant.                                                          *)

LEMMA InitSearch == Init => SearchInv
<1> SUFFICES ASSUME Init PROVE SearchInv
  OBVIOUS
<1>1. library = << >> /\ duplicates = << >> /\ DOMAIN library = {} /\ DOMAIN duplicates = {}
  BY DEF Init
<1>2. LibraryKept
  BY <1>1 DEF Init, LibraryKept
<1>3. WalkKept
  BY <1>1 DEF Init, WalkKept
<1>4. ResultsKept /\ SharesKept /\ LossesKept
  BY <1>1 DEF ResultsKept, SharesKept, LossesKept, Settled, Found
<1>5. QED
  BY <1>2, <1>3, <1>4 DEF SearchInv

LEMMA LibraryStep == SearchInv /\ [Next]_state => LibraryKept'
<1> SUFFICES ASSUME SearchInv, [Next]_state PROVE LibraryKept'
  OBVIOUS
<1>1. LibraryKept /\ at \in Nat \ {0}
  BY DEF SearchInv, WalkKept
<1>2. CASE UNCHANGED <<refs, tgts, ratio, library>>
  BY <1>1, <1>2 DEF LibraryKept
<1>3. CASE Extract
  <2>1. UNCHANGED <<refs, tgts, ratio>>
    BY <1>3 DEF Extract
  <2>2. CASE library' = library
    BY <1>2, <2>1, <2>2
  <2>3. CASE library' # library
    <3>1. /\ at <= Len(refs) /\ Wanted(refs[at]) /\ library' = Append(library, refs[at].sigs)
      BY <1>3, <2>3 DEF Extract
    <3> DEFINE sigs == refs[at].sigs
    <3>2. refs \in Seq(Routines) /\ at \in DOMAIN refs
      BY <1>1, <3>1, DuplicateAssumption DEF LibraryKept
    <3>3. sigs \in Seq(Signatures) /\ Len(sigs) > 0 /\ RatioOf(ratio, sigs) < MAX_DISTANCE
      <4>1. refs[at] \in Routines
        BY <3>2
      <4>2. RatioOf(ratio, sigs) < MAX_DISTANCE
        BY <1>1, <3>2, DuplicateAssumption DEF LibraryKept
      <4>3. QED
        BY <3>1, <4>1, <4>2 DEF Routines, Wanted
    <3> HIDE DEF sigs
    <3>4. library \in Seq(Seq(Signatures)) /\ library' = Append(library, sigs)
      BY <1>1, <3>1 DEF LibraryKept, sigs
    <3>5. library' \in Seq(Seq(Signatures))
      BY <3>3, <3>4
    <3>6. ASSUME NEW i \in DOMAIN library'
          PROVE  library'[i] = sigs \/ (i \in DOMAIN library /\ library'[i] = library[i])
      BY <3>3, <3>4
    <3>7. ASSUME NEW i \in DOMAIN library'
          PROVE  Len(library'[i]) > 0 /\ RatioOf(ratio, library'[i]) < MAX_DISTANCE
      <4>1. CASE library'[i] = sigs
        BY <3>3, <4>1
      <4>2. CASE i \in DOMAIN library /\ library'[i] = library[i]
        BY <1>1, <4>2 DEF LibraryKept
      <4>3. QED
        BY <3>6, <4>1, <4>2
    <3>8. QED
      BY <1>1, <2>1, <3>5, <3>7 DEF LibraryKept
  <2>4. QED
    BY <2>2, <2>3
<1>4. CASE SaveAndLoad \/ Search \/ Resolve \/ Patch \/ Check
  BY <1>2, <1>4 DEF SaveAndLoad, Search, Resolve, Patch, Check
<1>5. CASE UNCHANGED state
  BY <1>2, <1>5 DEF state
<1>6. QED
  BY <1>3, <1>4, <1>5 DEF Next

(* What is kept of the results while neither they nor the library change.  *)
LEMMA ResultsStay ==
  ASSUME ResultsKept, SharesKept, LossesKept, pc # "collide", pc' # "collide",
         UNCHANGED <<tgts, ratio, library, duplicates>>
  PROVE  (ResultsKept /\ SharesKept /\ LossesKept)'
<1>1. Found' = Found /\ Settled' = Settled
  BY DEF Found, Settled
<1>2. \A sig : Candidates(sig)' = Candidates(sig) /\ Best(sig)' = Best(sig)
  BY DEF Candidates, Eligible, Best, Threshold
<1>3. \A i : Best(library[i])' = Best(library[i])
  BY <1>2
<1>4. \A i : Candidates(library[i])' = Candidates(library[i])
  BY <1>2
<1>5. ResultsKept'
  BY <1>3, <1>4 DEF ResultsKept
<1>6. SharesKept'
  BY <1>1 DEF SharesKept
<1>7. LossesKept'
  BY <1>1, <1>3, <1>4 DEF LossesKept
<1>8. QED
  BY <1>5, <1>6, <1>7
LEMMA ExtractStep == SearchInv /\ (Extract \/ SaveAndLoad) => SearchInv'
<1> SUFFICES ASSUME SearchInv, Extract \/ SaveAndLoad PROVE SearchInv'
  OBVIOUS
<1>1. duplicates = << >> /\ duplicates' = << >> /\ at \in Nat \ {0} /\ (pc = "save" => at = 1)
  BY DEF SearchInv, WalkKept, Extract, SaveAndLoad
<1>2. DOMAIN duplicates' = {}
  BY <1>1
<1>3. LibraryKept'
  BY LibraryStep DEF Next
<1>4. WalkKept'
  <2>1. CASE Extract
    BY <1>1, <2>1 DEF Extract, WalkKept
  <2>2. CASE SaveAndLoad
    <3>1. at' = 1 /\ pc' \in {"aborted", "search"}
      BY <1>1, <2>2 DEF SaveAndLoad
    <3>2. {i \in Sought' : i < 1} = {}
      <4>1. \A i \in Sought' : i \in Nat \ {0}
        BY <1>3 DEF Sought, LibraryKept
      <4>2. QED
        BY <4>1
    <3>3. QED
      BY <1>1, <1>2, <3>1, <3>2 DEF WalkKept
  <2>3. QED
    BY <2>1, <2>2
<1>5. ResultsKept' /\ SharesKept' /\ LossesKept'
  BY <1>2 DEF ResultsKept, SharesKept, LossesKept, Settled, Found
<1>6. QED
  BY <1>3, <1>4, <1>5 DEF SearchInv

LEMMA SearchStep == SearchInv /\ Search => SearchInv'
<1> SUFFICES ASSUME SearchInv, Search PROVE SearchInv'
  OBVIOUS
<1>1. /\ LibraryKept /\ WalkKept /\ ResultsKept /\ SharesKept /\ LossesKept
      /\ pc = "search" /\ at <= Len(library) /\ at \in Nat \ {0}
      /\ DOMAIN duplicates = {i \in Sought : i < at}
      /\ UNCHANGED <<refs, tgts, ratio, min, max, library, collision, marked>>
  BY DEF SearchInv, WalkKept, Search
<1>2. /\ DOMAIN library = 1..Len(library) /\ Len(library) \in Nat /\ at \in DOMAIN library
      /\ Sought \subseteq DOMAIN library /\ at \notin DOMAIN duplicates
  BY <1>1 DEF LibraryKept, Sought
<1>3. LibraryKept'
  BY LibraryStep DEF Next
<1>4. /\ Sought' = Sought
      /\ \A sig : Candidates(sig)' = Candidates(sig) /\ Best(sig)' = Best(sig)
  BY <1>1 DEF Sought, TooShort, Candidates, Eligible, Best, Threshold
<1>5. /\ \A i : Best(library[i])' = Best(library[i])
      /\ \A i : Candidates(library[i])' = Candidates(library[i])
  BY <1>1, <1>4
<1> DEFINE sig == library[at]
<1>6. CASE TooShort(sig)
  <2>1. at' = at + 1 /\ pc' = "search" /\ duplicates' = duplicates
    BY <1>6 DEF Search
  <2>2. at \notin Sought
    BY <1>6 DEF Sought
  <2>3. {i \in Sought : i < at + 1} = {i \in Sought : i < at}
    <3>1. ASSUME NEW i \in Sought PROVE i < at + 1 <=> i < at
      BY <1>1, <1>2, <2>2
    <3>2. QED
      BY <3>1
  <2>4. WalkKept'
    BY <1>1, <1>4, <2>1, <2>3 DEF WalkKept
  <2>5. (ResultsKept /\ SharesKept /\ LossesKept)'
    BY <1>1, <2>1, ResultsStay
  <2>6. QED
    BY <1>3, <2>4, <2>5 DEF SearchInv
<1>7. ASSUME ~TooShort(sig), NEW new, duplicates' = Put(duplicates, at, new)
      PROVE  /\ at \in Sought
             /\ DOMAIN duplicates' = {i \in Sought : i <= at}
             /\ DOMAIN duplicates' = DOMAIN duplicates \cup {at}
             /\ duplicates'[at] = new
             /\ \A i \in DOMAIN duplicates : duplicates'[i] = duplicates[i]
  <2>1. at \in Sought
    BY <1>2, <1>7 DEF Sought
  <2>2. DOMAIN duplicates' = DOMAIN duplicates \cup {at}
    BY <1>7 DEF Put
  <2>3. ASSUME NEW i \in Sought PROVE i <= at <=> i < at \/ i = at
    BY <1>1, <1>2
  <2>4. DOMAIN duplicates' = {i \in Sought : i <= at}
    BY <1>1, <2>1, <2>2, <2>3
  <2>5. /\ duplicates'[at] = new
        /\ \A i \in DOMAIN duplicates : duplicates'[i] = duplicates[i]
    BY <1>2, <1>7 DEF Put
  <2>6. QED
    BY <2>1, <2>2, <2>4, <2>5
<1>8. CASE ~TooShort(sig) /\ Candidates(sig) = {}
  <2>1. /\ duplicates' = Put(duplicates, at, NoDuplicate)
        /\ at' = at + 1 /\ pc' = "search"
    BY <1>8 DEF Search
  <2>2. /\ at \in Sought /\ DOMAIN duplicates' = {i \in Sought : i <= at}
        /\ DOMAIN duplicates' = DOMAIN duplicates \cup {at}
        /\ duplicates'[at] = NoDuplicate
        /\ \A i \in DOMAIN duplicates : duplicates'[i] = duplicates[i]
    BY <1>7, <1>8, <2>1
  <2>3. WalkKept'
    <3>1. ASSUME NEW i \in Sought PROVE i <= at <=> i < at + 1
      BY <1>1, <1>2
    <3>2. DOMAIN duplicates' = {i \in Sought : i < at + 1}
      BY <2>2, <3>1
    <3>3. QED
      BY <1>1, <1>4, <2>1, <3>2 DEF WalkKept
  <2>4. ResultsKept'
    BY <1>1, <1>5, <2>2 DEF ResultsKept
  <2>5. Found' = Found
    <3>1. ~IsValid(NoDuplicate)
      BY DEF IsValid, NoDuplicate
    <3>2. QED
      BY <2>2, <3>1 DEF Found
  <2>6. Settled = DOMAIN duplicates /\ Settled' = DOMAIN duplicates \cup {at}
        /\ Found \subseteq DOMAIN duplicates
    BY <1>1, <2>1, <2>2 DEF Settled, Found
  <2>7. SharesKept'
    BY <1>1, <2>2, <2>5, <2>6 DEF SharesKept
  <2>8. LossesKept'
    <3>1. ASSUME NEW i \in Settled', Candidates(library[i])' # {}, i \notin Found'
          PROVE  \E j \in (Settled \cap Found)' :
                   /\ duplicates'[j].idx = Best(library[i])'.idx
                   /\ duplicates'[j].distance < Best(library[i])'.distance
      <4>1. i \in Settled /\ Candidates(library[i]) # {} /\ i \notin Found
        BY <1>5, <1>8, <2>5, <2>6, <3>1
      <4>2. PICK j \in Settled \cap Found :
              /\ duplicates[j].idx = Best(library[i]).idx
              /\ duplicates[j].distance < Best(library[i]).distance
        BY <1>1, <4>1 DEF LossesKept
      <4>3. QED
        BY <1>5, <2>2, <2>5, <2>6, <4>2
    <3>2. QED
      BY <3>1 DEF LossesKept
  <2>9. QED
    BY <1>3, <2>3, <2>4, <2>7, <2>8 DEF SearchInv
<1>9. CASE ~TooShort(sig) /\ Candidates(sig) # {}
  <2>1. /\ duplicates' = Put(duplicates, at, Best(sig))
        /\ at' = at /\ pc' = "collide"
    BY <1>9 DEF Search
  <2>2. /\ at \in Sought /\ DOMAIN duplicates' = {i \in Sought : i <= at}
        /\ DOMAIN duplicates' = DOMAIN duplicates \cup {at}
        /\ duplicates'[at] = Best(sig)
        /\ \A i \in DOMAIN duplicates : duplicates'[i] = duplicates[i]
    BY <1>7, <1>9, <2>1
  <2>3. WalkKept'
    BY <1>1, <1>4, <1>5, <1>9, <2>1, <2>2 DEF WalkKept
  <2>4. ResultsKept'
    BY <1>1, <1>5, <1>9, <2>2 DEF ResultsKept
  <2>5. Settled = DOMAIN duplicates /\ Settled' = DOMAIN duplicates
        /\ (Settled \cap Found)' = Settled \cap Found
    BY <1>1, <1>2, <2>1, <2>2 DEF Settled, Found
  <2>6. SharesKept'
    BY <1>1, <2>2, <2>5 DEF SharesKept
  <2>7. LossesKept'
    <3>1. ASSUME NEW i \in Settled', Candidates(library[i])' # {}, i \notin Found'
          PROVE  \E j \in (Settled \cap Found)' :
                   /\ duplicates'[j].idx = Best(library[i])'.idx
                   /\ duplicates'[j].distance < Best(library[i])'.distance
      <4>1. i \in Settled /\ Candidates(library[i]) # {} /\ i \notin Found
        BY <1>5, <2>2, <2>5, <3>1 DEF Found
      <4>2. PICK j \in Settled \cap Found :
              /\ duplicates[j].idx = Best(library[i]).idx
              /\ duplicates[j].distance < Best(library[i]).distance
        BY <1>1, <4>1 DEF LossesKept
      <4>3. QED
        BY <1>5, <2>2, <2>5, <4>2
    <3>2. QED
      BY <3>1 DEF LossesKept
  <2>8. QED
    BY <1>3, <2>3, <2>4, <2>6, <2>7 DEF SearchInv
<1>10. QED
  BY <1>6, <1>8, <1>9
LEMMA ResolveStep == SearchInv /\ Resolve => SearchInv'
<1> SUFFICES ASSUME SearchInv, Resolve PROVE SearchInv'
  OBVIOUS
<1> DEFINE best(i) == Best(library[i])
           n == Len(library)
           R == Rivals(duplicates, at)
           x == duplicates[at].distance
           t == duplicates[at].idx
<1>1. /\ LibraryKept /\ WalkKept /\ ResultsKept /\ SharesKept /\ LossesKept
      /\ pc = "collide" /\ at \in Nat \ {0} /\ at \in Sought
      /\ DOMAIN duplicates = {i \in Sought : i <= at}
      /\ Candidates(library[at]) # {} /\ duplicates[at] = Best(library[at])
      /\ duplicates' = MeetAll(duplicates, at)
      /\ at' = at + 1 /\ pc' = "search"
      /\ UNCHANGED <<refs, tgts, ratio, min, max, library, marked>>
  BY DEF SearchInv, WalkKept, Resolve
<1>2. /\ n \in Nat /\ DOMAIN library = 1..n
      /\ DOMAIN duplicates \subseteq DOMAIN library /\ at \in DOMAIN duplicates
  BY <1>1 DEF LibraryKept, Sought
<1>3. ASSUME NEW i \in DOMAIN duplicates
      PROVE  /\ i \in Found => /\ Candidates(library[i]) # {} /\ duplicates[i] = best(i)
                               /\ duplicates[i].idx # BAD_ROUTINE
                               /\ duplicates[i].distance \in Nat
                               /\ duplicates[i].distance < MAX_DISTANCE
             /\ i \notin Found => duplicates[i] = NoDuplicate
  BY <1>1, <1>2, FoundIs
<1>4. LibraryKept'
  BY LibraryStep DEF Next
<1>5. /\ Sought' = Sought
      /\ \A s : Candidates(s)' = Candidates(s) /\ Best(s)' = Best(s)
  BY <1>1 DEF Sought, TooShort, Candidates, Eligible, Best, Threshold
<1>6. /\ \A i : Best(library[i])' = Best(library[i])
      /\ \A i : Candidates(library[i])' = Candidates(library[i])
  BY <1>1, <1>5
<1>7. at \in Found /\ t # BAD_ROUTINE /\ x \in Nat
  <2>1. best(at).distance < MAX_DISTANCE /\ best(at).distance \in Nat
    BY <1>1, <1>2, BestIs
  <2>2. at \in Found
    BY <1>1, <1>2, <2>1 DEF Found, IsValid, MAX_DISTANCE
  <2>3. QED
    BY <1>2, <1>3, <2>2
<1>8. Settled = DOMAIN duplicates \ {at}
  BY <1>1 DEF Settled
<1>9. ASSUME NEW j \in R
      PROVE  j \in DOMAIN duplicates /\ j # at /\ j \in Settled \cap Found /\ duplicates[j].idx = t
  <2>1. j \in DOMAIN duplicates /\ j # at /\ duplicates[j].idx = t
    BY DEF Rivals
  <2>2. NoDuplicate.idx = BAD_ROUTINE
    BY DEF NoDuplicate
  <2>3. j \in Found
    BY <1>3, <1>7, <2>1, <2>2
  <2>4. QED
    BY <1>8, <2>1, <2>3
<1>10. PICK y \in Nat : \A j \in R : duplicates[j].distance = y
  <2>1. CASE R = {}
    BY <2>1
  <2>2. CASE R # {}
    <3>1. PICK k \in R : TRUE
      BY <2>2
    <3>2. duplicates[k].distance \in Nat
      BY <1>3, <1>9
    <3>3. \A j \in R : duplicates[j].distance = duplicates[k].distance
      BY <1>1, <1>9 DEF SharesKept
    <3>4. QED
      BY <3>2, <3>3
  <2>3. QED
    BY <2>1, <2>2
<1>11. duplicates' = IF R = {} \/ x = y THEN duplicates
                     ELSE Cleared(duplicates, IF x < y THEN R ELSE {at})
  <2>1. duplicates' = After(duplicates, at, y, n)
    <3>1. \A j \in DOMAIN duplicates :
            duplicates[j].idx = BAD_ROUTINE => duplicates[j] = NoDuplicate
      BY <1>3
    <3>2. QED
      BY <1>1, <1>2, <1>7, <1>10, <3>1, MeetAllIs
  <2>2. {j \in R : j <= n} = R
    BY <1>2, <1>9
  <2>3. QED
    BY <2>1, <2>2 DEF After
<1> HIDE DEF R, x, t, best, n
<1>12. /\ DOMAIN duplicates' = DOMAIN duplicates
       /\ \A j \in DOMAIN duplicates : duplicates'[j] = duplicates[j] \/ duplicates'[j] = NoDuplicate
  BY <1>11 DEF Cleared
<1>13. ASSUME NEW j
       PROVE  j \in Found' <=> /\ j \in Found
                               /\ ~(x < y /\ j \in R)
                               /\ ~(x > y /\ R # {} /\ j = at)
  <2>1. ~IsValid(NoDuplicate)
    BY DEF IsValid, NoDuplicate
  <2>2. CASE j \in DOMAIN duplicates
    <3>1. duplicates'[j] = IF (x < y /\ j \in R) \/ (x > y /\ R # {} /\ j = at)
                           THEN NoDuplicate ELSE duplicates[j]
      BY <1>7, <1>10, <1>11, <2>2 DEF Cleared
    <3>2. QED
      BY <1>12, <2>1, <2>2, <3>1 DEF Found
  <2>3. CASE j \notin DOMAIN duplicates
    BY <1>12, <2>3 DEF Found
  <2>4. QED
    BY <2>2, <2>3
<1>14. \A j \in Found' : j \in DOMAIN duplicates /\ j \in Found /\ duplicates'[j] = duplicates[j]
  <2>1. ~IsValid(NoDuplicate)
    BY DEF IsValid, NoDuplicate
  <2>2. QED
    BY <1>12, <1>13, <2>1 DEF Found
<1>15. Settled' = DOMAIN duplicates
  BY <1>1, <1>12 DEF Settled
<1>16. WalkKept'
  <2>1. \A i \in Sought : i < at + 1 <=> i <= at
    BY <1>1, <1>2 DEF Sought
  <2>2. DOMAIN duplicates' = {i \in Sought' : i < at + 1}
    BY <1>1, <1>5, <1>12, <2>1
  <2>3. QED
    BY <1>1, <2>2 DEF WalkKept
<1>17. ResultsKept'
  BY <1>1, <1>6, <1>12 DEF ResultsKept
<1>18. SharesKept'
  <2>1. ASSUME NEW i \in Found', NEW j \in Found', duplicates'[i].idx = duplicates'[j].idx
        PROVE  duplicates'[i].distance = duplicates'[j].distance
    <3>1. /\ duplicates'[i] = duplicates[i] /\ duplicates'[j] = duplicates[j]
          /\ i \in DOMAIN duplicates /\ j \in DOMAIN duplicates /\ i \in Found /\ j \in Found
      BY <1>14
    <3>2. ASSUME NEW k \in Found', k # at, duplicates[k].idx = t, at \in Found'
          PROVE  duplicates[k].distance = x
      <4>1. k \in R /\ k \in Found
        BY <1>14, <3>2 DEF Rivals, R, t
      <4>2. ~(x < y) /\ ~(x > y)
        BY <1>13, <3>2, <4>1
      <4>3. QED
        BY <1>7, <1>10, <4>1, <4>2
    <3>3. CASE i # at /\ j # at
      BY <1>1, <1>8, <2>1, <3>1, <3>3 DEF SharesKept
    <3>4. CASE i = at /\ j = at
      BY <3>4
    <3>5. CASE i = at /\ j # at
      BY <2>1, <3>1, <3>2, <3>5 DEF t, x
    <3>6. CASE i # at /\ j = at
      BY <2>1, <3>1, <3>2, <3>6 DEF t, x
    <3>7. QED
      BY <3>3, <3>4, <3>5, <3>6
  <2>2. QED
    BY <2>1 DEF SharesKept
<1>19. LossesKept'
  <2>1. ASSUME NEW i \in DOMAIN duplicates, Candidates(library[i]) # {}, i \notin Found'
        PROVE  \E j \in Found' : /\ duplicates'[j].idx = best(i).idx
                                 /\ duplicates'[j].distance < best(i).distance
    <3>1. ASSUME x < y PROVE at \in Found' /\ duplicates'[at] = duplicates[at]
      <4>1. at \notin R /\ ~(x > y)
        BY <1>7, <1>10, <3>1 DEF Rivals, R
      <4>2. QED
        BY <1>7, <1>13, <1>14, <4>1
    <3>2. CASE i \notin Found
      <4>1. i \in Settled
        BY <1>7, <1>8, <3>2
      <4>2. PICK j \in Settled \cap Found : /\ duplicates[j].idx = best(i).idx
                                            /\ duplicates[j].distance < best(i).distance
        BY <1>1, <2>1, <3>2, <4>1 DEF LossesKept, best
      <4>3. CASE j \in Found'
        BY <1>14, <4>2, <4>3
      <4>4. CASE j \notin Found'
        <5>1. x < y /\ j \in R
          BY <1>8, <1>13, <4>2, <4>4
        <5>2. duplicates[j].distance = y /\ duplicates[j].idx = t
          BY <1>9, <1>10, <5>1
        <5>3. best(i).distance \in Nat
          BY <1>1, <1>2, <2>1, BestIs DEF best
        <5>4. x < best(i).distance /\ t = best(i).idx
          BY <1>7, <1>10, <4>2, <5>1, <5>2, <5>3
        <5>5. QED
          BY <3>1, <5>1, <5>4 DEF x, t
      <4>5. QED
        BY <4>3, <4>4
    <3>3. CASE i \in Found /\ i = at
      <4>1. x > y /\ R # {}
        BY <1>13, <2>1, <3>3 DEF Rivals, R
      <4>2. PICK j \in R : TRUE
        BY <4>1
      <4>3. j \in Found /\ j # at /\ duplicates[j].idx = t /\ duplicates[j].distance = y
        BY <1>9, <1>10, <4>2
      <4>4. j \in Found'
        BY <1>7, <1>10, <1>13, <4>1, <4>3
      <4>5. duplicates'[j] = duplicates[j]
        BY <1>14, <4>4
      <4>6. best(i).idx = t /\ best(i).distance = x
        BY <1>1, <3>3 DEF best, t, x
      <4>7. QED
        BY <1>7, <1>10, <4>1, <4>3, <4>4, <4>5, <4>6
    <3>4. CASE i \in Found /\ i # at
      <4>1. x < y /\ i \in R
        BY <1>13, <2>1, <3>4
      <4>2. best(i) = duplicates[i] /\ duplicates[i].idx = t /\ duplicates[i].distance = y
        BY <1>3, <1>9, <1>10, <3>4, <4>1
      <4>3. QED
        BY <3>1, <4>1, <4>2 DEF x, t
    <3>5. QED
      BY <3>2, <3>3, <3>4
  <2>2. Found' \subseteq Settled'
    BY <1>14, <1>15
  <2>3. QED
    BY <1>6, <1>15, <2>1, <2>2 DEF LossesKept, best
<1>20. QED
  BY <1>4, <1>16, <1>17, <1>18, <1>19 DEF SearchInv

LEMMA FinishStep == SearchInv /\ (Patch \/ Check) => SearchInv'
<1> SUFFICES ASSUME SearchInv, Patch \/ Check PROVE SearchInv'
  OBVIOUS
<1>1. /\ LibraryKept /\ WalkKept /\ ResultsKept /\ SharesKept /\ LossesKept
      /\ pc # "collide" /\ pc' # "collide"
      /\ UNCHANGED <<tgts, ratio, library, duplicates, at>>
  BY DEF SearchInv, Patch, Check
<1>2. LibraryKept'
  BY LibraryStep DEF Next
<1>3. (ResultsKept /\ SharesKept /\ LossesKept)'
  BY <1>1, ResultsStay
<1>4. WalkKept'
  <2>1. Sought' = Sought
    BY <1>1 DEF Sought, TooShort
  <2>2. CASE Patch
    <3>1. /\ pc' = "check" /\ at > Len(library) /\ at \in Nat
          /\ DOMAIN duplicates = {i \in Sought : i < at}
      BY <1>1, <2>2 DEF Patch, WalkKept
    <3>2. \A i \in Sought : i < at
      BY <1>1, <3>1 DEF Sought, LibraryKept
    <3>3. DOMAIN duplicates = Sought
      BY <3>1, <3>2
    <3>4. QED
      BY <1>1, <2>1, <3>1, <3>3 DEF WalkKept
  <2>3. CASE Check
    <3>1. pc' \in {"aborted", "none", "saved"}
      BY <2>3 DEF Check
    <3>2. QED
      BY <1>1, <3>1 DEF WalkKept
  <2>4. QED
    BY <2>2, <2>3
<1>5. QED
  BY <1>2, <1>3, <1>4 DEF SearchInv

LEMMA NextSearch == SearchInv /\ [Next]_state => SearchInv'
<1> SUFFICES ASSUME SearchInv, [Next]_state PROVE SearchInv'
  OBVIOUS
<1>1. CASE UNCHANGED state
  <2>1. UNCHANGED <<tgts, ratio, library, duplicates, at, pc>>
    BY <1>1 DEF state
  <2>2. LibraryKept'
    BY LibraryStep
  <2>3. WalkKept'
    <3>1. /\ Sought' = Sought /\ Candidates(library[at])' = Candidates(library[at])
          /\ Best(library[at])' = Best(library[at])
      BY <2>1 DEF Sought, TooShort, Candidates, Eligible, Best, Threshold
    <3>2. WalkKept
      BY DEF SearchInv
    <3>3. QED
      BY <2>1, <3>1, <3>2 DEF WalkKept
  <2>4. Found' = Found /\ Settled' = Settled
    BY <2>1 DEF Found, Settled
  <2>5. \A s : Candidates(s)' = Candidates(s) /\ Best(s)' = Best(s)
    BY <2>1 DEF Candidates, Eligible, Best, Threshold
  <2>6. /\ \A i : Best(library[i])' = Best(library[i])
        /\ \A i : Candidates(library[i])' = Candidates(library[i])
    BY <2>1, <2>5
  <2>7. ResultsKept'
    BY <2>1, <2>6 DEF SearchInv, ResultsKept
  <2>8. SharesKept'
    BY <2>1, <2>4 DEF SearchInv, SharesKept
  <2>9. LossesKept'
    BY <2>1, <2>4, <2>6 DEF SearchInv, LossesKept
  <2>10. QED
    BY <2>2, <2>3, <2>7, <2>8, <2>9 DEF SearchInv
<1>2. QED
  BY <1>1, ExtractStep, SearchStep, ResolveStep, FinishStep DEF Next

-----------------------------------------------------------------------------
(* The results.                                                            *)

LEMMA SearchKept == Spec => []SearchInv
<1>1. QED
  BY InitSearch, NextSearch, PTL DEF Spec

(* Wherever the distance of a signature and a target lies within the       *)
(* threshold the table (editdistance.h) shows it, and beyond it a number   *)
(* beyond the threshold, whether or not it gives up early, for strings of  *)
(* any length. *)
THEOREM DistanceIsExact == Spec => []DistanceExact
<1>1. SearchInv => DistanceExact
  <2> SUFFICES ASSUME SearchInv, NEW i \in Sought, NEW t \in DOMAIN tgts
               PROVE  LET sig == library[i]
                          thr == Threshold(sig)
                          shown == Distance(sig, tgts[t].sigs, thr)
                          least == LeastEdits(sig, tgts[t].sigs)
                      IN IF least <= thr /\ tgts[t].sigs # << >>
                         THEN shown = least ELSE shown > thr
    BY DEF DistanceExact
  <2>1. LibraryKept /\ i \in DOMAIN library
    BY DEF SearchInv, Sought
  <2>2. QED
    BY <2>1, FarIs DEF Far
<1>2. QED
  BY <1>1, SearchKept, PTL

(* At the end of findDuplicates every signature that is looked for and has *)
(* a target near enough keeps the nearest one, or lost it to a nearer      *)
(* signature that keeps it, however many met there and in whatever order.  *)
THEOREM NearestIsKept == Spec => []NearestKept
<1>1. SearchInv => NearestKept
  <2> SUFFICES ASSUME SearchInv, pc = "check", NEW i \in Sought,
                      Candidates(library[i]) # {}
               PROVE  LET best == Best(library[i])
                      IN IF i \in Found
                         THEN /\ duplicates[i] = best
                              /\ \A t \in Candidates(library[i]) :
                                   best.distance <= LeastEdits(library[i], tgts[t].sigs)
                         ELSE \E j \in FoundAt(best.idx) :
                                duplicates[j].distance < best.distance
    BY DEF NearestKept
  <2>1. /\ LibraryKept /\ ResultsKept /\ LossesKept /\ DOMAIN duplicates = Sought
        /\ Sought \subseteq DOMAIN library /\ i \in DOMAIN library
    BY DEF SearchInv, WalkKept, Sought
  <2>2. CASE i \in Found
    <3>1. duplicates[i] = Best(library[i])
      BY <2>1, <2>2, FoundIs
    <3>2. ASSUME NEW t \in Candidates(library[i])
          PROVE  Best(library[i]).distance <= LeastEdits(library[i], tgts[t].sigs)
      <4>1. Best(library[i]).distance <= Far(library[i], t)
        BY <2>1, BestIs
      <4>2. QED
        BY <2>1, <4>1, CandidateIs
    <3>3. QED
      BY <2>2, <3>1, <3>2
  <2>3. CASE i \notin Found
    <3>1. i \in Settled
      BY <2>1 DEF Settled
    <3>2. QED
      BY <2>1, <2>3, <3>1 DEF LossesKept, FoundAt
  <2>4. QED
    BY <2>2, <2>3
<1>2. QED
  BY <1>1, SearchKept, PTL

(* Signatures that share a target at the end of findDuplicates are equally *)
(* near to it. *)
THEOREM SharesAreEqual == Spec => []SharedEqually
<1>1. SearchInv => SharedEqually
  BY DEF SearchInv, SharesKept, SharedEqually, Settled, Found
<1>2. QED
  BY <1>1, SearchKept, PTL
=============================================================================
