---------------------------- MODULE EditDistance ----------------------------
(***************************************************************************)
(* The distance of two strings of instruction signatures (editdistance.h): *)
(* the table of the usual algorithm, one row from the other, given up when *)
(* a whole row lies above the threshold.                                   *)
(***************************************************************************)
EXTENDS Integers, Sequences

MAX_DISTANCE == 1000000       \* stands for the largest 32-bit number
Least(S) == CHOOSE x \in S : \A y \in S : x <= y
Differ(x, y) == IF x = y THEN 0 ELSE 1

(* A row has a column for each prefix of s2.  Every cell comes from the    *)
(* one above, the one to its left and the one above on the left.           *)
FirstRow(s2) == [j \in 0..Len(s2) |-> j]

NextRow(above, x, s2) ==
  LET cell[j \in 0..Len(s2)] ==
        IF j = 0 THEN above[0] + 1
        ELSE Least({above[j] + 1, cell[j - 1] + 1, above[j - 1] + Differ(x, s2[j])})
  IN cell

(* Mutated form: a row at the threshold is above it. *)
BelowStrictly(row, thr) == \E j \in DOMAIN row \ {0} : row[j] < thr

(* Column 0 is not looked at. *)
Below(row, thr) == \E j \in DOMAIN row \ {0} : row[j] <= thr

GivenUp == << >>

Distance(s1, s2, thr) ==
  LET row[i \in 0..Len(s1)] ==
        IF i = 0 THEN FirstRow(s2)
        ELSE LET above == row[i - 1]
                 next == NextRow(above, s1[i], s2)
             IN IF above = GivenUp \/ ~Below(next, thr) THEN GivenUp ELSE next
      last == row[Len(s1)]
  IN IF last = GivenUp THEN MAX_DISTANCE ELSE last[Len(s2)]

-----------------------------------------------------------------------------
(* What it computes: the least number of instructions to insert, remove or *)
(* replace to make one string of the other, by what is left of the two     *)
(* after their first i and j instructions.                                 *)
LeastEdits(s1, s2) ==
  LET edits[at \in (0..Len(s1)) \X (0..Len(s2))] ==
        LET i == at[1]
            j == at[2]
        IN IF i = Len(s1) THEN Len(s2) - j
           ELSE IF j = Len(s2) THEN Len(s1) - i
           ELSE Least({edits[<<i + 1, j>>] + 1, edits[<<i, j + 1>>] + 1,
                       edits[<<i + 1, j + 1>>] + Differ(s1[i + 1], s2[j + 1])})
  IN edits[<<0, 0>>]
=============================================================================
