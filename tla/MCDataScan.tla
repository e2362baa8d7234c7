---------------------------- MODULE MCDataScan ----------------------------
(* Up to three segments and two variables over images of a few bytes.      *)
EXTENDS DataScan

S(base, data) == [base |-> base, data |-> data]
V(base, off, external) == [base |-> base, off |-> off, external |-> external]

MCSegLists == {s \in UNION {[1..n -> {S(b, d) : b \in {0, 1, 2, 4}, d \in BOOLEAN}] : n \in 1..3} :
                 ByBase(s) /\ s[Len(s)].data}
MCTgtSegs == {S(0, TRUE), S(1, TRUE), S(3, TRUE), S(0, FALSE)}
MCVarLists == {<< >>, <<V(0, 2, TRUE)>>, <<V(1, 1, FALSE), V(1, 3, TRUE)>>,
               <<V(0, 1, TRUE), V(0, 2, FALSE)>>}
=============================================================================
