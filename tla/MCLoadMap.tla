----------------------------- MODULE MCLoadMap -----------------------------
(***************************************************************************)
(* Files for TLC: maps of four bytes with two segments, their routines     *)
(* with and without blocks, disconnected, overhanging or turned around.    *)
(***************************************************************************)
EXTENDS LoadMap

Seg(n, type, addr) == [name |-> <<"s", n>>, type |-> type, addr |-> addr, def |-> FALSE]
MCSegLines == {Seg(1, "CODE", 0), Seg(1, "DATA", 0), Seg(2, "CODE", 2),
               [Seg(2, "DATA", 2) EXCEPT !.def = TRUE]}

R(lo, hi) == Range2(lo, hi)
L(n, lo, hi, reach, unreach, tags) ==
  [seg |-> <<"s", n>>, near |-> TRUE, lo |-> lo, hi |-> hi,
   reach |-> reach, unreach |-> unreach, tags |-> tags]

MCRoutineLines ==
  { L(1, 0, 1, {}, {}, {}), L(1, 0, 0, {R(0, 0)}, {}, {"complete"}),
    L(1, 0, 0, {R(0, 1)}, {R(2, 2)}, {"external"}),
    L(1, 0, 1, {R(0, 0), R(2, 2)}, {R(1, 1)}, {}),
    L(1, 1, 1, {R(1, 1), R(3, 3)}, {}, {"detached"}),
    L(1, 1, 2, {R(0, 0), R(1, 2)}, {}, {}),
    L(1, 2, 5, {}, {}, {"assembly"}), L(1, 2, 3, {R(2, 2)}, {R(3, 3)}, {}),
    L(1, 1, 2, {R(2, 2)}, {R(1, 1)}, {"ignore"}),
    L(1, 3, 3, {R(3, 3)}, {}, {"external", "detached"}),
    L(1, 1, 1, {R(1, 1)}, {}, {"complete", "assembly"}),
    L(1, 3, 4, {R(3, 4)}, {}, {}),
    L(2, 0, 0, {R(0, 1)}, {}, {}), L(2, 0, 1, {}, {}, {"complete"}),
    L(2, 1, 1, {R(1, 1)}, {R(0, 0)}, {"duplicate"}),
    L(2, 1, 3, {}, {}, {}), L(2, 1, 0, {R(1, 1)}, {}, {}),
    L(2, 1, 1, {R(1, 0)}, {R(1, 1)}, {}) }

Def(start, stop, length, type) ==
  [name |-> <<"l", start>>, start |-> start, stop |-> stop, length |-> length, type |-> type]
MCLinkSegs ==
  {Def(0, 1, 2, "CODE"), Def(1, 2, 2, "CODE"), Def(2, 4, 3, "DATA"), Def(4, 4, 0, "DATA"),
   Def(4, 5, 2, "STACK"), Def(3, 2, 1, "CODE")}
MCIdaBases == {NoBase, 2}
=============================================================================
