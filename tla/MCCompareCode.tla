--------------------------- MODULE MCCompareCode ---------------------------
(***************************************************************************)
(* Cases for TLC: reference images that bring out the different ways a     *)
(* comparison can go, targets that differ from them by one edit, and a few *)
(* maps and sets of options.                                               *)
(***************************************************************************)
EXTENDS CompareCode

I(kind, name, len, to, val) ==
  [kind |-> kind, name |-> name, len |-> len, to |-> to, seg |-> 0, val |-> val,
   ofs |-> 0, mem |-> "none"]
Op(name, val) == I("op", name, 1, NoAddr, val)
MemOp(mem, ofs) == [Op("mov", 0) EXCEPT !.mem = mem, !.ofs = ofs]
Branch(kind, to) == I(kind, kind, 1, to, 0)
Ret == Branch("ret", NoAddr)
Bad == Branch("bad", NoAddr)

(* The image with the instruction i(x) at x. *)
Image6(i(_)) ==
  0 :> i(0) @@ 1 :> i(1) @@ 2 :> i(2) @@ 3 :> i(3) @@ 4 :> i(4) @@ 5 :> i(5)
Img(s) == Image6(LAMBDA x : s[x + 1])

(* Edits: one instruction replaced, one more, one less.  Branches over the *)
(* place of a change are linked anew.                                      *)
Shift(i, at, by) == IF i.to >= at THEN [i EXCEPT !.to = @ + by] ELSE i
Replaced(p, at, i) == [p EXCEPT ![at] = i]
Inserted(p, at, i) ==
  Image6(LAMBDA x : IF x < at THEN Shift(p[x], at, 1) ELSE IF x = at THEN i
                  ELSE Shift(p[x - 1], at, 1))
Removed(p, at) ==
  Image6(LAMBDA x : IF x < at THEN Shift(p[x], at, -1)
                  ELSE IF x = CodeSize - 1 THEN Ret ELSE Shift(p[x + 1], at, -1))

Edits(p, ops) ==
  {p} \cup {Replaced(p, at, i) : at \in Byte, i \in ops}
      \cup {Inserted(p, at, i) : at \in Byte, i \in ops}
      \cup {Removed(p, at) : at \in Byte}

a == Op("a", 0)
b == Op("b", 0)
Call(to) == Branch("call", to)
FarCall(to) == Branch("callfar", to)

Block2(x, y) == [b |-> x, e |-> y]
Rt(ext, reach, unreach) ==
  [extents |-> ext, reach |-> reach, unreach |-> unreach, seg |-> 0, near |-> TRUE,
   ignore |-> FALSE, asm |-> FALSE, external |-> FALSE]
Whole(x, y) == Rt(Block2(x, y), << Block2(x, y) >>, << >>)
Asm(r) == [r EXCEPT !.asm = TRUE]

Opt == [strict |-> TRUE, ignoreDiff |-> FALSE, noCall |-> FALSE, variant |-> FALSE,
        checkAsm |-> FALSE, refSkip |-> 0, tgtSkip |-> 0, stop |-> InvalidAddr]
Loose == [Opt EXCEPT !.strict = FALSE]
Skips(o, r, t) == [o EXCEPT !.refSkip = r, !.tgtSkip = t]
MCOptions == {Opt, Loose, Skips(Loose, 1, 1), Skips(Opt, 2, 1),
              [Loose EXCEPT !.variant = TRUE],
              [Opt EXCEPT !.noCall = TRUE], [Opt EXCEPT !.checkAsm = TRUE],
              [Opt EXCEPT !.ignoreDiff = TRUE],
              [Opt EXCEPT !.stop = [seg |-> 0, lin |-> 4]]}

(* Two routines, the second called or not; a third that is excluded.       *)
Zero == [seg |-> 0, lin |-> 0]
RefMap(rts, tgts) ==
  [rmap |-> rts, rsegs |-> 0 :> "CODE", dataSegs |-> 1,
   tmap |-> [n \in DOMAIN rts |-> IF n \in DOMAIN tgts THEN [seg |-> 0, lin |-> tgts[n]] ELSE InvalidAddr]]
MCMaps ==
  { RefMap(<< >>, << >>),
    RefMap(<< Whole(0, 2), Whole(3, 5) >>, << >>),
    RefMap(<< Whole(0, 2), Whole(3, 5) >>, << 0, 3 >>),
    RefMap(<< Whole(0, 2), Asm(Whole(3, 3)), Whole(4, 5) >>, << >>),
    RefMap(<< Whole(0, 2) >>, << >>),
    RefMap(<< Rt(Block2(0, 3), << Block2(0, 1), Block2(2, 3) >>, << >>), Whole(4, 5) >>, << >>),
    RefMap(<< Rt(Block2(0, 5), << Block2(0, 1), Block2(4, 5) >>, << >>) >>, << >>),
    RefMap(<< Rt(Block2(0, 0), << Block2(0, 0), Block2(3, 3) >>, << Block2(1, 2) >>), Whole(4, 5) >>, << >>) }

MCRefs == { Img(<<a, Call(3), Ret, a, b, Ret>>),
            Img(<<Call(4), Call(3), Ret, MemOp("SS", 1), MemOp("SS", 0), Ret>>),
            Img(<<Branch("jcc", 3), MemOp("DS", 2), b, Branch("jmp", 2), MemOp("DS", 1), Ret>>),
            Img(<<FarCall(3), Ret, a, MemOp("CS", 2), Branch("calli", NoAddr), Ret>>),
            Img(<<[a EXCEPT !.len = 2], b, Call(4), b, a, Ret>>),
            Img(<<a, b, a, b, Call(0), Ret>>),
            Img(<<Call(3), Ret, Bad, Op("add sp,2", 0), Op("a", 1), Ret>>) }
MCEdits == {Op("a", 0), Op("a", 1), Op("pop cx", 0), Ret, Call(3), Branch("jcc", 4), MemOp("SS", 0),
            MemOp("DS", 1)}

(* The entrypoint behind a routine it calls, or whose place in the target  *)
(* is not in the image. *)
MCBehind ==
  LET r == Img(<<b, Ret, a, Call(0), Ret, a>>)
  IN {[ref |-> r, tgt |-> t, entry |-> [seg |-> 0, lin |-> 2], tentry |-> [seg |-> 0, lin |-> 2]] :
        t \in {r, Replaced(r, 3, Call(6))}}

(* A longer instruction in the target, so that the place of a block behind *)
(* it is guessed to be outside of the image.                               *)
MCBeyond ==
  LET r == Img(<<a, b, Ret, b, a, Ret>>)
  IN {[ref |-> r, tgt |-> Replaced(r, 0, [a EXCEPT !.len = 3]), entry |-> Zero, tentry |-> Zero]}

MCPrograms ==
  MCBehind \cup MCBeyond \cup
  UNION {{[ref |-> r, tgt |-> t, entry |-> Zero, tentry |-> Zero] : t \in Edits(r, MCEdits)} :
         r \in MCRefs}

ASSUME ProperMaps == \A m \in RefMaps : RoutinesApart(m.rmap) /\ BlocksValid(m.rmap)
ASSUME ProperCode == MapsLaidOut
=============================================================================
