------------------------------ MODULE MCImages ------------------------------
(***************************************************************************)
(* Small images for TLC: every image of CodeSize bytes made of             *)
(* instructions of the given kinds and lengths.  Branches are one byte     *)
(* long; their destinations are all the bytes, in all the segments given.  *)
(***************************************************************************)
EXTENDS Image

CONSTANTS MCKinds,    \* the kinds the images use
          MCLens,     \* the lengths of instructions that are no branch
          MCSegs      \* segment bases far branches and movs may name

Instr(kind, len, to, seg) ==
  [kind |-> kind, len |-> len, to |-> to, seg |-> seg, type |-> "DATA", mem |-> NoAddr]

FarInstrs(kind) ==
  {Instr(kind, 1, NoAddr, 0)} \cup
  UNION {{Instr(kind, 1, t, s) : t \in {b \in Byte : InSegment(b, s)}} : s \in MCSegs}

InstrsOfKind(kind) ==
  CASE kind \in {"op", "int", "trap"} -> {Instr(kind, n, NoAddr, 0) : n \in MCLens}
    [] kind \in {"nop", "ret", "calli", "bad"} -> {Instr(kind, 1, NoAddr, 0)}
    [] kind = "mov" -> {[Instr(kind, 1, NoAddr, s) EXCEPT !.type = t, !.mem = s] :
                           s \in MCSegs, t \in {"DATA", "STACK"}}
    [] kind = "jmp" -> {Instr(kind, 1, t, 0) : t \in Byte \cup {NoAddr}}
    [] kind \in {"jcc", "call"} -> {Instr(kind, 1, t, 0) : t \in Byte}
    [] kind \in {"callfar", "jmpfar"} -> FarInstrs(kind)

MCPrograms == [Byte -> UNION {InstrsOfKind(k) : k \in MCKinds}]

(* Entrypoints, map routines and map segments for seeding. *)
MCEntry == [seg |-> 0, lin |-> 0]
MCSeedPoints ==
  UNION {{[seg |-> s, lin |-> b] : b \in {x \in Byte : x # 0 /\ InSegment(x, s)}} : s \in MCSegs}
MCSeedSegs == {[name |-> <<"user", 0>>, type |-> t, addr |-> 1] : t \in {"CODE", "DATA"}}
MCNone == {}
=============================================================================
