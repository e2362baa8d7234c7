----------------------------- MODULE OffsetMap -----------------------------
(***************************************************************************)
(* The equivalences a comparison of two executables has found so far       *)
(* (OffsetMap in analysis.h and analysis.cpp): which code address, data    *)
(* offset and stack offset of the reference stands for which one of the    *)
(* target.  A map is a value; a match either accepts a pair and returns    *)
(* the map it leaves, or refuses it and leaves the map as it was.          *)
(*                                                                         *)
(* code and stack are functions from what they have mapped; data gives     *)
(* every offset the set of its target offsets, at most maxData of them.    *)
(***************************************************************************)
EXTENDS Image, FiniteSets

CONSTANT WordSize     \* values of a 16-bit offset, 64K in the code

ASSUME WordAssumption == WordSize \in Nat \ {0}

DataOffset == 0..(WordSize - 1)

(* A tiny program has no data segment, but still its one set of data. *)
NewOffsetMap(dataSegments) ==
  [code |-> << >>, stack |-> << >>, data |-> [o \in DataOffset |-> {}],
   maxData |-> IF dataSegments > 0 THEN dataSegments ELSE 1]

Accept(map) == [ok |-> TRUE, map |-> map]
Refuse(map) == [ok |-> FALSE, map |-> map]

(* f with the value v at x, whether or not x was in its domain. *)
Put(f, x, v) == [y \in DOMAIN f \cup {x} |-> IF y = x THEN v ELSE f[y]]

-----------------------------------------------------------------------------
(* One partner in each direction.                                          *)

Paired(f, from, to) == from \in DOMAIN f /\ f[from] = to
Free(f, from, to) == from \notin DOMAIN f /\ \A x \in DOMAIN f : f[x] # to

(* Address keys compare by their linear address. *)
GetCode(map, from) ==
  IF from.lin \in DOMAIN map.code THEN map.code[from.lin] ELSE InvalidAddr

(* setCode, the unconditional write. *)
SetCode(map, from, to) == [map EXCEPT !.code = Put(@, from.lin, to)]

SameCode(map, from, to) == GetCode(map, from).lin = to.lin

(* Mutated form: only the reference side is looked at. *)
CodeMatchOneWay(map, from, to) ==
  IF ~IsValid(from) \/ ~IsValid(to) THEN Refuse(map)
  ELSE IF from.lin \in DOMAIN map.code
  THEN IF SameCode(map, from, to) THEN Accept(map) ELSE Refuse(map)
  ELSE Accept(SetCode(map, from, to))

CodeMatch(map, from, to) ==
  IF ~IsValid(from) \/ ~IsValid(to) THEN Refuse(map)
  ELSE IF from.lin \in DOMAIN map.code
  THEN IF SameCode(map, from, to) THEN Accept(map) ELSE Refuse(map)
  ELSE IF \E x \in DOMAIN map.code : map.code[x].lin = to.lin THEN Refuse(map)
  ELSE Accept(SetCode(map, from, to))

(* Mutated form: no limit on the users of a target offset. *)
DataMatchManyUsers(map, from, to) ==
  LET f == from % WordSize
      t == to % WordSize
  IN IF t \in map.data[f] THEN Accept(map)
     ELSE IF Cardinality(map.data[f]) < map.maxData
     THEN Accept([map EXCEPT !.data[f] = @ \cup {t}])
     ELSE Refuse(map)

(* Offsets that differ by a multiple of 64K are the same data. *)
DataMatch(map, from, to) ==
  LET f == from % WordSize
      t == to % WordSize
      users == {o \in DataOffset : t \in map.data[o]}
  IN IF t \in map.data[f] THEN Accept(map)
     ELSE IF Cardinality(map.data[f]) < map.maxData /\ Cardinality(users) < map.maxData
     THEN Accept([map EXCEPT !.data[f] = @ \cup {t}])
     ELSE Refuse(map)

StackMatch(map, from, to) ==
  IF Paired(map.stack, from, to) THEN Accept(map)
  ELSE IF Free(map.stack, from, to) THEN Accept([map EXCEPT !.stack = Put(@, from, to)])
  ELSE Refuse(map)

ResetStack(map) == [map EXCEPT !.stack = << >>]

-----------------------------------------------------------------------------
(* What makes the maps consistent.                                         *)

OneToOne(f) == \A x, y \in DOMAIN f : f[x] = f[y] => x = y

(* No data offset stands for more target offsets, or is stood for by more  *)
(* reference offsets, than there are data segments.                        *)
DataWithinSegments(map) ==
  \A o \in DataOffset :
    /\ Cardinality(map.data[o]) <= map.maxData
    /\ Cardinality({x \in DataOffset : o \in map.data[x]}) <= map.maxData
=============================================================================
