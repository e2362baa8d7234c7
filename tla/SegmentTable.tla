--------------------------- MODULE SegmentTable ---------------------------
(***************************************************************************)
(* The segments an executable is known to have (executable.cpp):           *)
(* Executable::storeSegment and the lookup of a segment by base address.   *)
(* A table is a sequence of segments; an operation returns the table it    *)
(* leaves behind.  A segment's address is its base, a linear address.      *)
(* An automatic name is the type with a number, a name given by a user or  *)
(* a map is "user" with one; NoName asks for an automatic name.            *)
(***************************************************************************)
EXTENDS Image, Sequences, FiniteSets

SegTypes == {"CODE", "DATA", "STACK"}
Names == (SegTypes \cup {"user"}) \X Nat
NoName == <<"", 0>>
AutoName(type, n) == <<type, n>>

(* A segment in a table always has a name. *)
Segments == [name : Names, type : SegTypes, addr : Int]

HasSegment(segs, addr) == \E i \in DOMAIN segs : segs[i].addr = addr

(* The first segment registered at addr (find_if). *)
IndexAt(segs, addr) ==
  CHOOSE i \in DOMAIN segs :
    /\ segs[i].addr = addr
    /\ \A j \in DOMAIN segs : segs[j].addr = addr => i <= j

RemoveSegment(segs, i) ==
  [j \in 1..(Len(segs) - 1) |-> IF j < i THEN segs[j] ELSE segs[j + 1]]

CountOfType(segs, type) == Cardinality({i \in DOMAIN segs : segs[i].type = type})

(* Mutated forms: no name is composed for a segment that has none; the     *)
(* number in it counts the segments of every type.                         *)
AddSegmentUnnamed(segs, name, type, addr) ==
  Append(segs, [name |-> name, type |-> type, addr |-> addr])

AddSegmentByCount(segs, name, type, addr) ==
  Append(segs, [name |-> IF name = NoName THEN AutoName(type, Len(segs) + 1) ELSE name,
                type |-> type, addr |-> addr])

AddSegment(segs, name, type, addr) ==
  Append(segs, [name |-> IF name = NoName
                         THEN AutoName(type, CountOfType(segs, type) + 1)
                         ELSE name,
                type |-> type, addr |-> addr])

(* Mutated forms: a replaced stack segment is forgotten; a segment is the  *)
(* same only if its type is.                                               *)
StoreSegmentForgetting(segs, name, type, addr) ==
  IF addr \notin Byte THEN segs
  ELSE IF ~HasSegment(segs, addr) THEN AddSegment(segs, name, type, addr)
  ELSE IF segs[IndexAt(segs, addr)].type = "STACK" /\ type = "DATA"
  THEN RemoveSegment(segs, IndexAt(segs, addr))
  ELSE segs

StoreSegmentByType(segs, name, type, addr) ==
  IF \/ addr \notin Byte
     \/ \E i \in DOMAIN segs : segs[i].type = type /\ segs[i].addr = addr
  THEN segs
  ELSE AddSegment(segs, name, type, addr)

(* storeSegment.  A segment outside the image is refused; a known address  *)
(* is left as it is, but for DATA found where a STACK was registered,      *)
(* which replaces it.                                                      *)
StoreSegment(segs, name, type, addr) ==
  IF addr \notin Byte THEN segs
  ELSE IF ~HasSegment(segs, addr) THEN AddSegment(segs, name, type, addr)
  ELSE IF segs[IndexAt(segs, addr)].type = "STACK" /\ type = "DATA"
  THEN AddSegment(RemoveSegment(segs, IndexAt(segs, addr)), name, type, addr)
  ELSE segs
=============================================================================
