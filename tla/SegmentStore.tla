---------------------------- MODULE SegmentStore ----------------------------
(***************************************************************************)
(* The life of an executable's segment table: whatever exploration,        *)
(* seeding and register tracing register, in any order.                    *)
(***************************************************************************)
EXTENDS SegmentTable

CONSTANTS Addrs,      \* segment bases that may be asked for
          UserNames   \* names a map file or a linker map may give

ASSUME StoreAssumption ==
  Addrs \subseteq Int /\ UserNames \subseteq Names

VARIABLE segments     \* Executable::segments

(* The table is a list of segments, each with a name. *)
TableTypeOK == segments \in Seq(Segments)

TableInit == segments = << >>

Store(name, type, addr) == segments' = StoreSegment(segments, name, type, addr)

ClearSegments == segments' = << >>

TableNext ==
  \/ \E name \in UserNames \cup {NoName}, type \in SegTypes, addr \in Addrs :
       Store(name, type, addr)
  \/ ClearSegments

TableSpec == TableInit /\ [][TableNext]_segments

(* No address has two segments, so getSegment(Word) has one answer, and    *)
(* every segment begins inside the image.                                  *)
OneSegmentPerAddress ==
  \A i, j \in DOMAIN segments :
    /\ segments[i].addr \in Byte
    /\ segments[i].addr = segments[j].addr => i = j

(* "existing code segments cannot share an address with another segment"   *)
(* and "a new data segment trumps an existing stack segment"               *)
(* (executable.cpp:101, 106): but for a reset of the table, an address     *)
(* keeps a segment for ever, and only STACK ever changes, into DATA.       *)
TypeOnlyFromStackToData ==
  [][segments' # << >> =>
       \A i \in DOMAIN segments : \E j \in DOMAIN segments' :
         /\ segments'[j].addr = segments[i].addr
         /\ \/ segments'[j].type = segments[i].type
            \/ segments[i].type = "STACK" /\ segments'[j].type = "DATA"]_segments

(* The names given are not of the form that is composed.  A map whose      *)
(* segments are renumbered by hand may break this: the number composed is  *)
(* a count, and a name that is given already may be taken.                 *)
NamesGiven == \A name \in UserNames : name[1] \notin SegTypes

(* A name the table composed for a code or data segment leads back to that *)
(* segment: CodeMap::findSegment takes the first match, and a saved map    *)
(* refers to segments by name.  Stack segments are left out: they are      *)
(* numbered by a count that goes down when one of them becomes data.       *)
CodeAndDataNamesUnique ==
  \A i, j \in DOMAIN segments :
    segments[i].name = segments[j].name /\ segments[i].name[1] \in {"CODE", "DATA"} => i = j
=============================================================================
