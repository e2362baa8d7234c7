------------------------------- MODULE Image -------------------------------
(***************************************************************************)
(* The loaded image the analyzer looks at: its bytes, the addresses of     *)
(* them (address.h) and the instruction the decoder finds at each byte     *)
(* (instruction.h, abstracted to what the walk over the code asks of it).  *)
(*                                                                         *)
(* The image is loaded at linear address 0 and has the bytes Byte.  An     *)
(* address is a segment base and a linear address; SegSize is the reach of *)
(* a 16-bit offset, so lin - seg is the offset.  Address equality is       *)
(* equality of lin, as in Address::operator==.                             *)
(***************************************************************************)
EXTENDS Integers

CONSTANTS CodeSize,   \* bytes of the load module, Executable::codeSize
          SegSize,    \* bytes a segment reaches, 64K in the code
          ParaSize,   \* bytes of a paragraph, 16 in the code
          MemTotal    \* bytes of the address space, 1M in the code

ASSUME SizeAssumption ==
  /\ CodeSize \in Nat \ {0} /\ SegSize \in Nat \ {0}
  /\ ParaSize \in Nat \ {0} /\ MemTotal \in Nat

Byte == 0..(CodeSize - 1)

Addresses == [seg : Int, lin : Int]
InvalidAddr == [seg |-> -1, lin |-> -1]
IsValid(a) == a # InvalidAddr

(* Address::inSegment: lin can be written with the base seg. *)
InSegment(lin, seg) == lin >= seg /\ lin - seg < SegSize

(* Offset arithmetic wraps around inside the segment (Address operator+). *)
Wrap(seg, lin) == [seg |-> seg, lin |-> seg + ((lin - seg) % SegSize)]

(* Address(Offset): the 64K-aligned segment below lin. *)
LinearAddr(lin) == [seg |-> (lin \div SegSize) * SegSize, lin |-> lin]

-----------------------------------------------------------------------------
(* Instructions.  A near branch goes to the linear address to, wrapped in  *)
(* its segment; a far one to to, written with the segment seg.             *)

NoAddr == -1           \* a destination or operand the code cannot tell

Kinds == {"op",        \* no branch, no effect the walk follows
          "nop",       \* one byte long, claimed after a jump
          "mov",       \* into DS, ES or SS (or a pop): may name a segment
          "int",       \* an interrupt that may be a terminating one
          "ret", "jmp", "jmpfar", "jcc",
          "call", "calli", "callfar",
          "trap",      \* decoded, then nothing is known of what it changes
          "bad"}       \* the decoder throws CpuError

Instructions == [kind : Kinds, len : Nat \ {0}, to : Int, seg : Int,
                 type : {"DATA", "STACK"}, mem : Int]

WellFormed(i) ==
  /\ i.kind = "nop" => i.len = 1
  /\ i.kind \in {"callfar", "jmpfar"} /\ i.to # NoAddr => InSegment(i.to, i.seg)

Images == {p \in [Byte -> Instructions] : \A b \in Byte : WellFormed(p[b])}

(* A far jump's immediate, segment in the high word, is taken for a linear *)
(* address, where a far call's is split into segment and offset.           *)
FarImmediate(i) == (i.seg \div ParaSize) * SegSize + (i.to - i.seg)

(* The bytes a near branch to t reaches from one segment or another. *)
NearTargets(t) == {d \in Byte : t # NoAddr /\ (d - t) % SegSize = 0}

(* Where control may go after the instruction at b. *)
Successors(code, b) ==
  LET i == code[b]
  IN CASE i.kind \in {"op", "nop", "mov", "int"} -> NearTargets(b + i.len)
       [] i.kind = "jmp" -> NearTargets(i.to)
       [] i.kind \in {"jcc", "call"} -> NearTargets(b + i.len) \cup NearTargets(i.to)
       [] i.kind = "jmpfar" /\ i.to # NoAddr -> {FarImmediate(i)} \cap Byte
       [] i.kind = "callfar" -> NearTargets(b + i.len) \cup ({i.to} \cap Byte)
       [] i.kind = "calli" -> Byte
       [] OTHER -> {}
=============================================================================
