----------------------------- MODULE Registers -----------------------------
(***************************************************************************)
(* The register file (Registers) and what is known of it (CpuState): a     *)
(* byte register is half of a word register, and which bits of a word are  *)
(* known is kept in a second register file, as a mask.                     *)
(*                                                                         *)
(* A byte has the values 0..Base-1 (256 of them in the code), a word is    *)
(* low + Base * high.                                                      *)
(***************************************************************************)
EXTENDS Integers, Sequences

CONSTANTS Base,       \* values of a byte
          WordRegs    \* the word registers kept

ASSUME RegisterAssumption ==
  /\ Base \in Nat /\ Base > 1
  /\ "CS" \in WordRegs
  /\ WordRegs \subseteq {"AX", "BX", "CX", "DX", "SI", "DI", "BP", "SP", "CS", "DS", "ES", "SS"}

ByteVals == 0..(Base - 1)
WordVals == 0..(Base * Base - 1)

Low(w) == w % Base
High(w) == w \div Base

(* The byte registers of an instance, their words and their other halves.  *)
Parent == [AL |-> "AX", AH |-> "AX", BL |-> "BX", BH |-> "BX",
           CL |-> "CX", CH |-> "CX", DL |-> "DX", DH |-> "DX"]
Sibling == [AL |-> "AH", AH |-> "AL", BL |-> "BH", BH |-> "BL",
            CL |-> "CH", CH |-> "CL", DL |-> "DH", DH |-> "DL"]
ByteRegs == {r \in DOMAIN Parent : Parent[r] \in WordRegs}
Regs == WordRegs \cup ByteRegs
HighRegs == {"AH", "BH", "CH", "DH"}

Vals(r) == IF r \in ByteRegs THEN ByteVals ELSE WordVals

Files == [WordRegs -> WordVals]

(* Registers::get. *)
Half(r, w) == IF r \in HighRegs THEN High(w) ELSE Low(w)
Get(file, r) == IF r \in ByteRegs THEN Half(r, file[Parent[r]]) ELSE file[r]

(* Registers::set: a byte goes to its place in the word, and the other     *)
(* half is kept; registers that do not exist are ignored.                  *)
Placed(r, v) == IF r \in HighRegs THEN v * Base ELSE v
Set(file, r, v) ==
  IF r \in ByteRegs
  THEN [file EXCEPT ![Parent[r]] = Placed(r, v) + Placed(Sibling[r], Half(Sibling[r], @))]
  ELSE IF r \in WordRegs THEN [file EXCEPT ![r] = v] ELSE file

-----------------------------------------------------------------------------
(* CpuState: values, masks of what is known, and the simulated stack,      *)
(* newest value first.                                                     *)
Blank == [r \in WordRegs |-> 0]
NewState == [regs |-> Blank, known |-> Blank, stack |-> << >>]

AllBits(r) == IF r \in ByteRegs THEN Base - 1 ELSE Base * Base - 1

IsKnown(s, r) == Get(s.known, r) = AllBits(r)

(* CpuState::getValue: a register that is not known reads as zero. *)
Value(s, r) == IF IsKnown(s, r) THEN Get(s.regs, r) ELSE 0

SetState(s, r, v, known) ==
  [s EXCEPT !.regs = Set(@, r, v),
            !.known = Set(@, r, IF known THEN AllBits(r) ELSE 0)]
SetValue(s, r, v) == SetState(s, r, v, TRUE)
SetUnknown(s, r) == SetState(s, r, 0, FALSE)

(* setUnknown of each register of rs: whatever the order, the bits of each *)
(* are cleared, and the other half of a byte's word is kept.               *)
Cleared(file, rs) ==
  [w \in WordRegs |->
     LET lost == {b \in rs \cap ByteRegs : Parent[b] = w}
         low == IF lost \subseteq HighRegs THEN Low(file[w]) ELSE 0
         high == IF lost \cap HighRegs = {} THEN High(file[w]) ELSE 0
     IN IF w \in rs THEN 0 ELSE low + Base * high]
SetAllUnknown(s, rs) == [s EXCEPT !.regs = Cleared(@, rs), !.known = Cleared(@, rs)]

(* The state exploration begins with: CS is known, and SS unless stack and *)
(* code begin at the same place, in whatever segments.                     *)
EntryState(cs, ss, same) ==
  LET s == SetValue(NewState, "CS", cs)
  IN IF same THEN s ELSE SetValue(s, "SS", ss)
=============================================================================
