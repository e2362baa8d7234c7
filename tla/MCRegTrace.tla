----------------------------- MODULE MCRegTrace -----------------------------
(* RegTrace with an image of two one-word segments. *)
EXTENDS RegTrace, SequencesExt

MCImageWords == [s \in {1, 2} |-> s + 1]

(* The registers wiped at once are those wiped one by one, as the code     *)
(* does it, for any set of them and any contents.                          *)
ASSUME
  \A f \in Files, rs \in SUBSET Regs :
    LET s == [regs |-> f, known |-> f, stack |-> << >>]
    IN SetAllUnknown(s, rs) = FoldSet(LAMBDA r, acc : SetUnknown(acc, r), s, rs)
=============================================================================
