----------------------------- MODULE Duplicates -----------------------------
(***************************************************************************)
(* The search for duplicates (mzsig, mzdup): signatures of the routines of *)
(* one executable are extracted into a library, saved and loaded again     *)
(* (signature.cpp), and every signature is looked for among the routines   *)
(* of another executable (findDuplicates in analysis.cpp).                 *)
(*                                                                         *)
(* A routine is the string of its main block's instruction signatures,     *)
(* empty where it has no main block, and whether its annotations exclude   *)
(* it.                                                                     *)
(***************************************************************************)
EXTENDS EditDistance, FiniteSets

CONSTANTS Signatures,           \* of instructions
          RefLists, TgtLists,   \* lists of routines: references and targets
          Mins, Maxs,           \* sizes mzsig extracts, a maximum of 0 is none
          MinSize,              \* Options::routineSizeThresh
          MaxDists              \* Options::routineDistanceThresh, in percent

Routines == [sigs : Seq(Signatures), ignored : BOOLEAN]
RatioOf(ratio, sig) == (Len(sig) * ratio) \div 100

(* A part of a routine's size is no number as large as the largest.        *)
ASSUME DuplicateAssumption ==
  /\ RefLists \subseteq Seq(Routines) /\ TgtLists \subseteq Seq(Routines)
  /\ MinSize \in Nat /\ MaxDists \subseteq Nat
  /\ \A list \in RefLists, r \in MaxDists : \A i \in DOMAIN list :
       RatioOf(r, list[i].sigs) < MAX_DISTANCE

VARIABLES refs, tgts, ratio,
          min, max,
          library,        \* signatures, in order
          duplicates,     \* from the index of a signature to what it duplicates
          collision,      \* two signatures met at one target
          marked,         \* target routines annotated as duplicates
          at,             \* the routine or the signature the walk is at
          pc              \* "extract", "save", "search", "collide", "patch",
                          \* "check", "saved", "none" or "aborted"

state == <<refs, tgts, ratio, min, max, library, duplicates, collision, marked, at, pc>>

BAD_ROUTINE == -1
NoDuplicate == [distance |-> MAX_DISTANCE, idx |-> BAD_ROUTINE]
IsValid(d) == d.distance # MAX_DISTANCE

Init ==
  /\ refs \in RefLists /\ tgts \in TgtLists
  /\ ratio \in MaxDists /\ min \in Mins /\ max \in Maxs
  /\ library = << >> /\ duplicates = << >> /\ collision = FALSE /\ marked = {}
  /\ at = 1 /\ pc = "extract"

-----------------------------------------------------------------------------
(* The library.                                                            *)

Wanted(r) ==
  /\ ~r.ignored /\ Len(r.sigs) > 0 /\ Len(r.sigs) >= min
  /\ max = 0 \/ Len(r.sigs) <= max

Extract ==
  /\ pc = "extract"
  /\ IF at <= Len(refs)
     THEN /\ library' = IF Wanted(refs[at]) THEN Append(library, refs[at].sigs) ELSE library
          /\ at' = at + 1 /\ pc' = "extract"
     ELSE library' = library /\ at' = 1 /\ pc' = "save"
  /\ UNCHANGED <<refs, tgts, ratio, min, max, duplicates, collision, marked>>

(* A line ends a signature without a comma; one without any comma is not   *)
(* read back (ParseError).  The search refuses an empty library and a      *)
(* target without routines (ArgError).                                     *)
SaveAndLoad ==
  /\ pc = "save"
  /\ pc' = IF library = << >> \/ tgts = << >> \/ \E i \in DOMAIN library : Len(library[i]) = 1
           THEN "aborted" ELSE "search"
  /\ UNCHANGED <<refs, tgts, ratio, min, max, library, duplicates, collision, marked, at>>

-----------------------------------------------------------------------------
(* The search.                                                             *)

Threshold(sig) == RatioOf(ratio, sig)
Delta(m, n) == IF m > n THEN m - n ELSE n - m

(* A target routine that is worth a look, and near enough. *)
Eligible(sig, t) ==
  /\ tgts[t].sigs # << >>
  /\ Delta(Len(sig), Len(tgts[t].sigs)) <= Threshold(sig)
  /\ Distance(sig, tgts[t].sigs, Threshold(sig)) <= Threshold(sig)

Candidates(sig) == {t \in DOMAIN tgts : Eligible(sig, t)}

(* The first of the nearest. *)
Best(sig) ==
  LET far(t) == Distance(sig, tgts[t].sigs, Threshold(sig))
      t == CHOOSE t \in Candidates(sig) : \A u \in Candidates(sig) :
             far(t) < far(u) \/ (far(t) = far(u) /\ t <= u)
  IN [distance |-> far(t), idx |-> t]

TooShort(sig) == Len(sig) < MinSize
Put(f, x, v) == [y \in DOMAIN f \cup {x} |-> IF y = x THEN v ELSE f[y]]

Search ==
  /\ pc = "search" /\ at <= Len(library)
  /\ LET sig == library[at]
     IN CASE TooShort(sig) ->
               /\ at' = at + 1 /\ pc' = "search" /\ UNCHANGED duplicates
          [] ~TooShort(sig) /\ Candidates(sig) = {} ->
               /\ duplicates' = Put(duplicates, at, NoDuplicate)
               /\ at' = at + 1 /\ pc' = "search"
          [] OTHER ->
               /\ duplicates' = Put(duplicates, at, Best(sig))
               /\ pc' = "collide" /\ UNCHANGED at
  /\ UNCHANGED <<refs, tgts, ratio, min, max, library, collision, marked>>

-----------------------------------------------------------------------------
(* Of two signatures that found the same target the nearer one keeps it.   *)
(* Others are looked at in the order of their indexes, and the current one *)
(* may have been cleared on the way.                                       *)

Rivals(dups, i) == {j \in DOMAIN dups \ {i} : dups[j].idx = dups[i].idx}

(* Mutated form: the other one is not cleared. *)
MeetKeeping(dups, i, j) ==
  IF dups[j].idx # dups[i].idx \/ i = j THEN dups
  ELSE IF dups[i].distance > dups[j].distance THEN [dups EXCEPT ![i] = NoDuplicate]
  ELSE dups

(* Mutated form: the one found later wins. *)
MeetLater(dups, i, j) ==
  IF dups[j].idx # dups[i].idx \/ i = j THEN dups
  ELSE IF dups[i].distance # dups[j].distance THEN [dups EXCEPT ![j] = NoDuplicate]
  ELSE dups

Meet(dups, i, j) ==
  IF dups[j].idx # dups[i].idx \/ i = j THEN dups
  ELSE IF dups[i].distance < dups[j].distance THEN [dups EXCEPT ![j] = NoDuplicate]
  ELSE IF dups[i].distance > dups[j].distance THEN [dups EXCEPT ![i] = NoDuplicate]
  ELSE dups

MeetAll(dups, i) ==
  LET met[j \in 0..Len(library)] ==
        IF j = 0 THEN dups
        ELSE LET before == met[j - 1]
             IN IF j \in DOMAIN dups THEN Meet(before, i, j) ELSE before
  IN met[Len(library)]

Resolve ==
  /\ pc = "collide"
  /\ duplicates' = MeetAll(duplicates, at)
  /\ collision' = (collision \/ Rivals(duplicates, at) # {})
  /\ at' = at + 1 /\ pc' = "search"
  /\ UNCHANGED <<refs, tgts, ratio, min, max, library, marked>>

-----------------------------------------------------------------------------
(* The map of the target is annotated and, if anything was found, saved.   *)

Found == {i \in DOMAIN duplicates : IsValid(duplicates[i])}
FoundAt(t) == {i \in Found : duplicates[i].idx = t}

Patch ==
  /\ pc = "search" /\ at > Len(library)
  /\ marked' = {duplicates[i].idx : i \in Found}
  /\ pc' = "check"
  /\ UNCHANGED <<refs, tgts, ratio, min, max, library, duplicates, collision, at>>

(* assert(uniqueDups < dupCount) after any collision. *)
Check ==
  /\ pc = "check"
  /\ pc' = IF collision /\ ~(Cardinality(marked) < Cardinality(Found)) THEN "aborted"
           ELSE IF Found = {} THEN "none" ELSE "saved"
  /\ UNCHANGED <<refs, tgts, ratio, min, max, library, duplicates, collision, marked, at>>

Next == Extract \/ SaveAndLoad \/ Search \/ Resolve \/ Patch \/ Check

Spec == Init /\ [][Next]_state

-----------------------------------------------------------------------------
Sought == {i \in DOMAIN library : ~TooShort(library[i])}

(* The table agrees with the definition of the distance wherever it lies   *)
(* within the threshold, and never shows a larger one as within it, giving *)
(* up early or not. *)
DistanceExact ==
  pc = "search" /\ at = 1 =>
    \A i \in Sought, t \in DOMAIN tgts :
      LET sig == library[i]
          thr == Threshold(sig)
          shown == Distance(sig, tgts[t].sigs, thr)
          least == LeastEdits(sig, tgts[t].sigs)
      IN IF least <= thr /\ tgts[t].sigs # << >> THEN shown = least ELSE shown > thr

(* A signature that lost its target, or that was given one, did so for the *)
(* nearest target there is; no target is kept by a signature while another *)
(* that found it lies nearer. *)
NearestKept ==
  pc = "check" =>
    \A i \in Sought :
      Candidates(library[i]) # {} =>
        LET best == Best(library[i])
        IN IF i \in Found THEN /\ duplicates[i] = best
                               /\ \A t \in Candidates(library[i]) :
                                    best.distance <= LeastEdits(library[i], tgts[t].sigs)
           ELSE \E j \in FoundAt(best.idx) : duplicates[j].distance < best.distance

(* Signatures that share a target at the end are equally near to it, in    *)
(* whatever order they met. *)
SharedEqually ==
  pc = "check" =>
    \A i, j \in Found : duplicates[i].idx = duplicates[j].idx =>
                          duplicates[i].distance = duplicates[j].distance

(* "Updated target_map with duplicates marked will be saved to             *)
(* target_map.dup" (README.md:222): whenever duplicates were found. *)
FoundIsSaved == pc = "aborted" => marked = {}
=============================================================================
