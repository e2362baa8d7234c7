---------------------------- MODULE ExploreReach ----------------------------
(***************************************************************************)
(* The exploration of ExploreCode with a history: which bytes were given   *)
(* as roots, and at which bytes an instruction was decoded.  The history   *)
(* is never read by the code; with it the exploration implements CodeReach *)
(* and what it has missed at the end can be said.                          *)
(***************************************************************************)
EXTENDS ExploreCode

VARIABLES roots,    \* bytes given to saveCall while seeding, and the entry
          scanned   \* bytes at which an instruction was decoded and claimed

history == <<state, roots, scanned>>

InitH == Init /\ roots = {} /\ scanned = {}

Decodes == \E i \in Decoded : i.kind # "bad" /\ Fits(i)

SeedH ==
  \/ (BeginSeeding \/ SeedEntrySegment \/ \E s \in SeedSegs : SeedSegment(s))
     /\ UNCHANGED <<roots, scanned>>
  \/ \E a \in SeedPoints : SeedRoutine(a) /\ roots' = roots \cup {a.lin}
                           /\ UNCHANGED scanned
  \/ (SeedStart \/ StartAtEntry) /\ roots' = roots \cup {Entry.lin} /\ UNCHANGED scanned

NextH ==
  \/ SeedH
  \/ /\ TakePoint \/ Finish \/ Scan
     /\ scanned' = IF Decodes THEN scanned \cup {csip.lin} ELSE scanned
     /\ UNCHANGED roots

SpecH == InitH /\ [][NextH]_history

Walk == INSTANCE CodeReach WITH image <- code, reached <- scanned

(* The exploration only ever looks at code that control can reach from the *)
(* roots, along the branches it traced: it implements CodeReach.           *)
ImplementsReach == Walk!ReachSpec

-----------------------------------------------------------------------------
(* The bytes of an instruction. *)
Extent(b) == b..(b + code[b].len - 1)

(* A NOP that claimNops may have claimed without scanning it. *)
PaddingNop(b) ==
  /\ code[b].kind = "nop"
  /\ \E s \in scanned : /\ code[s].kind \in {"jmp", "jmpfar"} /\ s < b
                        /\ \A c \in (s + code[s].len)..b : code[c].kind = "nop"

(* A byte is owned only as part of an instruction that was scanned, or as  *)
(* a NOP that follows a scanned jump: no routine claims unreached bytes.   *)
OwnedBytesAreCode ==
  \A b \in Byte : sq.visited[b] > NULL_ROUTINE =>
    PaddingNop(b) \/ \E s \in scanned : b \in Extent(s)

(* When exploration is over there is no code left that control can reach   *)
(* and that is not covered by what was scanned or failed to decode, but    *)
(* for NOPs after a jump: those are claimed unscanned, and a branch into   *)
(* them is dropped as already visited.                                     *)
ExploredAll ==
  pc = "done" =>
    \A b \in Walk!Frontier :
      code[b].kind = "bad" \/ PaddingNop(b) \/ \E s \in scanned : b \in Extent(s)

(* No routine ends up with the entrypoint of another one: it keeps it, or  *)
(* the place was found bad or wiped.  "a call has precedence" over jumps,  *)
(* and unvisited entrypoints are protected (analysis.cpp:464, 470).  The   *)
(* protection looks at first bytes only: an instruction that overlaps an   *)
(* entrypoint takes it, and so does the claiming of NOPs after a jump.     *)
EntrypointsKept ==
  pc = "done" =>
    \A r \in DOMAIN sq.entrypoints :
      LET ep == sq.entrypoints[r].addr.lin
      IN \/ sq.visited[ep] \in {r, NULL_ROUTINE, BAD_ROUTINE}
         \/ PaddingNop(ep)
         \/ \E s \in scanned \ {ep} : ep \in Extent(s)

(* "Reachable blocks are either attributed to a subroutine's main body, or *)
(* it can be marked as a disconnected chunk" (README.md:68): what was      *)
(* scanned has an owner, or is bad, when exploration is over.              *)
ScannedBytesAttributed ==
  pc = "done" => \A s \in scanned : sq.visited[s] # NULL_ROUTINE
=============================================================================
