----------------------------- MODULE CodeReach -----------------------------
(***************************************************************************)
(* What exploring an image promises, said without a queue: the code looked *)
(* at grows from the roots, one instruction at a time, along the control   *)
(* flow of the image, and never anywhere else.                             *)
(***************************************************************************)
EXTENDS Image

VARIABLES image,     \* the loaded image
          roots,     \* where control may enter it
          reached    \* instructions looked at, by their first byte

reachVars == <<image, roots, reached>>

ReachInit == image \in Images /\ roots = {} /\ reached = {}

AddRoot(b) ==
  /\ reached = {}
  /\ roots' = roots \cup {b}
  /\ UNCHANGED <<image, reached>>

(* Where control may go next from what has been reached. *)
Frontier == roots \cup UNION {Successors(image, b) : b \in reached}

Reach(b) ==
  /\ b \in Frontier /\ image[b].kind # "bad"
  /\ reached' = reached \cup {b}
  /\ UNCHANGED <<image, roots>>

ReachNext == \E b \in Byte : AddRoot(b) \/ Reach(b)

ReachSpec == ReachInit /\ [][ReachNext]_reachVars
=============================================================================
