---------------------------- MODULE CopyService ----------------------------
(***************************************************************************)
(* What every copy program of the repository promises, whichever engine it *)
(* drives and however it splits the work: pieces of the source reach the   *)
(* destination in any order; the program may say "done" only when all of   *)
(* them have, and from then on nobody writes the destination.  A program   *)
(* that met a fault gives up instead, and promises nothing any more.       *)
(***************************************************************************)
VARIABLES pieces,       \* what is to be copied
          copied, outcome
vars == <<pieces, copied, outcome>>

Init == copied = {} /\ outcome = "running"

CopyPieces ==
    /\ outcome # "done"
    /\ copied' \in {copied \cup s : s \in SUBSET pieces}
    /\ UNCHANGED outcome

Finish ==
    /\ outcome = "running" /\ copied = pieces
    /\ outcome' = "done"
    /\ UNCHANGED copied

GiveUp ==
    /\ outcome = "running"
    /\ outcome' = "gaveup"
    /\ UNCHANGED copied

Next == (CopyPieces \/ Finish \/ GiveUp) /\ UNCHANGED pieces

Spec == Init /\ [][Next]_vars
=============================================================================
