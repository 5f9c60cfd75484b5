----------------------------- MODULE MCPageCopy -----------------------------
(* A small instance of PageCopy for TLC.                                   *)
EXTENDS PageCopy

BothPrograms == {"kernel", "user"}
=============================================================================
