----------------------------- MODULE MCWqSubmit -----------------------------
(* Small instances of WqSubmit for TLC.                                    *)
EXTENDS WqSubmitInv, TLC

MCSymmetry ==
    Permutations(Desc) \cup Permutations(Clients) \cup Permutations(Revokers)
=============================================================================
