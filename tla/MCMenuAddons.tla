----------------------------- MODULE MCMenuAddons -----------------------------
(* MenuAddons with two requests at a time.                                   *)
EXTENDS MenuAddons, TLC

AddonsSymmetry ==
    Permutations(Requests) \cup Permutations(AddonIds)
        \cup Permutations(Words) \cup Permutations(Spellings)
===============================================================================
