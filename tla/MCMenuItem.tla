------------------------------ MODULE MCMenuItem ------------------------------
(* MenuItem with two requests at a time.                                     *)
EXTENDS MenuItem, TLC

MenuItemSymmetry ==
    Permutations(Requests) \cup Permutations(VariantIds)
        \cup Permutations(Prices)
===============================================================================
