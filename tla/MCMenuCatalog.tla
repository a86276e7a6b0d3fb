----------------------------- MODULE MCMenuCatalog ----------------------------
(* MenuCatalog with two requests at a time.                                  *)
EXTENDS MenuCatalog, TLC

CatalogSymmetry ==
    Permutations(Requests) \cup Permutations(CategoryIds) \cup Permutations(ItemIds)
===============================================================================
