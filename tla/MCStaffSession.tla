---------------------------- MODULE MCStaffSession ----------------------------
(* StaffSession with two requests at a time.                                  *)
EXTENDS StaffSession, TLC

SessionSymmetry ==
    Permutations(Requests) \cup Permutations(Restaurants) \cup Permutations(Codes)
===============================================================================
