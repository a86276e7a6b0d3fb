------------------------------ MODULE MCListing ------------------------------
(* Listing, walked while a few rows are written.                            *)
EXTENDS Listing, TLC
=============================================================================
