---------------------------- MODULE MCTableSeating ----------------------------
(* TableSeating on small restaurants. *)
EXTENDS SeatingReaders, TLC

\* Requests are interchangeable; used by the runs that check invariants and
\* action properties only.
RequestSymmetry == Permutations(Requests)

\* The use cases on which each run concentrates.
TableUseCases == {"assign", "release", "update", "setStatus", "delete"}
PartyUseCases == {"assign", "release", "create", "delete", "deleteSection"}
=============================================================================
