------------------------ MODULE MCRestaurantLifecycle ------------------------
(* RestaurantLifecycle with a few requests, events and handlers.            *)
EXTENDS RestaurantAccess, TLC

\* Requests, and handlers, are interchangeable; used for safety only.
LifecycleSymmetry == Permutations(Requests) \cup Permutations(Workers)

\* Event e pays until time e.
EndAtOwnNumber == [e \in Events |-> e]

NoUseCases == {}
=============================================================================
