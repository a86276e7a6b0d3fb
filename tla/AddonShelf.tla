------------------------------ MODULE AddonShelf ------------------------------
(***************************************************************************)
(* The add-ons of a restaurant as it may think of them: each has a name    *)
(* that no other has, in whatever spelling; one that was removed is gone;  *)
(* and an item is shown with add-ons that are there.                       *)
(***************************************************************************)
CONSTANTS AddonIds, Names, Unused, Gone, SameName(_, _)

VARIABLES
    shelf,       \* the name of each add-on, or Unused, or Gone
    shown        \* the add-ons that an item is shown with

shelfVars == <<shelf, shown>>

OnShelf == {a \in AddonIds : shelf[a] \notin {Unused, Gone}}

IsFree(n, a) == \A b \in OnShelf \ {a} : ~SameName(shelf[b], n)

Add(a, n) ==
    /\ shelf[a] = Unused
    /\ IsFree(n, a)
    /\ shelf' = [shelf EXCEPT ![a] = n]
    /\ UNCHANGED shown

\* Another spelling of the name it has is always allowed.
Rename(a, n) ==
    /\ a \in OnShelf
    /\ SameName(n, shelf[a]) \/ IsFree(n, a)
    /\ shelf' = [shelf EXCEPT ![a] = n]
    /\ UNCHANGED shown

Remove(a) ==
    /\ a \in OnShelf
    /\ shelf' = [shelf EXCEPT ![a] = Gone]
    /\ shown' = shown \ {a}

Choose(A) ==
    /\ A \subseteq OnShelf
    /\ shown' = A
    /\ UNCHANGED shelf

ShelfNext ==
    \/ \E a \in AddonIds : Remove(a) \/ \E n \in Names : Add(a, n) \/ Rename(a, n)
    \/ \E A \in SUBSET AddonIds : Choose(A)
===============================================================================
