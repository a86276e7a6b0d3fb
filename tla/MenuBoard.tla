------------------------------ MODULE MenuBoard ------------------------------
(***************************************************************************)
(* The menu as a restaurant may think of it: its categories one below the  *)
(* other, some switched off, and items with a name each, all different,    *)
(* in categories that are on the board.  Everything happens at one         *)
(* instant.  This module is compared with, not run.                        *)
(***************************************************************************)
EXTENDS Sequences, SequencesExt

CONSTANTS CategoryIds, ItemIds, Names, Absent

VARIABLES
    board,       \* the categories in their order
    off,         \* those switched off
    place,       \* the category of each item, or Absent
    name         \* the name of each item, or Absent

boardVars == <<board, off, place, name>>

OnBoard == ToSet(board)
ItemsIn(c) == {i \in ItemIds : place[i] = c}

Insert(c) ==
    /\ c \notin OnBoard
    /\ \E k \in 1..(Len(board) + 1) : board' = InsertAt(board, k, c)
    /\ off' = off \ {c}
    /\ UNCHANGED <<place, name>>

\* Elsewhere, or switched on or off.
Change(c) ==
    /\ c \in OnBoard
    /\ \E j, k \in 1..Len(board) :
          board[j] = c /\ board' = InsertAt(RemoveAt(board, j), k, c)
    /\ off' \in {off \cup {c}, off \ {c}}
    /\ UNCHANGED <<place, name>>

\* Only an empty category is removed.
RemoveEmpty(c) ==
    /\ c \in OnBoard
    /\ ItemsIn(c) = {}
    /\ \E j \in 1..Len(board) : board[j] = c /\ board' = RemoveAt(board, j)
    /\ off' = off \ {c}
    /\ UNCHANGED <<place, name>>

IsFree(n, i) == \A j \in ItemIds \ {i} : name[j] # n

AddItem(i, c, n) ==
    /\ place[i] = Absent
    /\ c \in OnBoard
    /\ IsFree(n, i)
    /\ place' = [place EXCEPT ![i] = c]
    /\ name' = [name EXCEPT ![i] = n]
    /\ UNCHANGED <<board, off>>

\* An item is not moved into a category that is switched off.
ChangeItem(i, c, n) ==
    /\ place[i] # Absent
    /\ c = place[i] \/ c \in OnBoard \ off
    /\ n = name[i] \/ IsFree(n, i)
    /\ place' = [place EXCEPT ![i] = c]
    /\ name' = [name EXCEPT ![i] = n]
    /\ UNCHANGED <<board, off>>

RemoveItem(i) ==
    /\ place[i] # Absent
    /\ place' = [place EXCEPT ![i] = Absent]
    /\ name' = [name EXCEPT ![i] = Absent]
    /\ UNCHANGED <<board, off>>

BoardNext ==
    \/ \E c \in CategoryIds : Insert(c) \/ Change(c) \/ RemoveEmpty(c)
    \/ \E i \in ItemIds, c \in CategoryIds, n \in Names : AddItem(i, c, n) \/ ChangeItem(i, c, n)
    \/ \E i \in ItemIds : RemoveItem(i)
===============================================================================
