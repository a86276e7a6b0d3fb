---------------------------- MODULE SeatingLedger ----------------------------
(***************************************************************************)
(* What the tables component promises to the queue service that seats      *)
(* parties through it, and to the restaurant that manages its tables: an   *)
(* account book with one entry per table, in which every operation happens *)
(* at one instant.                                                         *)
(*                                                                         *)
(* A party is seated at all of its tables or at none, never beyond the     *)
(* capacity of one; a table changes size, goes out for maintenance or is   *)
(* closed only while it is empty; a closed table stays closed.             *)
(***************************************************************************)
EXTENDS Integers

CONSTANTS Tables,       \* identities of tables, used or not
          Capacities,   \* the sizes a table can have
          MaxParty      \* the most guests one request seats at one table

VARIABLES state,        \* "unused", "open", "maintenance" or "closed"
          capacity,     \* seats of each table
          guests        \* guests at each table

ledgerVars == <<state, capacity, guests>>

States == {"unused", "open", "maintenance", "closed"}

\* The guests a request names, table by table; 0 where it names none.
Party == [Tables -> 0..MaxParty]

LedgerInit ==
    /\ state \in [Tables -> {"unused", "open"}]
    /\ capacity \in [Tables -> Capacities \cup {0}]
    /\ guests = [t \in Tables |-> 0]

Open(t, c) ==
    /\ state[t] = "unused"
    /\ state' = [state EXCEPT ![t] = "open"]
    /\ capacity' = [capacity EXCEPT ![t] = c]
    /\ UNCHANGED guests

Seat(party) ==
    /\ \A t \in Tables : party[t] > 0 =>
          state[t] = "open" /\ guests[t] + party[t] <= capacity[t]
    /\ guests' = [t \in Tables |-> guests[t] + party[t]]
    /\ UNCHANGED <<state, capacity>>

Leave(party) ==
    /\ \A t \in Tables : party[t] > 0 =>
          state[t] = "open" /\ party[t] <= guests[t]
    /\ guests' = [t \in Tables |-> guests[t] - party[t]]
    /\ UNCHANGED <<state, capacity>>

Resize(t, c) ==
    /\ state[t] \in {"open", "maintenance"}
    /\ guests[t] = 0
    /\ capacity' = [capacity EXCEPT ![t] = c]
    /\ UNCHANGED <<state, guests>>

Maintain(t) ==
    /\ state[t] = "open"
    /\ guests[t] = 0
    /\ state' = [state EXCEPT ![t] = "maintenance"]
    /\ UNCHANGED <<capacity, guests>>

Resume(t) ==
    /\ state[t] = "maintenance"
    /\ state' = [state EXCEPT ![t] = "open"]
    /\ UNCHANGED <<capacity, guests>>

Close(t) ==
    /\ state[t] = "open"
    /\ guests[t] = 0
    /\ state' = [state EXCEPT ![t] = "closed"]
    /\ UNCHANGED <<capacity, guests>>

LedgerNext ==
    \/ \E party \in Party : Seat(party) \/ Leave(party)
    \/ \E t \in Tables :
          \/ Maintain(t)
          \/ Resume(t)
          \/ Close(t)
          \/ \E c \in Capacities : Open(t, c) \/ Resize(t, c)

LedgerSpec == LedgerInit /\ [][LedgerNext]_ledgerVars
=============================================================================
