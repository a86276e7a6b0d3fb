---------------------------- MODULE SeatingReaders ----------------------------
(***************************************************************************)
(* What the service tells about the tables of a restaurant: the numbers on *)
(* the owner's page, the tables by section on the staff's page, one table, *)
(* and whether a party finds a place.  Each answer is one query, so it is  *)
(* an operator on the rows.                                                *)
(***************************************************************************)
EXTENDS TableSeating, Functions

StatusIs(statuses) == {t \in TableIds : Live(t) /\ table[t].status \in statuses}

\* getTableStats: live tables grouped by status
TableStats ==
    [totalTables |-> Cardinality(StatusIs(Statuses)),
     occupied    |-> Cardinality(StatusIs({"OCCUPIED", "PARTIAL_OCCUPIED"})),
     available   |-> Cardinality(StatusIs({"AVAILABLE"})),
     maintenance |-> Cardinality(StatusIs({"MAINTENANCE"}))]

\* The section is joined to a live table whether it is deleted or not.
SectionName(t) == section[table[t].section].name

\* GET .../tables/:tableId
Details(t) == IF Live(t) THEN {[table |-> table[t], sectionName |-> SectionName(t)]}
                         ELSE {}

\* findAllGroupedBySection: by name, so that a deleted section and a live one
\* that took its name make one group.
TablesBySection ==
    LET live == StatusIs(Statuses)
    IN  [n \in {SectionName(t) : t \in live} |-> {t \in live : SectionName(t) = n}]

\* GET .../tables of a member of the staff: every table, by section
StaffPage ==
    [n \in DOMAIN TablesBySection |-> UNION {Details(t) : t \in TablesBySection[n]}]

\* getAvailability; is_active is true in every row that the service writes.
AvailableTables == StatusIs({"AVAILABLE"})

Places == SumFunction([t \in AvailableTables |-> table[t].capacity])

\* GET .../tables/availability
Availability(partySize) ==
    [isTableAvailable |-> partySize <= Places,
     availableCount   |-> Cardinality(AvailableTables)]

-----------------------------------------------------------------------------
\* The places that counts asks for.
Guests(counts) == SumFunction(counts)

\* A party that is told that there is place is seated if it comes at once: its
\* guests can be spread over tables that all take their share.
PlacesAreFree ==
    \A n \in 1..MaxParty : Availability(n).isTableAvailable =>
        \E counts \in [TableIds -> 0..MaxParty] :
            /\ Guests(counts) = n
            /\ \A t \in TableIds : counts[t] > 0 =>
                  Live(t) /\ CanAssignGuests(table[t], counts[t])

\* The owner's page shows as occupied the tables with guests, as available or
\* under maintenance those without, and no table of the restaurant is missing
\* there or on the staff's page, whose entries are told apart by their codes.
PagesAreTrue ==
    /\ TableStats.occupied =
          Cardinality({t \in TableIds : Live(t) /\ table[t].occupancy > 0})
    /\ TableStats.available + TableStats.maintenance =
          Cardinality({t \in TableIds : Live(t) /\ table[t].occupancy = 0})
    /\ TableStats.totalTables =
          SumFunction([n \in DOMAIN StaffPage |-> Cardinality(StaffPage[n])])

\* The status that other actors wrote is all the readers look at.
AnswersAreTrue == PlacesAreFree /\ PagesAreTrue
===============================================================================
