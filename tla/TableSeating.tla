----------------------------- MODULE TableSeating -----------------------------
(***************************************************************************)
(* The tables and table sections of one restaurant: the eight use cases    *)
(* that change them, run by concurrent HTTP requests against the database. *)
(*                                                                         *)
(* Every use case reads, decides on what it read, and writes, with an      *)
(* await before each database call, no lock and no version column: between *)
(* two awaits of one request any other request may run.  A request is one  *)
(* element of Requests, used again when it ends; its program counter names *)
(* the database call it waits for.  Whatever it reads it keeps in snap,    *)
(* and the row it finally writes is computed from snap, every column of    *)
(* it, not from the row as it then is.                                     *)
(***************************************************************************)
EXTENDS Integers, FiniteSets

CONSTANTS
    TableIds, SectionIds,   \* primary keys; their number bounds the rows
    Codes,                  \* table codes
    Names,                  \* section names
    Capacities,             \* capacities an administrator may ask for
    MaxParty,               \* bound on the guests a request names for a table
    Requests,               \* requests in flight at the same time
    Offered,                \* the use cases that clients call
    NoTable, NoSection,     \* no such row
    Keep                    \* an optional field the client left out

VARIABLES
    table,       \* the rows of "tables", or NoTable
    section,     \* the rows of "table_sections", or NoSection
    isBlocked,   \* restaurants.is_blocked, written by the admin use cases
    pc,          \* the database call each request waits for
    input,       \* what each request asks for
    snap         \* the table rows each request has read

vars == <<table, section, isBlocked, pc, input, snap>>
rowVars == <<table, section, isBlocked>>

Statuses == {"AVAILABLE", "OCCUPIED", "PARTIAL_OCCUPIED", "MAINTENANCE"}

TableRow == [section : SectionIds, code : Codes, capacity : Capacities,
             occupancy : Nat, status : Statuses, isDeleted : BOOLEAN]

SectionRow == [name : Names, isDeleted : BOOLEAN]

SeatingUseCases == {"assign", "release"}
FormUseCases == {"create", "update"}
SwitchUseCases == {"setStatus", "delete"}
SectionUseCases == {"createSection", "deleteSection"}
UseCases == SeatingUseCases \cup FormUseCases \cup SwitchUseCases \cup SectionUseCases

Steps == {"idle", "load", "section", "code", "save", "insert", "softDelete",
          "name", "insertSection", "findSection", "count", "deleteSection"}

\* counts is the party of assign and release; the other fields are the body
\* and the path of the remaining use cases.
Input == [op : UseCases \cup {"none"}, targets : SUBSET TableIds,
          counts : [TableIds -> 0..MaxParty], section : SectionIds \cup {Keep},
          code : Codes \cup {Keep}, capacity : Capacities \cup {Keep},
          status : Statuses, name : Names \cup {Keep}]

NoInput == [op |-> "none", targets |-> {}, counts |-> [t \in TableIds |-> 0],
            section |-> Keep, code |-> Keep, capacity |-> Keep,
            status |-> "AVAILABLE", name |-> Keep]

NoRows == [t \in TableIds |-> NoTable]

ASSUME TableSeatingAssumption ==
    /\ IsFiniteSet(TableIds)
    /\ Capacities \subseteq Nat \ {0}
    /\ MaxParty \in Nat
    /\ Offered \subseteq UseCases
    /\ NoTable \notin TableRow
    /\ NoSection \notin SectionRow
    /\ Keep \notin SectionIds \cup Codes \cup Capacities \cup Names

\* Slip: the isDeleted filter of the repository dropped.
LiveOrDeleted(t) == table[t] # NoTable

Live(t) == table[t] # NoTable /\ ~table[t].isDeleted

LiveSection(s) == section[s] # NoSection /\ ~section[s].isDeleted

-----------------------------------------------------------------------------
(* The methods of the Table entity: when each accepts, and the row after.  *)

\* Table.create
NewTable(in) ==
    [section |-> in.section, code |-> in.code, capacity |-> in.capacity,
     occupancy |-> 0, status |-> "AVAILABLE", isDeleted |-> FALSE]

\* Slip: the status is not looked at.
CanAssignAtAnyStatus(row, n) == row.occupancy + n <= row.capacity

CanAssignGuests(row, n) ==
    /\ row.status \in {"AVAILABLE", "PARTIAL_OCCUPIED"}
    /\ row.occupancy + n <= row.capacity

\* Slip: a full table still reported as partly occupied.
AssignGuestsNeverFull(row, n) ==
    [row EXCEPT !.occupancy = row.occupancy + n, !.status = "PARTIAL_OCCUPIED"]

AssignGuests(row, n) ==
    [row EXCEPT !.occupancy = row.occupancy + n,
                !.status = IF row.occupancy + n = row.capacity
                           THEN "OCCUPIED" ELSE "PARTIAL_OCCUPIED"]

CanReleaseGuest(row, n) ==
    /\ row.status \in {"PARTIAL_OCCUPIED", "OCCUPIED"}
    /\ n <= row.occupancy

\* Slip: a table offered as available while guests stay.
ReleaseGuestAlwaysFree(row, n) ==
    [row EXCEPT !.occupancy = row.occupancy - n, !.status = "AVAILABLE"]

ReleaseGuest(row, n) ==
    [row EXCEPT !.occupancy = row.occupancy - n,
                !.status = IF row.occupancy = n
                           THEN "AVAILABLE" ELSE "PARTIAL_OCCUPIED"]

\* transitionTo: the status it already has, or AVAILABLE <-> MAINTENANCE
CanTransitionTo(row, status) ==
    \/ row.status = status
    \/ /\ {row.status, status} = {"AVAILABLE", "MAINTENANCE"}
       /\ row.occupancy = 0

TransitionTo(row, status) == [row EXCEPT !.status = status]

IsAvailable(row) == row.occupancy = 0 /\ row.status = "AVAILABLE"

\* Slip: the capacity of an occupied table free to change.
CanAlwaysUpdate(row, in) == TRUE

CanUpdate(row, in) ==
    in.capacity # Keep /\ row.occupancy > 0 => in.capacity = row.capacity

Given(new, old) == IF new = Keep THEN old ELSE new

Update(row, in) ==
    [row EXCEPT !.section = Given(in.section, row.section),
                !.code = Given(in.code, row.code),
                !.capacity = Given(in.capacity, row.capacity)]

\* What the entity method called by each use case makes of a row it accepts.
Accepts(in, t, row) ==
    CASE in.op = "assign"    -> CanAssignGuests(row, in.counts[t])
      [] in.op = "release"   -> CanReleaseGuest(row, in.counts[t])
      [] in.op = "update"    -> CanUpdate(row, in)
      [] in.op = "setStatus" -> CanTransitionTo(row, in.status)
      [] in.op = "delete"    -> IsAvailable(row)
      [] OTHER               -> FALSE

Image(in, t, row) ==
    CASE in.op = "assign"    -> AssignGuests(row, in.counts[t])
      [] in.op = "release"   -> ReleaseGuest(row, in.counts[t])
      [] in.op = "update"    -> Update(row, in)
      [] in.op = "setStatus" -> TransitionTo(row, in.status)
      [] OTHER               -> row

-----------------------------------------------------------------------------
(* The constraints of the database, tested against the rows a write would  *)
(* leave behind: a write that breaks one fails as a whole.                 *)

\* tables_capacity_positive, tables_occupancy_nonnegative,
\* tables_occupancy_within_capacity
RowChecks(row) == row.capacity > 0 /\ row.occupancy \in 0..row.capacity

\* tables_restaurant_table_code_active_key
CodesUniqueIn(rows) ==
    \A t, u \in TableIds :
        /\ rows[t] # NoTable /\ rows[u] # NoTable
        /\ ~rows[t].isDeleted /\ ~rows[u].isDeleted
        /\ rows[t].code = rows[u].code
        => t = u

\* table_sections_restaurant_section_name_active_key
NamesUniqueIn(rows) ==
    \A s, u \in SectionIds :
        /\ rows[s] # NoSection /\ rows[u] # NoSection
        /\ ~rows[s].isDeleted /\ ~rows[u].isDeleted
        /\ rows[s].name = rows[u].name
        => s = u

-----------------------------------------------------------------------------
Goto(r, step) == pc' = [pc EXCEPT ![r] = step]

\* The request ends, with an answer or with an error: which one, the client
\* knows, and the restaurant's rows do not.
Finish(r) ==
    /\ Goto(r, "idle")
    /\ input' = [input EXCEPT ![r] = NoInput]
    /\ snap' = [snap EXCEPT ![r] = NoRows]

Fail(r) == Finish(r) /\ UNCHANGED rowVars

\* A request arrives and the restaurant it names is read.  Every use case
\* refuses a blocked restaurant here, except the creation of a table.
Receive(r, in, step) ==
    /\ pc[r] = "idle"
    /\ in.op \in Offered
    /\ in.op # "create" => ~isBlocked
    /\ Goto(r, step)
    /\ input' = [input EXCEPT ![r] = in]
    /\ UNCHANGED <<rowVars, snap>>

\* POST /internal/.../tables/assign and /release: a party per table
ReceiveSeating(r) ==
    \E op \in {"assign", "release"}, counts \in [TableIds -> 0..MaxParty] :
        LET named == {t \in TableIds : counts[t] > 0}
        IN  /\ named # {}
            /\ Receive(r, [NoInput EXCEPT !.op = op, !.targets = named,
                                          !.counts = counts], "load")

ReceiveCreateTable(r) ==
    \E s \in SectionIds, c \in Codes, k \in Capacities :
        Receive(r, [NoInput EXCEPT !.op = "create", !.section = s, !.code = c,
                                   !.capacity = k], "section")

\* Every field is optional; a request that changes only the shape keeps all.
ReceiveUpdateTable(r) ==
    \E t \in TableIds, s \in SectionIds \cup {Keep}, c \in Codes \cup {Keep},
       k \in Capacities \cup {Keep} :
        Receive(r, [NoInput EXCEPT !.op = "update", !.targets = {t},
                                   !.section = s, !.code = c, !.capacity = k],
                "load")

ReceiveUpdateTableStatus(r) ==
    \E t \in TableIds, st \in {"AVAILABLE", "MAINTENANCE"} :
        Receive(r, [NoInput EXCEPT !.op = "setStatus", !.targets = {t},
                                   !.status = st], "load")

ReceiveDeleteTable(r) ==
    \E t \in TableIds :
        Receive(r, [NoInput EXCEPT !.op = "delete", !.targets = {t}], "load")

ReceiveCreateSection(r) ==
    \E n \in Names :
        Receive(r, [NoInput EXCEPT !.op = "createSection", !.name = n], "name")

ReceiveDeleteSection(r) ==
    \E s \in SectionIds :
        Receive(r, [NoInput EXCEPT !.op = "deleteSection", !.section = s],
                "findSection")

\* findByIds / findById: all the rows at once, deleted ones left out.  Every
\* use case but update applies the entity method before its next await.
LoadTables(r) ==
    LET in == input[r]
        found == \A t \in in.targets : Live(t)
        accepted == \A t \in in.targets : Accepts(in, t, table[t])
        next == CASE in.op = "update" -> "section"
                  [] in.op = "delete" -> "softDelete"
                  [] OTHER            -> "save"
    IN  /\ pc[r] = "load"
        /\ IF found /\ (in.op = "update" \/ accepted)
           THEN /\ Goto(r, next)
                /\ snap' = [snap EXCEPT ![r] =
                      [t \in TableIds |->
                          IF t \in in.targets THEN table[t] ELSE NoTable]]
                /\ UNCHANGED <<rowVars, input>>
           ELSE Fail(r)

\* The repository's inherited findById: it finds a deleted section as well.
CheckSection(r) ==
    LET s == input[r].section
    IN  /\ pc[r] = "section"
        /\ IF s = Keep \/ (s \in SectionIds /\ section[s] # NoSection)
           THEN Goto(r, "code") /\ UNCHANGED <<rowVars, input, snap>>
           ELSE Fail(r)

\* The code must not belong to another live table.  An update then applies
\* Table.update, a creation Table.create.
CheckCode(r) ==
    LET in == input[r]
        taken == \E t \in TableIds \ in.targets :
                    Live(t) /\ table[t].code = in.code
        changed == \A t \in in.targets : snap[r][t].code # in.code
        accepted == \A t \in in.targets : Accepts(in, t, snap[r][t])
    IN  /\ pc[r] = "code"
        /\ IF accepted /\ ~(in.code # Keep /\ changed /\ taken)
           THEN /\ Goto(r, IF in.op = "create" THEN "insert" ELSE "save")
                /\ UNCHANGED <<rowVars, input, snap>>
           ELSE Fail(r)

\* Slip: a party of several tables written at one of them only.
WrittenFirst(r) ==
    LET first == CHOOSE t \in input[r].targets : TRUE
    IN  [table EXCEPT ![first] = Image(input[r], first, snap[r][first])]

\* The rows a request is about to write, whole, from what it has read.
Written(r) ==
    [t \in TableIds |-> IF t \in input[r].targets
                        THEN Image(input[r], t, snap[r][t]) ELSE table[t]]

\* save and updateMany: one statement or one transaction, all rows or none.
Save(r) ==
    LET checked == \A t \in input[r].targets : RowChecks(Written(r)[t])
    IN  /\ pc[r] = "save"
        /\ IF checked /\ CodesUniqueIn(Written(r))
           THEN /\ table' = Written(r)
                /\ Finish(r)
                /\ UNCHANGED <<section, isBlocked>>
           ELSE Fail(r)

InsertTable(r) ==
    /\ pc[r] = "insert"
    /\ \E t \in TableIds :
          LET after == [table EXCEPT ![t] = NewTable(input[r])]
          IN  /\ table[t] = NoTable
              /\ IF RowChecks(after[t]) /\ CodesUniqueIn(after)
                 THEN /\ table' = after
                      /\ Finish(r)
                      /\ UNCHANGED <<section, isBlocked>>
                 ELSE Fail(r)

\* softDelete: one column of a row that must not be deleted yet; whether the
\* table is still empty is not asked again.
SoftDeleteTable(r) ==
    /\ pc[r] = "softDelete"
    /\ \E t \in input[r].targets :
          IF Live(t)
          THEN /\ table' = [table EXCEPT ![t].isDeleted = TRUE]
               /\ Finish(r)
               /\ UNCHANGED <<section, isBlocked>>
          ELSE Fail(r)

CheckSectionName(r) ==
    /\ pc[r] = "name"
    /\ IF \E s \in SectionIds :
             LiveSection(s) /\ section[s].name = input[r].name
       THEN Fail(r)
       ELSE Goto(r, "insertSection") /\ UNCHANGED <<rowVars, input, snap>>

InsertSection(r) ==
    /\ pc[r] = "insertSection"
    /\ \E s \in SectionIds :
          LET after == [section EXCEPT ![s] = [name |-> input[r].name,
                                               isDeleted |-> FALSE]]
          IN  /\ section[s] = NoSection
              /\ IF NamesUniqueIn(after)
                 THEN /\ section' = after
                      /\ Finish(r)
                      /\ UNCHANGED <<table, isBlocked>>
                 ELSE Fail(r)

\* findTableSectionById: here a deleted section is not found.
FindSection(r) ==
    /\ pc[r] = "findSection"
    /\ IF LiveSection(input[r].section)
       THEN Goto(r, "count") /\ UNCHANGED <<rowVars, input, snap>>
       ELSE Fail(r)

\* countActiveBySectionId
CountTables(r) ==
    /\ pc[r] = "count"
    /\ IF \E t \in TableIds : Live(t) /\ table[t].section = input[r].section
       THEN Fail(r)
       ELSE Goto(r, "deleteSection") /\ UNCHANGED <<rowVars, input, snap>>

SoftDeleteSection(r) ==
    LET s == input[r].section
    IN  /\ pc[r] = "deleteSection"
        /\ IF LiveSection(s)
           THEN /\ section' = [section EXCEPT ![s].isDeleted = TRUE]
                /\ Finish(r)
                /\ UNCHANGED <<table, isBlocked>>
           ELSE Fail(r)

\* A database call rejects (connection, timeout, victim of a row-lock
\* deadlock) or the process stops: a request that waits is gone, and a
\* transaction that did not commit leaves nothing.
Abort(r) == pc[r] # "idle" /\ Fail(r)

\* blockRestaurant and unblockRestaurant
SetBlocked ==
    /\ isBlocked' = ~isBlocked
    /\ UNCHANGED <<table, section, pc, input, snap>>

-----------------------------------------------------------------------------
\* A restaurant with any of its sections and of its tables already created.
Init ==
    /\ section \in [SectionIds -> [name : Names, isDeleted : {FALSE}]
                                  \cup {NoSection}]
    /\ NamesUniqueIn(section)
    /\ table \in [TableIds -> [section : SectionIds, code : Codes,
                               capacity : Capacities, occupancy : {0},
                               status : {"AVAILABLE"}, isDeleted : {FALSE}]
                              \cup {NoTable}]
    /\ \A t \in TableIds : Live(t) => section[table[t].section] # NoSection
    /\ CodesUniqueIn(table)
    /\ isBlocked = FALSE
    /\ pc = [r \in Requests |-> "idle"]
    /\ input = [r \in Requests |-> NoInput]
    /\ snap = [r \in Requests |-> NoRows]

RequestStep(r) ==
    \/ ReceiveSeating(r)
    \/ ReceiveCreateTable(r)
    \/ ReceiveUpdateTable(r)
    \/ ReceiveUpdateTableStatus(r)
    \/ ReceiveDeleteTable(r)
    \/ ReceiveCreateSection(r)
    \/ ReceiveDeleteSection(r)
    \/ LoadTables(r)
    \/ CheckSection(r)
    \/ CheckCode(r)
    \/ Save(r)
    \/ InsertTable(r)
    \/ SoftDeleteTable(r)
    \/ CheckSectionName(r)
    \/ InsertSection(r)
    \/ FindSection(r)
    \/ CountTables(r)
    \/ SoftDeleteSection(r)
    \/ Abort(r)

Next == SetBlocked \/ \E r \in Requests : RequestStep(r)

Spec == Init /\ [][Next]_vars

-----------------------------------------------------------------------------
TypeOK ==
    /\ table \in [TableIds -> TableRow \cup {NoTable}]
    /\ section \in [SectionIds -> SectionRow \cup {NoSection}]
    /\ isBlocked \in BOOLEAN
    /\ pc \in [Requests -> Steps]
    /\ input \in [Requests -> Input]
    /\ snap \in [Requests -> [TableIds -> TableRow \cup {NoTable}]]

ConsistentRow(row) ==
    /\ row.occupancy <= row.capacity
    /\ row.status = "OCCUPIED" <=> row.occupancy = row.capacity
    /\ row.status = "PARTIAL_OCCUPIED" <=> row.occupancy \in 1..row.capacity - 1

\* The status of a stored table always agrees with its occupancy and its
\* capacity, although three columns are written by four use cases that do not
\* wait for each other: every write carries all three from one reading.
StatusMatchesOccupancy ==
    \A t \in TableIds : table[t] # NoTable => ConsistentRow(table[t])

\* The CHECK constraints of "tables" never reject a write (the service has no
\* error for them: it would answer 500), however old the reading behind it.
ChecksNeverReject ==
    \A r \in Requests : pc[r] = "save" =>
        \A t \in input[r].targets : RowChecks(Written(r)[t])

\* Two live tables never share a code: the index tests it at each write.
UniqueLiveCodes == CodesUniqueIn(table)

\* The account book that the clients of the component may rely on: what a row
\* says of its entry, and the book the rows make up.
BookState(row) ==
    IF row = NoTable THEN "unused"
    ELSE IF row.isDeleted THEN "closed"
    ELSE IF row.status = "MAINTENANCE" THEN "maintenance" ELSE "open"

BookCapacity(row) == IF row = NoTable THEN 0 ELSE row.capacity

BookGuests(row) == IF row = NoTable THEN 0 ELSE row.occupancy

Ledger == INSTANCE SeatingLedger WITH
    Tables   <- TableIds,
    state    <- [t \in TableIds |-> BookState(table[t])],
    capacity <- [t \in TableIds |-> BookCapacity(table[t])],
    guests   <- [t \in TableIds |-> BookGuests(table[t])]

\* A request whose reading is no longer what the database holds.
Stale(r) == \E t \in input[r].targets : snap[r][t] \notin {NoTable, table[t]}

\* Whatever the interleaving, a step that is not the step of a stale request
\* is an operation of the account book or leaves it alone: parties seated
\* whole, sizes changed and tables closed only when empty, deletion final.
\* Writing from an old reading is the only thing that can go wrong here.
AtomicUnlessStale ==
    [][ \/ \E r \in Requests : pc'[r] # pc[r] /\ Stale(r)
        \/ [Ledger!LedgerNext]_(Ledger!ledgerVars) ]_vars

\* A party is written at all of its tables, with all of its guests, or at none:
\* an assignment or a release that changes a row, from readings that still
\* hold, changes the occupancy of every table by the count named for it.
PartiesSeatedWhole ==
    [][ \A r \in Requests :
          (/\ pc[r] = "save" /\ pc'[r] = "idle" /\ ~Stale(r)
           /\ input[r].op \in {"assign", "release"} /\ table' # table)
          => \A t \in TableIds : table[t] # NoTable =>
                table'[t].occupancy =
                    IF input[r].op = "assign"
                    THEN table[t].occupancy + input[r].counts[t]
                    ELSE table[t].occupancy - input[r].counts[t] ]_vars

\* With one request at a time the use cases implement the account book.
ImplementsLedger == Ledger!LedgerSpec

-----------------------------------------------------------------------------
(* The inductive invariant: what a request may hold at each of its awaits. *)

\* Use cases that may be waiting for each database call.
OpsAt(step) ==
    CASE step = "load"       -> {"assign", "release", "update", "setStatus", "delete"}
      [] step \in {"section", "code"} -> {"create", "update"}
      [] step = "save"       -> {"assign", "release", "update", "setStatus"}
      [] step = "insert"     -> {"create"}
      [] step = "softDelete" -> {"delete"}
      [] step \in {"name", "insertSection"} -> {"createSection"}
      [] step \in {"findSection", "count", "deleteSection"} -> {"deleteSection"}
      [] OTHER               -> {"none"}

WellFormed(in) ==
    /\ in.op \in {"assign", "release"} =>
          in.targets = {t \in TableIds : in.counts[t] > 0}
    /\ in.op \in {"update", "setStatus", "delete"} =>
          \E t \in TableIds : in.targets = {t}
    /\ in.op = "create" => /\ in.targets = {}
                           /\ in.section \in SectionIds
                           /\ in.code \in Codes
                           /\ in.capacity \in Capacities
    /\ in.op = "setStatus" => in.status \in {"AVAILABLE", "MAINTENANCE"}
    /\ in.op = "createSection" => in.name \in Names
    /\ in.op = "deleteSection" => in.section \in SectionIds

\* What a request read was a live, consistent row; past the load it holds a
\* reading of each of its tables; at the write its entity method accepted it.
RequestInv(r) ==
    /\ input[r].op \in OpsAt(pc[r])
    /\ WellFormed(input[r])
    /\ \A t \in TableIds : snap[r][t] # NoTable =>
          ConsistentRow(snap[r][t]) /\ ~snap[r][t].isDeleted
    /\ pc[r] \in {"section", "code", "save", "softDelete"} =>
          \A t \in input[r].targets : snap[r][t] # NoTable
    /\ pc[r] \in {"save", "softDelete"} =>
          \A t \in input[r].targets : Accepts(input[r], t, snap[r][t])

SeatingInv ==
    /\ TypeOK
    /\ StatusMatchesOccupancy
    /\ UniqueLiveCodes
    /\ \A r \in Requests : RequestInv(r)

===============================================================================
