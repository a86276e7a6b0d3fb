-------------------------- MODULE TableSeatingProofs --------------------------
(***************************************************************************)
(* Theorems about TableSeating for every restaurant, every set of          *)
(* concurrent requests and every capacity.                                 *)
(***************************************************************************)
EXTENDS SeatingReaders, FiniteSetTheorems, TLAPS

-----------------------------------------------------------------------------
(* The methods of the Table entity keep a row consistent.                  *)

\* What a typed row of "tables" holds, column by column.
LEMMA TableRowFields ==
    ASSUME NEW row \in TableRow
    PROVE  /\ row.occupancy \in Nat
           /\ row.capacity \in Nat \ {0}
           /\ row.isDeleted \in BOOLEAN
BY TableSeatingAssumption DEF TableRow

\* Table.assignGuests, when it accepts, returns a consistent row.
LEMMA AssignGuestsConsistent ==
    ASSUME NEW row \in TableRow, NEW n \in Nat, n > 0,
           ConsistentRow(row), CanAssignGuests(row, n)
    PROVE  /\ AssignGuests(row, n) \in TableRow
           /\ ConsistentRow(AssignGuests(row, n))
           /\ AssignGuests(row, n).isDeleted = row.isDeleted
<1>1. row.occupancy + n \in Nat /\ row.occupancy + n <= row.capacity
  BY TableRowFields DEF CanAssignGuests
<1>2. AssignGuests(row, n) \in TableRow
  <2>1. \A o \in Nat, st \in Statuses :
           [row EXCEPT !.occupancy = o, !.status = st] \in TableRow
    BY DEF TableRow
  <2>. QED
    BY <1>1, <2>1 DEF Statuses, AssignGuests
<1>3. /\ AssignGuests(row, n).occupancy = row.occupancy + n
      /\ AssignGuests(row, n).capacity = row.capacity
      /\ AssignGuests(row, n).isDeleted = row.isDeleted
      /\ AssignGuests(row, n).status = IF row.occupancy + n = row.capacity
                                       THEN "OCCUPIED" ELSE "PARTIAL_OCCUPIED"
  BY DEF TableRow, AssignGuests
<1>4. ConsistentRow(AssignGuests(row, n))
  BY <1>1, <1>3, TableRowFields DEF ConsistentRow
<1>. QED
  BY <1>2, <1>3, <1>4

\* Table.releaseGuest, when it accepts, returns a consistent row.
LEMMA ReleaseGuestConsistent ==
    ASSUME NEW row \in TableRow, NEW n \in Nat, n > 0,
           ConsistentRow(row), CanReleaseGuest(row, n)
    PROVE  /\ ReleaseGuest(row, n) \in TableRow
           /\ ConsistentRow(ReleaseGuest(row, n))
           /\ ReleaseGuest(row, n).isDeleted = row.isDeleted
<1>1. row.occupancy - n \in Nat /\ row.occupancy - n < row.capacity
  BY TableRowFields DEF CanReleaseGuest, ConsistentRow
<1>2. ReleaseGuest(row, n) \in TableRow
  <2>1. \A o \in Nat, st \in Statuses :
           [row EXCEPT !.occupancy = o, !.status = st] \in TableRow
    BY DEF TableRow
  <2>. QED
    BY <1>1, <2>1 DEF Statuses, ReleaseGuest
<1>3. /\ ReleaseGuest(row, n).occupancy = row.occupancy - n
      /\ ReleaseGuest(row, n).capacity = row.capacity
      /\ ReleaseGuest(row, n).isDeleted = row.isDeleted
      /\ ReleaseGuest(row, n).status = IF row.occupancy = n
                                       THEN "AVAILABLE" ELSE "PARTIAL_OCCUPIED"
  BY DEF TableRow, ReleaseGuest
<1>4. ConsistentRow(ReleaseGuest(row, n))
  BY <1>1, <1>3, TableRowFields DEF ConsistentRow
<1>. QED
  BY <1>2, <1>3, <1>4

\* Table.transitionTo, when it accepts, returns a consistent row.
LEMMA TransitionToConsistent ==
    ASSUME NEW row \in TableRow, NEW st \in {"AVAILABLE", "MAINTENANCE"},
           ConsistentRow(row), CanTransitionTo(row, st)
    PROVE  /\ TransitionTo(row, st) \in TableRow
           /\ ConsistentRow(TransitionTo(row, st))
           /\ TransitionTo(row, st).isDeleted = row.isDeleted
BY TableSeatingAssumption
   DEF TableRow, Statuses, ConsistentRow, CanTransitionTo, TransitionTo

\* Table.update, when it accepts, returns a consistent row: a capacity changes
\* only under an empty table.
LEMMA UpdateConsistent ==
    ASSUME NEW row \in TableRow, NEW in \in Input,
           ConsistentRow(row), CanUpdate(row, in)
    PROVE  /\ Update(row, in) \in TableRow
           /\ ConsistentRow(Update(row, in))
           /\ Update(row, in).isDeleted = row.isDeleted
<1>1. /\ Given(in.section, row.section) \in SectionIds
      /\ Given(in.code, row.code) \in Codes
      /\ Given(in.capacity, row.capacity) \in Capacities
  BY DEF TableRow, Input, Given
<1>2. row.occupancy > 0 => Given(in.capacity, row.capacity) = row.capacity
  BY DEF CanUpdate, Given
<1>3. Update(row, in) \in TableRow
  <2>1. \A s \in SectionIds, c \in Codes, k \in Capacities :
           [row EXCEPT !.section = s, !.code = c, !.capacity = k] \in TableRow
    BY DEF TableRow
  <2>. QED
    BY <1>1, <2>1 DEF Update
<1>4. /\ Update(row, in).occupancy = row.occupancy
      /\ Update(row, in).capacity = Given(in.capacity, row.capacity)
      /\ Update(row, in).status = row.status
      /\ Update(row, in).isDeleted = row.isDeleted
  BY DEF TableRow, Update
<1>5. ConsistentRow(Update(row, in))
  BY <1>1, <1>2, <1>3, <1>4, TableRowFields, TableSeatingAssumption DEF ConsistentRow
<1>. QED
  BY <1>3, <1>4, <1>5

\* Whatever use case is about to save, the row it saves is a consistent one
\* and carries the deletion flag it was read with.
LEMMA ImageConsistent ==
    ASSUME NEW in \in Input, WellFormed(in), in.op \in OpsAt("save"),
           NEW t \in in.targets, NEW row \in TableRow,
           ConsistentRow(row), Accepts(in, t, row)
    PROVE  /\ Image(in, t, row) \in TableRow
           /\ ConsistentRow(Image(in, t, row))
           /\ Image(in, t, row).isDeleted = row.isDeleted
<1>1. t \in TableIds /\ in.counts[t] \in Nat
  BY TableSeatingAssumption DEF Input
<1>2. in.op \in {"assign", "release", "update", "setStatus"}
  BY DEF OpsAt
<1>3. CASE in.op = "assign"
  <2>1. in.counts[t] > 0
    BY <1>3 DEF WellFormed
  <2>2. CanAssignGuests(row, in.counts[t])
    BY <1>3 DEF Accepts
  <2>. QED
    BY <1>1, <1>3, <2>1, <2>2, AssignGuestsConsistent DEF Image
<1>4. CASE in.op = "release"
  <2>1. in.counts[t] > 0
    BY <1>4 DEF WellFormed
  <2>2. CanReleaseGuest(row, in.counts[t])
    BY <1>4 DEF Accepts
  <2>. QED
    BY <1>1, <1>4, <2>1, <2>2, ReleaseGuestConsistent DEF Image
<1>5. CASE in.op = "update"
  <2>1. CanUpdate(row, in)
    BY <1>5 DEF Accepts
  <2>. QED
    BY <1>5, <2>1, UpdateConsistent DEF Image
<1>6. CASE in.op = "setStatus"
  <2>1. CanTransitionTo(row, in.status) /\ in.status \in {"AVAILABLE", "MAINTENANCE"}
    BY <1>6 DEF Accepts, WellFormed
  <2>. QED
    BY <1>6, <2>1, TransitionToConsistent DEF Image
<1>. QED
  BY <1>2, <1>3, <1>4, <1>5, <1>6

-----------------------------------------------------------------------------
(* Parts of the invariant: the rows, and the requests in flight.           *)

RowsInv ==
    /\ table \in [TableIds -> TableRow \cup {NoTable}]
    /\ section \in [SectionIds -> SectionRow \cup {NoSection}]
    /\ isBlocked \in BOOLEAN
    /\ StatusMatchesOccupancy
    /\ UniqueLiveCodes

RequestsInv ==
    /\ pc \in [Requests -> Steps]
    /\ input \in [Requests -> Input]
    /\ snap \in [Requests -> [TableIds -> TableRow \cup {NoTable}]]
    /\ \A r \in Requests : RequestInv(r)

\* The invariant in two parts: the stored rows, and the requests in flight.
LEMMA SplitInv == SeatingInv <=> RowsInv /\ RequestsInv
BY DEF SeatingInv, RowsInv, RequestsInv, TypeOK

\* A step that writes no row keeps the part about the rows.
LEMMA RowsUnchanged == RowsInv /\ UNCHANGED rowVars => RowsInv'
BY DEF RowsInv, rowVars, StatusMatchesOccupancy, UniqueLiveCodes, CodesUniqueIn

\* A request that has ended asks for nothing and holds no reading.
LEMMA NoInputWellFormed ==
    /\ NoInput \in Input
    /\ WellFormed(NoInput)
    /\ NoInput.op = "none"
    /\ NoRows \in [TableIds -> TableRow \cup {NoTable}]
BY TableSeatingAssumption
   DEF NoInput, Input, WellFormed, NoRows, UseCases, SeatingUseCases, FormUseCases,
      SwitchUseCases, SectionUseCases, Statuses

\* Only the request that moves changes its part of the state.
LEMMA OneRequestMoves ==
    ASSUME RequestsInv, NEW r \in Requests,
           NEW p \in Steps, NEW in \in Input,
           NEW rows \in [TableIds -> TableRow \cup {NoTable}],
           pc' = [pc EXCEPT ![r] = p],
           input' = [input EXCEPT ![r] = in],
           snap' = [snap EXCEPT ![r] = rows],
           RequestInv(r)'
    PROVE  RequestsInv'
<1>1. /\ pc' \in [Requests -> Steps]
      /\ input' \in [Requests -> Input]
      /\ snap' \in [Requests -> [TableIds -> TableRow \cup {NoTable}]]
  BY DEF RequestsInv
<1>2. ASSUME NEW q \in Requests, q # r
      PROVE  RequestInv(q)'
  <2>1. pc'[q] = pc[q] /\ input'[q] = input[q] /\ snap'[q] = snap[q]
    BY <1>2 DEF RequestsInv
  <2>2. RequestInv(q)
    BY DEF RequestsInv
  <2>. QED
    BY <2>1, <2>2 DEF RequestInv
<1>. QED
  BY <1>1, <1>2 DEF RequestsInv

\* A request that ends keeps the part about the requests.
LEMMA FinishInv ==
    ASSUME RequestsInv, NEW r \in Requests, Finish(r)
    PROVE  RequestsInv'
<1>1. /\ pc' = [pc EXCEPT ![r] = "idle"]
      /\ input' = [input EXCEPT ![r] = NoInput]
      /\ snap' = [snap EXCEPT ![r] = NoRows]
  BY DEF Finish, Goto
<1>2. pc'[r] = "idle" /\ input'[r] = NoInput /\ snap'[r] = NoRows
  BY <1>1 DEF RequestsInv
<1>3. RequestInv(r)'
  BY <1>2, NoInputWellFormed DEF RequestInv, OpsAt, NoRows
<1>. QED
  BY <1>1, <1>3, NoInputWellFormed, OneRequestMoves DEF Steps

\* A request that fails keeps the whole invariant: no row is written.
LEMMA FailInv ==
    ASSUME RowsInv, RequestsInv, NEW r \in Requests, Fail(r)
    PROVE  RowsInv' /\ RequestsInv'
BY FinishInv, RowsUnchanged DEF Fail

\* A request that goes on with the input and the readings it has.
LEMMA GotoInv ==
    ASSUME RowsInv, RequestsInv, NEW r \in Requests, NEW p \in Steps,
           Goto(r, p), UNCHANGED <<rowVars, input, snap>>,
           input[r].op \in OpsAt(p),
           p \in {"section", "code", "save", "softDelete"} =>
              \A t \in input[r].targets : snap[r][t] # NoTable,
           p \in {"save", "softDelete"} =>
              \A t \in input[r].targets : Accepts(input[r], t, snap[r][t])
    PROVE  RowsInv' /\ RequestsInv'
<1>1. /\ pc' = [pc EXCEPT ![r] = p]
      /\ input' = [input EXCEPT ![r] = input[r]]
      /\ snap' = [snap EXCEPT ![r] = snap[r]]
  BY DEF Goto, RequestsInv
<1>2. pc'[r] = p /\ input'[r] = input[r] /\ snap'[r] = snap[r]
  BY <1>1 DEF RequestsInv
<1>3. /\ input[r] \in Input
      /\ snap[r] \in [TableIds -> TableRow \cup {NoTable}]
      /\ RequestInv(r)
  BY DEF RequestsInv
<1>4. RequestInv(r)'
  BY <1>2, <1>3 DEF RequestInv
<1>. QED
  BY <1>1, <1>3, <1>4, OneRequestMoves, RowsUnchanged

\* A request that arrives with a well-formed input keeps the invariant.
LEMMA ReceiveInv ==
    ASSUME RowsInv, RequestsInv, NEW r \in Requests,
           NEW in \in Input, NEW p \in Steps, Receive(r, in, p),
           WellFormed(in), in.op \in OpsAt(p),
           p \notin {"code", "save", "softDelete"},
           p = "section" => in.targets = {}
    PROVE  RowsInv' /\ RequestsInv'
<1>1. /\ pc' = [pc EXCEPT ![r] = p]
      /\ input' = [input EXCEPT ![r] = in]
      /\ snap' = [snap EXCEPT ![r] = snap[r]]
      /\ UNCHANGED rowVars
  BY DEF Receive, Goto, RequestsInv
<1>2. pc'[r] = p /\ input'[r] = in /\ snap'[r] = snap[r]
  BY <1>1 DEF RequestsInv
<1>3. snap[r] \in [TableIds -> TableRow \cup {NoTable}] /\ RequestInv(r)
  BY DEF RequestsInv
<1>4. RequestInv(r)'
  BY <1>2, <1>3 DEF RequestInv
<1>. QED
  BY <1>1, <1>3, <1>4, OneRequestMoves, RowsUnchanged

-----------------------------------------------------------------------------
(* One lemma per action: it preserves both parts of the invariant.         *)

\* The arrival of an assignment or a release keeps the invariant.
LEMMA ReceiveSeatingInv ==
    ASSUME RowsInv, RequestsInv, NEW r \in Requests, ReceiveSeating(r)
    PROVE  RowsInv' /\ RequestsInv'
<1>1. PICK op \in {"assign", "release"}, counts \in [TableIds -> 0..MaxParty] :
         Receive(r, [NoInput EXCEPT !.op = op,
                                    !.targets = {t \in TableIds : counts[t] > 0},
                                    !.counts = counts], "load")
  BY DEF ReceiveSeating
<1>. DEFINE in == [NoInput EXCEPT !.op = op,
                                  !.targets = {t \in TableIds : counts[t] > 0},
                                  !.counts = counts]
<1>2. in \in Input /\ WellFormed(in) /\ in.op \in OpsAt("load")
  BY DEF Input, NoInput, WellFormed, OpsAt, UseCases, SeatingUseCases, FormUseCases,
      SwitchUseCases, SectionUseCases, Statuses
<1>. QED
  BY <1>1, <1>2, ReceiveInv DEF Steps

\* The arrival of the creation of a table keeps the invariant.
LEMMA ReceiveCreateTableInv ==
    ASSUME RowsInv, RequestsInv, NEW r \in Requests, ReceiveCreateTable(r)
    PROVE  RowsInv' /\ RequestsInv'
<1>1. PICK s \in SectionIds, c \in Codes, k \in Capacities :
         Receive(r, [NoInput EXCEPT !.op = "create", !.section = s, !.code = c,
                                    !.capacity = k], "section")
  BY DEF ReceiveCreateTable
<1>. DEFINE in == [NoInput EXCEPT !.op = "create", !.section = s, !.code = c,
                                  !.capacity = k]
<1>2. in \in Input
  BY NoInputWellFormed DEF Input, UseCases, SeatingUseCases, FormUseCases,
      SwitchUseCases, SectionUseCases, Statuses
<1>3. in.op = "create" /\ in.targets = {} /\ in.section = s /\ in.code = c /\ in.capacity = k
  BY DEF NoInput
<1>4. WellFormed(in) /\ in.op \in OpsAt("section")
  BY <1>3 DEF WellFormed, OpsAt
<1>. QED
  BY <1>1, <1>2, <1>3, <1>4, ReceiveInv DEF Steps

\* The arrival of the update of a table keeps the invariant.
LEMMA ReceiveUpdateTableInv ==
    ASSUME RowsInv, RequestsInv, NEW r \in Requests, ReceiveUpdateTable(r)
    PROVE  RowsInv' /\ RequestsInv'
<1>1. PICK t \in TableIds, s \in SectionIds \cup {Keep}, c \in Codes \cup {Keep},
           k \in Capacities \cup {Keep} :
         Receive(r, [NoInput EXCEPT !.op = "update", !.targets = {t},
                                    !.section = s, !.code = c, !.capacity = k],
                 "load")
  BY DEF ReceiveUpdateTable
<1>. DEFINE in == [NoInput EXCEPT !.op = "update", !.targets = {t},
                                  !.section = s, !.code = c, !.capacity = k]
<1>2. in \in Input
  BY NoInputWellFormed DEF Input, UseCases, SeatingUseCases, FormUseCases,
      SwitchUseCases, SectionUseCases, Statuses
<1>3. in.op = "update" /\ in.targets = {t}
  BY DEF NoInput
<1>4. WellFormed(in) /\ in.op \in OpsAt("load")
  BY <1>3 DEF WellFormed, OpsAt
<1>. QED
  BY <1>1, <1>2, <1>3, <1>4, ReceiveInv DEF Steps

\* The arrival of a change of status keeps the invariant.
LEMMA ReceiveUpdateTableStatusInv ==
    ASSUME RowsInv, RequestsInv, NEW r \in Requests, ReceiveUpdateTableStatus(r)
    PROVE  RowsInv' /\ RequestsInv'
<1>1. PICK t \in TableIds, st \in {"AVAILABLE", "MAINTENANCE"} :
         Receive(r, [NoInput EXCEPT !.op = "setStatus", !.targets = {t},
                                    !.status = st], "load")
  BY DEF ReceiveUpdateTableStatus
<1>. DEFINE in == [NoInput EXCEPT !.op = "setStatus", !.targets = {t}, !.status = st]
<1>2. in \in Input
  BY NoInputWellFormed DEF Input, UseCases, SeatingUseCases, FormUseCases,
      SwitchUseCases, SectionUseCases, Statuses
<1>3. in.op = "setStatus" /\ in.targets = {t} /\ in.status = st
  BY DEF NoInput
<1>4. WellFormed(in) /\ in.op \in OpsAt("load")
  BY <1>3 DEF WellFormed, OpsAt
<1>. QED
  BY <1>1, <1>2, <1>3, <1>4, ReceiveInv DEF Steps

\* The arrival of the deletion of a table keeps the invariant.
LEMMA ReceiveDeleteTableInv ==
    ASSUME RowsInv, RequestsInv, NEW r \in Requests, ReceiveDeleteTable(r)
    PROVE  RowsInv' /\ RequestsInv'
<1>1. PICK t \in TableIds :
         Receive(r, [NoInput EXCEPT !.op = "delete", !.targets = {t}], "load")
  BY DEF ReceiveDeleteTable
<1>. DEFINE in == [NoInput EXCEPT !.op = "delete", !.targets = {t}]
<1>2. in \in Input
  BY NoInputWellFormed DEF Input, UseCases, SeatingUseCases, FormUseCases,
      SwitchUseCases, SectionUseCases, Statuses
<1>3. in.op = "delete" /\ in.targets = {t}
  BY DEF NoInput
<1>4. WellFormed(in) /\ in.op \in OpsAt("load")
  BY <1>3 DEF WellFormed, OpsAt
<1>. QED
  BY <1>1, <1>2, <1>3, <1>4, ReceiveInv DEF Steps

\* The arrival of the creation of a section keeps the invariant.
LEMMA ReceiveCreateSectionInv ==
    ASSUME RowsInv, RequestsInv, NEW r \in Requests, ReceiveCreateSection(r)
    PROVE  RowsInv' /\ RequestsInv'
<1>1. PICK n \in Names :
         Receive(r, [NoInput EXCEPT !.op = "createSection", !.name = n], "name")
  BY DEF ReceiveCreateSection
<1>. DEFINE in == [NoInput EXCEPT !.op = "createSection", !.name = n]
<1>2. in \in Input
  BY NoInputWellFormed DEF Input, UseCases, SeatingUseCases, FormUseCases,
      SwitchUseCases, SectionUseCases, Statuses
<1>3. in.op = "createSection" /\ in.name = n
  BY DEF NoInput
<1>4. WellFormed(in) /\ in.op \in OpsAt("name")
  BY <1>3 DEF WellFormed, OpsAt
<1>. QED
  BY <1>1, <1>2, <1>3, <1>4, ReceiveInv DEF Steps

\* The arrival of the deletion of a section keeps the invariant.
LEMMA ReceiveDeleteSectionInv ==
    ASSUME RowsInv, RequestsInv, NEW r \in Requests, ReceiveDeleteSection(r)
    PROVE  RowsInv' /\ RequestsInv'
<1>1. PICK s \in SectionIds :
         Receive(r, [NoInput EXCEPT !.op = "deleteSection", !.section = s], "findSection")
  BY DEF ReceiveDeleteSection
<1>. DEFINE in == [NoInput EXCEPT !.op = "deleteSection", !.section = s]
<1>2. in \in Input
  BY NoInputWellFormed DEF Input, UseCases, SeatingUseCases, FormUseCases,
      SwitchUseCases, SectionUseCases, Statuses
<1>3. in.op = "deleteSection" /\ in.section = s
  BY DEF NoInput
<1>4. WellFormed(in) /\ in.op \in OpsAt("findSection")
  BY <1>3 DEF WellFormed, OpsAt
<1>. QED
  BY <1>1, <1>2, <1>3, <1>4, ReceiveInv DEF Steps

\* The load of tables keeps the invariant: what it reads is live, consistent
\* and, but for an update, accepted by the entity method.
LEMMA LoadTablesInv ==
    ASSUME RowsInv, RequestsInv, NEW r \in Requests, LoadTables(r)
    PROVE  RowsInv' /\ RequestsInv'
<1>. DEFINE in == input[r]
            found == \A t \in in.targets : Live(t)
            accepted == \A t \in in.targets : Accepts(in, t, table[t])
            next == CASE in.op = "update" -> "section"
                      [] in.op = "delete" -> "softDelete"
                      [] OTHER            -> "save"
            rows == [t \in TableIds |-> IF t \in in.targets THEN table[t] ELSE NoTable]
<1>1. CASE Fail(r)
  BY <1>1, FailInv
<1>2. CASE ~Fail(r)
  <2>1. /\ pc[r] = "load"
        /\ found /\ (in.op = "update" \/ accepted)
        /\ pc' = [pc EXCEPT ![r] = next]
        /\ snap' = [snap EXCEPT ![r] = rows]
        /\ UNCHANGED <<rowVars, input>>
    BY <1>2 DEF LoadTables, Goto
  <2>2. /\ in \in Input /\ WellFormed(in)
        /\ in.op \in {"assign", "release", "update", "setStatus", "delete"}
    BY <2>1 DEF RequestsInv, RequestInv, OpsAt
  <2>3. in.targets \subseteq TableIds
    BY <2>2 DEF Input
  <2>4. rows \in [TableIds -> TableRow \cup {NoTable}]
    BY DEF RowsInv
  <2>5. next \in Steps /\ next \in {"section", "softDelete", "save"} /\ in.op \in OpsAt(next)
    BY <2>2 DEF Steps, OpsAt
  <2>6. pc'[r] = next /\ input'[r] = in /\ snap'[r] = rows
    BY <2>1 DEF RequestsInv
  <2>7. \A t \in TableIds : rows[t] # NoTable =>
           t \in in.targets /\ rows[t] = table[t] /\ ConsistentRow(rows[t])
              /\ ~rows[t].isDeleted
    BY <2>1 DEF Live, RowsInv, StatusMatchesOccupancy
  <2>8. \A t \in in.targets : rows[t] = table[t] /\ rows[t] # NoTable
    BY <2>1, <2>3 DEF Live
  <2>9. next \in {"save", "softDelete"} => \A t \in in.targets : Accepts(in, t, rows[t])
    BY <2>1, <2>8
  <2>10. RequestInv(r)'
    BY <2>2, <2>5, <2>6, <2>7, <2>8, <2>9 DEF RequestInv
  <2>11. input' = [input EXCEPT ![r] = in]
    BY <2>1 DEF RequestsInv
  <2>. QED
    BY <2>1, <2>2, <2>4, <2>5, <2>10, <2>11, OneRequestMoves, RowsUnchanged
<1>. QED
  BY <1>1, <1>2

\* The look-up of a section writes nothing.
LEMMA CheckSectionInv ==
    ASSUME RowsInv, RequestsInv, NEW r \in Requests, CheckSection(r)
    PROVE  RowsInv' /\ RequestsInv'
<1>1. CASE Fail(r)
  BY <1>1, FailInv
<1>2. CASE ~Fail(r)
  <2>1. pc[r] = "section" /\ Goto(r, "code") /\ UNCHANGED <<rowVars, input, snap>>
    BY <1>2 DEF CheckSection
  <2>2. RequestInv(r)
    BY DEF RequestsInv
  <2>. QED
    BY <2>1, <2>2, GotoInv DEF RequestInv, OpsAt, Steps
<1>. QED
  BY <1>1, <1>2

\* The look-up of a code, and Table.update after it, keep the invariant.
LEMMA CheckCodeInv ==
    ASSUME RowsInv, RequestsInv, NEW r \in Requests, CheckCode(r)
    PROVE  RowsInv' /\ RequestsInv'
<1>1. CASE Fail(r)
  BY <1>1, FailInv
<1>2. CASE ~Fail(r)
  <2>1. /\ pc[r] = "code"
        /\ \A t \in input[r].targets : Accepts(input[r], t, snap[r][t])
        /\ Goto(r, IF input[r].op = "create" THEN "insert" ELSE "save")
        /\ UNCHANGED <<rowVars, input, snap>>
    BY <1>2 DEF CheckCode
  <2>2. RequestInv(r) /\ input[r].op \in {"create", "update"}
    BY <2>1 DEF RequestsInv, RequestInv, OpsAt
  <2>3. CASE input[r].op = "create"
    BY <2>1, <2>2, <2>3, GotoInv DEF OpsAt, Steps
  <2>4. CASE input[r].op = "update"
    BY <2>1, <2>2, <2>4, GotoInv DEF RequestInv, OpsAt, Steps
  <2>. QED
    BY <2>2, <2>3, <2>4
<1>. QED
  BY <1>1, <1>2

\* The rows a saving request leaves behind are typed, consistent rows.
LEMMA WrittenConsistent ==
    ASSUME RowsInv, RequestsInv, NEW r \in Requests, pc[r] = "save"
    PROVE  /\ Written(r) \in [TableIds -> TableRow \cup {NoTable}]
           /\ \A t \in TableIds :
                 Written(r)[t] # NoTable => ConsistentRow(Written(r)[t])
           /\ \A t \in input[r].targets : Written(r)[t] \in TableRow
<1>1. /\ input[r] \in Input /\ WellFormed(input[r]) /\ input[r].op \in OpsAt("save")
      /\ input[r].targets \subseteq TableIds
  BY DEF RequestsInv, RequestInv, Input
<1>2. ASSUME NEW t \in input[r].targets
      PROVE  /\ Written(r)[t] \in TableRow
             /\ ConsistentRow(Written(r)[t])
  <2>1. /\ snap[r][t] \in TableRow
        /\ ConsistentRow(snap[r][t])
        /\ Accepts(input[r], t, snap[r][t])
    BY <1>1 DEF RequestsInv, RequestInv
  <2>2. Written(r)[t] = Image(input[r], t, snap[r][t])
    BY <1>1 DEF Written
  <2>. QED
    BY <1>1, <2>1, <2>2, ImageConsistent
<1>3. ASSUME NEW t \in TableIds, t \notin input[r].targets
      PROVE  Written(r)[t] = table[t]
  BY <1>3 DEF Written
<1>4. Written(r) \in [TableIds -> TableRow \cup {NoTable}]
  <2>1. \A t \in TableIds : Written(r)[t] \in TableRow \cup {NoTable}
    BY <1>2, <1>3 DEF RowsInv
  <2>2. Written(r) = [t \in TableIds |-> Written(r)[t]]
    BY DEF Written
  <2>. QED
    BY <2>1, <2>2
<1>. QED
  BY <1>2, <1>3, <1>4 DEF RowsInv, StatusMatchesOccupancy

\* save and updateMany keep the invariant, however old the readings they write.
LEMMA SaveInv ==
    ASSUME RowsInv, RequestsInv, NEW r \in Requests, Save(r)
    PROVE  RowsInv' /\ RequestsInv'
<1>1. CASE Fail(r)
  BY <1>1, FailInv
<1>2. CASE ~Fail(r)
  <2>1. /\ pc[r] = "save"
        /\ CodesUniqueIn(Written(r))
        /\ table' = Written(r)
        /\ Finish(r)
        /\ UNCHANGED <<section, isBlocked>>
    BY <1>2 DEF Save
  <2>2. RowsInv'
    BY <2>1, WrittenConsistent
       DEF RowsInv, StatusMatchesOccupancy, UniqueLiveCodes, CodesUniqueIn
  <2>. QED
    BY <2>1, <2>2, FinishInv
<1>. QED
  BY <1>1, <1>2

\* The insertion of a new, empty table keeps the invariant.
LEMMA InsertTableInv ==
    ASSUME RowsInv, RequestsInv, NEW r \in Requests, InsertTable(r)
    PROVE  RowsInv' /\ RequestsInv'
<1>1. CASE Fail(r)
  BY <1>1, FailInv
<1>2. CASE ~Fail(r)
  <2>1. pc[r] = "insert" /\ Finish(r) /\ UNCHANGED <<section, isBlocked>>
    BY <1>2 DEF InsertTable
  <2>2. PICK t \in TableIds :
           /\ table' = [table EXCEPT ![t] = NewTable(input[r])]
           /\ CodesUniqueIn(table')
    BY <1>2 DEF InsertTable
  <2>3. NewTable(input[r]) \in TableRow /\ ConsistentRow(NewTable(input[r]))
    <3>1. /\ input[r].section \in SectionIds
          /\ input[r].code \in Codes
          /\ input[r].capacity \in Capacities
          /\ input[r].capacity \in Nat \ {0}
      BY <2>1, TableSeatingAssumption DEF RequestsInv, RequestInv, OpsAt, WellFormed
    <3>. QED
      BY <3>1 DEF NewTable, TableRow, Statuses, ConsistentRow
  <2>4. RowsInv'
    BY <2>1, <2>2, <2>3
       DEF RowsInv, StatusMatchesOccupancy, UniqueLiveCodes, CodesUniqueIn
  <2>. QED
    BY <2>1, <2>4, FinishInv
<1>. QED
  BY <1>1, <1>2

\* Marking a table deleted keeps the invariant.
LEMMA SoftDeleteTableInv ==
    ASSUME RowsInv, RequestsInv, NEW r \in Requests, SoftDeleteTable(r)
    PROVE  RowsInv' /\ RequestsInv'
<1>1. CASE Fail(r)
  BY <1>1, FailInv
<1>2. CASE ~Fail(r)
  <2>1. pc[r] = "softDelete" /\ Finish(r) /\ UNCHANGED <<section, isBlocked>>
    BY <1>2 DEF SoftDeleteTable
  <2>2. PICK t \in input[r].targets :
           Live(t) /\ table' = [table EXCEPT ![t].isDeleted = TRUE]
    BY <1>2 DEF SoftDeleteTable
  <2>3. t \in TableIds /\ table[t] \in TableRow
    BY <2>2 DEF RequestsInv, Input, Live, RowsInv
  <2>4. table' = [table EXCEPT ![t] = [table[t] EXCEPT !.isDeleted = TRUE]]
    BY <2>2
  <2>5. /\ [table[t] EXCEPT !.isDeleted = TRUE] \in TableRow
        /\ ConsistentRow([table[t] EXCEPT !.isDeleted = TRUE])
    BY <2>3, TableSeatingAssumption
       DEF TableRow, ConsistentRow, RowsInv, StatusMatchesOccupancy
  <2>6. \A u \in TableIds : u # t => table'[u] = table[u]
    BY <2>4 DEF RowsInv
  <2>7. table'[t].isDeleted
    BY <2>3, <2>4 DEF TableRow, RowsInv
  <2>8. UniqueLiveCodes'
    BY <2>6, <2>7 DEF RowsInv, UniqueLiveCodes, CodesUniqueIn
  <2>9. RowsInv'
    BY <2>1, <2>4, <2>5, <2>8 DEF RowsInv, StatusMatchesOccupancy
  <2>. QED
    BY <2>1, <2>9, FinishInv
<1>. QED
  BY <1>1, <1>2

\* The tables are as they were, the sections still typed.
LEMMA SectionsChange ==
    ASSUME RowsInv, UNCHANGED <<table, isBlocked>>,
           section' \in [SectionIds -> SectionRow \cup {NoSection}]
    PROVE  RowsInv'
BY DEF RowsInv, StatusMatchesOccupancy, UniqueLiveCodes, CodesUniqueIn

\* The database calls of the two section use cases keep the invariant.
LEMMA SectionStepsInv ==
    ASSUME RowsInv, RequestsInv, NEW r \in Requests,
           \/ CheckSectionName(r) \/ InsertSection(r) \/ FindSection(r)
           \/ CountTables(r) \/ SoftDeleteSection(r)
    PROVE  RowsInv' /\ RequestsInv'
<1>1. RequestInv(r) /\ input[r] \in Input
  BY DEF RequestsInv
<1>2. CASE Fail(r)
  BY <1>2, FailInv
<1>3. CASE CheckSectionName(r) /\ ~Fail(r)
  BY <1>1, <1>3, GotoInv DEF CheckSectionName, RequestInv, OpsAt, Steps
<1>4. CASE FindSection(r) /\ ~Fail(r)
  BY <1>1, <1>4, GotoInv DEF FindSection, RequestInv, OpsAt, Steps
<1>5. CASE CountTables(r) /\ ~Fail(r)
  BY <1>1, <1>5, GotoInv DEF CountTables, RequestInv, OpsAt, Steps
<1>6. CASE InsertSection(r) /\ ~Fail(r)
  <2>1. PICK s \in SectionIds :
           section' = [section EXCEPT ![s] = [name |-> input[r].name,
                                              isDeleted |-> FALSE]]
    BY <1>6 DEF InsertSection
  <2>2. input[r].name \in Names
    BY <1>1, <1>6 DEF InsertSection, RequestInv, OpsAt, WellFormed
  <2>3. section' \in [SectionIds -> SectionRow \cup {NoSection}]
    BY <2>1, <2>2 DEF RowsInv, SectionRow
  <2>. QED
    BY <1>6, <2>3, SectionsChange, FinishInv DEF InsertSection
<1>7. CASE SoftDeleteSection(r) /\ ~Fail(r)
  <2>. DEFINE s == input[r].section
  <2>1. /\ LiveSection(s) /\ Finish(r) /\ UNCHANGED <<table, isBlocked>>
        /\ section' = [section EXCEPT ![s] = [section[s] EXCEPT !.isDeleted = TRUE]]
    BY <1>7 DEF SoftDeleteSection
  <2>2. s \in SectionIds
    BY <1>1, <1>7 DEF SoftDeleteSection, RequestInv, OpsAt, WellFormed
  <2>3. section[s] \in SectionRow
    BY <2>1, <2>2 DEF RowsInv, LiveSection
  <2>4. section' \in [SectionIds -> SectionRow \cup {NoSection}]
    BY <2>1, <2>2, <2>3 DEF RowsInv, SectionRow
  <2>. QED
    BY <2>1, <2>4, SectionsChange, FinishInv
<1>. QED
  BY <1>2, <1>3, <1>4, <1>5, <1>6, <1>7

\* Blocking or unblocking the restaurant keeps the invariant.
LEMMA SetBlockedInv ==
    ASSUME RowsInv, RequestsInv, SetBlocked
    PROVE  RowsInv' /\ RequestsInv'
BY DEF SetBlocked, RowsInv, RequestsInv, StatusMatchesOccupancy,
       UniqueLiveCodes, CodesUniqueIn, RequestInv

-----------------------------------------------------------------------------
(* The invariant.                                                          *)

\* The invariant holds of a restaurant set up with empty, available tables.
LEMMA InitInv == Init => SeatingInv
<1>. SUFFICES ASSUME Init PROVE SeatingInv
  OBVIOUS
<1>1. RowsInv
  <2>1. \A t \in TableIds : table[t] # NoTable =>
           table[t] \in TableRow /\ ConsistentRow(table[t])
    <3>. TAKE t \in TableIds
    <3>. HAVE table[t] # NoTable
    <3>1. table[t] \in [section : SectionIds, code : Codes, capacity : Capacities,
                        occupancy : {0}, status : {"AVAILABLE"}, isDeleted : {FALSE}]
      BY DEF Init
    <3>2. table[t] \in TableRow
      <4>1. \A s \in SectionIds, c \in Codes, k \in Capacities :
               [section |-> s, code |-> c, capacity |-> k, occupancy |-> 0,
                status |-> "AVAILABLE", isDeleted |-> FALSE] \in TableRow
        BY DEF TableRow, Statuses
      <4>2. table[t] = [section |-> table[t].section, code |-> table[t].code,
                        capacity |-> table[t].capacity, occupancy |-> 0,
                        status |-> "AVAILABLE", isDeleted |-> FALSE]
        BY <3>1
      <4>3. /\ table[t].section \in SectionIds
            /\ table[t].code \in Codes
            /\ table[t].capacity \in Capacities
        BY <3>1
      <4>4. [section |-> table[t].section, code |-> table[t].code,
             capacity |-> table[t].capacity, occupancy |-> 0,
             status |-> "AVAILABLE", isDeleted |-> FALSE] \in TableRow
        BY <4>1, <4>3
      <4>. QED
        BY <4>2, <4>4
    <3>3. table[t].occupancy = 0 /\ table[t].status = "AVAILABLE"
      BY <3>1
    <3>. QED
      BY <3>2, <3>3, TableRowFields DEF ConsistentRow
  <2>2. table \in [TableIds -> TableRow \cup {NoTable}]
    BY <2>1 DEF Init
  <2>3. section \in [SectionIds -> SectionRow \cup {NoSection}]
    BY DEF Init, SectionRow
  <2>. QED
    BY <2>1, <2>2, <2>3 DEF Init, RowsInv, StatusMatchesOccupancy, UniqueLiveCodes
<1>2. RequestsInv
  BY NoInputWellFormed DEF Init, RequestsInv, RequestInv, Steps, OpsAt, NoRows
<1>. QED
  BY <1>1, <1>2, SplitInv

\* Every step keeps the invariant.
LEMMA NextInv == SeatingInv /\ [Next]_vars => SeatingInv'
<1>. SUFFICES ASSUME RowsInv, RequestsInv, [Next]_vars
              PROVE  RowsInv' /\ RequestsInv'
  BY SplitInv, PTL
<1>1. CASE UNCHANGED vars
  BY <1>1 DEF vars, RowsInv, RequestsInv, StatusMatchesOccupancy,
              UniqueLiveCodes, CodesUniqueIn, RequestInv
<1>2. CASE SetBlocked
  BY <1>2, SetBlockedInv
<1>3. ASSUME NEW r \in Requests, RequestStep(r)
      PROVE  RowsInv' /\ RequestsInv'
  BY <1>3, ReceiveSeatingInv, ReceiveCreateTableInv, ReceiveUpdateTableInv,
     ReceiveUpdateTableStatusInv, ReceiveDeleteTableInv, ReceiveCreateSectionInv,
     ReceiveDeleteSectionInv, LoadTablesInv, CheckSectionInv, CheckCodeInv,
     SaveInv, InsertTableInv, SoftDeleteTableInv, SectionStepsInv, FailInv
     DEF RequestStep, Abort
<1>. QED
  BY <1>1, <1>2, <1>3 DEF Next

\* SeatingInv is an invariant of the component.
THEOREM SeatingInvariant == Spec => []SeatingInv
BY InitInv, NextInv, PTL DEF Spec

\* The stored and pending values always have their types.
THEOREM TypeCorrect == Spec => []TypeOK
<1>1. SeatingInv => TypeOK
  BY DEF SeatingInv
<1>. QED
  BY <1>1, SeatingInvariant, PTL

\* A stored status never contradicts the occupancy and capacity stored with
\* it, for any number of concurrent requests.
THEOREM StatusAlwaysMatches == Spec => []StatusMatchesOccupancy
<1>1. SeatingInv => StatusMatchesOccupancy
  BY DEF SeatingInv
<1>. QED
  BY <1>1, SeatingInvariant, PTL

\* The CHECK constraints are never the reason why a write fails.
THEOREM ChecksNeverFire == Spec => []ChecksNeverReject
<1>1. SeatingInv => ChecksNeverReject
  <2>. SUFFICES ASSUME RowsInv, RequestsInv, NEW r \in Requests, pc[r] = "save",
                       NEW t \in input[r].targets
                PROVE  RowChecks(Written(r)[t])
    BY SplitInv DEF ChecksNeverReject
  <2>1. t \in TableIds
    BY DEF RequestsInv, Input
  <2>2. Written(r)[t] \in TableRow /\ ConsistentRow(Written(r)[t])
    BY <2>1, WrittenConsistent, TableSeatingAssumption
  <2>. QED
    BY <2>2, TableRowFields DEF RowChecks, ConsistentRow
<1>. QED
  BY <1>1, SeatingInvariant, PTL

-----------------------------------------------------------------------------
(* The tables component against its account book: every step that is not   *)
(* the step of a stale request is an operation of the book, and with one   *)
(* request at a time no request is ever stale.                             *)

LedgerStep == [Ledger!LedgerNext]_(Ledger!ledgerVars)

\* The entry of one table, as the book has it.
SameEntry(t) ==
    /\ BookState(table'[t]) = BookState(table[t])
    /\ BookCapacity(table'[t]) = BookCapacity(table[t])
    /\ BookGuests(table'[t]) = BookGuests(table[t])

-----------------------------------------------------------------------------
(* What a change of rows must be like to be an operation of the book.      *)

\* A step that keeps every entry leaves the book alone.
LEMMA StutterStep ==
    ASSUME \A t \in TableIds : SameEntry(t)
    PROVE  LedgerStep
BY DEF LedgerStep, SameEntry, Ledger!ledgerVars

\* A step that leaves the rows of the tables alone leaves the book alone.
LEMMA NoRowStep == table' = table => LedgerStep
BY StutterStep DEF SameEntry

\* Guests added, within capacity, at open tables only: a party is seated.
LEMMA SeatStep ==
    ASSUME NEW party \in [TableIds -> 0..MaxParty],
           \A t \in TableIds :
              /\ party[t] > 0 =>
                    /\ BookState(table[t]) = "open"
                    /\ BookGuests(table[t]) + party[t] <= BookCapacity(table[t])
              /\ BookState(table'[t]) = BookState(table[t])
              /\ BookCapacity(table'[t]) = BookCapacity(table[t])
              /\ BookGuests(table'[t]) = BookGuests(table[t]) + party[t]
    PROVE  LedgerStep
<1>1. Ledger!Seat(party)
  BY DEF Ledger!Seat
<1>. QED
  BY <1>1 DEF LedgerStep, Ledger!LedgerNext, Ledger!Party

\* Guests taken away from open tables that have them: a party leaves.
LEMMA LeaveStep ==
    ASSUME NEW party \in [TableIds -> 0..MaxParty],
           \A t \in TableIds :
              /\ party[t] > 0 =>
                    /\ BookState(table[t]) = "open"
                    /\ party[t] <= BookGuests(table[t])
              /\ BookState(table'[t]) = BookState(table[t])
              /\ BookCapacity(table'[t]) = BookCapacity(table[t])
              /\ BookGuests(table'[t]) = BookGuests(table[t]) - party[t]
    PROVE  LedgerStep
<1>1. Ledger!Leave(party)
  BY DEF Ledger!Leave
<1>. QED
  BY <1>1 DEF LedgerStep, Ledger!LedgerNext, Ledger!Party

\* A change of one entry that is a legal change of one table.
LEMMA OneTableStep ==
    ASSUME NEW t \in TableIds,
           \A u \in TableIds \ {t} : SameEntry(u),
           BookGuests(table'[t]) = BookGuests(table[t]),
           \/ /\ BookState(table[t]) = "unused" /\ BookState(table'[t]) = "open"
              /\ BookCapacity(table'[t]) \in Capacities
           \/ /\ BookState(table[t]) \in {"open", "maintenance"}
              /\ BookState(table'[t]) = BookState(table[t])
              /\ BookGuests(table[t]) = 0
              /\ BookCapacity(table'[t]) \in Capacities
           \/ /\ BookState(table[t]) = "open"
              /\ BookState(table'[t]) \in {"maintenance", "closed"}
              /\ BookGuests(table[t]) = 0
              /\ BookCapacity(table'[t]) = BookCapacity(table[t])
           \/ /\ BookState(table[t]) = "maintenance"
              /\ BookState(table'[t]) = "open"
              /\ BookCapacity(table'[t]) = BookCapacity(table[t])
    PROVE  LedgerStep
<1>. DEFINE state == [u \in TableIds |-> BookState(table[u])]
            capacity == [u \in TableIds |-> BookCapacity(table[u])]
            guests == [u \in TableIds |-> BookGuests(table[u])]
<1>1. /\ state' = [state EXCEPT ![t] = BookState(table'[t])]
      /\ capacity' = [capacity EXCEPT ![t] = BookCapacity(table'[t])]
      /\ guests' = guests
  BY DEF SameEntry
<1>2. BookCapacity(table'[t]) = BookCapacity(table[t]) => capacity' = capacity
  BY DEF SameEntry
<1>3. BookState(table'[t]) = BookState(table[t]) => state' = state
  BY DEF SameEntry
<1>4. CASE /\ BookState(table[t]) = "unused" /\ BookState(table'[t]) = "open"
           /\ BookCapacity(table'[t]) \in Capacities
  <2>1. Ledger!Open(t, BookCapacity(table'[t]))
    BY <1>1, <1>4 DEF Ledger!Open
  <2>. QED
    BY <1>4, <2>1 DEF LedgerStep, Ledger!LedgerNext
<1>5. CASE /\ BookState(table[t]) \in {"open", "maintenance"}
           /\ BookState(table'[t]) = BookState(table[t])
           /\ BookGuests(table[t]) = 0
           /\ BookCapacity(table'[t]) \in Capacities
  <2>1. Ledger!Resize(t, BookCapacity(table'[t]))
    BY <1>1, <1>3, <1>5 DEF Ledger!Resize
  <2>. QED
    BY <1>5, <2>1 DEF LedgerStep, Ledger!LedgerNext
<1>6. CASE /\ BookState(table[t]) = "open"
           /\ BookState(table'[t]) \in {"maintenance", "closed"}
           /\ BookGuests(table[t]) = 0
           /\ BookCapacity(table'[t]) = BookCapacity(table[t])
  <2>1. Ledger!Maintain(t) \/ Ledger!Close(t)
    BY <1>1, <1>2, <1>6 DEF Ledger!Maintain, Ledger!Close
  <2>. QED
    BY <2>1 DEF LedgerStep, Ledger!LedgerNext
<1>7. CASE /\ BookState(table[t]) = "maintenance"
           /\ BookState(table'[t]) = "open"
           /\ BookCapacity(table'[t]) = BookCapacity(table[t])
  <2>1. Ledger!Resume(t)
    BY <1>1, <1>2, <1>7 DEF Ledger!Resume
  <2>. QED
    BY <2>1 DEF LedgerStep, Ledger!LedgerNext
<1>. QED
  BY <1>4, <1>5, <1>6, <1>7

-----------------------------------------------------------------------------
(* The three steps that write rows of tables.                              *)

\* What a request that is not stale finds in the database when it writes.
LEMMA FreshReadings ==
    ASSUME RowsInv, RequestsInv, NEW r \in Requests, ~Stale(r),
           pc[r] \in {"save", "softDelete"},
           NEW t \in input[r].targets
    PROVE  /\ t \in TableIds
           /\ table[t] = snap[r][t]
           /\ table[t] \in TableRow
           /\ table[t] # NoTable
           /\ ConsistentRow(table[t])
           /\ ~table[t].isDeleted
           /\ Accepts(input[r], t, table[t])
<1>1. RequestInv(r) /\ t \in TableIds
  BY DEF RequestsInv, Input
<1>2. snap[r][t] # NoTable /\ Accepts(input[r], t, snap[r][t])
  BY <1>1 DEF RequestInv
<1>3. table[t] = snap[r][t]
  BY <1>2 DEF Stale
<1>. QED
  BY <1>1, <1>2, <1>3 DEF RequestInv, RowsInv

\* A write from readings that still hold is an operation of the book.
LEMMA FreshSaveStep ==
    ASSUME RowsInv, RequestsInv, NEW r \in Requests, Save(r), ~Stale(r)
    PROVE  LedgerStep
<1>. DEFINE in == input[r]
            T == in.targets
<1>1. CASE Fail(r)
  BY <1>1, NoRowStep DEF Fail, rowVars
<1>2. CASE ~Fail(r)
  <2>1. pc[r] = "save" /\ table' = Written(r)
    BY <1>2 DEF Save
  <2>2. /\ in \in Input /\ WellFormed(in)
        /\ in.op \in {"assign", "release", "update", "setStatus"}
    BY <2>1 DEF RequestsInv, RequestInv, OpsAt
  <2>3. T \subseteq TableIds /\ in.counts \in [TableIds -> 0..MaxParty]
    BY <2>2 DEF Input
  <2>4. ASSUME NEW t \in TableIds \ T
        PROVE  table'[t] = table[t]
    BY <2>1 DEF Written
  <2>5. ASSUME NEW t \in T
        PROVE  /\ table'[t] = Image(in, t, table[t])
               /\ table[t] \in TableRow
               /\ table[t] # NoTable
               /\ ConsistentRow(table[t])
               /\ ~table[t].isDeleted
               /\ Accepts(in, t, table[t])
    BY <2>1, <2>3, FreshReadings DEF Written
  <2>6. \A t \in TableIds \ T : SameEntry(t)
    BY <2>4 DEF SameEntry
  <2>7. ASSUME NEW t \in TableIds
        PROVE  BookGuests(table[t]) \in Nat
    BY TableRowFields DEF BookGuests, RowsInv
  <2>8. \A t \in T : table'[t] # NoTable
    BY <2>1, WrittenConsistent, TableSeatingAssumption
  <2>9. CASE in.op = "assign"
    <3>1. \A t \in TableIds : t \in T <=> in.counts[t] > 0
      BY <2>2, <2>9 DEF WellFormed
    <3>2. ASSUME NEW t \in T
          PROVE  /\ BookState(table[t]) = "open"
                 /\ BookGuests(table[t]) + in.counts[t] <= BookCapacity(table[t])
                 /\ BookState(table'[t]) = "open"
                 /\ BookCapacity(table'[t]) = BookCapacity(table[t])
                 /\ BookGuests(table'[t]) = BookGuests(table[t]) + in.counts[t]
      <4>1. CanAssignGuests(table[t], in.counts[t])
        BY <2>5, <2>9 DEF Accepts
      <4>2. /\ table'[t].occupancy = table[t].occupancy + in.counts[t]
            /\ table'[t].capacity = table[t].capacity
            /\ table'[t].isDeleted = table[t].isDeleted
            /\ table'[t].status \in {"OCCUPIED", "PARTIAL_OCCUPIED"}
        <5>1. table'[t] = AssignGuests(table[t], in.counts[t])
          BY <2>5, <2>9 DEF Image
        <5>. QED
          BY <2>5, <5>1 DEF AssignGuests, TableRow
      <4>. QED
        BY <2>5, <2>8, <4>1, <4>2
           DEF CanAssignGuests, BookState, BookCapacity, BookGuests
    <3>3. \A t \in TableIds \ T : in.counts[t] = 0
      BY <2>3, <3>1, TableSeatingAssumption
    <3>. QED
      BY <2>3, <2>6, <2>7, <3>1, <3>2, <3>3, SeatStep DEF SameEntry
  <2>10. CASE in.op = "release"
    <3>1. \A t \in TableIds : t \in T <=> in.counts[t] > 0
      BY <2>2, <2>10 DEF WellFormed
    <3>2. ASSUME NEW t \in T
          PROVE  /\ BookState(table[t]) = "open"
                 /\ in.counts[t] <= BookGuests(table[t])
                 /\ BookState(table'[t]) = "open"
                 /\ BookCapacity(table'[t]) = BookCapacity(table[t])
                 /\ BookGuests(table'[t]) = BookGuests(table[t]) - in.counts[t]
      <4>1. CanReleaseGuest(table[t], in.counts[t])
        BY <2>5, <2>10 DEF Accepts
      <4>2. /\ table'[t].occupancy = table[t].occupancy - in.counts[t]
            /\ table'[t].capacity = table[t].capacity
            /\ table'[t].isDeleted = table[t].isDeleted
            /\ table'[t].status \in {"AVAILABLE", "PARTIAL_OCCUPIED"}
        <5>1. table'[t] = ReleaseGuest(table[t], in.counts[t])
          BY <2>5, <2>10 DEF Image
        <5>. QED
          BY <2>5, <5>1 DEF ReleaseGuest, TableRow
      <4>. QED
        BY <2>5, <2>8, <4>1, <4>2
           DEF CanReleaseGuest, BookState, BookCapacity, BookGuests
    <3>3. \A t \in TableIds \ T : in.counts[t] = 0
      BY <2>3, <3>1, TableSeatingAssumption
    <3>. QED
      BY <2>3, <2>6, <2>7, <3>1, <3>2, <3>3, LeaveStep DEF SameEntry
  <2>11. CASE in.op = "update"
    <3>1. PICK t \in TableIds : T = {t}
      BY <2>2, <2>11 DEF WellFormed
    <3>2. CanUpdate(table[t], in)
      BY <2>5, <2>11, <3>1 DEF Accepts
    <3>3. /\ table'[t].occupancy = table[t].occupancy
          /\ table'[t].capacity = Given(in.capacity, table[t].capacity)
          /\ table'[t].isDeleted = table[t].isDeleted
          /\ table'[t].status = table[t].status
      <4>1. table'[t] = Update(table[t], in)
        BY <2>5, <2>11, <3>1 DEF Image
      <4>. QED
        BY <2>5, <3>1, <4>1 DEF Update, TableRow
    <3>4. /\ BookState(table'[t]) = BookState(table[t])
          /\ BookState(table[t]) \in {"open", "maintenance"}
          /\ BookGuests(table'[t]) = BookGuests(table[t])
          /\ BookGuests(table[t]) = table[t].occupancy
          /\ BookCapacity(table[t]) = table[t].capacity
          /\ BookCapacity(table'[t]) = Given(in.capacity, table[t].capacity)
      BY <2>5, <2>8, <3>1, <3>3 DEF BookState, BookCapacity, BookGuests
    <3>5. CASE Given(in.capacity, table[t].capacity) = table[t].capacity
      BY <2>6, <3>1, <3>4, <3>5, StutterStep DEF SameEntry
    <3>6. CASE Given(in.capacity, table[t].capacity) # table[t].capacity
      <4>1. in.capacity \in Capacities /\ table[t].occupancy = 0
        BY <2>2, <2>5, <3>1, <3>2, <3>6, TableRowFields DEF CanUpdate, Given, Input
      <4>. QED
        BY <2>6, <3>1, <3>4, <4>1, <3>6, OneTableStep DEF Given
    <3>. QED
      BY <3>5, <3>6
  <2>12. CASE in.op = "setStatus"
    <3>1. PICK t \in TableIds : T = {t}
      BY <2>2, <2>12 DEF WellFormed
    <3>2. CanTransitionTo(table[t], in.status) /\ in.status \in {"AVAILABLE", "MAINTENANCE"}
      BY <2>2, <2>5, <2>12, <3>1 DEF Accepts, WellFormed
    <3>3. /\ table'[t].occupancy = table[t].occupancy
          /\ table'[t].capacity = table[t].capacity
          /\ table'[t].isDeleted = table[t].isDeleted
          /\ table'[t].status = in.status
      BY <2>2, <2>5, <2>12, <3>1 DEF Image, TransitionTo, TableRow
    <3>4. /\ BookGuests(table'[t]) = BookGuests(table[t])
          /\ BookGuests(table[t]) = table[t].occupancy
          /\ BookCapacity(table'[t]) = BookCapacity(table[t])
      BY <2>5, <2>8, <3>1, <3>3 DEF BookCapacity, BookGuests
    <3>5. CASE table[t].status = in.status
      BY <2>5, <2>6, <2>8, <3>1, <3>3, <3>4, <3>5, StutterStep
         DEF SameEntry, BookState
    <3>6. CASE table[t].status # in.status
      <4>1. /\ table[t].occupancy = 0
            /\ \/ table[t].status = "AVAILABLE" /\ in.status = "MAINTENANCE"
               \/ table[t].status = "MAINTENANCE" /\ in.status = "AVAILABLE"
        BY <3>2, <3>6 DEF CanTransitionTo
      <4>2. \/ BookState(table[t]) = "open" /\ BookState(table'[t]) = "maintenance"
            \/ BookState(table[t]) = "maintenance" /\ BookState(table'[t]) = "open"
        BY <2>5, <2>8, <3>1, <3>3, <4>1 DEF BookState
      <4>. QED
        BY <2>6, <3>1, <3>4, <4>1, <4>2, OneTableStep
    <3>. QED
      BY <3>5, <3>6
  <2>. QED
    BY <2>2, <2>9, <2>10, <2>11, <2>12
<1>. QED
  BY <1>1, <1>2

\* The insertion of a table opens its entry.
LEMMA InsertTableStep ==
    ASSUME RowsInv, RequestsInv, NEW r \in Requests, InsertTable(r)
    PROVE  LedgerStep
<1>1. CASE Fail(r)
  BY <1>1, NoRowStep DEF Fail, rowVars
<1>2. CASE ~Fail(r)
  <2>1. PICK t \in TableIds :
           table[t] = NoTable /\ table' = [table EXCEPT ![t] = NewTable(input[r])]
    BY <1>2 DEF InsertTable
  <2>2. /\ input[r].section \in SectionIds
        /\ input[r].code \in Codes
        /\ input[r].capacity \in Capacities
    BY DEF InsertTable, RequestsInv, RequestInv, OpsAt, WellFormed
  <2>3. NewTable(input[r]) \in TableRow
    BY <2>2, TableSeatingAssumption DEF NewTable, TableRow, Statuses
  <2>4. table'[t] = NewTable(input[r]) /\ table'[t] # NoTable
    BY <2>1, <2>3, TableSeatingAssumption DEF RowsInv
  <2>5. \A u \in TableIds \ {t} : SameEntry(u)
    BY <2>1 DEF SameEntry, RowsInv
  <2>6. /\ BookState(table[t]) = "unused" /\ BookState(table'[t]) = "open"
        /\ BookCapacity(table'[t]) \in Capacities
        /\ BookGuests(table'[t]) = BookGuests(table[t])
    BY <2>1, <2>2, <2>4 DEF NewTable, BookState, BookCapacity, BookGuests
  <2>. QED
    BY <2>5, <2>6, OneTableStep
<1>. QED
  BY <1>1, <1>2

\* A deletion from a reading that still holds closes an empty entry.
LEMMA FreshSoftDeleteStep ==
    ASSUME RowsInv, RequestsInv, NEW r \in Requests, SoftDeleteTable(r), ~Stale(r)
    PROVE  LedgerStep
<1>1. CASE Fail(r)
  BY <1>1, NoRowStep DEF Fail, rowVars
<1>2. CASE ~Fail(r)
  <2>1. PICK t \in input[r].targets :
           Live(t) /\ table' = [table EXCEPT ![t].isDeleted = TRUE]
    BY <1>2 DEF SoftDeleteTable
  <2>2. /\ t \in TableIds /\ table[t] \in TableRow /\ table[t] # NoTable
        /\ ~table[t].isDeleted
        /\ Accepts(input[r], t, table[t])
        /\ input[r].op = "delete"
    BY FreshReadings DEF SoftDeleteTable, RequestsInv, RequestInv, OpsAt
  <2>3. table[t].occupancy = 0 /\ table[t].status = "AVAILABLE"
    BY <2>2 DEF Accepts, IsAvailable
  <2>4. table'[t] = [table[t] EXCEPT !.isDeleted = TRUE]
    BY <2>1, <2>2 DEF RowsInv
  <2>5. table'[t] \in TableRow /\ table'[t] # NoTable
    BY <2>2, <2>4, TableSeatingAssumption DEF TableRow
  <2>6. /\ table'[t].occupancy = table[t].occupancy
        /\ table'[t].capacity = table[t].capacity
        /\ table'[t].isDeleted
    BY <2>2, <2>4 DEF TableRow
  <2>7. \A u \in TableIds \ {t} : SameEntry(u)
    BY <2>1, <2>2 DEF SameEntry, RowsInv
  <2>8. /\ BookState(table[t]) = "open" /\ BookState(table'[t]) = "closed"
        /\ BookGuests(table[t]) = 0
        /\ BookGuests(table'[t]) = BookGuests(table[t])
        /\ BookCapacity(table'[t]) = BookCapacity(table[t])
    BY <2>2, <2>3, <2>5, <2>6 DEF BookState, BookCapacity, BookGuests
  <2>. QED
    BY <2>2, <2>7, <2>8, OneTableStep
<1>. QED
  BY <1>1, <1>2

-----------------------------------------------------------------------------
(* The refinement.                                                         *)

\* A step of a request that writes no row of "tables" leaves the book alone.
LEMMA OtherSteps ==
    ASSUME NEW r \in Requests, RequestStep(r),
           ~Save(r), ~InsertTable(r), ~SoftDeleteTable(r)
    PROVE  table' = table
BY DEF RequestStep, ReceiveSeating, ReceiveCreateTable, ReceiveUpdateTable,
       ReceiveUpdateTableStatus, ReceiveDeleteTable, ReceiveCreateSection,
       ReceiveDeleteSection, Receive, LoadTables, CheckSection, CheckCode,
       CheckSectionName, InsertSection, FindSection, CountTables,
       SoftDeleteSection, Abort, Fail, rowVars

\* A request that writes moves on.
LEMMA WriterMoves ==
    ASSUME RequestsInv, NEW r \in Requests, Save(r) \/ SoftDeleteTable(r)
    PROVE  pc'[r] # pc[r]
BY DEF Save, SoftDeleteTable, Fail, Finish, Goto, RequestsInv

\* A step is one of a stale request, or an operation of the book, or keeps it.
LEMMA StepOfLedgerUnlessStale ==
    SeatingInv /\ [Next]_vars =>
        (\E r \in Requests : pc'[r] # pc[r] /\ Stale(r)) \/ LedgerStep
<1>. SUFFICES ASSUME SeatingInv, [Next]_vars,
                     ~ \E r \in Requests : pc'[r] # pc[r] /\ Stale(r)
              PROVE  LedgerStep
  OBVIOUS
<1>1. RowsInv /\ RequestsInv
  BY SplitInv
<1>2. CASE UNCHANGED vars
  BY <1>2, NoRowStep DEF vars
<1>3. CASE SetBlocked
  BY <1>3, NoRowStep DEF SetBlocked
<1>4. ASSUME NEW r \in Requests, RequestStep(r)
      PROVE  LedgerStep
  <2>1. CASE Save(r)
    BY <1>1, <2>1, WriterMoves, FreshSaveStep
  <2>2. CASE InsertTable(r)
    BY <1>1, <2>2, InsertTableStep
  <2>3. CASE SoftDeleteTable(r)
    BY <1>1, <2>3, WriterMoves, FreshSoftDeleteStep
  <2>. QED
    BY <1>4, <2>1, <2>2, <2>3, OtherSteps, NoRowStep
<1>. QED
  BY <1>2, <1>3, <1>4 DEF Next

\* Whatever the interleaving, only a write from a reading that no longer holds
\* can break the account book.
THEOREM OnlyStaleWritesBreakTheLedger == Spec => AtomicUnlessStale
<1>1. SeatingInv /\ [Next]_vars =>
         [ \/ \E r \in Requests : pc'[r] # pc[r] /\ Stale(r)
           \/ [Ledger!LedgerNext]_(Ledger!ledgerVars) ]_vars
  BY StepOfLedgerUnlessStale DEF LedgerStep
<1>. QED
  BY <1>1, SeatingInvariant, PTL DEF Spec, AtomicUnlessStale

-----------------------------------------------------------------------------
(* Parties, whole.                                                         *)

\* A step of a request moves the counter of that request only.
LEMMA OneCounterMoves ==
    ASSUME NEW r \in Requests, RequestStep(r)
    PROVE  \E p \in Steps : pc' = [pc EXCEPT ![r] = p]
<1>1. \A p : Goto(r, p) => pc' = [pc EXCEPT ![r] = p]
  BY DEF Goto
<1>2. \E p \in Steps : Goto(r, p)
  BY DEF RequestStep, ReceiveSeating, ReceiveCreateTable, ReceiveUpdateTable,
     ReceiveUpdateTableStatus, ReceiveDeleteTable, ReceiveCreateSection,
     ReceiveDeleteSection, Receive, LoadTables, CheckSection, CheckCode, Save,
     InsertTable, SoftDeleteTable, CheckSectionName, InsertSection,
     FindSection, CountTables, SoftDeleteSection, Abort, Fail, Finish, Steps
<1>. QED
  BY <1>1, <1>2

\* A write of a party from readings that still hold.
LEMMA FreshPartyStep ==
    ASSUME RowsInv, RequestsInv, NEW r \in Requests, Save(r), ~Stale(r),
           table' # table, input[r].op \in {"assign", "release"},
           NEW t \in TableIds, table[t] # NoTable
    PROVE  table'[t].occupancy =
               IF input[r].op = "assign"
               THEN table[t].occupancy + input[r].counts[t]
               ELSE table[t].occupancy - input[r].counts[t]
<1>. DEFINE in == input[r]
<1>1. pc[r] = "save" /\ table' = Written(r)
  BY DEF Save, Fail, rowVars
<1>2. /\ in.counts \in [TableIds -> 0..MaxParty]
      /\ in.targets = {u \in TableIds : in.counts[u] > 0}
  BY DEF RequestsInv, RequestInv, Input, WellFormed
<1>3. table[t] \in TableRow /\ table[t].occupancy \in Nat
  BY TableRowFields DEF RowsInv
<1>4. CASE t \notin in.targets
  <2>1. in.counts[t] = 0
    BY <1>2, <1>4, TableSeatingAssumption
  <2>2. table'[t] = table[t]
    BY <1>1, <1>4 DEF Written
  <2>. QED
    BY <1>3, <2>1, <2>2
<1>5. CASE t \in in.targets
  <2>1. table'[t] = Image(in, t, table[t])
    BY <1>1, <1>5, FreshReadings DEF Written
  <2>2. CASE in.op = "assign"
    BY <1>3, <2>1, <2>2 DEF Image, AssignGuests, TableRow
  <2>3. CASE in.op = "release"
    BY <1>3, <2>1, <2>3 DEF Image, ReleaseGuest, TableRow
  <2>. QED
    BY <2>2, <2>3
<1>. QED
  BY <1>4, <1>5

\* A party is written at all of its tables, with all of its guests, or at
\* none (prisma-table.repository.ts, updateMany), for any number of tables
\* and of concurrent requests: no other request can take a part of it away
\* between the readings and the write without making them stale.
THEOREM PartiesAlwaysWhole == Spec => PartiesSeatedWhole
<1>. DEFINE Whole ==
       \A r \in Requests :
          (/\ pc[r] = "save" /\ pc'[r] = "idle" /\ ~Stale(r)
           /\ input[r].op \in {"assign", "release"} /\ table' # table)
          => \A t \in TableIds : table[t] # NoTable =>
                table'[t].occupancy =
                    IF input[r].op = "assign"
                    THEN table[t].occupancy + input[r].counts[t]
                    ELSE table[t].occupancy - input[r].counts[t]
<1>1. SeatingInv /\ [Next]_vars => [Whole]_vars
  <2>. SUFFICES ASSUME SeatingInv, Next,
                       NEW r \in Requests, pc[r] = "save", pc'[r] = "idle",
                       ~Stale(r), input[r].op \in {"assign", "release"},
                       table' # table,
                       NEW t \in TableIds, table[t] # NoTable
                PROVE  table'[t].occupancy =
                           IF input[r].op = "assign"
                           THEN table[t].occupancy + input[r].counts[t]
                           ELSE table[t].occupancy - input[r].counts[t]
    OBVIOUS
  <2>1. RowsInv /\ RequestsInv
    BY SplitInv
  <2>2. PICK q \in Requests : RequestStep(q)
    BY DEF Next, SetBlocked
  <2>3. q = r
    BY <2>1, <2>2, OneCounterMoves DEF RequestsInv
  <2>4. Save(r)
    BY <2>2, <2>3, OtherSteps DEF InsertTable, SoftDeleteTable
  <2>. QED
    BY <2>1, <2>4, FreshPartyStep
<1>. QED
  BY <1>1, SeatingInvariant, PTL DEF Spec, PartiesSeatedWhole

-----------------------------------------------------------------------------
(* One request at a time.                                                  *)

\* Whatever a request has read is still what the database holds.
FreshInv == \A r \in Requests, t \in TableIds : snap[r][t] \in {NoTable, table[t]}

\* A restaurant is set up with empty tables, in use or not.
LEMMA InitIsLedgerInit == Init => Ledger!LedgerInit
<1>. SUFFICES ASSUME Init PROVE Ledger!LedgerInit
  OBVIOUS
<1>1. ASSUME NEW t \in TableIds
      PROVE  /\ BookState(table[t]) \in {"unused", "open"}
             /\ BookCapacity(table[t]) \in Capacities \cup {0}
             /\ BookGuests(table[t]) = 0
  BY DEF Init, BookState, BookCapacity, BookGuests
<1>. QED
  BY <1>1 DEF Ledger!LedgerInit

\* The only request there is cannot be overtaken by another one.
LEMMA FreshStep ==
    ASSUME \A q, r \in Requests : q = r, SeatingInv, FreshInv, [Next]_vars
    PROVE  FreshInv'
<1>1. CASE UNCHANGED <<table, snap>>
  BY <1>1 DEF FreshInv
<1>2. ASSUME NEW r \in Requests, RequestStep(r)
      PROVE  FreshInv'
  <2>1. /\ snap \in [Requests -> [TableIds -> TableRow \cup {NoTable}]]
        /\ \A q \in Requests : q = r
    BY DEF SeatingInv, TypeOK
  <2>2. CASE Finish(r)
    BY <2>1, <2>2 DEF Finish, NoRows, FreshInv
  <2>3. CASE UNCHANGED <<table, snap>>
    BY <2>3, <1>1
  <2>4. CASE LoadTables(r) /\ ~Fail(r)
    <3>1. /\ table' = table
          /\ snap' = [snap EXCEPT ![r] = [t \in TableIds |->
                         IF t \in input[r].targets THEN table[t] ELSE NoTable]]
      BY <2>4 DEF LoadTables, rowVars
    <3>. QED
      BY <2>1, <3>1 DEF FreshInv
  <2>5. \/ Finish(r)
        \/ UNCHANGED <<table, snap>>
        \/ LoadTables(r) /\ ~Fail(r)
    BY <1>2 DEF RequestStep, ReceiveSeating, ReceiveCreateTable,
       ReceiveUpdateTable, ReceiveUpdateTableStatus, ReceiveDeleteTable,
       ReceiveCreateSection, ReceiveDeleteSection, Receive, LoadTables,
       CheckSection, CheckCode, Save, InsertTable, SoftDeleteTable,
       CheckSectionName, InsertSection, FindSection, CountTables,
       SoftDeleteSection, Abort, Fail, rowVars
  <2>. QED
    BY <2>2, <2>3, <2>4, <2>5
<1>3. CASE SetBlocked \/ UNCHANGED vars
  BY <1>1, <1>3 DEF SetBlocked, vars
<1>. QED
  BY <1>2, <1>3 DEF Next

\* With one request at a time, the eight use cases implement the account book.
THEOREM OneRequestImplementsLedger ==
    ASSUME \A q, r \in Requests : q = r
    PROVE  Spec => ImplementsLedger
<1>1. Init => FreshInv
  BY DEF Init, NoRows, FreshInv
<1>2. SeatingInv /\ FreshInv /\ [Next]_vars => FreshInv'
  BY FreshStep
<1>3. SeatingInv /\ FreshInv => \A r \in Requests : ~Stale(r)
  BY DEF SeatingInv, TypeOK, Input, FreshInv, Stale
<1>4. SeatingInv /\ FreshInv /\ [Next]_vars
         => [Ledger!LedgerNext]_(Ledger!ledgerVars)
  BY <1>3, StepOfLedgerUnlessStale DEF LedgerStep
<1>. QED
  BY <1>1, <1>2, <1>4, InitIsLedgerInit, SeatingInvariant, PTL
     DEF Spec, ImplementsLedger, Ledger!LedgerSpec

-----------------------------------------------------------------------------
(* Sums.                                                                   *)

\* Induction: the library's theorems take the formula as a parameter, which
\* the provers cannot instantiate, so the least number stands in for it.
LEMMA LeastNumber ==
    ASSUME NEW T \in SUBSET Nat, T # {}
    PROVE  \E n \in T : \A m \in T : n <= m
<1>1. PICK n \in T : \A m \in T : ~ (<<m, n>> \in OpToRel(<, Nat))
  BY NatLessThanWellFounded, WFMin
<1>2. \A m \in T : m < n => <<m, n>> \in OpToRel(<, Nat)
  BY DEF OpToRel
<1>3. \A m \in T : m \in Nat /\ ~(m < n)
  BY <1>1, <1>2
<1>. QED
  BY <1>3

LEMMA InductionSet ==
    ASSUME NEW P, 0 \in P, \A n \in Nat : n \in P => n + 1 \in P
    PROVE  Nat \subseteq P
<1>. SUFFICES ASSUME Nat \ P # {} PROVE FALSE
  OBVIOUS
<1>1. PICK n \in Nat \ P : \A m \in Nat \ P : n <= m
  BY LeastNumber
<1>2. n # 0 /\ n - 1 \in Nat /\ n - 1 \in P
  BY <1>1
<1>. QED
  BY <1>1, <1>2

\* A property of the subsets of a finite set that an added element keeps.
LEMMA FiniteInduction ==
    ASSUME NEW S, IsFiniteSet(S), NEW P, {} \in P,
           \A T \in SUBSET S : \A x \in S \ T : T \in P => T \cup {x} \in P
    PROVE  S \in P
<1>. DEFINE Q == {n \in Nat : \A T \in SUBSET S : Cardinality(T) = n => T \in P}
<1>1. \A T \in SUBSET S : IsFiniteSet(T) /\ Cardinality(T) \in Nat
  BY FS_Subset, FS_CardinalityType
<1>2. 0 \in Q
  BY <1>1, FS_EmptySet
<1>3. ASSUME NEW n \in Nat, n \in Q
      PROVE  n + 1 \in Q
  <2>. SUFFICES ASSUME NEW T \in SUBSET S, Cardinality(T) = n + 1
                PROVE  T \in P
    OBVIOUS
  <2>1. PICK x \in T : TRUE
    BY <1>1, FS_EmptySet
  <2>2. Cardinality(T \ {x}) = n
    <3>1. IsFiniteSet(T)
      BY <1>1
    <3>2. Cardinality(T \ {x}) = Cardinality(T) - 1
      BY <3>1, FS_RemoveElement
    <3>. QED
      BY <3>2
  <2>3. T \ {x} \in P
    BY <1>3, <2>2
  <2>4. (T \ {x}) \cup {x} = T
    OBVIOUS
  <2>. QED
    BY <2>3, <2>4
<1>4. Cardinality(S) \in Q
  BY <1>1, <1>2, <1>3, InductionSet
<1>. QED
  BY <1>4

\* What the fold of the library is made of.
Chosen(S) == CHOOSE x \in S : TRUE
SumStep(f, g, s) == IF s = {} THEN 0 ELSE f[Chosen(s)] + g[s \ {Chosen(s)}]
IsSum(f, S, g) == g = [s \in SUBSET S |-> SumStep(f, g, s)]

LEMMA SumIsFold ==
    ASSUME NEW f, NEW S
    PROVE  SumFunctionOnSet(f, S) = (CHOOSE g : IsSum(f, S, g))[S]
  BY DEF SumFunctionOnSet, FoldFunctionOnSet, MapThenFoldSet, IsSum, SumStep, Chosen

LEMMA ChosenFacts ==
    ASSUME NEW S, S # {}
    PROVE  Chosen(S) \in S
  BY DEF Chosen

\* The function exists on every finite set,
LEMMA SumExists ==
    ASSUME NEW f, NEW S, IsFiniteSet(S)
    PROVE  \E g : IsSum(f, S, g)
<1>. DEFINE Small(n) == {s \in SUBSET S : Cardinality(s) <= n}
            Q == {n \in Nat : \E g : g = [s \in Small(n) |-> SumStep(f, g, s)]}
<1>1. \A T \in SUBSET S : IsFiniteSet(T) /\ Cardinality(T) \in Nat
  BY FS_Subset, FS_CardinalityType
<1>2. 0 \in Q
  <2>1. \A s \in Small(0) : s = {}
    BY <1>1, FS_EmptySet
  <2>2. [s \in Small(0) |-> 0] = [s \in Small(0) |-> SumStep(f, [t \in Small(0) |-> 0], s)]
    BY <2>1 DEF SumStep
  <2>. QED
    BY <2>2
<1>3. ASSUME NEW n \in Nat, n \in Q
      PROVE  n + 1 \in Q
  <2>1. PICK g : g = [s \in Small(n) |-> SumStep(f, g, s)]
    BY <1>3
  <2>. DEFINE h == [s \in Small(n + 1) |-> SumStep(f, g, s)]
  <2>2. \A s \in Small(n) : h[s] = g[s]
    <3>1. \A s \in Small(n) : s \in Small(n + 1)
      BY <1>1
    <3>. QED
      BY <2>1, <3>1
  <2>3. ASSUME NEW s \in Small(n + 1), s # {}
        PROVE  s \ {Chosen(s)} \in Small(n)
    <3>1. Chosen(s) \in s /\ IsFiniteSet(s)
      BY <1>1, <2>3, ChosenFacts
    <3>2. Cardinality(s \ {Chosen(s)}) = Cardinality(s) - 1
      BY <3>1, FS_RemoveElement
    <3>. QED
      BY <1>1, <3>2
  <2>4. ASSUME NEW s \in Small(n + 1)
        PROVE  SumStep(f, g, s) = SumStep(f, h, s)
    BY <2>2, <2>3 DEF SumStep
  <2>5. h = [s \in Small(n + 1) |-> SumStep(f, h, s)]
    BY <2>4
  <2>. HIDE DEF h, Small
  <2>6. n + 1 \in Nat
    OBVIOUS
  <2>. QED
    BY <2>5, <2>6
<1>4. Cardinality(S) \in Q
  <2>1. Cardinality(S) \in Nat
    BY <1>1
  <2>. HIDE DEF Q
  <2>. QED
    BY <1>2, <1>3, <2>1, InductionSet
<1>5. Small(Cardinality(S)) = SUBSET S
  BY FS_Subset
<1>. QED
  BY <1>4, <1>5 DEF IsSum

\* and gives one number for each subset, however large the set it is made on.
LEMMA SumUnique ==
    ASSUME NEW f, NEW S, IsFiniteSet(S), NEW T \in SUBSET S,
           NEW g, IsSum(f, S, g), NEW h, IsSum(f, T, h)
    PROVE  g[T] = h[T]
<1>. DEFINE Q == {n \in Nat : \A s \in SUBSET T : Cardinality(s) = n => g[s] = h[s]}
<1>1. \A s \in SUBSET T : IsFiniteSet(s) /\ Cardinality(s) \in Nat
  BY FS_Subset, FS_CardinalityType
<1>2. \A s \in SUBSET T : g[s] = SumStep(f, g, s) /\ h[s] = SumStep(f, h, s)
  BY DEF IsSum
<1>3. 0 \in Q
  BY <1>1, <1>2, FS_EmptySet DEF SumStep
<1>4. ASSUME NEW n \in Nat, n \in Q
      PROVE  n + 1 \in Q
  <2>. SUFFICES ASSUME NEW s \in SUBSET T, Cardinality(s) = n + 1
                PROVE  g[s] = h[s]
    OBVIOUS
  <2>1. s # {} /\ IsFiniteSet(s)
    BY <1>1, FS_EmptySet
  <2>2. Cardinality(s \ {Chosen(s)}) = n
    <3>1. Cardinality(s \ {Chosen(s)}) = Cardinality(s) - 1
      BY <2>1, ChosenFacts, FS_RemoveElement
    <3>. QED
      BY <3>1
  <2>3. g[s \ {Chosen(s)}] = h[s \ {Chosen(s)}]
    BY <1>4, <2>2
  <2>. QED
    BY <1>2, <2>1, <2>3 DEF SumStep
<1>5. Cardinality(T) \in Q
  <2>1. Cardinality(T) \in Nat
    BY <1>1
  <2>. HIDE DEF Q
  <2>. QED
    BY <1>3, <1>4, <2>1, InductionSet
<1>. QED
  BY <1>5

LEMMA SumUnfolds ==
    ASSUME NEW f, NEW S, IsFiniteSet(S)
    PROVE  /\ S = {} => SumFunctionOnSet(f, S) = 0
           /\ S # {} => SumFunctionOnSet(f, S) =
                           f[Chosen(S)] + SumFunctionOnSet(f, S \ {Chosen(S)})
<1>. DEFINE g == CHOOSE g : IsSum(f, S, g)
            T == S \ {Chosen(S)}
            h == CHOOSE h : IsSum(f, T, h)
<1>1. IsSum(f, S, g) /\ SumFunctionOnSet(f, S) = g[S]
  BY SumExists, SumIsFold
<1>2. T \in SUBSET S /\ IsFiniteSet(T)
  BY FS_Subset
<1>3. IsSum(f, T, h) /\ SumFunctionOnSet(f, T) = h[T]
  BY <1>2, SumExists, SumIsFold
<1>4. g[T] = h[T]
  <2>. HIDE DEF g, h, T
  <2>. QED
    BY <1>1, <1>2, <1>3, SumUnique
<1>5. g[S] = SumStep(f, g, S)
  BY <1>1 DEF IsSum
<1>. QED
  BY <1>1, <1>3, <1>4, <1>5 DEF SumStep

LEMMA SumEmpty == \A f : SumFunctionOnSet(f, {}) = 0
  BY SumUnfolds, FS_EmptySet

\* The order in which the numbers are taken does not matter.
LEMMA SumRemove ==
    ASSUME NEW f, NEW S, IsFiniteSet(S), \A x \in S : f[x] \in Int
    PROVE  /\ SumFunctionOnSet(f, S) \in Int
           /\ \A x \in S : SumFunctionOnSet(f, S) = f[x] + SumFunctionOnSet(f, S \ {x})
<1>. DEFINE Total(T) == SumFunctionOnSet(f, T)
            Good(T) == Total(T) \in Int /\ \A x \in T : Total(T) = f[x] + Total(T \ {x})
            Q == {n \in Nat : \A T \in SUBSET S : Cardinality(T) <= n => Good(T)}
<1>1. \A T \in SUBSET S : IsFiniteSet(T) /\ Cardinality(T) \in Nat
  BY FS_Subset, FS_CardinalityType
<1>2. 0 \in Q
  <2>1. \A T \in SUBSET S : Cardinality(T) <= 0 => T = {}
    BY <1>1, FS_EmptySet
  <2>2. Good({})
    BY SumEmpty
  <2>. HIDE DEF Good
  <2>. QED
    BY <2>1, <2>2
<1>3. ASSUME NEW n \in Nat, n \in Q
      PROVE  n + 1 \in Q
  <2>. SUFFICES ASSUME NEW T \in SUBSET S, T # {}, Cardinality(T) <= n + 1
                PROVE  Good(T)
    BY SumEmpty
  <2>1. IsFiniteSet(T)
    BY <1>1
  <2>2. ASSUME NEW R \in SUBSET T, R # T
        PROVE  Good(R)
    <3>1. PICK x \in T : x \notin R
      BY <2>2
    <3>2. IsFiniteSet(T \ {x}) /\ Cardinality(T \ {x}) = Cardinality(T) - 1
      BY <2>1, FS_RemoveElement
    <3>3. R \subseteq T \ {x}
      BY <3>1
    <3>4. Cardinality(R) <= Cardinality(T \ {x})
      BY <3>2, <3>3, FS_Subset
    <3>5. Cardinality(R) <= n /\ R \in SUBSET S
      BY <1>1, <3>2, <3>4
    <3>. HIDE DEF Good
    <3>. QED
      BY <1>3, <3>5
  <2>. DEFINE c == Chosen(T)
  <2>3. c \in T /\ Total(T) = f[c] + Total(T \ {c})
    BY <2>1, ChosenFacts, SumUnfolds
  <2>4. \A x \in T : f[x] \in Int /\ Total(T \ {x}) \in Int
    BY <2>2
  <2>5. ASSUME NEW x \in T, x # c
        PROVE  Total(T) = f[x] + Total(T \ {x})
    <3>1. Good(T \ {c}) /\ Good(T \ {x})
      BY <2>2, <2>3
    <3>2. x \in T \ {c} /\ c \in T \ {x} /\ (T \ {x}) \ {c} = (T \ {c}) \ {x}
      BY <2>3, <2>5
    <3>3. Total((T \ {c}) \ {x}) \in Int
      <4>1. (T \ {c}) \ {x} \in SUBSET T /\ (T \ {c}) \ {x} # T
        BY <2>3
      <4>. QED
        BY <2>2, <4>1
    <3>4. Total(T \ {c}) = f[x] + Total((T \ {c}) \ {x})
      BY <3>1, <3>2
    <3>5. Total(T \ {x}) = f[c] + Total((T \ {c}) \ {x})
      BY <3>1, <3>2
    <3>. HIDE DEF Total, c
    <3>. QED
      BY <2>3, <2>4, <3>3, <3>4, <3>5
  <2>6. Total(T) \in Int
    <3>. HIDE DEF Total, c
    <3>. QED
      BY <2>3, <2>4
  <2>7. \A x \in T : Total(T) = f[x] + Total(T \ {x})
    <3>. HIDE DEF Total, c
    <3>. QED
      BY <2>3, <2>5
  <2>. QED
    BY <2>6, <2>7
<1>4. Cardinality(S) \in Q
  <2>1. Cardinality(S) \in Nat
    BY <1>1
  <2>. HIDE DEF Q
  <2>. QED
    BY <1>2, <1>3, <2>1, InductionSet
<1>. QED
  BY <1>4

LEMMA SumIsInt ==
    ASSUME NEW f, NEW S, IsFiniteSet(S), \A x \in S : f[x] \in Int
    PROVE  SumFunctionOnSet(f, S) \in Int
BY SumRemove

LEMMA SumAdd ==
    ASSUME NEW f, NEW S, IsFiniteSet(S), \A y \in S : f[y] \in Int,
           NEW x \in S
    PROVE  SumFunctionOnSet(f, S) = f[x] + SumFunctionOnSet(f, S \ {x})
BY SumRemove

\* Only the numbers of the set count,
LEMMA SumSame ==
    ASSUME NEW f, NEW g, NEW S, IsFiniteSet(S),
           \A x \in S : f[x] \in Int /\ g[x] = f[x]
    PROVE  SumFunctionOnSet(f, S) = SumFunctionOnSet(g, S)
<1>. DEFINE P == {T \in SUBSET S : SumFunctionOnSet(f, T) = SumFunctionOnSet(g, T)}
<1>1. {} \in P
  BY SumEmpty
<1>2. ASSUME NEW T \in SUBSET S, NEW x \in S \ T, T \in P
      PROVE  T \cup {x} \in P
  <2>1. IsFiniteSet(T \cup {x}) /\ x \in T \cup {x}
    BY FS_Subset
  <2>2. SumFunctionOnSet(f, T \cup {x}) = f[x] + SumFunctionOnSet(f, (T \cup {x}) \ {x})
    BY <2>1, SumAdd
  <2>3. SumFunctionOnSet(g, T \cup {x}) = g[x] + SumFunctionOnSet(g, (T \cup {x}) \ {x})
    BY <2>1, SumAdd
  <2>4. (T \cup {x}) \ {x} = T
    BY <1>2
  <2>. QED
    BY <1>2, <2>2, <2>3, <2>4
<1>3. S \in P
  <2>. HIDE DEF P
  <2>. QED
    BY <1>1, <1>2, FiniteInduction
<1>. QED
  BY <1>3

\* and nobody adds up to nothing.
LEMMA SumZero ==
    ASSUME NEW f, NEW S, IsFiniteSet(S), \A x \in S : f[x] = 0
    PROVE  SumFunctionOnSet(f, S) = 0
<1>. DEFINE P == {T \in SUBSET S : SumFunctionOnSet(f, T) = 0}
<1>1. {} \in P
  BY SumEmpty
<1>2. ASSUME NEW T \in SUBSET S, NEW x \in S \ T, T \in P
      PROVE  T \cup {x} \in P
  <2>1. IsFiniteSet(T \cup {x}) /\ x \in T \cup {x}
    BY FS_Subset
  <2>2. SumFunctionOnSet(f, T \cup {x}) = f[x] + SumFunctionOnSet(f, (T \cup {x}) \ {x})
    BY <2>1, SumAdd
  <2>3. (T \cup {x}) \ {x} = T
    BY <1>2
  <2>4. SumFunctionOnSet(f, T \cup {x}) = f[x] + SumFunctionOnSet(f, T)
    BY <2>2, <2>3
  <2>. QED
    BY <1>2, <2>4
<1>3. S \in P
  <2>. HIDE DEF P
  <2>. QED
    BY <1>1, <1>2, FiniteInduction
<1>. QED
  BY <1>3

LEMMA SumIsNat ==
    ASSUME NEW f, NEW S, IsFiniteSet(S), \A x \in S : f[x] \in Nat
    PROVE  SumFunctionOnSet(f, S) \in Nat
<1>. DEFINE P == {T \in SUBSET S : SumFunctionOnSet(f, T) \in Nat}
<1>1. {} \in P
  BY SumEmpty
<1>2. ASSUME NEW T \in SUBSET S, NEW x \in S \ T, T \in P
      PROVE  T \cup {x} \in P
  <2>1. IsFiniteSet(T \cup {x}) /\ x \in T \cup {x}
    BY FS_Subset
  <2>2. SumFunctionOnSet(f, T \cup {x}) = f[x] + SumFunctionOnSet(f, (T \cup {x}) \ {x})
    BY <2>1, SumAdd
  <2>3. (T \cup {x}) \ {x} = T
    BY <1>2
  <2>4. SumFunctionOnSet(f, T \cup {x}) = f[x] + SumFunctionOnSet(f, T)
    BY <2>2, <2>3
  <2>. QED
    BY <1>2, <2>4
<1>3. S \in P
  <2>. HIDE DEF P
  <2>. QED
    BY <1>1, <1>2, FiniteInduction
<1>. QED
  BY <1>3

\* A number that does not exceed the sum of the shares can be split into them.
LEMMA SumSplits ==
    ASSUME NEW S, IsFiniteSet(S), NEW A \in SUBSET S, NEW cap,
           \A t \in A : cap[t] \in Nat,
           NEW n \in Nat, n <= SumFunctionOnSet(cap, A)
    PROVE  \E c \in [S -> 0..n] :
              /\ SumFunctionOnSet(c, S) = n
              /\ \A t \in S : c[t] > 0 => t \in A /\ c[t] <= cap[t]
<1>. DEFINE Fits(c, m, T) ==
               /\ c \in [S -> 0..m]
               /\ SumFunctionOnSet(c, S) = m
               /\ \A t \in S : c[t] > 0 => t \in T /\ c[t] <= cap[t]
            Splits(T) == \A m \in Nat : m <= SumFunctionOnSet(cap, T) =>
                            \E c : Fits(c, m, T)
            P == {T \in SUBSET A : Splits(T)}
<1>1. {} \in P
  <2>. DEFINE zero == [t \in S |-> 0]
  <2>1. SumFunctionOnSet(zero, S) = 0
    BY SumZero
  <2>2. Fits(zero, 0, {})
    BY <2>1
  <2>3. \A m \in Nat : m <= SumFunctionOnSet(cap, {}) => m = 0
    BY SumEmpty
  <2>. HIDE DEF zero, Fits
  <2>. QED
    BY <2>2, <2>3
<1>2. ASSUME NEW T \in SUBSET A, NEW x \in A \ T, T \in P
      PROVE  T \cup {x} \in P
  <2>1. IsFiniteSet(T \cup {x}) /\ IsFiniteSet(T)
    BY FS_Subset, FS_AddElement
  <2>2. SumFunctionOnSet(cap, T \cup {x}) = cap[x] + SumFunctionOnSet(cap, T)
    <3>1. SumFunctionOnSet(cap, T \cup {x})
             = cap[x] + SumFunctionOnSet(cap, (T \cup {x}) \ {x})
      BY <2>1, SumAdd
    <3>2. (T \cup {x}) \ {x} = T
      BY <1>2
    <3>. QED
      BY <3>1, <3>2
  <2>3. SumFunctionOnSet(cap, T) \in Nat
    BY <2>1, SumIsNat
  <2>4. ASSUME NEW m \in Nat, m <= SumFunctionOnSet(cap, T \cup {x})
        PROVE  \E c : Fits(c, m, T \cup {x})
    <3>1. cap[x] \in Nat /\ x \in S
      OBVIOUS
    <3>2. PICK k \in 0..m : k <= cap[x] /\ m - k <= SumFunctionOnSet(cap, T)
      <4>1. CASE m <= cap[x]
        BY <2>3, <4>1
      <4>2. CASE m > cap[x]
        BY <2>2, <2>3, <2>4, <3>1, <4>2
      <4>. QED
        BY <3>1, <4>1, <4>2
    <3>3. PICK c : Fits(c, m - k, T)
      BY <1>2, <3>2
    <3>. DEFINE d == [c EXCEPT ![x] = k]
    <3>4. c[x] = 0 /\ c \in [S -> 0..m - k]
      BY <1>2, <3>1, <3>3
    <3>5. d \in [S -> 0..m] /\ d[x] = k /\ \A t \in S \ {x} : d[t] = c[t]
      BY <3>1, <3>2, <3>4
    <3>6. SumFunctionOnSet(d, S) = m
      <4>1. IsFiniteSet(S \ {x})
        BY FS_Subset
      <4>2. SumFunctionOnSet(c, S) = c[x] + SumFunctionOnSet(c, S \ {x})
        <5>1. \A y \in S : c[y] \in Int
          BY <3>4
        <5>. QED
          BY <3>1, <5>1, SumAdd
      <4>3. SumFunctionOnSet(d, S) = d[x] + SumFunctionOnSet(d, S \ {x})
        <5>1. \A y \in S : d[y] \in Int
          BY <3>5
        <5>. HIDE DEF d
        <5>. QED
          BY <3>1, <5>1, SumAdd
      <4>4. SumFunctionOnSet(c, S \ {x}) = SumFunctionOnSet(d, S \ {x})
        <5>1. \A y \in S \ {x} : c[y] \in Int /\ d[y] = c[y]
          BY <3>4, <3>5
        <5>. HIDE DEF d
        <5>. QED
          BY <4>1, <5>1, SumSame
      <4>5. SumFunctionOnSet(c, S \ {x}) \in Int
        <5>1. \A y \in S \ {x} : c[y] \in Int
          BY <3>4
        <5>. QED
          BY <4>1, <5>1, SumIsInt
      <4>6. SumFunctionOnSet(c, S) = m - k
        BY <3>3
      <4>. HIDE DEF d
      <4>. QED
        BY <3>2, <3>4, <3>5, <4>2, <4>3, <4>4, <4>5, <4>6
    <3>7. ASSUME NEW t \in S, d[t] > 0
          PROVE  t \in T \cup {x} /\ d[t] <= cap[t]
      BY <3>2, <3>3, <3>5, <3>7
    <3>8. Fits(d, m, T \cup {x})
      BY <3>5, <3>6, <3>7
    <3>. QED
      BY <3>8
  <2>. HIDE DEF Fits
  <2>. QED
    BY <2>4
<1>3. A \in P
  <2>1. IsFiniteSet(A)
    BY FS_Subset
  <2>. HIDE DEF P
  <2>. QED
    BY <1>1, <1>2, <2>1, FiniteInduction
<1>. QED
  BY <1>3

\* Whatever the elements of a finite set are grouped by, the sizes of the
\* groups add up to the size of the set.
LEMMA GroupsAddUp ==
    ASSUME NEW S, IsFiniteSet(S), NEW key
    PROVE  LET names == {key[t] : t \in S}
           IN  SumFunctionOnSet([m \in names |-> Cardinality({t \in S : key[t] = m})],
                                names) = Cardinality(S)
<1>. DEFINE names == {key[t] : t \in S}
            Group(T, m) == {t \in T : key[t] = m}
            Sizes(T) == [m \in names |-> Cardinality(Group(T, m))]
            P == {T \in SUBSET S : SumFunctionOnSet(Sizes(T), names) = Cardinality(T)}
<1>1. IsFiniteSet(names)
  <2>1. [t \in S |-> key[t]] \in Surjection(S, names)
    BY DEF Surjection
  <2>. HIDE DEF names
  <2>. QED
    BY <2>1, FS_Surjection
<1>2. \A T \in SUBSET S : \A m : IsFiniteSet(Group(T, m)) /\ Cardinality(Group(T, m)) \in Nat
  BY FS_Subset, FS_CardinalityType
<1>3. {} \in P
  <2>1. \A m : Group({}, m) = {}
    OBVIOUS
  <2>2. \A m \in names : Sizes({})[m] = 0
    BY <2>1, FS_EmptySet
  <2>3. SumFunctionOnSet(Sizes({}), names) = 0
    <3>. HIDE DEF names, Sizes
    <3>. QED
      BY <1>1, <2>2, SumZero
  <2>. QED
    BY <2>3, FS_EmptySet
<1>4. ASSUME NEW T \in SUBSET S, NEW x \in S \ T, T \in P
      PROVE  T \cup {x} \in P
  <2>. DEFINE U == T \cup {x}
              others == names \ {key[x]}
  <2>1. IsFiniteSet(T) /\ Cardinality(U) = Cardinality(T) + 1 /\ Cardinality(T) \in Nat
    <3>1. IsFiniteSet(T)
      BY FS_Subset
    <3>. QED
      BY <3>1, FS_AddElement, FS_CardinalityType
  <2>2. key[x] \in names /\ IsFiniteSet(others)
    BY <1>1, FS_Subset
  <2>3. Sizes(U)[key[x]] = Sizes(T)[key[x]] + 1
    <3>1. Group(U, key[x]) = Group(T, key[x]) \cup {x} /\ x \notin Group(T, key[x])
      OBVIOUS
    <3>2. IsFiniteSet(Group(T, key[x]))
      BY <1>2
    <3>3. Cardinality(Group(U, key[x])) = Cardinality(Group(T, key[x])) + 1
      <4>. HIDE DEF Group, U
      <4>. QED
        BY <3>1, <3>2, FS_AddElement
    <3>. QED
      BY <2>2, <3>3
  <2>4. \A m \in others : Sizes(U)[m] = Sizes(T)[m]
    <3>1. \A m \in others : Group(U, m) = Group(T, m)
      OBVIOUS
    <3>. HIDE DEF Group, U
    <3>. QED
      BY <3>1
  <2>5. \A m \in names : Sizes(T)[m] \in Int /\ Sizes(U)[m] \in Int
    <3>1. U \in SUBSET S
      OBVIOUS
    <3>. HIDE DEF Group, U, names
    <3>. QED
      BY <1>2, <3>1
  <2>. HIDE DEF names, Sizes
  <2>6. SumFunctionOnSet(Sizes(T), names)
           = Sizes(T)[key[x]] + SumFunctionOnSet(Sizes(T), others)
    BY <1>1, <2>2, <2>5, SumAdd
  <2>7. SumFunctionOnSet(Sizes(U), names)
           = Sizes(U)[key[x]] + SumFunctionOnSet(Sizes(U), others)
    <3>1. \A m \in names : Sizes(U)[m] \in Int
      BY <2>5
    <3>. HIDE DEF U
    <3>. QED
      BY <1>1, <2>2, <3>1, SumAdd
  <2>8. SumFunctionOnSet(Sizes(T), others) = SumFunctionOnSet(Sizes(U), others)
    <3>1. \A m \in others : Sizes(T)[m] \in Int /\ Sizes(U)[m] = Sizes(T)[m]
      BY <2>4, <2>5
    <3>. HIDE DEF others, U
    <3>. QED
      BY <2>2, <3>1, SumSame
  <2>9. SumFunctionOnSet(Sizes(T), others) \in Int
    <3>1. \A m \in others : Sizes(T)[m] \in Int
      BY <2>5
    <3>. HIDE DEF others
    <3>. QED
      BY <2>2, <3>1, SumIsInt
  <2>10. SumFunctionOnSet(Sizes(T), names) = Cardinality(T)
    BY <1>4
  <2>11. SumFunctionOnSet(Sizes(U), names) = Cardinality(U)
    <3>. HIDE DEF others, U
    <3>. QED
      BY <2>1, <2>2, <2>3, <2>5, <2>6, <2>7, <2>8, <2>9, <2>10
  <2>. QED
    BY <2>11
<1>5. S \in P
  <2>. HIDE DEF P
  <2>. QED
    BY <1>3, <1>4, FiniteInduction
<1>. QED
  BY <1>5

-----------------------------------------------------------------------------
(* What the readers are told.                                              *)

\* The places that are promised can all be taken: tables that are available
\* are empty, and any number of guests up to their capacities fits.
LEMMA PlacesFree ==
    ASSUME SeatingInv
    PROVE  PlacesAreFree
<1>. SUFFICES ASSUME NEW n \in 1..MaxParty, Availability(n).isTableAvailable
              PROVE  \E counts \in [TableIds -> 0..MaxParty] :
                        /\ Guests(counts) = n
                        /\ \A t \in TableIds : counts[t] > 0 =>
                              Live(t) /\ CanAssignGuests(table[t], counts[t])
  BY DEF PlacesAreFree
<1>. DEFINE cap == [t \in AvailableTables |-> table[t].capacity]
<1>1. IsFiniteSet(TableIds) /\ MaxParty \in Nat
  BY TableSeatingAssumption
<1>2. AvailableTables \in SUBSET TableIds
  BY DEF AvailableTables, StatusIs
<1>3. ASSUME NEW t \in AvailableTables
      PROVE  /\ Live(t) /\ table[t].status = "AVAILABLE" /\ table[t].occupancy = 0
             /\ cap[t] \in Nat /\ table[t].capacity = cap[t]
  <2>1. Live(t) /\ table[t].status = "AVAILABLE" /\ t \in TableIds
    BY <1>3 DEF AvailableTables, StatusIs
  <2>2. table[t] \in TableRow /\ ConsistentRow(table[t])
    BY <2>1 DEF SeatingInv, TypeOK, StatusMatchesOccupancy, Live
  <2>3. /\ table[t].occupancy \in Nat /\ table[t].capacity \in Nat \ {0}
    BY <2>2, TableRowFields
  <2>4. table[t].occupancy = 0
    BY <2>1, <2>2, <2>3 DEF ConsistentRow
  <2>. QED
    BY <2>1, <2>3, <2>4
<1>4. n \in Nat /\ n <= SumFunctionOnSet(cap, AvailableTables)
  <2>1. n \in Nat /\ n <= Places
    <3>1. Availability(n).isTableAvailable = (n <= Places)
      BY Zenon DEF Availability
    <3>2. n <= Places
      BY <3>1, Zenon
    <3>. QED
      BY <1>1, <3>2
  <2>2. DOMAIN cap = AvailableTables
    OBVIOUS
  <2>3. Places = SumFunction(cap)
    BY DEF Places
  <2>. HIDE DEF cap
  <2>. QED
    BY <2>1, <2>2, <2>3 DEF SumFunction
<1>5. PICK c \in [TableIds -> 0..n] :
         /\ SumFunctionOnSet(c, TableIds) = n
         /\ \A t \in TableIds : c[t] > 0 => t \in AvailableTables /\ c[t] <= cap[t]
  <2>1. \A t \in AvailableTables : cap[t] \in Nat
    BY <1>3
  <2>2. IsFiniteSet(TableIds)
    BY <1>1
  <2>. HIDE DEF cap
  <2>. QED
    BY <1>2, <1>4, <2>1, <2>2, SumSplits
<1>6. c \in [TableIds -> 0..MaxParty]
  BY <1>1, <1>5
<1>7. Guests(c) = n
  <2>1. DOMAIN c = TableIds
    BY <1>5
  <2>. QED
    BY <1>5, <2>1 DEF Guests, SumFunction
<1>8. ASSUME NEW t \in TableIds, c[t] > 0
      PROVE  Live(t) /\ CanAssignGuests(table[t], c[t])
  <2>1. t \in AvailableTables /\ c[t] <= cap[t] /\ c[t] \in Nat
    BY <1>5, <1>8
  <2>. QED
    BY <1>3, <2>1 DEF CanAssignGuests
<1>. QED
  BY <1>6, <1>7, <1>8

\* The staff's page has one entry for each live table: two of them differ at
\* least in their codes.
LEMMA GroupSize ==
    ASSUME SeatingInv, NEW G, G \subseteq StatusIs(Statuses)
    PROVE  Cardinality(UNION {Details(t) : t \in G}) = Cardinality(G)
<1>. DEFINE entry == [t \in G |-> [table |-> table[t], sectionName |-> SectionName(t)]]
            entries == UNION {Details(t) : t \in G}
<1>1. IsFiniteSet(G)
  <2>1. G \subseteq TableIds
    BY DEF StatusIs
  <2>. QED
    BY <2>1, FS_Subset, TableSeatingAssumption
<1>2. \A t \in G : t \in TableIds /\ Live(t)
  BY DEF StatusIs
<1>3. \A t \in G : Details(t) = {entry[t]}
  BY <1>2 DEF Details
<1>4. entries = {entry[t] : t \in G}
  BY <1>3
<1>5. \A t, u \in G : entry[t] = entry[u] => t = u
  <2>. SUFFICES ASSUME NEW t \in G, NEW u \in G, entry[t] = entry[u]
                PROVE  t = u
    OBVIOUS
  <2>1. entry[t].table = table[t] /\ entry[u].table = table[u]
    OBVIOUS
  <2>2. table[t] = table[u]
    BY <2>1
  <2>. QED
    BY <1>2, <2>2 DEF SeatingInv, UniqueLiveCodes, CodesUniqueIn, Live
<1>6. entry \in Injection(G, entries) /\ entry \in Surjection(G, entries)
  <2>. HIDE DEF entries
  <2>1. entry \in [G -> entries]
    BY <1>4
  <2>2. \A e \in entries : \E t \in G : entry[t] = e
    BY <1>4
  <2>. HIDE DEF entry
  <2>. QED
    BY <1>5, <2>1, <2>2 DEF Injection, IsInjective, Surjection
<1>. HIDE DEF entry, entries
<1>7. Cardinality(entries) = Cardinality(G)
  BY <1>1, <1>6, FS_Surjection
<1>. QED
  BY <1>7 DEF entries

LEMMA PagesTrue ==
    ASSUME SeatingInv
    PROVE  PagesAreTrue
<1>. DEFINE live == StatusIs(Statuses)
            taken == {t \in TableIds : Live(t) /\ table[t].occupancy > 0}
            free == {t \in TableIds : Live(t) /\ table[t].occupancy = 0}
<1>1. ASSUME NEW t \in TableIds, Live(t)
      PROVE  /\ table[t].status \in Statuses
             /\ table[t].status \in {"OCCUPIED", "PARTIAL_OCCUPIED"}
                  <=> table[t].occupancy > 0
             /\ table[t].occupancy \in Nat
  <2>1. table[t] \in TableRow /\ ConsistentRow(table[t])
    BY <1>1 DEF SeatingInv, TypeOK, StatusMatchesOccupancy, Live
  <2>2. /\ table[t].occupancy \in Nat /\ table[t].capacity \in Nat \ {0}
    BY <2>1, TableRowFields
  <2>3. table[t].status \in Statuses
    BY <2>1 DEF TableRow
  <2>4. table[t].status = "OCCUPIED" <=> table[t].occupancy = table[t].capacity
    BY <2>1 DEF ConsistentRow
  <2>5. table[t].status = "PARTIAL_OCCUPIED"
           <=> table[t].occupancy > 0 /\ table[t].occupancy < table[t].capacity
    BY <2>1, <2>2 DEF ConsistentRow
  <2>6. table[t].occupancy <= table[t].capacity
    BY <2>1 DEF ConsistentRow
  <2>7. \/ table[t].occupancy = 0
        \/ table[t].occupancy > 0 /\ table[t].occupancy < table[t].capacity
        \/ table[t].occupancy > 0 /\ table[t].occupancy = table[t].capacity
    BY <2>2, <2>6
  <2>. QED
    BY <2>2, <2>3, <2>4, <2>5, <2>7
<1>2. TableStats.occupied = Cardinality(taken)
  <2>1. StatusIs({"OCCUPIED", "PARTIAL_OCCUPIED"}) = taken
    BY <1>1 DEF StatusIs
  <2>. QED
    BY <2>1 DEF TableStats
<1>3. TableStats.available + TableStats.maintenance = Cardinality(free)
  <2>. DEFINE a == StatusIs({"AVAILABLE"})
              m == StatusIs({"MAINTENANCE"})
  <2>1. IsFiniteSet(a) /\ IsFiniteSet(m)
    BY FS_Subset, TableSeatingAssumption DEF StatusIs
  <2>2. a \cap m = {}
    BY DEF StatusIs
  <2>3. a \cup m = free
    BY <1>1 DEF StatusIs, Statuses
  <2>4. Cardinality(a) \in Nat /\ Cardinality(m) \in Nat
    BY <2>1, FS_CardinalityType
  <2>5. Cardinality(a \cup m) = Cardinality(a) + Cardinality(m)
    <3>1. Cardinality(a \cup m) = Cardinality(a) + Cardinality(m) - Cardinality(a \cap m)
      BY <2>1, FS_Union
    <3>. HIDE DEF a, m
    <3>. QED
      BY <2>2, <2>4, <3>1, FS_EmptySet
  <2>. QED
    BY <2>3, <2>5 DEF TableStats
<1>4. TableStats.totalTables =
         SumFunction([n \in DOMAIN StaffPage |-> Cardinality(StaffPage[n])])
  <2>. DEFINE key == [t \in live |-> SectionName(t)]
              names == {key[t] : t \in live}
              Group(n) == {t \in live : key[t] = n}
              sizes == [n \in names |-> Cardinality(Group(n))]
  <2>1. IsFiniteSet(live)
    BY FS_Subset, TableSeatingAssumption DEF StatusIs
  <2>2. SumFunctionOnSet(sizes, names) = Cardinality(live)
    <3>. HIDE DEF key, live
    <3>. QED
      BY <2>1, GroupsAddUp
  <2>3. DOMAIN StaffPage = names
    BY DEF StaffPage, TablesBySection
  <2>4. ASSUME NEW n \in names
        PROVE  Cardinality(StaffPage[n]) = Cardinality(Group(n))
    <3>1. TablesBySection[n] = Group(n) /\ n \in DOMAIN TablesBySection
      BY <2>4 DEF TablesBySection
    <3>2. StaffPage[n] = UNION {Details(t) : t \in Group(n)}
      <4>. HIDE DEF Group, names
      <4>. QED
        BY <3>1 DEF StaffPage
    <3>3. Group(n) \subseteq StatusIs(Statuses)
      OBVIOUS
    <3>. HIDE DEF Group
    <3>. QED
      BY <3>2, <3>3, GroupSize
  <2>5. [n \in DOMAIN StaffPage |-> Cardinality(StaffPage[n])] = sizes
    <3>. HIDE DEF Group, names
    <3>. QED
      BY <2>3, <2>4
  <2>6. DOMAIN sizes = names
    OBVIOUS
  <2>. HIDE DEF sizes, names
  <2>. QED
    BY <2>2, <2>5, <2>6 DEF TableStats, SumFunction
<1>. QED
  BY <1>2, <1>3, <1>4 DEF PagesAreTrue

\* What the readers are told is true at all times: whoever is told that there
\* is place can be seated at once, the owner's page counts as occupied the
\* tables with guests, and no table is missing there or on the staff's page.
THEOREM AnswersAlwaysTrue == Spec => []AnswersAreTrue
<1>1. SeatingInv => AnswersAreTrue
  BY PlacesFree, PagesTrue DEF AnswersAreTrue
<1>. QED
  BY <1>1, SeatingInvariant, PTL

=============================================================================
