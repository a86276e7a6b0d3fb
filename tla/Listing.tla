------------------------------- MODULE Listing -------------------------------
(***************************************************************************)
(* The lists that the service answers page by page.  A client walks from   *)
(* page 1 to the last; each page is an HTTP request of its own, answered   *)
(* by two database queries of their own, the rows of the page and the      *)
(* number of rows in all, while other requests write the rows.  The nine   *)
(* lists differ in the sorts they offer and in how they order the rows.    *)
(***************************************************************************)
EXTENDS Integers, SequencesExt

CONSTANTS
    Lists,          \* the lists that are walked
    Ids,            \* primary keys, in the order of the database
    Values,         \* values of a column that is neither id nor date
    MaxLimit,       \* MAX_LIMIT, MAX_PAGE_SIZE, PAGINATION_MAX_LIMIT
    MaxWrites,      \* bound on the writes during a walk
    NoRow

VARIABLES
    rows,           \* the table behind the list
    writes,         \* the number of writes since the walk began
    query,          \* the order and the size of the pages of the walk
    page,           \* the number of the page the client asks for
    answer,         \* what the two queries of the request have returned
    seen,           \* how many times the client was shown each row
    first,          \* the rows on the list when the walk began
    events,         \* what has happened to the list since then
    isTorn,         \* and whether it did between the two queries
    pc

walkVars == <<rows, writes, query, page, answer, seen, first, events, isTorn, pc>>

AllLists == {"menuItems", "staffMenu", "restaurants", "applications",
             "customerRestaurants", "staff", "invitations", "tables", "sections"}

\* value stands for any other column: the name, the price, the status, the
\* city, the code, updatedAt; matches, for what the where of the list says.
Row == [createdAt : Nat, value : Values, matches : BOOLEAN]

Columns == {"createdAt", "value"}
SortOrders == {"asc", "desc"}

ASSUME ListingAssumption ==
    /\ Ids \subseteq Nat /\ IsFiniteSet(Ids)
    /\ Values \subseteq Nat
    /\ MaxLimit \in Nat \ {0}
    /\ MaxWrites \in Nat
    /\ Lists \subseteq AllLists
    /\ NoRow \notin Row

-----------------------------------------------------------------------------
(* The sorts that a client may ask for, as the validators let them through *)
(* or the use cases put them.                                              *)

MenuItemsSorts == Columns \X SortOrders
StaffMenuSorts == (Columns \cup {"displayOrder"}) \X SortOrders
RestaurantsSorts == Columns \X SortOrders
ApplicationsSorts == Columns \X SortOrders
CustomerRestaurantsSorts == Columns \X SortOrders
StaffSorts == {"createdAt"} \X SortOrders
InvitationsSorts == Columns \X SortOrders
TablesSorts == {<<"value", "asc">>}
SectionsSorts == {<<"createdAt", "desc">>}

Sorts(list) ==
    CASE list = "menuItems"           -> MenuItemsSorts
      [] list = "staffMenu"           -> StaffMenuSorts
      [] list = "restaurants"         -> RestaurantsSorts
      [] list = "applications"        -> ApplicationsSorts
      [] list = "customerRestaurants" -> CustomerRestaurantsSorts
      [] list = "staff"               -> StaffSorts
      [] list = "invitations"         -> InvitationsSorts
      [] list = "tables"              -> TablesSorts
      [] list = "sections"            -> SectionsSorts

-----------------------------------------------------------------------------
(* What the use cases and the repositories make of a request.              *)

Least(m, n) == IF m <= n THEN m ELSE n

Clamped(d) == [d EXCEPT !.limit = Least(@, MaxLimit)]

\* The use cases: five of them clamp the limit once more.
ListMenuItems(d) == Clamped(d)
ListStaffMenuItems(d) == Clamped(d)
ListRestaurants(d) == d
ListRestaurantApplications(d) == d
ListCustomerRestaurants(d) == Clamped(d)
ListStaffMembers(d) == Clamped(d)
ListStaffInvitations(d) == d
GetTables(d) == d
GetTableSections(d) == d

Page(d, columns) ==
    [orderBy |-> columns, sortOrder |-> d.sortOrder, take |-> d.limit]

\* findPaginated
Paginated(d, columns) == Page(Clamped(d), columns)

\* The repositories: the columns that order the rows, the first one as the
\* client asks, the others ascending.  Only tables and sections end with id.
MenuItemsPage(d) == Page(d, <<d.sortBy>>)
StaffMenuPage(d) == Page(d, IF d.sortBy = "displayOrder"
                            THEN <<"value", "createdAt">> ELSE <<d.sortBy>>)
RestaurantsPage(d) == Page(d, <<d.sortBy>>)
ApplicationsPage(d) == Page(d, <<d.sortBy>>)
CustomerRestaurantsPage(d) == Page(d, <<d.sortBy>>)
StaffPage(d) == Page(d, <<d.sortBy>>)
InvitationsPage(d) == Page(d, <<d.sortBy>>)
TablesPage(d) == Page(d, <<d.sortBy, "id">>)
SectionsPage(d) == Paginated(d, <<d.sortBy, "id">>)

QueryOf(d) ==
    CASE d.list = "menuItems"    -> MenuItemsPage(ListMenuItems(d))
      [] d.list = "staffMenu"    -> StaffMenuPage(ListStaffMenuItems(d))
      [] d.list = "restaurants"  -> RestaurantsPage(ListRestaurants(d))
      [] d.list = "applications" -> ApplicationsPage(ListRestaurantApplications(d))
      [] d.list = "customerRestaurants"
                                 -> CustomerRestaurantsPage(ListCustomerRestaurants(d))
      [] d.list = "staff"        -> StaffPage(ListStaffMembers(d))
      [] d.list = "invitations"  -> InvitationsPage(ListStaffInvitations(d))
      [] d.list = "tables"       -> TablesPage(GetTables(d))
      [] d.list = "sections"     -> SectionsPage(GetTableSections(d))

\* Slip: a last page that is not full not counted.
TotalPagesRoundedDown(total, limit) == total \div limit

TotalPages(total, limit) == (total + limit - 1) \div limit

HasNextPage == page < TotalPages(answer.total, query.take)

-----------------------------------------------------------------------------
(* What the database makes of a query.                                     *)

OnList == {i \in Ids : rows[i] # NoRow /\ rows[i].matches}

Cell(i, column) == IF column = "id" THEN i ELSE rows[i][column]

\* Row i comes before row j; neither does, if they tie.
ComesBefore(i, j) ==
    LET columns == query.orderBy
    IN  \E k \in 1..Len(columns) :
            /\ \A m \in 1..k - 1 : Cell(i, columns[m]) = Cell(j, columns[m])
            /\ IF k = 1 /\ query.sortOrder = "desc"
               THEN Cell(i, columns[k]) > Cell(j, columns[k])
               ELSE Cell(i, columns[k]) < Cell(j, columns[k])

\* Rows that tie come in any order, in another one at the next query.
Orderings ==
    {s \in SetToSeqs(OnList) : \A m, n \in 1..Len(s) : ComesBefore(s[m], s[n]) => m < n}

\* Slip: the rows of the pages before counted from page 1.
SkipOnePage == page * query.take

Skip == (page - 1) * query.take

NoAnswer == [page |-> {}, total |-> 0, has |-> {}]

\* The two queries of one request, in either order.
QueryPage ==
    /\ pc = "asked"
    /\ "page" \notin answer.has
    /\ \E s \in Orderings :
          answer' = [answer EXCEPT
                        !.has = @ \cup {"page"},
                        !.page = {s[n] : n \in Skip + 1..Least(Skip + query.take, Len(s))}]
    /\ UNCHANGED <<rows, writes, query, page, seen, first, events, isTorn, pc>>

QueryTotal ==
    /\ pc = "asked"
    /\ "total" \notin answer.has
    /\ answer' = [answer EXCEPT !.has = @ \cup {"total"},
                                !.total = Cardinality(OnList)]
    /\ UNCHANGED <<rows, writes, query, page, seen, first, events, isTorn, pc>>

\* The answer reaches the client, who asks for the next page if there is one.
Answer ==
    /\ pc = "asked"
    /\ answer.has = {"page", "total"}
    /\ seen' = [i \in Ids |-> IF i \in answer.page THEN seen[i] + 1 ELSE seen[i]]
    /\ IF HasNextPage
       THEN /\ page' = page + 1
            /\ answer' = NoAnswer
            /\ isTorn' = FALSE
            /\ UNCHANGED pc
       ELSE /\ pc' = "done"
            /\ UNCHANGED <<page, answer, isTorn>>
    /\ UNCHANGED <<rows, writes, query, first, events>>

\* The request fails (a query rejects, the restaurant was blocked meanwhile)
\* and the client asks for the same page again.
Fail ==
    /\ pc = "asked"
    /\ answer' = NoAnswer
    /\ isTorn' = FALSE
    /\ UNCHANGED <<rows, writes, query, page, seen, first, events, pc>>

-----------------------------------------------------------------------------
(* Other requests write the rows.                                          *)

Now == 3 + writes

\* Row i becomes row.  The walk has begun: before, nothing is to be missed.
Write(i, row, event) ==
    /\ pc = "asked"
    /\ page > 1 \/ answer.has # {}
    /\ row # rows[i]
    /\ writes < MaxWrites
    /\ writes' = writes + 1
    /\ rows' = [rows EXCEPT ![i] = row]
    /\ events' = events \cup {event}
    /\ isTorn' = (isTorn \/ (answer.has # {} /\ event # "edited"))
    /\ UNCHANGED <<query, page, answer, seen, first, pc>>

Insert(i) ==
    /\ rows[i] = NoRow
    /\ \E v \in Values :
          Write(i, [createdAt |-> Now, value |-> v, matches |-> TRUE], "entered")

\* An update of any columns, a soft deletion, a change of status.
Update(i) ==
    /\ rows[i] # NoRow
    /\ \E v \in Values, b \in BOOLEAN :
          Write(i, [rows[i] EXCEPT !.value = v, !.matches = b],
                IF b = rows[i].matches THEN "edited"
                ELSE IF b THEN "entered" ELSE "left")

-----------------------------------------------------------------------------
WalkInit ==
    /\ rows \in [Ids -> {r \in [createdAt : 1..2, value : Values, matches : BOOLEAN] :
                            r.matches \/ r.value = r.createdAt} \cup {NoRow}]
    /\ writes = 0
    /\ \E l \in Lists, n \in 1..MaxLimit : \E s \in Sorts(l) :
          query = QueryOf([list |-> l, limit |-> n,
                           sortBy |-> s[1], sortOrder |-> s[2]])
    /\ page = 1
    /\ answer = NoAnswer
    /\ seen = [i \in Ids |-> 0]
    /\ first = OnList
    /\ events = {}
    /\ isTorn = FALSE
    /\ pc = "asked"

WalkNext ==
    \/ QueryPage \/ QueryTotal \/ Answer \/ Fail
    \/ \E i \in Ids : Insert(i) \/ Update(i)

WalkSpec == WalkInit /\ [][WalkNext]_walkVars

-----------------------------------------------------------------------------
WalkTypeOK ==
    /\ rows \in [Ids -> Row \cup {NoRow}]
    /\ writes \in 0..MaxWrites
    /\ query \in [orderBy : Seq(Columns \cup {"id"}), sortOrder : SortOrders,
                  take : 1..MaxLimit]
    /\ page \in Nat \ {0}
    /\ answer \in [page : SUBSET Ids, total : Nat, has : SUBSET {"page", "total"}]
    /\ seen \in [Ids -> Nat]
    /\ first \subseteq Ids
    /\ events \subseteq {"entered", "left", "edited"}
    /\ isTorn \in BOOLEAN
    /\ pc \in {"asked", "done"}

\* The rows of a page and the number of rows that is told with them agree,
\* unless a row entered or left the list between the two queries.
PageAndTotalAgree ==
    answer.has = {"page", "total"} /\ ~isTorn =>
        LET before == Least((page - 1) * query.take, answer.total)
        IN  Cardinality(answer.page) = Least(query.take, answer.total - before)

ListingInv == WalkTypeOK /\ PageAndTotalAgree

HasTies == \E i, j \in OnList : i # j /\ ~ComesBefore(i, j) /\ ~ComesBefore(j, i)

\* No write changes the order of two rows.
HasFixedOrder == query.orderBy[1] = "createdAt"

\* A walk during which no row enters or leaves the list, and none moves, shows
\* every row once: on tables and sections always, on the other lists only if
\* no two rows tie in the column they are ordered by.
QuietWalkShowsEachOnce ==
    pc = "done" /\ ~HasTies /\ (events = {} \/ (events = {"edited"} /\ HasFixedOrder))
        => \A i \in Ids : seen[i] = IF i \in OnList THEN 1 ELSE 0

\* A walk in the order of creation, in which no two rows tie, misses no row
\* that was on the list from beginning to end, whatever enters meanwhile and
\* wherever: provided that nothing leaves, and that the number of rows told
\* with the last page is not older than an entry that the page shows.
WalkMissesNothing ==
    pc = "done" /\ ~HasTies /\ HasFixedOrder /\ "left" \notin events /\ ~isTorn
        => \A i \in first : seen[i] > 0

\* A walk shows what it should: every row once if the list keeps still, and
\* every row that stays if rows enter.
WalksAreSound == QuietWalkShowsEachOnce /\ WalkMissesNothing
=============================================================================
