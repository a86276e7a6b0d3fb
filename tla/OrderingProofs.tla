--------------------------- MODULE OrderingProofs ---------------------------
(***************************************************************************)
(* What the service puts in order: the pages of a list, so that a walk     *)
(* from the first to the last shows what it should, and the categories of  *)
(* a menu, of which every step of a transaction is a step of the board.    *)
(***************************************************************************)
EXTENDS Listing, MenuCatalog, FiniteSetTheorems, SequenceTheorems, TLAPS

-----------------------------------------------------------------------------
(* Pages.                                                                  *)

\* Least and division, on the numbers that a walk meets.
LEMMA WindowFacts ==
    ASSUME NEW p \in Nat \ {0}, NEW t \in Nat \ {0}
    PROVE  /\ (p - 1) * t \in Nat
           /\ p * t \in Nat
           /\ p * t = (p - 1) * t + t
  OBVIOUS

LEMMA PagesCoverRows ==
    ASSUME NEW n \in Nat, NEW p \in Nat \ {0}, NEW t \in Nat \ {0},
           ~(p < TotalPages(n, t))
    PROVE  n <= p * t
<1>. DEFINE q == (n + t - 1) \div t
<1>1. q \in Int /\ n + t - 1 < (q + 1) * t
  OBVIOUS
<1>2. q <= p
  BY <1>1 DEF TotalPages
<1>3. (q + 1) * t <= (p + 1) * t
  BY <1>1, <1>2
<1>. QED
  BY <1>1, <1>3

\* What orders the rows of the lists.
OrderBys == {<<"createdAt">>, <<"value">>, <<"value", "createdAt">>,
             <<"createdAt", "id">>, <<"value", "id">>}

Query == [orderBy : OrderBys, sortOrder : SortOrders, take : 1..MaxLimit]

Asked == [list : AllLists, limit : 1..MaxLimit,
          sortBy : Columns \cup {"displayOrder"}, sortOrder : SortOrders]

LEMMA PageFacts ==
    ASSUME NEW d \in Asked, NEW columns \in OrderBys
    PROVE  /\ Page(d, columns) \in Query
           /\ Page(d, columns).orderBy = columns
  BY DEF Page, Query, Asked

LEMMA ClampedFacts ==
    ASSUME NEW d \in Asked
    PROVE  /\ Clamped(d) \in Asked
           /\ Clamped(d).list = d.list /\ Clamped(d).sortBy = d.sortBy
  BY ListingAssumption DEF Clamped, Asked, Least

LEMMA SortsFacts ==
    ASSUME NEW l \in AllLists, NEW s \in Sorts(l)
    PROVE  /\ s[1] \in Columns \cup (IF l = "staffMenu" THEN {"displayOrder"} ELSE {})
           /\ s[2] \in SortOrders
  BY DEF Sorts, AllLists, MenuItemsSorts, StaffMenuSorts, RestaurantsSorts, ApplicationsSorts,
     CustomerRestaurantsSorts, StaffSorts, InvitationsSorts, TablesSorts, SectionsSorts,
     Columns, SortOrders

LEMMA QueriesKnown ==
    ASSUME NEW d \in Asked, d.sortBy = "displayOrder" => d.list = "staffMenu"
    PROVE  QueryOf(d) \in Query
<1>1. \A c \in Columns : <<c>> \in OrderBys /\ <<c, "id">> \in OrderBys
  BY DEF Columns, OrderBys
<1>2. d.list \in AllLists /\ d.sortBy \in Columns \cup {"displayOrder"}
  BY DEF Asked
<1>3. CASE d.list = "menuItems"
  BY <1>1, <1>2, <1>3, PageFacts, ClampedFacts DEF QueryOf, MenuItemsPage, ListMenuItems
<1>4. CASE d.list = "staffMenu"
  <2>1. <<"value", "createdAt">> \in OrderBys
    BY DEF OrderBys
  <2>. QED
    BY <1>1, <1>2, <1>4, <2>1, PageFacts, ClampedFacts
       DEF QueryOf, StaffMenuPage, ListStaffMenuItems
<1>5. CASE d.list = "restaurants"
  BY <1>1, <1>2, <1>5, PageFacts DEF QueryOf, RestaurantsPage, ListRestaurants
<1>6. CASE d.list = "applications"
  BY <1>1, <1>2, <1>6, PageFacts DEF QueryOf, ApplicationsPage, ListRestaurantApplications
<1>7. CASE d.list = "customerRestaurants"
  BY <1>1, <1>2, <1>7, PageFacts, ClampedFacts
     DEF QueryOf, CustomerRestaurantsPage, ListCustomerRestaurants
<1>8. CASE d.list = "staff"
  BY <1>1, <1>2, <1>8, PageFacts, ClampedFacts DEF QueryOf, StaffPage, ListStaffMembers
<1>9. CASE d.list = "invitations"
  BY <1>1, <1>2, <1>9, PageFacts DEF QueryOf, InvitationsPage, ListStaffInvitations
<1>10. CASE d.list = "tables"
  BY <1>1, <1>2, <1>10, PageFacts DEF QueryOf, TablesPage, GetTables
<1>11. CASE d.list = "sections"
  BY <1>1, <1>2, <1>11, PageFacts, ClampedFacts
     DEF QueryOf, SectionsPage, GetTableSections, Paginated
<1>. QED
  BY <1>2, <1>3, <1>4, <1>5, <1>6, <1>7, <1>8, <1>9, <1>10, <1>11 DEF AllLists

LEMMA InitQuery == WalkInit => query \in Query
<1>. SUFFICES ASSUME NEW l \in Lists, NEW n \in 1..MaxLimit, NEW s \in Sorts(l)
              PROVE  QueryOf([list |-> l, limit |-> n, sortBy |-> s[1], sortOrder |-> s[2]])
                        \in Query
  BY DEF WalkInit
<1>. DEFINE d == [list |-> l, limit |-> n, sortBy |-> s[1], sortOrder |-> s[2]]
<1>1. l \in AllLists
  BY ListingAssumption
<1>2. d \in Asked /\ (d.sortBy = "displayOrder" => d.list = "staffMenu")
  BY <1>1, SortsFacts DEF Asked, Columns
<1>. QED
  BY <1>2, QueriesKnown

-----------------------------------------------------------------------------
(* Positions.                                                              *)

LEMMA IntervalCount ==
    ASSUME NEW m \in Nat, NEW n \in Nat
    PROVE  /\ IsFiniteSet(m..n)
           /\ m <= n + 1 => Cardinality(m..n) = n + 1 - m
<1>1. IsFiniteSet(m..n) /\ Cardinality(m..n) = IF m > n THEN 0 ELSE n - m + 1
  BY FS_Interval
<1>. QED
  BY <1>1

RowsAt(s, A) == {s[k] : k \in A}

\* Distinct positions hold distinct rows.
LEMMA RowsAtCount ==
    ASSUME NEW n \in Nat, NEW S, NEW s \in Injection(1..n, S), NEW A \in SUBSET (1..n)
    PROVE  IsFiniteSet(RowsAt(s, A)) /\ Cardinality(RowsAt(s, A)) = Cardinality(A)
<1>. DEFINE f == [k \in A |-> s[k]]
<1>1. IsFiniteSet(A)
  <2>1. IsFiniteSet(1..n)
    BY IntervalCount
  <2>. QED
    BY <2>1, FS_Subset
<1>2. f \in Bijection(A, RowsAt(s, A))
  BY DEF Bijection, Injection, Surjection, IsInjective, RowsAt
<1>. QED
  BY <1>1, <1>2, FS_Bijection DEF ExistsBijection

LEMMA InjectionCovers ==
    ASSUME NEW S, IsFiniteSet(S), NEW s \in Injection(1..Cardinality(S), S)
    PROVE  \A x \in S : \E k \in 1..Cardinality(S) : s[k] = x
<1>1. Cardinality(S) \in Nat
  BY FS_CardinalityType
<1>2. Cardinality(1..Cardinality(S)) = Cardinality(S)
  BY <1>1, IntervalCount
<1>3. s \in Surjection(1..Cardinality(S), S)
  BY <1>2, FS_Injection
<1>. QED
  BY <1>3 DEF Surjection

\* The rows before row i, in whatever order the database takes those that tie.
Ahead(i) == {j \in OnList : ComesBefore(j, i)}
Place(i) == Cardinality(Ahead(i))

LEMMA OnListFinite ==
    /\ OnList \subseteq Ids /\ IsFiniteSet(OnList)
    /\ Cardinality(OnList) \in Nat
  BY ListingAssumption, FS_Subset, FS_CardinalityType DEF OnList

LEMMA PlaceFacts ==
    ASSUME NEW i
    PROVE  IsFiniteSet(Ahead(i)) /\ Place(i) \in Nat
  BY OnListFinite, FS_Subset, FS_CardinalityType DEF Ahead, Place

LEMMA OrderingFacts ==
    ASSUME NEW s \in Orderings
    PROVE  LET n == Cardinality(OnList)
           IN  /\ s \in Injection(1..n, OnList)
               /\ Len(s) = n
               /\ \A i, j \in 1..n : ComesBefore(s[i], s[j]) => i < j
               /\ \A i \in OnList : \E k \in 1..n : s[k] = i
<1>. DEFINE n == Cardinality(OnList)
<1>1. n \in Nat
  BY OnListFinite
<1>2. /\ s \in [1..n -> OnList]
      /\ \A i, j \in 1..n : i # j => s[i] # s[j]
      /\ \A i, j \in 1..Len(s) : ComesBefore(s[i], s[j]) => i < j
  BY DEF Orderings, SetToSeqs
<1>3. Len(s) = n
  BY <1>1, <1>2
<1>4. s \in Injection(1..n, OnList)
  BY <1>2 DEF Injection, IsInjective
<1>5. \A i \in OnList : \E k \in 1..n : s[k] = i
  BY <1>4, OnListFinite, InjectionCovers
<1>. QED
  BY <1>2, <1>3, <1>4, <1>5

\* If no rows tie, the order of the list is the only one there is.
LEMMA Positions ==
    ASSUME ~HasTies, NEW s \in Orderings, NEW k \in 1..Cardinality(OnList)
    PROVE  Place(s[k]) = k - 1
<1>. DEFINE n == Cardinality(OnList)
<1>1. n \in Nat
  BY OnListFinite
<1>2. /\ s \in Injection(1..n, OnList)
      /\ \A i, j \in 1..n : ComesBefore(s[i], s[j]) => i < j
      /\ \A i \in OnList : \E j \in 1..n : s[j] = i
  BY OrderingFacts
<1>3. /\ s \in [1..n -> OnList]
      /\ \A i, j \in 1..n : i # j => s[i] # s[j]
  BY <1>2 DEF Injection, IsInjective
<1>4. \A j \in 1..n : ComesBefore(s[j], s[k]) <=> j \in 1..k - 1
  BY <1>1, <1>2, <1>3 DEF HasTies
<1>5. Ahead(s[k]) = RowsAt(s, 1..k - 1)
  BY <1>1, <1>2, <1>3, <1>4 DEF Ahead, RowsAt
<1>6. k - 1 \in Nat /\ k - 1 <= n
  BY <1>1
<1>7. 1..k - 1 \in SUBSET (1..n) /\ Cardinality(1..k - 1) = k - 1
  BY <1>1, <1>6, IntervalCount
<1>. QED
  BY <1>1, <1>2, <1>5, <1>7, RowsAtCount DEF Place

LEMMA PlaceOnList ==
    ASSUME ~HasTies, NEW s \in Orderings, NEW i \in OnList
    PROVE  /\ Place(i) < Cardinality(OnList)
           /\ Place(i) + 1 \in 1..Cardinality(OnList)
           /\ s[Place(i) + 1] = i
<1>1. PICK k \in 1..Cardinality(OnList) : s[k] = i
  BY OrderingFacts
<1>. QED
  BY <1>1, Positions, OnListFinite

-----------------------------------------------------------------------------
(* Walks.                                                                  *)

Count == Cardinality(OnList)

\* The rows of the page that is asked for, if no two tie.
Window == {i \in OnList : Skip <= Place(i) /\ Place(i) < Skip + query.take}

\* What the answer tells is true of the list, unless a row came or went.
ToldInv ==
    ~isTorn =>
        /\ "total" \in answer.has => answer.total = Count
        /\ "page" \in answer.has =>
              Cardinality(answer.page) = Least(query.take, Count - Least(Skip, Count))

TornInv == isTorn => events \cap {"entered", "left"} # {}

\* While nothing moves, the client has been shown the rows before the page.
IsQuiet == ~HasTies /\ (events = {} \/ (events = {"edited"} /\ HasFixedOrder))
QuietInv ==
    IsQuiet =>
        /\ pc = "asked" =>
              /\ \A i \in Ids : seen[i] = IF i \in OnList /\ Place(i) < Skip THEN 1 ELSE 0
              /\ "page" \in answer.has => answer.page = Window
        /\ pc = "done" => \A i \in Ids : seen[i] = IF i \in OnList THEN 1 ELSE 0

\* While rows only come, those of the beginning move towards the end, and
\* never behind the page.
OnlyGrows == ~HasTies /\ HasFixedOrder /\ "left" \notin events
GrowsInv ==
    OnlyGrows =>
        /\ first \subseteq OnList
        /\ pc = "asked" => \A i \in first : seen[i] > 0 \/ Skip <= Place(i)
        /\ pc = "asked" /\ "page" \in answer.has =>
              \A i \in first : seen[i] > 0 \/ i \in answer.page \/ Skip + query.take <= Place(i)
        /\ pc = "done" /\ ~isTorn => \A i \in first : seen[i] > 0

WalkInv == WalkTypeOK /\ query \in Query /\ ToldInv /\ TornInv /\ QuietInv /\ GrowsInv

LEMMA WalkInvImplies == WalkInv => ListingInv /\ WalksAreSound
<1>1. WalkInv => PageAndTotalAgree
  BY DEF WalkInv, ToldInv, PageAndTotalAgree, Skip
<1>2. WalkInv => QuietWalkShowsEachOnce
  BY DEF WalkInv, QuietInv, IsQuiet, QuietWalkShowsEachOnce
<1>3. WalkInv => WalkMissesNothing
  BY DEF WalkInv, GrowsInv, OnlyGrows, WalkMissesNothing
<1>. QED
  BY <1>1, <1>2, <1>3 DEF WalkInv, ListingInv, WalksAreSound

\* Who only reads leaves the order as it is.
LEMMA SameOrder ==
    ASSUME UNCHANGED <<rows, query>>
    PROVE  /\ OnList' = OnList /\ Count' = Count
           /\ HasTies' <=> HasTies
           /\ HasFixedOrder' <=> HasFixedOrder
           /\ \A i : Place(i)' = Place(i)
  BY DEF OnList, Count, HasTies, HasFixedOrder, Place, Ahead, ComesBefore, Cell

LEMMA SkipFacts ==
    ASSUME WalkTypeOK
    PROVE  /\ page \in Nat \ {0} /\ query.take \in Nat \ {0}
           /\ Skip \in Nat /\ Count \in Nat
           /\ page * query.take = Skip + query.take
<1>1. page \in Nat \ {0} /\ query.take \in Nat \ {0}
  BY ListingAssumption DEF WalkTypeOK
<1>. QED
  BY <1>1, WindowFacts, OnListFinite DEF Skip, Count

-----------------------------------------------------------------------------
(* Steps.                                                                  *)

LEMMA InitWalk == WalkInit => WalkInv
<1>. SUFFICES ASSUME WalkInit PROVE WalkInv
  OBVIOUS
<1>1. query \in Query
  BY InitQuery
<1>2. \A q \in Query : q \in [orderBy : Seq(Columns \cup {"id"}), sortOrder : SortOrders,
                              take : 1..MaxLimit]
  <2>1. ASSUME NEW c \in Columns \cup {"id"}, NEW d \in Columns \cup {"id"}
        PROVE  <<c>> \in Seq(Columns \cup {"id"}) /\ <<c, d>> \in Seq(Columns \cup {"id"})
    OBVIOUS
  <2>2. OrderBys \subseteq Seq(Columns \cup {"id"})
    BY <2>1 DEF OrderBys, Columns
  <2>. QED
    BY <2>2 DEF Query
<1>3. WalkTypeOK
  <2>1. rows \in [Ids -> Row \cup {NoRow}]
    BY DEF WalkInit, Row
  <2>2. QED
    <3>1. writes \in 0..MaxWrites /\ page \in Nat \ {0} /\ seen \in [Ids -> Nat]
      BY ListingAssumption DEF WalkInit
    <3>2. answer \in [page : SUBSET Ids, total : Nat, has : SUBSET {"page", "total"}]
      BY DEF WalkInit, NoAnswer
    <3>3. /\ first \subseteq Ids /\ events \subseteq {"entered", "left", "edited"}
          /\ isTorn \in BOOLEAN /\ pc \in {"asked", "done"}
      BY OnListFinite DEF WalkInit
    <3>4. query \in [orderBy : Seq(Columns \cup {"id"}), sortOrder : SortOrders,
                     take : 1..MaxLimit]
      BY <1>1, <1>2
    <3>. QED
      BY <2>1, <3>1, <3>2, <3>3, <3>4 DEF WalkTypeOK
<1>4. Skip = 0
  BY <1>3, SkipFacts DEF WalkInit, Skip
<1>5. \A i : Place(i) \in Nat
  BY PlaceFacts
<1>. QED
  BY <1>1, <1>3, <1>4, <1>5
     DEF WalkInit, WalkInv, ToldInv, TornInv, QuietInv, GrowsInv, NoAnswer, OnList

\* The page of an ordering.
PageOf(s) == {s[n] : n \in Skip + 1..Least(Skip + query.take, Len(s))}

LEMMA PageFits ==
    ASSUME WalkTypeOK, NEW s \in Orderings
    PROVE  /\ PageOf(s) \subseteq OnList
           /\ Cardinality(PageOf(s)) = Least(query.take, Count - Least(Skip, Count))
<1>. DEFINE last == Least(Skip + query.take, Count)
            A == Skip + 1..last
<1>1. s \in Injection(1..Count, OnList) /\ Len(s) = Count
  BY OrderingFacts DEF Count
<1>2. /\ Skip \in Nat /\ Count \in Nat /\ query.take \in Nat \ {0}
      /\ last \in Nat /\ last <= Count
  BY SkipFacts DEF Least
<1>3. A \in SUBSET (1..Count)
  BY <1>2
<1>4. PageOf(s) = RowsAt(s, A)
  BY <1>1 DEF PageOf, RowsAt
<1>5. s \in [1..Count -> OnList]
  BY <1>1 DEF Injection
<1>6. Cardinality(PageOf(s)) = Cardinality(A)
  BY <1>1, <1>2, <1>3, <1>4, RowsAtCount
<1>7. Cardinality(A) = Least(query.take, Count - Least(Skip, Count))
  <2>1. CASE Skip <= Count
    <3>1. Skip + 1 \in Nat /\ Skip + 1 <= last + 1
      BY <1>2, <2>1 DEF Least
    <3>2. Cardinality(A) = last + 1 - (Skip + 1)
      BY <1>2, <3>1, IntervalCount
    <3>. QED
      BY <1>2, <2>1, <3>2 DEF Least
  <2>2. CASE ~(Skip <= Count)
    <3>1. A = {}
      BY <1>2, <2>2 DEF Least
    <3>. QED
      BY <1>2, <2>2, <3>1, FS_EmptySet DEF Least
  <2>. QED
    BY <2>1, <2>2
<1>. QED
  BY <1>3, <1>4, <1>5, <1>6, <1>7 DEF RowsAt

LEMMA PageIsWindow ==
    ASSUME WalkTypeOK, ~HasTies, NEW s \in Orderings
    PROVE  PageOf(s) = Window
<1>1. s \in Injection(1..Count, OnList) /\ Len(s) = Count
  BY OrderingFacts DEF Count
<1>2. s \in [1..Count -> OnList]
  BY <1>1 DEF Injection
<1>3. Skip \in Nat /\ Count \in Nat /\ query.take \in Nat \ {0}
  BY SkipFacts
<1>4. ASSUME NEW i \in PageOf(s)
      PROVE  i \in Window
  <2>1. PICK k \in Skip + 1..Least(Skip + query.take, Count) : i = s[k]
    BY <1>1 DEF PageOf
  <2>2. k \in 1..Count /\ Skip <= k - 1 /\ k - 1 < Skip + query.take
    BY <1>3, <2>1 DEF Least
  <2>3. Place(s[k]) = k - 1
    BY <2>2, Positions DEF Count
  <2>. QED
    BY <1>2, <2>1, <2>2, <2>3 DEF Window
<1>5. ASSUME NEW i \in Window
      PROVE  i \in PageOf(s)
  <2>1. i \in OnList /\ Skip <= Place(i) /\ Place(i) < Skip + query.take
    BY DEF Window
  <2>2. Place(i) \in Nat /\ Place(i) < Count /\ s[Place(i) + 1] = i
    BY <2>1, PlaceFacts, PlaceOnList DEF Count
  <2>3. Place(i) + 1 \in Skip + 1..Least(Skip + query.take, Len(s))
    BY <1>1, <1>3, <2>1, <2>2 DEF Least
  <2>. QED
    BY <2>2, <2>3 DEF PageOf
<1>. QED
  BY <1>4, <1>5

LEMMA QueryPageKeeps == WalkInv /\ QueryPage => WalkInv'
<1>. SUFFICES ASSUME WalkInv, QueryPage PROVE WalkInv'
  OBVIOUS
<1>1. WalkTypeOK /\ UNCHANGED <<rows, writes, query, page, seen, first, events, isTorn, pc>>
  BY DEF WalkInv, QueryPage
<1>2. PICK s \in Orderings :
         answer' = [answer EXCEPT !.has = @ \cup {"page"}, !.page = PageOf(s)]
  BY DEF QueryPage, PageOf
<1>3. /\ OnList' = OnList /\ Count' = Count
      /\ HasTies' <=> HasTies
      /\ HasFixedOrder' <=> HasFixedOrder
      /\ \A i : Place(i)' = Place(i)
  BY <1>1, SameOrder
<1>4. Skip' = Skip /\ Window' = Window
  BY <1>1, <1>3 DEF Skip, Window
<1>5. /\ answer'.page = PageOf(s) /\ answer'.total = answer.total
      /\ answer'.has = answer.has \cup {"page"}
      /\ pc = "asked"
  BY <1>1, <1>2 DEF WalkTypeOK, QueryPage
<1>6. PageOf(s) \subseteq OnList
  BY <1>1, PageFits
<1>7. WalkTypeOK'
  BY <1>1, <1>2, <1>6, OnListFinite DEF WalkTypeOK
<1>8. ToldInv' /\ TornInv'
  BY <1>1, <1>3, <1>4, <1>5, PageFits DEF WalkInv, ToldInv, TornInv
<1>9. QuietInv'
  BY <1>1, <1>3, <1>4, <1>5, PageIsWindow DEF WalkInv, QuietInv, IsQuiet
<1>10. GrowsInv'
  <2>. SUFFICES ASSUME OnlyGrows
                PROVE  \A i \in first : seen[i] > 0 \/ i \in PageOf(s) \/ Skip + query.take <= Place(i)
    BY <1>1, <1>3, <1>4, <1>5 DEF WalkInv, GrowsInv, OnlyGrows
  <2>1. PageOf(s) = Window
    BY <1>1, PageIsWindow DEF OnlyGrows
  <2>2. first \subseteq OnList /\ \A i \in first : seen[i] > 0 \/ Skip <= Place(i)
    BY <1>5 DEF WalkInv, GrowsInv
  <2>3. Skip + query.take \in Nat /\ \A i : Place(i) \in Nat
    BY <1>1, SkipFacts, PlaceFacts
  <2>. QED
    BY <2>1, <2>2, <2>3 DEF Window
<1>. QED
  BY <1>1, <1>7, <1>8, <1>9, <1>10 DEF WalkInv, Query

LEMMA QueryTotalKeeps == WalkInv /\ QueryTotal => WalkInv'
<1>. SUFFICES ASSUME WalkInv, QueryTotal PROVE WalkInv'
  OBVIOUS
<1>1. WalkTypeOK /\ UNCHANGED <<rows, writes, query, page, seen, first, events, isTorn, pc>>
  BY DEF WalkInv, QueryTotal
<1>2. /\ OnList' = OnList /\ Count' = Count
      /\ HasTies' <=> HasTies
      /\ HasFixedOrder' <=> HasFixedOrder
      /\ \A i : Place(i)' = Place(i)
  BY <1>1, SameOrder
<1>3. Skip' = Skip /\ Window' = Window
  BY <1>1, <1>2 DEF Skip, Window
<1>4. /\ answer'.page = answer.page /\ answer'.total = Count
      /\ answer'.has = answer.has \cup {"total"}
  BY <1>1 DEF WalkTypeOK, QueryTotal, Count
<1>5. WalkTypeOK'
  BY <1>1, OnListFinite DEF WalkTypeOK, QueryTotal
<1>6. ToldInv' /\ TornInv'
  BY <1>1, <1>2, <1>3, <1>4 DEF WalkInv, ToldInv, TornInv
<1>7. QuietInv'
  BY <1>1, <1>2, <1>3, <1>4 DEF WalkInv, QuietInv, IsQuiet
<1>8. GrowsInv'
  BY <1>1, <1>2, <1>3, <1>4 DEF WalkInv, GrowsInv, OnlyGrows
<1>. QED
  BY <1>1, <1>5, <1>6, <1>7, <1>8 DEF WalkInv, Query

LEMMA FailKeeps == WalkInv /\ Fail => WalkInv'
<1>. SUFFICES ASSUME WalkInv, Fail PROVE WalkInv'
  OBVIOUS
<1>1. /\ WalkTypeOK /\ pc = "asked" /\ answer' = NoAnswer /\ isTorn' = FALSE
      /\ UNCHANGED <<rows, writes, query, page, seen, first, events, pc>>
  BY DEF WalkInv, Fail
<1>2. /\ OnList' = OnList /\ Count' = Count
      /\ HasTies' <=> HasTies
      /\ HasFixedOrder' <=> HasFixedOrder
      /\ \A i : Place(i)' = Place(i)
  BY <1>1, SameOrder
<1>3. Skip' = Skip /\ answer'.has = {}
  BY <1>1 DEF Skip, NoAnswer
<1>4. WalkTypeOK'
  BY <1>1 DEF WalkTypeOK, NoAnswer
<1>5. ToldInv' /\ TornInv'
  BY <1>1, <1>3 DEF ToldInv, TornInv
<1>6. QuietInv'
  BY <1>1, <1>2, <1>3 DEF WalkInv, QuietInv, IsQuiet
<1>7. GrowsInv'
  BY <1>1, <1>2, <1>3 DEF WalkInv, GrowsInv, OnlyGrows
<1>. QED
  BY <1>1, <1>4, <1>5, <1>6, <1>7 DEF WalkInv, Query

\* The last page reaches to the end of the list.
LEMMA LastPageCovers ==
    ASSUME WalkTypeOK, ToldInv, ~isTorn, answer.has = {"page", "total"}, ~HasNextPage
    PROVE  Count <= Skip + query.take
<1>1. answer.total = Count
  BY DEF ToldInv
<1>2. ~(page < TotalPages(Count, query.take))
  BY <1>1 DEF HasNextPage
<1>. QED
  BY <1>2, SkipFacts, PagesCoverRows

LEMMA NotBeforeItself ==
    ASSUME WalkTypeOK, query \in Query, NEW i \in OnList
    PROVE  ~ComesBefore(i, i)
<1>1. \A c \in {"createdAt", "value", "id"} : Cell(i, c) \in Nat
  BY ListingAssumption DEF WalkTypeOK, OnList, Row, Cell
<1>2. \A k \in 1..Len(query.orderBy) : query.orderBy[k] \in {"createdAt", "value", "id"}
  BY DEF Query, OrderBys
<1>. QED
  BY <1>1, <1>2 DEF ComesBefore

LEMMA PlaceBelowCount ==
    ASSUME WalkTypeOK, query \in Query, NEW i \in OnList
    PROVE  Place(i) \in Nat /\ Place(i) < Count
<1>1. Ahead(i) \in SUBSET OnList /\ i \notin Ahead(i)
  BY NotBeforeItself DEF Ahead
<1>2. Place(i) <= Count /\ (Place(i) = Count => Ahead(i) = OnList)
  BY <1>1, OnListFinite, FS_Subset DEF Place, Count
<1>. QED
  BY <1>1, <1>2, PlaceFacts, OnListFinite DEF Count

LEMMA AnswerKeeps == WalkInv /\ Answer => WalkInv'
<1>. SUFFICES ASSUME WalkInv, Answer PROVE WalkInv'
  OBVIOUS
<1>1. /\ WalkTypeOK /\ pc = "asked" /\ answer.has = {"page", "total"}
      /\ UNCHANGED <<rows, writes, query, first, events>>
      /\ seen' = [i \in Ids |-> IF i \in answer.page THEN seen[i] + 1 ELSE seen[i]]
  BY DEF WalkInv, Answer
<1>2. /\ OnList' = OnList /\ Count' = Count
      /\ HasTies' <=> HasTies
      /\ HasFixedOrder' <=> HasFixedOrder
      /\ \A i : Place(i)' = Place(i)
  BY <1>1, SameOrder
<1>3. /\ Skip \in Nat /\ query.take \in Nat \ {0} /\ page \in Nat \ {0}
      /\ page * query.take = Skip + query.take
      /\ \A i : Place(i) \in Nat
      /\ OnList \subseteq Ids /\ first \subseteq Ids
      /\ \A i \in Ids : seen[i] \in Nat
  BY <1>1, SkipFacts, PlaceFacts, OnListFinite DEF WalkTypeOK
<1>4. IsQuiet => answer.page = Window
  BY <1>1 DEF WalkInv, QuietInv
<1>5. OnlyGrows => \A i \in first :
         seen[i] > 0 \/ i \in answer.page \/ Skip + query.take <= Place(i)
  BY <1>1 DEF WalkInv, GrowsInv
<1>6. \A i \in Ids : seen'[i] = IF i \in answer.page THEN seen[i] + 1 ELSE seen[i]
  BY <1>1
<1>7. IsQuiet => \A i \in Ids : seen'[i] =
         IF i \in OnList /\ Place(i) < Skip + query.take THEN 1 ELSE 0
  BY <1>1, <1>3, <1>4, <1>6 DEF WalkInv, QuietInv, Window
<1>8. OnlyGrows => \A i \in first : seen'[i] > 0 \/ Skip + query.take <= Place(i)
  BY <1>3, <1>5, <1>6
<1>9. seen' \in [Ids -> Nat]
  BY <1>1, <1>3
<1>10. (IsQuiet' <=> IsQuiet) /\ (OnlyGrows' <=> OnlyGrows)
  BY <1>1, <1>2 DEF IsQuiet, OnlyGrows
<1>11. CASE HasNextPage
  <2>1. page' = page + 1 /\ answer' = NoAnswer /\ isTorn' = FALSE /\ pc' = pc
    BY <1>11 DEF Answer
  <2>2. Skip' = Skip + query.take /\ answer'.has = {}
    BY <1>1, <1>3, <2>1 DEF Skip, NoAnswer
  <2>3. WalkTypeOK'
    <3>1. NoAnswer \in [page : SUBSET Ids, total : Nat, has : SUBSET {"page", "total"}]
      BY DEF NoAnswer
    <3>2. page + 1 \in Nat \ {0}
      BY <1>3
    <3>. QED
      BY <1>1, <1>9, <2>1, <3>1, <3>2 DEF WalkTypeOK
  <2>4. ToldInv' /\ TornInv'
    BY <2>1, <2>2 DEF ToldInv, TornInv
  <2>5. QuietInv'
    BY <1>1, <1>2, <1>7, <1>10, <2>1, <2>2 DEF QuietInv
  <2>6. GrowsInv'
    BY <1>1, <1>2, <1>8, <1>10, <2>1, <2>2 DEF WalkInv, GrowsInv
  <2>. QED
    BY <1>1, <2>3, <2>4, <2>5, <2>6 DEF WalkInv, Query
<1>12. CASE ~HasNextPage
  <2>1. pc' = "done" /\ UNCHANGED <<page, answer, isTorn>>
    BY <1>12 DEF Answer
  <2>2. Skip' = Skip
    BY <1>1, <2>1 DEF Skip
  <2>3. WalkTypeOK'
    BY <1>1, <1>9, <2>1 DEF WalkTypeOK
  <2>4. ToldInv' /\ TornInv'
    BY <1>1, <1>2, <2>1, <2>2 DEF WalkInv, ToldInv, TornInv
  <2>5. ~isTorn => \A i \in OnList : Place(i) < Skip + query.take
    BY <1>1, <1>3, <1>12, LastPageCovers, PlaceBelowCount, SkipFacts DEF WalkInv
  <2>6. QuietInv'
    <3>1. IsQuiet => ~isTorn
      BY DEF WalkInv, IsQuiet, TornInv
    <3>. QED
      BY <1>2, <1>7, <1>10, <2>1, <2>5, <3>1 DEF QuietInv
  <2>7. GrowsInv'
    <3>1. OnlyGrows => first \subseteq OnList
      BY DEF WalkInv, GrowsInv
    <3>2. OnlyGrows /\ ~isTorn => \A i \in first : seen'[i] > 0
      BY <1>3, <1>8, <2>5, <3>1
    <3>. QED
      BY <1>1, <1>2, <1>10, <2>1, <3>1, <3>2 DEF GrowsInv
  <2>. QED
    BY <1>1, <2>3, <2>4, <2>6, <2>7 DEF WalkInv, Query
<1>. QED
  BY <1>11, <1>12

\* What another request does to row i.
LEMMA WriteFacts ==
    ASSUME WalkTypeOK, NEW i \in Ids, Insert(i) \/ Update(i)
    PROVE  \E row \in Row, event \in {"entered", "left", "edited"} :
              /\ Write(i, row, event)
              /\ rows[i] # NoRow => row.createdAt = rows[i].createdAt
              /\ event = "edited" => rows[i] # NoRow /\ row.matches = rows[i].matches
              /\ event = "entered" => row.matches
<1>1. CASE Insert(i)
  <2>1. PICK v \in Values :
           Write(i, [createdAt |-> Now, value |-> v, matches |-> TRUE], "entered")
    BY <1>1 DEF Insert
  <2>2. [createdAt |-> Now, value |-> v, matches |-> TRUE] \in Row
    BY ListingAssumption DEF WalkTypeOK, Now, Row
  <2>. QED
    BY <1>1, <2>1, <2>2 DEF Insert
<1>2. CASE Update(i)
  <2>1. PICK v \in Values, b \in BOOLEAN :
           Write(i, [rows[i] EXCEPT !.value = v, !.matches = b],
                 IF b = rows[i].matches THEN "edited" ELSE IF b THEN "entered" ELSE "left")
    BY <1>2 DEF Update
  <2>2. rows[i] \in Row /\ rows[i] # NoRow
    BY <1>2 DEF WalkTypeOK, Update
  <2>3. DEFINE row == [rows[i] EXCEPT !.value = v, !.matches = b]
  <2>4. row \in Row /\ row.createdAt = rows[i].createdAt /\ row.matches = b
    BY <2>2 DEF Row
  <2>. QED
    BY <2>1, <2>2, <2>4
<1>. QED
  BY <1>1, <1>2

LEMMA WriteKeeps ==
    ASSUME WalkInv, NEW i \in Ids, NEW row \in Row,
           NEW event \in {"entered", "left", "edited"}, Write(i, row, event),
           rows[i] # NoRow => row.createdAt = rows[i].createdAt,
           event = "edited" => rows[i] # NoRow /\ row.matches = rows[i].matches,
           event = "entered" => row.matches
    PROVE  WalkInv'
<1>1. /\ WalkTypeOK /\ query \in Query /\ pc = "asked" /\ writes < MaxWrites
      /\ UNCHANGED <<query, page, answer, seen, first, pc>>
      /\ events' = events \cup {event}
      /\ isTorn' = (isTorn \/ (answer.has # {} /\ event # "edited"))
  BY DEF WalkInv, Write
<1>2. /\ \A j \in Ids : rows'[j] = IF j = i THEN row ELSE rows[j]
      /\ \A j \in Ids : rows[j] \in Row \cup {NoRow}
      /\ NoRow \notin Row /\ OnList \subseteq Ids
  BY ListingAssumption, OnListFinite DEF WalkInv, WalkTypeOK, Write
<1>3. WalkTypeOK'
  <2>1. rows' \in [Ids -> Row \cup {NoRow}] /\ writes' \in 0..MaxWrites
    BY <1>1, ListingAssumption DEF WalkTypeOK, Write
  <2>2. events' \subseteq {"entered", "left", "edited"} /\ isTorn' \in BOOLEAN
    BY <1>1 DEF WalkTypeOK
  <2>. QED
    BY <1>1, <2>1, <2>2 DEF WalkTypeOK
<1>4. event # "left" => OnList \subseteq OnList'
  BY <1>2 DEF OnList
<1>5. event = "edited" => OnList' = OnList /\ Count' = Count
  <2>1. event = "edited" => \A j \in Ids : j \in OnList' <=> j \in OnList
    BY <1>2 DEF OnList
  <2>2. OnList \subseteq Ids /\ OnList' \subseteq Ids
    BY DEF OnList
  <2>. QED
    BY <2>1, <2>2 DEF Count
<1>6. Skip' = Skip /\ (HasFixedOrder' <=> HasFixedOrder)
  BY <1>1 DEF Skip, HasFixedOrder
<1>7. ASSUME HasFixedOrder, NEW j \in OnList, NEW k \in OnList
      PROVE  ComesBefore(j, k)' <=> ComesBefore(j, k)
  <2>1. \A n \in 1..Len(query.orderBy) : query.orderBy[n] \in {"createdAt", "id"}
    BY <1>1, <1>7 DEF Query, OrderBys, HasFixedOrder
  <2>2. \A c \in {"createdAt", "id"} : Cell(j, c)' = Cell(j, c) /\ Cell(k, c)' = Cell(k, c)
    BY <1>2 DEF OnList, Cell
  <2>. QED
    BY <1>1, <2>1, <2>2 DEF ComesBefore
<1>8. HasFixedOrder /\ event # "left" => (HasTies => HasTies')
  BY <1>4, <1>7 DEF HasTies
<1>9. HasFixedOrder /\ event # "left" =>
         \A j \in OnList : Place(j) <= Place(j)' /\ Place(j)' \in Nat
  <2>. SUFFICES ASSUME HasFixedOrder, event # "left", NEW j \in OnList
                PROVE  Place(j) <= Place(j)' /\ Place(j)' \in Nat
    OBVIOUS
  <2>1. Ahead(j) \subseteq Ahead(j)'
    BY <1>4, <1>7 DEF Ahead
  <2>2. IsFiniteSet(Ahead(j)')
    BY ListingAssumption, FS_Subset DEF Ahead, OnList
  <2>. QED
    BY <2>1, <2>2, FS_Subset, FS_CardinalityType DEF Place
<1>10. HasFixedOrder /\ event = "edited" => \A j \in OnList : Place(j)' = Place(j)
  <2>. SUFFICES ASSUME HasFixedOrder, event = "edited", NEW j \in OnList
                PROVE  Ahead(j)' = Ahead(j)
    BY DEF Place
  <2>. QED
    BY <1>5, <1>7 DEF Ahead
<1>11. ToldInv' /\ TornInv'
  BY <1>1, <1>5, <1>6 DEF WalkInv, ToldInv, TornInv
<1>12. QuietInv'
  <2>. SUFFICES ASSUME IsQuiet' PROVE QuietInv'
    BY DEF QuietInv
  <2>1. event = "edited" /\ HasFixedOrder /\ events \subseteq {"edited"} /\ ~HasTies
    BY <1>1, <1>6, <1>8 DEF IsQuiet
  <2>2. IsQuiet
    BY <2>1 DEF IsQuiet
  <2>3. OnList' = OnList /\ (\A j \in OnList : Place(j)' = Place(j)) /\ Window' = Window
    BY <1>1, <1>5, <1>6, <1>10, <2>1 DEF Window
  <2>. QED
    BY <1>1, <1>6, <2>2, <2>3 DEF WalkInv, QuietInv
<1>13. GrowsInv'
  <2>. SUFFICES ASSUME OnlyGrows' PROVE GrowsInv'
    BY DEF GrowsInv
  <2>1. event # "left" /\ HasFixedOrder /\ "left" \notin events /\ ~HasTies
    BY <1>1, <1>6, <1>8 DEF OnlyGrows
  <2>2. OnlyGrows
    BY <2>1 DEF OnlyGrows
  <2>3. /\ first \subseteq OnList
        /\ \A j \in first : seen[j] > 0 \/ Skip <= Place(j)
        /\ "page" \in answer.has =>
              \A j \in first : seen[j] > 0 \/ j \in answer.page \/ Skip + query.take <= Place(j)
    BY <1>1, <2>2 DEF WalkInv, GrowsInv
  <2>4. /\ Skip \in Nat /\ query.take \in Nat
        /\ \A j \in OnList : Place(j) \in Nat /\ Place(j)' \in Nat /\ Place(j) <= Place(j)'
    BY <1>1, <1>9, <2>1, SkipFacts, PlaceFacts
  <2>. QED
    BY <1>1, <1>4, <1>6, <2>1, <2>3, <2>4 DEF GrowsInv
<1>. QED
  BY <1>1, <1>3, <1>11, <1>12, <1>13 DEF WalkInv, Query

LEMMA StepWalk == WalkInv /\ [WalkNext]_walkVars => WalkInv'
<1>1. ASSUME WalkInv, NEW i \in Ids, Insert(i) \/ Update(i)
      PROVE  WalkInv'
  BY <1>1, WriteFacts, WriteKeeps DEF WalkInv
<1>2. ASSUME WalkInv, UNCHANGED walkVars
      PROVE  WalkInv'
  <2>1. UNCHANGED <<rows, writes, query, page, answer, seen, first, events, isTorn, pc>>
    BY <1>2 DEF walkVars
  <2>2. /\ OnList' = OnList /\ Count' = Count
        /\ HasTies' <=> HasTies
        /\ HasFixedOrder' <=> HasFixedOrder
        /\ \A i : Place(i)' = Place(i)
    BY <2>1, SameOrder
  <2>3. Skip' = Skip /\ Window' = Window
    BY <2>1, <2>2 DEF Skip, Window
  <2>4. WalkTypeOK' /\ (query \in Query)'
    BY <1>2, <2>1 DEF WalkInv, WalkTypeOK, Query
  <2>5. ToldInv' /\ TornInv' /\ QuietInv' /\ GrowsInv'
    BY <1>2, <2>1, <2>2, <2>3
       DEF WalkInv, ToldInv, TornInv, QuietInv, IsQuiet, GrowsInv, OnlyGrows
  <2>. QED
    BY <2>4, <2>5 DEF WalkInv
<1>. QED
  BY <1>1, <1>2, QueryPageKeeps, QueryTotalKeeps, AnswerKeeps, FailKeeps DEF WalkNext

LEMMA WalkInvariance == WalkSpec => []WalkInv
  BY InitWalk, StepWalk, PTL DEF WalkSpec

\* On every list the rows of a page and the number of rows that is told with
\* them agree, whatever else is written in between that leaves the list as
\* long as it was (prisma-base.repository.ts, findPaginated).
THEOREM PagesAgreeWithTotals == WalkSpec => []ListingInv
  BY WalkInvariance, WalkInvImplies, PTL

\* For any number of rows, any page size and any writes: a walk through a list
\* that keeps still shows each row once, and a walk in the order of creation
\* misses no row that stays, whatever enters (prisma-menu-item.repository.ts,
\* restaurant.repository.ts, prisma-table.repository.ts: orderBy, skip, take).
THEOREM WalksShowWhatTheyShould == WalkSpec => []WalksAreSound
  BY WalkInvariance, WalkInvImplies, PTL

-----------------------------------------------------------------------------
(* Sequences, and sets in the order of a number.                           *)

LEMMA InsertAtFacts ==
    ASSUME NEW S, NEW s \in Seq(S), NEW x \in S, NEW k \in 1..Len(s) + 1
    PROVE  /\ InsertAt(s, k, x) \in Seq(S)
           /\ Len(InsertAt(s, k, x)) = Len(s) + 1
           /\ \A j \in 1..Len(s) + 1 : InsertAt(s, k, x)[j] =
                 IF j < k THEN s[j] ELSE IF j = k THEN x ELSE s[j - 1]
<1>. DEFINE a == SubSeq(s, 1, k - 1)
            b == SubSeq(s, k, Len(s))
<1>1. Len(s) \in Nat /\ k \in Int /\ \A j \in 1..Len(s) : s[j] \in S
  OBVIOUS
<1>2. /\ a \in Seq(S) /\ Len(a) = k - 1 /\ \A j \in 1..k - 1 : a[j] = s[j]
  <2>1. /\ Len(a) = (IF 1 <= k - 1 THEN (k - 1) - 1 + 1 ELSE 0) /\ a \in Seq(S)
        /\ \A j \in 1..(k - 1) - 1 + 1 : a[j] = s[1 + j - 1]
    BY <1>1, SubSeqProperties
  <2>. HIDE DEF a
  <2>. QED
    BY <1>1, <2>1
<1>3. /\ b \in Seq(S) /\ Len(b) = Len(s) - k + 1
      /\ \A j \in 1..Len(s) - k + 1 : b[j] = s[k + j - 1]
  <2>1. /\ Len(b) = (IF k <= Len(s) THEN Len(s) - k + 1 ELSE 0) /\ b \in Seq(S)
        /\ \A j \in 1..Len(s) - k + 1 : b[j] = s[k + j - 1]
    BY <1>1, SubSeqProperties
  <2>. HIDE DEF b
  <2>. QED
    BY <1>1, <2>1
<1>. HIDE DEF a, b
<1>4. /\ <<x>> \in Seq(S) /\ Len(<<x>>) = 1 /\ <<x>>[1] = x
  OBVIOUS
<1>5. /\ a \o <<x>> \in Seq(S) /\ Len(a \o <<x>>) = k
      /\ \A j \in 1..k : (a \o <<x>>)[j] = IF j < k THEN s[j] ELSE x
  <2>1. /\ a \o <<x>> \in Seq(S) /\ Len(a \o <<x>>) = Len(a) + Len(<<x>>)
        /\ \A j \in 1..Len(a) + Len(<<x>>) : (a \o <<x>>)[j] =
              IF j <= Len(a) THEN a[j] ELSE <<x>>[j - Len(a)]
    BY <1>2, <1>4, ConcatProperties
  <2>2. Len(a) + Len(<<x>>) = k
    BY <1>1, <1>2, <1>4
  <2>3. ASSUME NEW j \in 1..k
        PROVE  (a \o <<x>>)[j] = IF j < k THEN s[j] ELSE x
    <3>1. CASE j < k
      BY <1>2, <2>1, <2>2, <3>1
    <3>2. CASE j = k
      <4>1. j \in 1..Len(a) + Len(<<x>>) /\ ~(j <= Len(a)) /\ j - Len(a) = 1
        BY <1>1, <1>2, <2>2, <3>2
      <4>2. (a \o <<x>>)[j] = <<x>>[j - Len(a)]
        BY <2>1, <4>1
      <4>3. <<x>>[j - Len(a)] = x
        BY <1>4, <4>1
      <4>4. ~(j < k)
        BY <1>1, <3>2
      <4>. QED
        BY <4>2, <4>3, <4>4
    <3>3. j < k \/ j = k
      BY <1>1
    <3>. QED
      BY <3>1, <3>2, <3>3, Zenon
  <2>. QED
    BY <2>1, <2>2, <2>3
<1>. DEFINE c == a \o <<x>>
<1>6. InsertAt(s, k, x) = c \o b
  BY DEF InsertAt, a, b
<1>. HIDE DEF c
<1>7. /\ c \o b \in Seq(S) /\ Len(c \o b) = Len(c) + Len(b)
      /\ \A j \in 1..Len(c) + Len(b) : (c \o b)[j] =
            IF j <= Len(c) THEN c[j] ELSE b[j - Len(c)]
  <2>1. c \in Seq(S)
    BY <1>5 DEF c
  <2>. QED
    BY <1>3, <2>1, ConcatProperties
<1>8. Len(c) = k /\ Len(c) + Len(b) = Len(s) + 1
  <2>1. Len(c) = k
    BY <1>5 DEF c
  <2>. QED
    BY <1>1, <1>3, <2>1
<1>9. ASSUME NEW j \in 1..Len(s) + 1
      PROVE  (c \o b)[j] = IF j < k THEN s[j] ELSE IF j = k THEN x ELSE s[j - 1]
  <2>1. CASE j <= k
    <3>1. (c \o b)[j] = c[j] /\ j \in 1..k
      BY <1>1, <1>7, <1>8, <2>1
    <3>2. c[j] = IF j < k THEN s[j] ELSE x
      BY <1>5, <3>1 DEF c
    <3>. QED
      BY <1>1, <2>1, <3>1, <3>2
  <2>2. CASE j > k
    <3>1. (c \o b)[j] = b[j - k] /\ j - k \in 1..Len(s) - k + 1
      BY <1>1, <1>7, <1>8, <2>2
    <3>2. b[j - k] = s[k + (j - k) - 1]
      BY <1>3, <3>1
    <3>3. k + (j - k) - 1 = j - 1
      BY <1>1
    <3>4. ~(j < k) /\ j # k
      BY <1>1, <2>2
    <3>. QED
      BY <3>1, <3>2, <3>3, <3>4
  <2>3. j <= k \/ j > k
    BY <1>1
  <2>. QED
    BY <2>1, <2>2, <2>3, Zenon
<1>. QED
  BY <1>6, <1>7, <1>8, <1>9

LEMMA RemoveAtFacts ==
    ASSUME NEW S, NEW s \in Seq(S), NEW k \in 1..Len(s)
    PROVE  /\ RemoveAt(s, k) \in Seq(S)
           /\ Len(RemoveAt(s, k)) = Len(s) - 1
           /\ \A j \in 1..Len(s) - 1 : RemoveAt(s, k)[j] =
                 IF j < k THEN s[j] ELSE s[j + 1]
<1>. DEFINE a == SubSeq(s, 1, k - 1)
            b == SubSeq(s, k + 1, Len(s))
<1>1. Len(s) \in Nat /\ k \in Int /\ \A j \in 1..Len(s) : s[j] \in S
  OBVIOUS
<1>2. /\ a \in Seq(S) /\ Len(a) = k - 1 /\ \A j \in 1..k - 1 : a[j] = s[j]
  <2>1. /\ Len(a) = (IF 1 <= k - 1 THEN (k - 1) - 1 + 1 ELSE 0) /\ a \in Seq(S)
        /\ \A j \in 1..(k - 1) - 1 + 1 : a[j] = s[1 + j - 1]
    BY <1>1, SubSeqProperties
  <2>. HIDE DEF a
  <2>. QED
    BY <1>1, <2>1
<1>3. /\ b \in Seq(S) /\ Len(b) = Len(s) - k
      /\ \A j \in 1..Len(s) - k : b[j] = s[k + j]
  <2>1. /\ Len(b) = (IF k + 1 <= Len(s) THEN Len(s) - (k + 1) + 1 ELSE 0) /\ b \in Seq(S)
        /\ \A j \in 1..Len(s) - (k + 1) + 1 : b[j] = s[(k + 1) + j - 1]
    <3>1. k + 1 \in Int /\ \A j \in k + 1..Len(s) : s[j] \in S
      BY <1>1
    <3>. QED
      BY <1>1, <3>1, SubSeqProperties
  <2>. HIDE DEF b
  <2>. QED
    BY <1>1, <2>1
<1>. HIDE DEF a, b
<1>4. RemoveAt(s, k) = a \o b
  BY DEF RemoveAt, a, b
<1>5. /\ a \o b \in Seq(S) /\ Len(a \o b) = Len(a) + Len(b)
      /\ \A j \in 1..Len(a) + Len(b) : (a \o b)[j] =
            IF j <= Len(a) THEN a[j] ELSE b[j - Len(a)]
  BY <1>2, <1>3, ConcatProperties
<1>6. Len(a) + Len(b) = Len(s) - 1
  BY <1>1, <1>2, <1>3
<1>7. ASSUME NEW j \in 1..Len(s) - 1
      PROVE  (a \o b)[j] = IF j < k THEN s[j] ELSE s[j + 1]
  <2>1. CASE j < k
    <3>1. j \in 1..Len(a) + Len(b) /\ j <= Len(a) /\ j \in 1..k - 1
      BY <1>1, <1>2, <1>6, <2>1
    <3>. QED
      BY <1>2, <1>5, <2>1, <3>1
  <2>2. CASE j >= k
    <3>1. (a \o b)[j] = b[j - (k - 1)] /\ j - (k - 1) \in 1..Len(s) - k
      BY <1>1, <1>2, <1>5, <1>6, <2>2
    <3>2. b[j - (k - 1)] = s[k + (j - (k - 1))]
      BY <1>3, <3>1
    <3>3. k + (j - (k - 1)) = j + 1
      BY <1>1
    <3>4. ~(j < k)
      BY <1>1, <2>2
    <3>. QED
      BY <3>1, <3>2, <3>3, <3>4
  <2>3. j < k \/ j >= k
    BY <1>1
  <2>. QED
    BY <2>1, <2>2, <2>3, Zenon
<1>. QED
  BY <1>4, <1>5, <1>6, <1>7
\* Induction: the library's theorems take the formula as a parameter, which
\* the provers cannot instantiate, so the least number stands in for it.
LEMMA LeastNumber ==
    ASSUME NEW T \in SUBSET Nat, T # {}
    PROVE  \E n \in T : \A m \in T : n <= m
<1>1. PICK n \in T : \A m \in T : ~ (<<m, n>> \in OpToRel(<, Nat))
  BY NatLessThanWellFounded, WFMin
<1>2. \A m \in T : m < n => <<m, n>> \in OpToRel(<, Nat)
  BY DEF OpToRel
<1>3. \A m \in T : m \in Nat /\ ~(m < n)
  BY <1>1, <1>2
<1>. QED
  BY <1>3

LEMMA InductionSet ==
    ASSUME NEW P, 0 \in P, \A n \in Nat : n \in P => n + 1 \in P
    PROVE  Nat \subseteq P
<1>. SUFFICES ASSUME Nat \ P # {} PROVE FALSE
  OBVIOUS
<1>1. PICK n \in Nat \ P : \A m \in Nat \ P : n <= m
  BY LeastNumber
<1>2. n # 0 /\ n - 1 \in Nat /\ n - 1 \in P
  BY <1>1
<1>. QED
  BY <1>1, <1>2

\* A property of the subsets of a finite set that an added element keeps.
LEMMA FiniteInduction ==
    ASSUME NEW S, IsFiniteSet(S), NEW P, {} \in P,
           \A T \in SUBSET S : \A x \in S \ T : T \in P => T \cup {x} \in P
    PROVE  S \in P
<1>. DEFINE Q == {n \in Nat : \A T \in SUBSET S : Cardinality(T) = n => T \in P}
<1>1. \A T \in SUBSET S : IsFiniteSet(T) /\ Cardinality(T) \in Nat
  BY FS_Subset, FS_CardinalityType
<1>2. 0 \in Q
  BY <1>1, FS_EmptySet
<1>3. ASSUME NEW n \in Nat, n \in Q
      PROVE  n + 1 \in Q
  <2>. SUFFICES ASSUME NEW T \in SUBSET S, Cardinality(T) = n + 1
                PROVE  T \in P
    OBVIOUS
  <2>1. PICK x \in T : TRUE
    BY <1>1, FS_EmptySet
  <2>2. Cardinality(T \ {x}) = n
    <3>1. IsFiniteSet(T)
      BY <1>1
    <3>2. Cardinality(T \ {x}) = Cardinality(T) - 1
      BY <3>1, FS_RemoveElement
    <3>. QED
      BY <3>2
  <2>3. T \ {x} \in P
    BY <1>3, <2>2
  <2>4. (T \ {x}) \cup {x} = T
    OBVIOUS
  <2>. QED
    BY <2>3, <2>4
<1>4. Cardinality(S) \in Q
  BY <1>1, <1>2, <1>3, InductionSet
<1>. QED
  BY <1>4


\* s is the set S in the order of the numbers ord.
IsRanked(s, S, ord) ==
    /\ s \in Seq(S)
    /\ \A x \in S : ord[x] \in Int
    /\ \A x \in S : \E j \in 1..Len(s) : s[j] = x
    /\ \A j, k \in 1..Len(s) : j < k => ord[s[j]] < ord[s[k]]

LEMMA SortedOnce ==
    ASSUME NEW S, NEW ord, NEW s, IsRanked(s, S, ord)
    PROVE  /\ Len(s) \in Nat
           /\ \A j \in 1..Len(s) : s[j] \in S /\ ord[s[j]] \in Int
           /\ \A j, k \in 1..Len(s) : s[j] = s[k] => j = k
<1>1. Len(s) \in Nat /\ \A j \in 1..Len(s) : s[j] \in S /\ ord[s[j]] \in Int
  BY DEF IsRanked
<1>2. ASSUME NEW j \in 1..Len(s), NEW k \in 1..Len(s), s[j] = s[k]
      PROVE  j = k
  <2>1. ord[s[j]] \in Int /\ ~(ord[s[j]] < ord[s[k]]) /\ ~(ord[s[k]] < ord[s[j]])
    BY <1>1, <1>2
  <2>2. ~(j < k) /\ ~(k < j)
    BY <2>1 DEF IsRanked
  <2>. QED
    BY <1>1, <2>2
<1>. QED
  BY <1>1, <1>2

LEMMA SortedRemove ==
    ASSUME NEW S, NEW ord, NEW s, IsRanked(s, S, ord),
           NEW c \in S
    PROVE  \E p \in 1..Len(s) :
              s[p] = c /\ IsRanked(RemoveAt(s, p), S \ {c}, ord)
<1>1. PICK p \in 1..Len(s) : s[p] = c
  BY DEF IsRanked
<1>2. s \in Seq(S) /\ Len(s) \in Nat
  BY SortedOnce DEF IsRanked
<1>. DEFINE t == RemoveAt(s, p)
            old(j) == IF j < p THEN j ELSE j + 1
<1>3. /\ t \in Seq(S) /\ Len(t) = Len(s) - 1
      /\ \A j \in 1..Len(s) - 1 : t[j] = IF j < p THEN s[j] ELSE s[j + 1]
  BY <1>1, <1>2, RemoveAtFacts
<1>. HIDE DEF t
<1>4. ASSUME NEW j \in 1..Len(t)
      PROVE  old(j) \in 1..Len(s) /\ old(j) # p /\ t[j] = s[old(j)] /\ t[j] \in S \ {c}
  <2>1. j \in 1..Len(s) - 1
    BY <1>3
  <2>2. old(j) \in 1..Len(s) /\ old(j) # p
    BY <1>1, <1>2, <2>1
  <2>3. t[j] = s[old(j)]
    BY <1>3, <2>1
  <2>4. s[old(j)] \in S /\ s[old(j)] # c
    <3>. HIDE DEF old
    <3>. QED
      BY <1>1, <2>2, SortedOnce
  <2>. QED
    BY <2>2, <2>3, <2>4
<1>5. t \in Seq(S \ {c})
  <2>1. t = [j \in 1..Len(t) |-> t[j]] /\ Len(t) \in Nat
    BY <1>3
  <2>2. \A j \in 1..Len(t) : t[j] \in S \ {c}
    BY <1>4
  <2>3. t \in [1..Len(t) -> S \ {c}]
    BY <2>1, <2>2
  <2>. QED
    BY <2>1, <2>3, SeqDef
<1>6. ASSUME NEW x \in S \ {c}
      PROVE  \E j \in 1..Len(t) : t[j] = x
  <2>1. PICK q \in 1..Len(s) : s[q] = x
    BY DEF IsRanked
  <2>2. q # p
    BY <1>1, <2>1
  <2>3. CASE q < p
    <3>1. q \in 1..Len(t) /\ t[q] = s[q]
      BY <1>1, <1>2, <1>3, <2>3
    <3>. QED
      BY <2>1, <3>1
  <2>4. CASE q > p
    <3>1. q - 1 \in 1..Len(s) - 1 /\ ~(q - 1 < p) /\ (q - 1) + 1 = q
      BY <1>1, <1>2, <2>4
    <3>2. t[q - 1] = s[q] /\ q - 1 \in 1..Len(t)
      BY <1>3, <3>1
    <3>. QED
      BY <2>1, <3>2
  <2>. QED
    BY <1>1, <1>2, <2>2, <2>3, <2>4
<1>7. ASSUME NEW j \in 1..Len(t), NEW k \in 1..Len(t), j < k
      PROVE  ord[t[j]] < ord[t[k]]
  <2>1. old(j) < old(k)
    BY <1>1, <1>3, <1>7
  <2>2. ord[s[old(j)]] < ord[s[old(k)]]
    <3>1. old(j) \in 1..Len(s) /\ old(k) \in 1..Len(s)
      BY <1>4
    <3>. HIDE DEF old
    <3>. QED
      BY <2>1, <3>1 DEF IsRanked
  <2>. HIDE DEF old
  <2>. QED
    BY <1>4, <2>2
<1>8. IsRanked(t, S \ {c}, ord)
  BY <1>5, <1>6, <1>7 DEF IsRanked
<1>. QED
  BY <1>1, <1>8 DEF t

LEMMA SortedInsert ==
    ASSUME NEW S, NEW ord, NEW x, x \notin S, ord[x] \in Int,
           \A y \in S : ord[y] # ord[x],
           NEW s, IsRanked(s, S, ord)
    PROVE  \E k \in 1..Len(s) + 1 : IsRanked(InsertAt(s, k, x), S \cup {x}, ord)
<1>. DEFINE After == {j \in 1..Len(s) + 1 : j = Len(s) + 1 \/ ord[s[j]] > ord[x]}
<1>1. /\ s \in Seq(S) /\ Len(s) \in Nat
      /\ \A j \in 1..Len(s) : s[j] \in S /\ ord[s[j]] \in Int
      /\ \A y \in S : ord[y] \in Int
  BY SortedOnce DEF IsRanked
<1>2. PICK k \in After : \A j \in After : k <= j
  <2>1. After \in SUBSET Nat /\ Len(s) + 1 \in After
    BY <1>1
  <2>. HIDE DEF After
  <2>. QED
    BY <2>1, LeastNumber
<1>3. k \in 1..Len(s) + 1
  OBVIOUS
<1>4. ASSUME NEW j \in 1..Len(s), j < k
      PROVE  ord[s[j]] < ord[x]
  <2>1. j \notin After
    BY <1>1, <1>2, <1>3, <1>4
  <2>2. ~(ord[s[j]] > ord[x]) /\ ord[s[j]] # ord[x]
    BY <1>1, <2>1
  <2>. QED
    BY <1>1, <2>2
<1>5. ASSUME NEW j \in 1..Len(s), k <= j
      PROVE  ord[s[j]] > ord[x]
  <2>1. k \in 1..Len(s) /\ ord[s[k]] > ord[x]
    BY <1>1, <1>3, <1>5
  <2>2. k = j \/ ord[s[k]] < ord[s[j]]
    BY <1>1, <1>5, <2>1 DEF IsRanked
  <2>. QED
    BY <1>1, <2>1, <2>2
<1>. HIDE DEF After
<1>. DEFINE t == InsertAt(s, k, x)
<1>6. /\ t \in Seq(S \cup {x}) /\ Len(t) = Len(s) + 1
      /\ \A j \in 1..Len(s) + 1 : t[j] =
            IF j < k THEN s[j] ELSE IF j = k THEN x ELSE s[j - 1]
  <2>. DEFINE U == S \cup {x}
  <2>1. s \in Seq(U) /\ x \in U
    BY <1>1
  <2>. HIDE DEF U
  <2>2. /\ InsertAt(s, k, x) \in Seq(U) /\ Len(InsertAt(s, k, x)) = Len(s) + 1
        /\ \A j \in 1..Len(s) + 1 : InsertAt(s, k, x)[j] =
              IF j < k THEN s[j] ELSE IF j = k THEN x ELSE s[j - 1]
    BY <1>3, <2>1, InsertAtFacts
  <2>. QED
    BY <2>2 DEF U
<1>. HIDE DEF t
<1>7. ASSUME NEW y \in S \cup {x}
      PROVE  \E j \in 1..Len(t) : t[j] = y
  <2>1. CASE y = x
    <3>1. t[k] = x /\ k \in 1..Len(t)
      BY <1>1, <1>3, <1>6
    <3>. QED
      BY <2>1, <3>1
  <2>2. CASE y # x
    <3>1. PICK q \in 1..Len(s) : s[q] = y
      BY <2>2 DEF IsRanked
    <3>2. CASE q < k
      <4>1. q \in 1..Len(t) /\ t[q] = s[q]
        BY <1>1, <1>6, <3>2
      <4>. QED
        BY <3>1, <4>1
    <3>3. CASE ~(q < k)
      <4>1. q + 1 \in 1..Len(s) + 1 /\ ~(q + 1 < k) /\ q + 1 # k /\ (q + 1) - 1 = q
        BY <1>1, <1>3, <3>3
      <4>2. t[q + 1] = s[q] /\ q + 1 \in 1..Len(t)
        BY <1>6, <4>1
      <4>. QED
        BY <3>1, <4>2
    <3>. QED
      BY <3>2, <3>3
  <2>. QED
    BY <2>1, <2>2
<1>8. ASSUME NEW i \in 1..Len(t), NEW j \in 1..Len(t), i < j
      PROVE  ord[t[i]] < ord[t[j]]
  <2>1. i \in 1..Len(s) + 1 /\ j \in 1..Len(s) + 1
    BY <1>6
  <2>2. CASE j < k
    <3>1. t[i] = s[i] /\ t[j] = s[j] /\ i \in 1..Len(s) /\ j \in 1..Len(s)
      BY <1>1, <1>3, <1>6, <1>8, <2>1, <2>2
    <3>. QED
      BY <1>8, <3>1 DEF IsRanked
  <2>3. CASE j = k
    <3>1. i < k /\ i \in 1..Len(s) /\ t[i] = s[i] /\ t[j] = x
      BY <1>1, <1>3, <1>6, <1>8, <2>1, <2>3
    <3>. QED
      BY <1>4, <3>1
  <2>4. CASE k < j /\ i < k
    <3>1. j - 1 \in 1..Len(s) /\ i \in 1..Len(s) /\ i < j - 1
      BY <1>1, <1>3, <2>1, <2>4
    <3>2. t[i] = s[i]
      BY <1>6, <2>1, <2>4
    <3>3. t[j] = s[j - 1]
      BY <1>3, <1>6, <2>1, <2>4
    <3>. QED
      BY <3>1, <3>2, <3>3 DEF IsRanked
  <2>5. CASE i = k
    <3>1. j - 1 \in 1..Len(s) /\ k <= j - 1 /\ k < j
      BY <1>1, <1>3, <1>8, <2>1, <2>5
    <3>2. t[i] = x
      BY <1>3, <1>6, <2>1, <2>5
    <3>3. t[j] = s[j - 1]
      BY <1>3, <1>6, <2>1, <3>1
    <3>4. ord[s[j - 1]] > ord[x]
      BY <1>5, <3>1
    <3>. QED
      BY <1>1, <3>1, <3>2, <3>3, <3>4
  <2>6. CASE k < i
    <3>1. i - 1 \in 1..Len(s) /\ j - 1 \in 1..Len(s) /\ i - 1 < j - 1 /\ k < j
      BY <1>1, <1>3, <1>8, <2>1, <2>6
    <3>2. t[i] = s[i - 1]
      BY <1>3, <1>6, <2>1, <2>6
    <3>3. t[j] = s[j - 1]
      BY <1>3, <1>6, <2>1, <3>1
    <3>. QED
      BY <3>1, <3>2, <3>3 DEF IsRanked
  <2>7. j < k \/ j = k \/ (k < j /\ i < k) \/ i = k \/ k < i
    BY <1>3, <2>1
  <2>. QED
    BY <2>2, <2>3, <2>4, <2>5, <2>6, <2>7, Zenon
<1>9. IsRanked(t, S \cup {x}, ord)
  BY <1>1, <1>6, <1>7, <1>8 DEF IsRanked
<1>. QED
  BY <1>3, <1>9 DEF t

\* There is one such sequence,
LEMMA SortedExists ==
    ASSUME NEW S, IsFiniteSet(S), NEW ord, \A x \in S : ord[x] \in Int,
           \A x, y \in S : ord[x] = ord[y] => x = y
    PROVE  \E s : IsRanked(s, S, ord)
<1>. DEFINE P == {T \in SUBSET S : \E s : IsRanked(s, T, ord)}
<1>1. {} \in P
  <2>1. IsRanked(<<>>, {}, ord)
    BY DEF IsRanked
  <2>. QED
    BY <2>1
<1>2. ASSUME NEW T \in SUBSET S, NEW x \in S \ T, T \in P
      PROVE  T \cup {x} \in P
  <2>1. PICK s : IsRanked(s, T, ord)
    BY <1>2
  <2>2. \E k \in 1..Len(s) + 1 : IsRanked(InsertAt(s, k, x), T \cup {x}, ord)
    <3>1. x \notin T /\ ord[x] \in Int /\ \A y \in T : ord[y] \in Int /\ ord[y] # ord[x]
      BY <1>2
    <3>. QED
      BY <2>1, <3>1, SortedInsert
  <2>. QED
    BY <2>2
<1>3. S \in P
  <2>. HIDE DEF P
  <2>. QED
    BY <1>1, <1>2, FiniteInduction
<1>. QED
  BY <1>3

\* and only one.
LEMMA RankedPrefix ==
    ASSUME NEW S, NEW ord, NEW s, IsRanked(s, S, ord), NEW t, IsRanked(t, S, ord)
    PROVE  \A k \in 1..Len(s) : k <= Len(t) /\ s[k] = t[k]
<1>. DEFINE Bad == {k \in 1..Len(s) : ~(k <= Len(t) /\ s[k] = t[k])}
<1>1. /\ Len(s) \in Nat /\ Len(t) \in Nat
      /\ \A j \in 1..Len(s) : s[j] \in S /\ ord[s[j]] \in Int
      /\ \A j \in 1..Len(t) : t[j] \in S /\ ord[t[j]] \in Int
      /\ \A j, k \in 1..Len(s) : s[j] = s[k] => j = k
      /\ \A j, k \in 1..Len(t) : t[j] = t[k] => j = k
  BY SortedOnce
<1>. SUFFICES ASSUME Bad # {} PROVE FALSE
  OBVIOUS
<1>2. PICK k \in Bad : \A j \in Bad : k <= j
  <2>1. Bad \in SUBSET Nat
    BY <1>1
  <2>. HIDE DEF Bad
  <2>. QED
    BY <2>1, LeastNumber
<1>3. k \in 1..Len(s) /\ ~(k <= Len(t) /\ s[k] = t[k])
  OBVIOUS
<1>4. \A j \in 1..Len(s) : j < k => j <= Len(t) /\ s[j] = t[j]
  BY <1>1, <1>2, <1>3
<1>. HIDE DEF Bad
<1>5. PICK j \in 1..Len(t) : t[j] = s[k]
  BY <1>1, <1>3 DEF IsRanked
<1>6. k < j
  <2>1. j # k
    BY <1>1, <1>3, <1>5
  <2>2. ~(j < k)
    <3>. SUFFICES ASSUME j < k PROVE FALSE
      OBVIOUS
    <3>1. j \in 1..Len(s) /\ s[j] = t[j]
      BY <1>1, <1>3, <1>4
    <3>. QED
      BY <1>1, <1>3, <1>5, <3>1
  <2>. QED
    BY <1>1, <1>3, <2>1, <2>2
<1>7. k \in 1..Len(t) /\ ord[t[k]] < ord[s[k]]
  <2>1. k \in 1..Len(t)
    BY <1>1, <1>3, <1>6
  <2>. QED
    BY <1>5, <1>6, <2>1 DEF IsRanked
<1>8. PICK i \in 1..Len(s) : s[i] = t[k]
  BY <1>1, <1>7 DEF IsRanked
<1>9. i < k
  <2>1. i # k
    BY <1>1, <1>3, <1>7, <1>8
  <2>2. ~(k < i)
    <3>. SUFFICES ASSUME k < i PROVE FALSE
      OBVIOUS
    <3>1. ord[s[k]] < ord[s[i]]
      BY <1>3 DEF IsRanked
    <3>. QED
      BY <1>1, <1>3, <1>7, <1>8, <3>1
  <2>. QED
    BY <1>1, <1>3, <2>1, <2>2
<1>10. i \in 1..Len(t) /\ t[i] = t[k]
  BY <1>1, <1>4, <1>8, <1>9
<1>. QED
  BY <1>1, <1>7, <1>9, <1>10

LEMMA SortedUnique ==
    ASSUME NEW S, NEW ord, NEW s, IsRanked(s, S, ord), NEW t, IsRanked(t, S, ord)
    PROVE  s = t
<1>1. s \in Seq(S) /\ t \in Seq(S) /\ Len(s) \in Nat /\ Len(t) \in Nat
  BY DEF IsRanked
<1>2. \A k \in 1..Len(s) : k <= Len(t) /\ s[k] = t[k]
  BY RankedPrefix
<1>3. \A k \in 1..Len(t) : k <= Len(s)
  BY RankedPrefix
<1>4. Len(s) = Len(t)
  BY <1>1, <1>2, <1>3
<1>. QED
  BY <1>1, <1>2, <1>4, SeqEqual

\* How the library writes a set as a sequence.
LEMMA RankedIsSeq ==
    ASSUME NEW S, NEW ord, NEW s, IsRanked(s, S, ord)
    PROVE  s \in SetToSeqs(S) /\ Len(s) = Cardinality(S)
<1>1. /\ s \in Seq(S) /\ Len(s) \in Nat
      /\ \A j, k \in 1..Len(s) : s[j] = s[k] => j = k
  <2>1. s \in Seq(S)
    BY DEF IsRanked
  <2>. QED
    BY <2>1, SortedOnce
<1>2. s \in [1..Len(s) -> S]
  BY <1>1
<1>3. s \in Bijection(1..Len(s), S)
  BY <1>1, <1>2 DEF Bijection, Injection, Surjection, IsInjective, IsRanked
<1>4. Cardinality(S) = Len(s)
  BY <1>1, <1>3, FS_CountingElements DEF ExistsBijection
<1>. QED
  BY <1>1, <1>2, <1>4 DEF SetToSeqs

LEMMA SeqIsRanked ==
    ASSUME NEW S, IsFiniteSet(S), NEW s \in SetToSeqs(S)
    PROVE  /\ s \in Seq(S) /\ Len(s) = Cardinality(S)
           /\ \A x \in S : \E j \in 1..Len(s) : s[j] = x
           /\ \A j, k \in 1..Len(s) : s[j] = s[k] => j = k
<1>. DEFINE n == Cardinality(S)
<1>1. n \in Nat
  BY FS_CardinalityType
<1>2. s \in [1..n -> S] /\ \A i, j \in 1..n : i # j => s[i] # s[j]
  BY DEF SetToSeqs
<1>. HIDE DEF n
<1>3. s \in Seq(S) /\ Len(s) = n
  BY <1>1, <1>2
<1>4. s \in Injection(1..n, S)
  BY <1>2 DEF Injection, IsInjective
<1>5. IsFiniteSet(1..n) /\ Cardinality(1..n) = n
  BY <1>1, FS_Interval
<1>6. s \in Surjection(1..n, S)
  BY <1>4, <1>5, FS_Injection DEF n
<1>. QED
  BY <1>2, <1>3, <1>6 DEF Surjection, n

-----------------------------------------------------------------------------
(* The categories of a menu.                                               *)

SaveOps == {"createCategory", "updateCategory", "categoryStatus"}

ItemsKept ==
    \A i \in ItemIds : item[i] # NoItem => category[item[i].category] # NoCategory

\* No two requests are about to create under one id.
OwnIds ==
    \A r \in Requests : \A p \in Requests \ {r} :
       /\ req[r].op = "createCategory" /\ req[r].id # Absent => req[p].id # req[r].id
       /\ req[r].op = "createItem" /\ req[r].item # Absent => req[p].item # req[r].item

\* What holds of the request q however old its readings are.
Known(q) ==
    /\ q.step = "find" => q = [Idle EXCEPT !.op = q.op, !.step = "find"]
    /\ q.step = "move" => q.op \in {"createCategory", "updateCategory"}
    /\ q.step = "items" => q.op = "deleteCategory"
    /\ q.step = "place" => q.op = "updateItem"
    /\ q.step = "name" => q.op \in {"createItem", "updateItem"}
    /\ q.new # NoItem /\ q.step # "place" => category[q.new.category] # NoCategory
    /\ q.id # Absent => (category[q.id] = NoCategory <=> q.op = "createCategory")
    /\ q.op = "createItem" /\ q.item # Absent => item[q.item] = NoItem
    /\ q.op = "deleteCategory" /\ q.id # Absent => q.row.status = "DELETED"

CurrentCategory(q) ==
    /\ q.op = "createCategory" /\ q.step \in {"move", "save"} =>
          q.id \in CategoryIds /\ q.row = NewCategory(q.row.order)
    /\ q.op \in {"updateCategory", "categoryStatus"} /\ q.step \in {"move", "save"} =>
          /\ q.id \in Live
          /\ q.prev = category[q.id].order
          /\ q.row.status = "LIVE"
          /\ q.op = "categoryStatus" => q.row.order = q.prev
    /\ q.op \in SaveOps /\ q.step = "save" =>
          q.found = {c \in CategoryIds : ToMove(q, c)}

CurrentItem(q) ==
    /\ q.op = "createItem" /\ q.step \in {"name", "save"} =>
          q.item \in ItemIds /\ q.new.category \in Live
    /\ q.op \in {"createItem", "updateItem"} /\ q.step \in {"place", "name", "save"} =>
          q.new.status = "LIVE"
    /\ q.op = "updateItem" /\ q.step \in {"place", "name", "save"} =>
          q.item \in LiveItems
    /\ q.op = "updateItem" /\ q.step \in {"name", "save"} =>
          \/ q.new.category = item[q.item].category
          \/ q.new.category \in Live /\ category[q.new.category].active
    /\ q.op \in {"createItem", "updateItem"} /\ q.step = "save" =>
          \A j \in LiveItems \ {q.item} : item[j].name # q.new.name

\* What holds as long as nothing was written since.
Current(q) == q.stale \/ (CurrentCategory(q) /\ CurrentItem(q))

CatalogIInv ==
    /\ TypeOK
    /\ ItemsKept
    /\ OwnIds
    /\ \A r \in Requests : Known(req[r]) /\ Current(req[r])

LEMMA StrongerInv == CatalogIInv => CatalogInv
  BY DEF CatalogIInv, CatalogInv, FreshInv, ItemsKept, OwnIds, Known

LEMMA IdleFits ==
    /\ Idle \in Request
    /\ Known(Idle) /\ Current(Idle)
<1>1. NoCategory \in Category /\ NoItem \in Item /\ 0 \in Orders
  BY CatalogAssumption DEF Category, Item, Orders
<1>2. Idle \in Request
  BY <1>1 DEF Idle, Request
<1>. QED
  BY <1>2 DEF Idle, Known, Current, CurrentCategory, CurrentItem, SaveOps

LEMMA CategoryInit == Init => CatalogIInv
<1>. SUFFICES ASSUME Init PROVE CatalogIInv
  OBVIOUS
<1>1. NoCategory \in Category /\ NoItem \in Item
  BY DEF Category, Item
<1>2. TypeOK
  BY <1>1, IdleFits DEF Init, TypeOK
<1>3. \A r \in Requests : Known(req[r]) /\ Current(req[r])
  BY IdleFits DEF Init
<1>4. ItemsKept
  BY DEF Init, ItemsKept
<1>5. OwnIds
  BY DEF Init, OwnIds, Idle
<1>. QED
  BY <1>2, <1>3, <1>4, <1>5 DEF CatalogIInv

-----------------------------------------------------------------------------
\* A request that goes on, while the rows stay.
LEMMA ProceedInv ==
    ASSUME CatalogIInv, NEW r \in Requests, NEW q \in Request, Proceed(r, q),
           Known(q), Current(q),
           \A p \in Requests \ {r} :
              /\ q.id # Absent /\ (q.op = "createCategory" \/ req[p].op = "createCategory")
                    => req[p].id # q.id
              /\ q.item # Absent /\ (q.op = "createItem" \/ req[p].op = "createItem")
                    => req[p].item # q.item
    PROVE  CatalogIInv'
<1>1. /\ req' = [req EXCEPT ![r] = q] /\ category' = category /\ item' = item
      /\ req \in [Requests -> Request]
  BY DEF Proceed, rowVars, CatalogIInv, TypeOK
<1>2. req'[r] = q /\ \A p \in Requests \ {r} : req'[p] = req[p]
  BY <1>1
<1>3. TypeOK'
  BY <1>1 DEF CatalogIInv, TypeOK
<1>4. ItemsKept'
  BY <1>1 DEF CatalogIInv, ItemsKept
<1>5. OwnIds'
  BY <1>1, <1>2 DEF CatalogIInv, OwnIds
<1>6. ASSUME NEW p \in Requests
      PROVE  (Known(req[p]) /\ Current(req[p]))'
  <2>1. Known(req'[p]) /\ Current(req'[p])
    BY <1>2 DEF CatalogIInv
  <2>2. Known(req[p])'
    BY <1>1, <2>1 DEF Known
  <2>3. Current(req[p])'
    BY <1>1, <2>1 DEF Current, CurrentCategory, CurrentItem, Live, LiveItems, ToMove
  <2>. QED
    BY <2>2, <2>3
<1>. QED
  BY <1>3, <1>4, <1>5, <1>6 DEF CatalogIInv

\* The same request goes on: the ids it holds are the same.
LEMMA GoesOn ==
    ASSUME CatalogIInv, NEW r \in Requests, NEW q \in Request, Proceed(r, q),
           q.op = req[r].op, q.id = req[r].id, q.item = req[r].item,
           Known(q), Current(q)
    PROVE  CatalogIInv'
<1>1. \A p \in Requests \ {r} :
         /\ q.id # Absent /\ (q.op = "createCategory" \/ req[p].op = "createCategory")
               => req[p].id # q.id
         /\ q.item # Absent /\ (q.op = "createItem" \/ req[p].op = "createItem")
               => req[p].item # q.item
  BY DEF CatalogIInv, OwnIds
<1>. QED
  BY <1>1, ProceedInv

LEMMA ReceiveEndInv ==
    ASSUME CatalogIInv, NEW r \in Requests,
           End(r) \/ \E o \in UseCases : Receive(r, o)
    PROVE  CatalogIInv'
<1>1. CASE End(r)
  <2>1. Proceed(r, Idle)
    BY <1>1 DEF End, Proceed
  <2>2. Idle.id = Absent /\ Idle.item = Absent
    BY DEF Idle
  <2>. QED
    BY <2>1, <2>2, IdleFits, ProceedInv
<1>2. ASSUME NEW o \in UseCases, Receive(r, o)
      PROVE  CatalogIInv'
  <2>1. PICK q : q = [Idle EXCEPT !.op = o, !.step = "find"]
    OBVIOUS
  <2>2. Proceed(r, q)
    BY <1>2, <2>1 DEF Receive, Proceed
  <2>3. q \in Request
    BY <2>1, IdleFits DEF Request
  <2>4. q.id = Absent /\ q.item = Absent /\ q.new = NoItem /\ q.step = "find"
    BY <2>1 DEF Idle
  <2>5. Known(q) /\ Current(q)
    BY <2>1, <2>4 DEF Known, Current, CurrentCategory, CurrentItem, Idle
  <2>. QED
    BY <2>2, <2>3, <2>4, <2>5, ProceedInv
<1>. QED
  BY <1>1, <1>2


\* What a request in the step "find" holds.
LEMMA FindHolds ==
    ASSUME CatalogIInv, NEW r \in Requests, NEW o, Finds(r, o)
    PROVE  /\ req[r] \in Request
           /\ req[r] = [Idle EXCEPT !.op = o, !.step = "find"]
           /\ o \in UseCases \cup {"none"}
<1>1. req[r] \in Request /\ req[r].step = "find" /\ req[r].op = o
  BY DEF CatalogIInv, TypeOK, Finds
<1>2. Known(req[r])
  BY DEF CatalogIInv
<1>. QED
  BY <1>1, <1>2 DEF Known, Request

LEMMA PrepareNewInv ==
    ASSUME CatalogIInv, NEW r \in Requests, NEW c \in CategoryIds, NEW k \in Orders,
           PrepareNew(r, c, k)
    PROVE  CatalogIInv'
<1>1. PICK q : q = [req[r] EXCEPT !.step = "move", !.id = c, !.row = NewCategory(k)]
  OBVIOUS
<1>2. Proceed(r, q) /\ Unused(c) /\ Finds(r, "createCategory")
  BY <1>1 DEF PrepareNew
<1>3. /\ req[r] \in Request
      /\ req[r] = [Idle EXCEPT !.op = "createCategory", !.step = "find"]
  BY <1>2, FindHolds
<1>4. NewCategory(k) \in Category
  BY DEF NewCategory, Category
<1>5. /\ q.op = "createCategory" /\ q.step = "move" /\ q.id = c
      /\ q.row = NewCategory(k) /\ q.new = NoItem /\ q.item = Absent
  BY <1>1, <1>3 DEF Idle
<1>6. q \in Request
  BY <1>1, <1>3, <1>4 DEF Request
<1>7. Known(q)
  BY <1>2, <1>5 DEF Known, Unused
<1>8. Current(q)
  BY <1>5 DEF Current, CurrentCategory, CurrentItem, NewCategory
<1>9. \A p \in Requests : req[p].id # c
  BY <1>2 DEF Unused
<1>. QED
  BY <1>2, <1>5, <1>6, <1>7, <1>8, <1>9, ProceedInv

\* A request finds a category, which no other is about to create.
LEMMA HoldsCategory ==
    ASSUME CatalogIInv, NEW r \in Requests, NEW c \in Live,
           NEW q \in Request, Proceed(r, q), q.id = c, q.item = Absent,
           q.op # "createCategory", Known(q), Current(q)
    PROVE  CatalogIInv'
<1>1. c \in CategoryIds /\ category[c] # NoCategory
  BY DEF Live, NoCategory
<1>2. c # Absent
  BY <1>1, CatalogAssumption
<1>3. \A p \in Requests : req[p].op = "createCategory" => req[p].id # c
  BY <1>1, <1>2 DEF CatalogIInv, Known
<1>. QED
  BY <1>2, <1>3, ProceedInv

LEMMA LiveCategory ==
    ASSUME CatalogIInv, NEW c \in Live
    PROVE  /\ c \in CategoryIds /\ c # Absent
           /\ category[c] \in [status : {"LIVE", "DELETED"}, order : Orders, active : BOOLEAN]
           /\ category[c].status = "LIVE" /\ category[c] # NoCategory
<1>1. c \in CategoryIds /\ category[c].status = "LIVE" /\ category[c] \in Category
  BY DEF Live, CatalogIInv, TypeOK
<1>. QED
  BY <1>1, CatalogAssumption DEF Category, NoCategory

LEMMA FindForUpdateInv ==
    ASSUME CatalogIInv, NEW r \in Requests, NEW c \in CategoryIds, NEW k \in Orders,
           NEW b \in BOOLEAN, FindForUpdate(r, c, k, b)
    PROVE  CatalogIInv'
<1>1. PICK q : q = [req[r] EXCEPT !.id = c, !.prev = category[c].order,
                      !.row = [category[c] EXCEPT !.order = k, !.active = b],
                      !.step = IF k = category[c].order THEN "save" ELSE "move"]
  OBVIOUS
<1>2. Proceed(r, q) /\ c \in Live /\ Finds(r, "updateCategory")
  BY <1>1 DEF FindForUpdate
<1>3. /\ req[r] \in Request
      /\ req[r] = [Idle EXCEPT !.op = "updateCategory", !.step = "find"]
  BY <1>2, FindHolds
<1>4. /\ category[c] \in [status : {"LIVE", "DELETED"}, order : Orders, active : BOOLEAN]
      /\ category[c].status = "LIVE" /\ category[c] # NoCategory
  BY <1>2, LiveCategory
<1>5. [category[c] EXCEPT !.order = k, !.active = b] \in Category
  BY <1>4 DEF Category
<1>6. /\ q.op = "updateCategory" /\ q.id = c /\ q.prev = category[c].order
      /\ q.step = (IF k = category[c].order THEN "save" ELSE "move")
      /\ q.row.status = "LIVE" /\ q.row.order = k
      /\ q.new = NoItem /\ q.item = Absent /\ q.found = {}
  BY <1>1, <1>3, <1>4 DEF Idle
<1>7. q \in Request
  BY <1>1, <1>2, <1>3, <1>4, <1>5 DEF Request, Live
<1>8. Known(q)
  BY <1>4, <1>6 DEF Known
<1>9. Current(q)
  <2>1. q.step = "save" => q.found = {d \in CategoryIds : ToMove(q, d)}
    <3>. SUFFICES ASSUME k = category[c].order, NEW d \in CategoryIds, ToMove(q, d)
                  PROVE  FALSE
      BY <1>6
    <3>1. q.prev = k /\ q.row.order = k /\ k \in Int
      BY <1>6, CatalogAssumption DEF Orders
    <3>2. d \in Live
      BY DEF ToMove
    <3>3. category[d].order \in Int
      BY <3>2, LiveCategory, CatalogAssumption DEF Orders
    <3>. QED
      BY <1>6, <3>1, <3>3 DEF ToMove
  <2>. QED
    BY <1>2, <1>6, <2>1 DEF Current, CurrentCategory, CurrentItem
<1>. QED
  BY <1>2, <1>6, <1>7, <1>8, <1>9, HoldsCategory

LEMMA FindForStatusInv ==
    ASSUME CatalogIInv, NEW r \in Requests, NEW c \in CategoryIds,
           NEW b \in BOOLEAN, FindForStatus(r, c, b)
    PROVE  CatalogIInv'
<1>1. PICK q : q = [req[r] EXCEPT !.step = "save", !.id = c, !.prev = category[c].order,
                      !.row = [category[c] EXCEPT !.active = b]]
  OBVIOUS
<1>2. Proceed(r, q) /\ c \in Live /\ Finds(r, "categoryStatus")
  BY <1>1 DEF FindForStatus
<1>3. /\ req[r] \in Request
      /\ req[r] = [Idle EXCEPT !.op = "categoryStatus", !.step = "find"]
  BY <1>2, FindHolds
<1>4. /\ category[c] \in [status : {"LIVE", "DELETED"}, order : Orders, active : BOOLEAN]
      /\ category[c].status = "LIVE" /\ category[c] # NoCategory
  BY <1>2, LiveCategory
<1>5. [category[c] EXCEPT !.active = b] \in Category
  BY <1>4 DEF Category
<1>6. /\ q.op = "categoryStatus" /\ q.step = "save" /\ q.id = c /\ q.prev = category[c].order
      /\ q.row.status = "LIVE" /\ q.row.order = q.prev
      /\ q.new = NoItem /\ q.item = Absent /\ q.found = {}
  BY <1>1, <1>3, <1>4 DEF Idle
<1>7. q \in Request
  BY <1>1, <1>2, <1>3, <1>4, <1>5 DEF Request, Live
<1>8. Known(q)
  BY <1>4, <1>6 DEF Known
<1>9. Current(q)
  <2>1. q.found = {d \in CategoryIds : ToMove(q, d)}
    <3>. SUFFICES ASSUME NEW d \in CategoryIds, ToMove(q, d)
                  PROVE  FALSE
      BY <1>6
    <3>1. q.row.order = q.prev /\ q.prev \in Int
      BY <1>4, <1>6, CatalogAssumption DEF Orders
    <3>2. d \in Live
      BY DEF ToMove
    <3>3. category[d].order \in Int
      BY <3>2, LiveCategory, CatalogAssumption DEF Orders
    <3>. QED
      BY <1>6, <3>1, <3>3 DEF ToMove
  <2>. QED
    BY <1>2, <1>6, <2>1 DEF Current, CurrentCategory, CurrentItem
<1>. QED
  BY <1>2, <1>6, <1>7, <1>8, <1>9, HoldsCategory

LEMMA FindForDeletionInv ==
    ASSUME CatalogIInv, NEW r \in Requests, NEW c \in CategoryIds,
           FindForDeletion(r, c)
    PROVE  CatalogIInv'
<1>1. PICK q : q = [req[r] EXCEPT !.step = "items", !.id = c,
                      !.row = [category[c] EXCEPT !.status = "DELETED", !.active = FALSE]]
  OBVIOUS
<1>2. Proceed(r, q) /\ c \in Live /\ Finds(r, "deleteCategory")
  BY <1>1 DEF FindForDeletion
<1>3. /\ req[r] \in Request
      /\ req[r] = [Idle EXCEPT !.op = "deleteCategory", !.step = "find"]
  BY <1>2, FindHolds
<1>4. /\ category[c] \in [status : {"LIVE", "DELETED"}, order : Orders, active : BOOLEAN]
      /\ category[c] # NoCategory
  BY <1>2, LiveCategory
<1>5. [category[c] EXCEPT !.status = "DELETED", !.active = FALSE] \in Category
  BY <1>4 DEF Category
<1>6. /\ q.op = "deleteCategory" /\ q.id = c /\ q.step = "items"
      /\ q.row.status = "DELETED" /\ q.new = NoItem /\ q.item = Absent
  BY <1>1, <1>3, <1>4 DEF Idle
<1>7. q \in Request
  BY <1>1, <1>2, <1>3, <1>5 DEF Request, Live
<1>8. Known(q) /\ Current(q)
  BY <1>4, <1>6 DEF Known, Current, CurrentCategory, CurrentItem, SaveOps
<1>. QED
  BY <1>2, <1>6, <1>7, <1>8, HoldsCategory

LEMMA BeginMoveInv ==
    ASSUME CatalogIInv, NEW r \in Requests, BeginMove(r)
    PROVE  CatalogIInv'
<1>1. PICK q : q = [req[r] EXCEPT !.step = "save",
                      !.found = {c \in CategoryIds : ToMove(req[r], c)}]
  OBVIOUS
<1>2. Proceed(r, q) /\ req[r].step = "move" /\ req[r] \in Request
  BY <1>1 DEF BeginMove, CatalogIInv, TypeOK
<1>3. q \in Request
  BY <1>1, <1>2 DEF Request
<1>4. /\ q.op = req[r].op /\ q.id = req[r].id /\ q.item = req[r].item
      /\ q.row = req[r].row /\ q.prev = req[r].prev /\ q.new = req[r].new
      /\ q.stale = req[r].stale /\ q.step = "save"
      /\ q.found = {c \in CategoryIds : ToMove(req[r], c)}
  BY <1>1, <1>2 DEF Request
<1>5. Known(req[r]) /\ Current(req[r])
  BY DEF CatalogIInv
<1>6. Known(q)
  BY <1>2, <1>4, <1>5 DEF Known
<1>7. \A c \in CategoryIds : ToMove(req[r], c) <=> ToMove(q, c)
  BY <1>4 DEF ToMove
<1>8. Current(q)
  <2>. SUFFICES ASSUME ~q.stale
                PROVE  CurrentCategory(q) /\ CurrentItem(q)
    BY DEF Current
  <2>1. CurrentCategory(req[r]) /\ CurrentItem(req[r])
    BY <1>4, <1>5 DEF Current
  <2>2. q.found = {c \in CategoryIds : ToMove(q, c)}
    BY <1>4, <1>7
  <2>3. CurrentCategory(q)
    BY <1>2, <1>4, <2>1, <2>2 DEF CurrentCategory
  <2>4. CurrentItem(q)
    BY <1>2, <1>4, <1>5 DEF Known, CurrentItem
  <2>. QED
    BY <2>3, <2>4
<1>. QED
  BY <1>2, <1>3, <1>4, <1>6, <1>8, GoesOn

LEMMA CountItemsInv ==
    ASSUME CatalogIInv, NEW r \in Requests, CountItems(r)
    PROVE  CatalogIInv'
<1>1. PICK q : q = [req[r] EXCEPT !.step = "save"]
  OBVIOUS
<1>2. Proceed(r, q) /\ req[r].step = "items" /\ req[r] \in Request
  BY <1>1 DEF CountItems, CatalogIInv, TypeOK
<1>3. q \in Request
  BY <1>1, <1>2 DEF Request
<1>4. /\ q.op = req[r].op /\ q.id = req[r].id /\ q.item = req[r].item
      /\ q.row = req[r].row /\ q.new = req[r].new /\ q.step = "save"
  BY <1>1, <1>2 DEF Request
<1>5. Known(req[r])
  BY DEF CatalogIInv
<1>6. Known(q) /\ q.op = "deleteCategory"
  BY <1>2, <1>4, <1>5 DEF Known
<1>7. Current(q)
  BY <1>6 DEF Current, CurrentCategory, CurrentItem, SaveOps
<1>. QED
  BY <1>2, <1>3, <1>4, <1>6, <1>7, GoesOn

-----------------------------------------------------------------------------
\* Items.
LEMMA NewItemTyped ==
    ASSUME NEW c \in CategoryIds, NEW n \in Names
    PROVE  /\ NewItem(c, n) \in Item /\ NewItem(c, n) # NoItem
           /\ NewItem(c, n).status = "LIVE"
           /\ NewItem(c, n).category = c /\ NewItem(c, n).name = n
<1>1. NewItem(c, n).status = "LIVE" /\ NoItem.status = "NONE"
  BY DEF NewItem, NoItem
<1>. QED
  BY <1>1 DEF NewItem, Item

LEMMA PrepareItemInv ==
    ASSUME CatalogIInv, NEW r \in Requests, NEW i \in ItemIds,
           NEW c \in CategoryIds, NEW n \in Names, PrepareItem(r, i, c, n)
    PROVE  CatalogIInv'
<1>1. PICK q : q = [req[r] EXCEPT !.step = "name", !.item = i, !.new = NewItem(c, n)]
  OBVIOUS
<1>2. /\ Proceed(r, q) /\ c \in Live /\ Finds(r, "createItem")
      /\ item[i] = NoItem /\ \A p \in Requests : req[p].item # i
  BY <1>1 DEF PrepareItem
<1>3. /\ req[r] \in Request
      /\ req[r] = [Idle EXCEPT !.op = "createItem", !.step = "find"]
  BY <1>2, FindHolds
<1>4. category[c] # NoCategory
  BY <1>2, LiveCategory
<1>5. /\ q.op = "createItem" /\ q.step = "name" /\ q.id = Absent
      /\ q.item = i /\ q.new = NewItem(c, n)
  BY <1>1, <1>3 DEF Idle
<1>6. q \in Request
  BY <1>1, <1>3, NewItemTyped DEF Request
<1>7. Known(q)
  BY <1>2, <1>4, <1>5, NewItemTyped DEF Known
<1>8. Current(q)
  BY <1>2, <1>5, NewItemTyped DEF Current, CurrentCategory, CurrentItem, SaveOps
<1>. QED
  BY <1>2, <1>5, <1>6, <1>7, <1>8, ProceedInv

LEMMA FoundItem ==
    ASSUME CatalogIInv, NEW i \in LiveItems
    PROVE  /\ i \in ItemIds /\ i # Absent
           /\ item[i] \in [status : {"LIVE", "DELETED"}, category : CategoryIds, name : Names]
           /\ item[i].status = "LIVE" /\ item[i] # NoItem
           /\ category[item[i].category] # NoCategory
           /\ \A p \in Requests : req[p].op = "createItem" => req[p].item # i
<1>1. i \in ItemIds /\ item[i].status = "LIVE" /\ item[i] \in Item
  BY DEF LiveItems, CatalogIInv, TypeOK
<1>2. i # Absent /\ item[i] # NoItem
  BY <1>1, CatalogAssumption DEF NoItem
<1>3. item[i] \in [status : {"LIVE", "DELETED"}, category : CategoryIds, name : Names]
  BY <1>1, <1>2 DEF Item
<1>4. category[item[i].category] # NoCategory
  BY <1>1, <1>2 DEF CatalogIInv, ItemsKept
<1>5. \A p \in Requests : req[p].op = "createItem" => req[p].item # i
  BY <1>2 DEF CatalogIInv, Known
<1>. QED
  BY <1>1, <1>2, <1>3, <1>4, <1>5

LEMMA FindItemInv ==
    ASSUME CatalogIInv, NEW r \in Requests, NEW i \in ItemIds,
           NEW c \in CategoryIds, NEW n \in Names, FindItem(r, i, c, n)
    PROVE  CatalogIInv'
<1>1. PICK q : q = [req[r] EXCEPT !.item = i, !.new = NewItem(c, n),
                      !.step = IF c = item[i].category THEN "name" ELSE "place"]
  OBVIOUS
<1>2. Proceed(r, q) /\ i \in LiveItems /\ Finds(r, "updateItem")
  BY <1>1 DEF FindItem
<1>3. /\ req[r] \in Request
      /\ req[r] = [Idle EXCEPT !.op = "updateItem", !.step = "find"]
  BY <1>2, FindHolds
<1>4. /\ q.op = "updateItem" /\ q.id = Absent /\ q.item = i /\ q.new = NewItem(c, n)
      /\ q.step = (IF c = item[i].category THEN "name" ELSE "place")
  BY <1>1, <1>3 DEF Idle
<1>5. q \in Request
  BY <1>1, <1>3, NewItemTyped DEF Request
<1>6. Known(q)
  BY <1>2, <1>4, FoundItem, NewItemTyped DEF Known
<1>7. Current(q)
  BY <1>2, <1>4, NewItemTyped DEF Current, CurrentCategory, CurrentItem, SaveOps
<1>. QED
  BY <1>2, <1>4, <1>5, <1>6, <1>7, FoundItem, ProceedInv

LEMMA FindItemForDeletionInv ==
    ASSUME CatalogIInv, NEW r \in Requests, NEW i \in ItemIds, FindItemForDeletion(r, i)
    PROVE  CatalogIInv'
<1>1. PICK q : q = [req[r] EXCEPT !.step = "save", !.item = i]
  OBVIOUS
<1>2. Proceed(r, q) /\ i \in LiveItems /\ Finds(r, "deleteItem")
  BY <1>1 DEF FindItemForDeletion
<1>3. /\ req[r] \in Request
      /\ req[r] = [Idle EXCEPT !.op = "deleteItem", !.step = "find"]
  BY <1>2, FindHolds
<1>4. /\ q.op = "deleteItem" /\ q.id = Absent /\ q.item = i /\ q.new = NoItem
      /\ q.step = "save"
  BY <1>1, <1>3 DEF Idle
<1>5. q \in Request
  BY <1>1, <1>3 DEF Request
<1>6. Known(q) /\ Current(q)
  BY <1>4 DEF Known, Current, CurrentCategory, CurrentItem, SaveOps
<1>. QED
  BY <1>2, <1>4, <1>5, <1>6, FoundItem, ProceedInv

LEMMA FindPlaceInv ==
    ASSUME CatalogIInv, NEW r \in Requests, FindPlace(r)
    PROVE  CatalogIInv'
<1>1. PICK q : q = [req[r] EXCEPT !.step = "name"]
  OBVIOUS
<1>2. /\ Proceed(r, q) /\ req[r].step = "place" /\ req[r] \in Request
      /\ req[r].new.category \in Live /\ category[req[r].new.category].active
  BY <1>1 DEF FindPlace, CatalogIInv, TypeOK
<1>3. q \in Request
  BY <1>1, <1>2 DEF Request
<1>4. /\ q.op = req[r].op /\ q.id = req[r].id /\ q.item = req[r].item
      /\ q.row = req[r].row /\ q.new = req[r].new /\ q.step = "name"
      /\ q.stale = req[r].stale
  BY <1>1, <1>2 DEF Request
<1>5. Known(req[r]) /\ Current(req[r])
  BY DEF CatalogIInv
<1>6. Known(q)
  BY <1>2, <1>4, <1>5, LiveCategory DEF Known
<1>7. Current(q)
  <2>1. q.op = "updateItem"
    BY <1>2, <1>4, <1>5 DEF Known
  <2>2. CurrentCategory(q)
    BY <2>1 DEF CurrentCategory, SaveOps
  <2>3. ~q.stale => CurrentItem(req[r])
    BY <1>4, <1>5 DEF Current
  <2>4. ~q.stale => CurrentItem(q)
    BY <1>2, <1>4, <2>1, <2>3 DEF CurrentItem
  <2>. QED
    BY <2>2, <2>4 DEF Current
<1>. QED
  BY <1>2, <1>3, <1>4, <1>6, <1>7, GoesOn

LEMMA FindNameInv ==
    ASSUME CatalogIInv, NEW r \in Requests, FindName(r)
    PROVE  CatalogIInv'
<1>1. PICK q : q = [req[r] EXCEPT !.step = "save"]
  OBVIOUS
<1>2. /\ Proceed(r, q) /\ req[r].step = "name" /\ req[r] \in Request
      /\ \A j \in LiveItems \ {req[r].item} : item[j].name # req[r].new.name
  BY <1>1 DEF FindName, CatalogIInv, TypeOK
<1>3. q \in Request
  BY <1>1, <1>2 DEF Request
<1>4. /\ q.op = req[r].op /\ q.id = req[r].id /\ q.item = req[r].item
      /\ q.row = req[r].row /\ q.new = req[r].new /\ q.step = "save"
      /\ q.stale = req[r].stale
  BY <1>1, <1>2 DEF Request
<1>5. Known(req[r]) /\ Current(req[r])
  BY DEF CatalogIInv
<1>6. Known(q)
  BY <1>2, <1>4, <1>5 DEF Known
<1>7. Current(q)
  <2>1. q.op \in {"createItem", "updateItem"}
    BY <1>2, <1>4, <1>5 DEF Known
  <2>2. CurrentCategory(q)
    BY <2>1 DEF CurrentCategory, SaveOps
  <2>3. ~q.stale => CurrentItem(req[r])
    BY <1>4, <1>5 DEF Current
  <2>4. ~q.stale => CurrentItem(q)
    BY <1>2, <1>4, <2>1, <2>3 DEF CurrentItem
  <2>. QED
    BY <2>2, <2>4 DEF Current
<1>. QED
  BY <1>2, <1>3, <1>4, <1>6, <1>7, GoesOn

-----------------------------------------------------------------------------
\* The rows are written.
LEMMA WrittenInv ==
    ASSUME CatalogIInv, NEW r \in Requests, NEW S, Written(r, S),
           \/ S = UseCases
           \/ S = ItemUseCases /\ category' = category,
           category' \in [CategoryIds -> Category], item' \in [ItemIds -> Item],
           \A c \in CategoryIds : category[c] # NoCategory => category'[c] # NoCategory,
           \A c \in CategoryIds : category[c] = NoCategory =>
              category'[c] = NoCategory \/ (c = req[r].id /\ req[r].op = "createCategory"),
           \A i \in ItemIds : item[i] = NoItem =>
              item'[i] = NoItem \/ (i = req[r].item /\ req[r].op = "createItem"),
           \A i \in ItemIds : item'[i] # NoItem =>
              item'[i].category \in CategoryIds /\ category[item'[i].category] # NoCategory
    PROVE  CatalogIInv'
<1>. DEFINE Touched(p) == req[p].op \in S /\ req[p].step # "find"
<1>1. /\ req' = [p \in Requests |->
                   IF p = r THEN Idle
                   ELSE IF Touched(p) THEN [req[p] EXCEPT !.stale = TRUE] ELSE req[p]]
      /\ req \in [Requests -> Request]
  BY DEF Written, CatalogIInv, TypeOK
<1>2. req'[r] = Idle
  BY <1>1
<1>3. ASSUME NEW p \in Requests \ {r}
      PROVE  /\ req'[p] \in Request
             /\ req'[p].op = req[p].op /\ req'[p].step = req[p].step
             /\ req'[p].id = req[p].id /\ req'[p].item = req[p].item
             /\ req'[p].new = req[p].new /\ req'[p].row = req[p].row
             /\ Touched(p) => req'[p].stale
             /\ ~Touched(p) => req'[p] = req[p]
  <2>1. req[p] \in Request
    BY <1>1
  <2>2. req'[p] = IF Touched(p) THEN [req[p] EXCEPT !.stale = TRUE] ELSE req[p]
    BY <1>1
  <2>3. [req[p] EXCEPT !.stale = TRUE] \in Request
    BY <2>1 DEF Request
  <2>. HIDE DEF Touched
  <2>. QED
    BY <2>1, <2>2, <2>3 DEF Request
<1>4. TypeOK'
  <2>1. req' \in [Requests -> Request]
    <3>1. \A p \in Requests : req'[p] \in Request
      BY <1>2, <1>3, IdleFits
    <3>. HIDE DEF Touched
    <3>. QED
      BY <1>1, <3>1
  <2>. QED
    BY <2>1 DEF TypeOK
<1>5. ItemsKept'
  BY DEF ItemsKept
<1>6. OwnIds'
  <2>. SUFFICES ASSUME NEW p \in Requests, NEW u \in Requests \ {p}
                PROVE
                  /\ req'[p].op = "createCategory" /\ req'[p].id # Absent
                        => req'[u].id # req'[p].id
                  /\ req'[p].op = "createItem" /\ req'[p].item # Absent
                        => req'[u].item # req'[p].item
    BY DEF OwnIds
  <2>1. CASE p = r
    BY <1>2, <2>1 DEF Idle
  <2>2. CASE u = r
    <3>1. req'[u].id = Absent /\ req'[u].item = Absent
      BY <1>2, <2>2 DEF Idle
    <3>. QED
      BY <3>1
  <2>3. CASE p # r /\ u # r
    BY <1>3, <2>3 DEF CatalogIInv, OwnIds
  <2>. QED
    BY <2>1, <2>2, <2>3
<1>7. ASSUME NEW p \in Requests
      PROVE  (Known(req[p]) /\ Current(req[p]))'
  <2>1. CASE p = r
    <3>1. /\ Idle.step = "idle" /\ Idle.op = "none" /\ Idle.id = Absent
          /\ Idle.item = Absent /\ Idle.new = NoItem
      BY DEF Idle
    <3>. QED
      BY <1>2, <2>1, <3>1 DEF Known, Current, CurrentCategory, CurrentItem, SaveOps
  <2>2. CASE p # r
    <3>1. Known(req[p]) /\ Current(req[p]) /\ req[p] \in Request
      BY <1>1 DEF CatalogIInv
    <3>2. Known(req[p])'
      <4>1. req[p].step = "find" => req'[p] = req[p]
        BY <1>3, <2>2
      <4>2. req[p].new # NoItem => req[p].new.category \in CategoryIds
        BY <3>1 DEF Request, Item
      <4>3. req[p].id # Absent => req[p].id \in CategoryIds
        BY <3>1 DEF Request
      <4>4. req[p].item # Absent => req[p].item \in ItemIds
        BY <3>1 DEF Request
      <4>5. req[p].op = "createCategory" /\ req[p].id # Absent => req[r].id # req[p].id
        BY <2>2 DEF CatalogIInv, OwnIds
      <4>6. req[p].op = "createItem" /\ req[p].item # Absent => req[r].item # req[p].item
        BY <2>2 DEF CatalogIInv, OwnIds
      <4>7. /\ req'[p].step = "find" =>
                 req'[p] = [Idle EXCEPT !.op = req'[p].op, !.step = "find"]
            /\ req'[p].step = "move" => req'[p].op \in {"createCategory", "updateCategory"}
            /\ req'[p].step = "items" => req'[p].op = "deleteCategory"
            /\ req'[p].step = "place" => req'[p].op = "updateItem"
            /\ req'[p].step = "name" => req'[p].op \in {"createItem", "updateItem"}
        BY <1>3, <2>2, <3>1, <4>1 DEF Known
      <4>8. req'[p].new # NoItem /\ req'[p].step # "place" =>
               category'[req'[p].new.category] # NoCategory
        BY <1>3, <2>2, <3>1, <4>2 DEF Known
      <4>9. req'[p].id # Absent =>
               (category'[req'[p].id] = NoCategory <=> req'[p].op = "createCategory")
        BY <1>3, <2>2, <3>1, <4>3, <4>5 DEF Known
      <4>10. /\ req'[p].op = "createItem" /\ req'[p].item # Absent =>
                   item'[req'[p].item] = NoItem
             /\ req'[p].op = "deleteCategory" /\ req'[p].id # Absent =>
                   req'[p].row.status = "DELETED"
        BY <1>3, <2>2, <3>1, <4>4, <4>6 DEF Known
      <4>. QED
        BY <4>7, <4>8, <4>9, <4>10 DEF Known
    <3>3. Current(req[p])'
      <4>. SUFFICES ASSUME ~req'[p].stale
                    PROVE  (CurrentCategory(req[p]) /\ CurrentItem(req[p]))'
        BY DEF Current
      <4>1. ~Touched(p) /\ req'[p] = req[p]
        BY <1>3, <2>2
      <4>2. CASE req[p].step = "find"
        BY <4>1, <4>2 DEF CurrentCategory, CurrentItem
      <4>3. CASE req[p].op \notin S /\ S = UseCases
        BY <4>1, <4>3 DEF CurrentCategory, CurrentItem, SaveOps, UseCases,
                          CategoryUseCases, ItemUseCases
      <4>4. CASE req[p].op \notin S /\ S = ItemUseCases /\ category' = category
        <5>1. CurrentCategory(req[p])
          BY <3>1, <4>1 DEF Current
        <5>2. CurrentCategory(req[p])'
          BY <4>1, <4>4, <5>1 DEF CurrentCategory, Live, ToMove
        <5>3. CurrentItem(req[p])'
          BY <4>1, <4>4 DEF CurrentItem, ItemUseCases
        <5>. QED
          BY <5>2, <5>3
      <4>. QED
        BY <4>1, <4>2, <4>3, <4>4
    <3>. QED
      BY <3>2, <3>3
  <2>. QED
    BY <2>1, <2>2
<1>. QED
  BY <1>4, <1>5, <1>6, <1>7 DEF CatalogIInv

\* A transaction that moves categories moves live ones.
LEMMA MovedFacts ==
    ASSUME CatalogIInv, NEW r \in Requests, NEW c \in CategoryIds,
           c \in req[r].found => Moved(req[r], c).order \in Orders
    PROVE  /\ Moved(req[r], c) \in Category
           /\ Moved(req[r], c).status = category[c].status
           /\ category[c] = NoCategory <=> Moved(req[r], c) = NoCategory
<1>1. category[c] \in Category
  BY DEF CatalogIInv, TypeOK
<1>2. CASE ~(c \in req[r].found /\ ToMove(req[r], c))
  BY <1>1, <1>2 DEF Moved
<1>3. CASE c \in req[r].found /\ ToMove(req[r], c)
  <2>1. c \in Live
    BY <1>3 DEF ToMove
  <2>2. /\ category[c] \in [status : {"LIVE", "DELETED"}, order : Orders, active : BOOLEAN]
        /\ category[c].status = "LIVE"
    BY <2>1, LiveCategory
  <2>3. PICK k : Moved(req[r], c) = [category[c] EXCEPT !.order = k]
    <3>1. Moved(req[r], c) =
             [category[c] EXCEPT !.order =
                IF req[r].op # "createCategory" /\ req[r].row.order > req[r].prev
                THEN category[c].order - 1 ELSE category[c].order + 1]
      BY <1>3, <2>2 DEF Moved
    <3>. QED
      BY <3>1
  <2>4. Moved(req[r], c).status = "LIVE" /\ Moved(req[r], c).order = k
    BY <2>2, <2>3
  <2>5. k \in Orders
    BY <1>3, <2>4
  <2>6. Moved(req[r], c) \in Category
    BY <2>2, <2>3, <2>5 DEF Category
  <2>. QED
    BY <2>2, <2>4, <2>6 DEF NoCategory
<1>. QED
  BY <1>2, <1>3

LEMMA KeptStatus ==
    ASSUME NEW old \in Category, old # NoCategory, NEW row \in Category
    PROVE  /\ [row EXCEPT !.status = old.status] \in Category
           /\ [row EXCEPT !.status = old.status].status = old.status
           /\ [row EXCEPT !.status = old.status] # NoCategory
<1>1. old.status \in {"LIVE", "DELETED"}
  BY DEF Category, NoCategory
<1>2. row.order \in Orders /\ row.active \in BOOLEAN
  <2>1. 0 \in Orders
    BY CatalogAssumption DEF Orders
  <2>2. CASE row = NoCategory
    <3>1. NoCategory.order = 0 /\ NoCategory.active = FALSE
      BY DEF NoCategory
    <3>. QED
      BY <2>1, <2>2, <3>1
  <2>3. CASE row # NoCategory
    BY <2>3 DEF Category
  <2>. QED
    BY <2>2, <2>3
<1>3. /\ [row EXCEPT !.status = old.status].status = old.status
      /\ [row EXCEPT !.status = old.status] =
            [status |-> old.status, order |-> row.order, active |-> row.active]
  BY DEF Category, NoCategory
<1>4. [row EXCEPT !.status = old.status] \in Category
  BY <1>1, <1>2, <1>3 DEF Category
<1>. QED
  BY <1>1, <1>3, <1>4 DEF NoCategory

\* What a category's row becomes when one is saved.
LEMMA SavedCategory ==
    ASSUME CatalogIInv, NEW r \in Requests, SaveCategory(r), NEW c \in CategoryIds
    PROVE  /\ category'[c] \in Category
           /\ c # req[r].id \/ req[r].op # "createCategory" =>
                 /\ category'[c].status = category[c].status
                 /\ category'[c] = NoCategory <=> category[c] = NoCategory
           /\ c = req[r].id /\ req[r].op = "createCategory" => category[c] = NoCategory
<1>1. /\ req[r] \in Request /\ Known(req[r]) /\ category[c] \in Category
      /\ c # Absent
  BY CatalogAssumption DEF CatalogIInv, TypeOK
<1>2. /\ c \in req[r].found => Moved(req[r], c).order \in Orders
      /\ category'[c] = (IF c # req[r].id THEN Moved(req[r], c)
                         ELSE IF req[r].op = "createCategory" THEN req[r].row
                         ELSE [req[r].row EXCEPT !.status = category[c].status])
  BY DEF SaveCategory
<1>3. CASE c # req[r].id
  BY <1>2, <1>3, MovedFacts
<1>4. CASE c = req[r].id /\ req[r].op = "createCategory"
  BY <1>1, <1>2, <1>4 DEF Known, Request
<1>5. CASE c = req[r].id /\ req[r].op # "createCategory"
  <2>1. category[c] # NoCategory
    BY <1>1, <1>5 DEF Known
  <2>2. req[r].row \in Category
    BY <1>1 DEF Request
  <2>. QED
    BY <1>1, <1>2, <1>5, <2>1, <2>2, KeptStatus
<1>. QED
  BY <1>3, <1>4, <1>5

LEMMA ItemRows ==
    ASSUME CatalogIInv, NEW i \in ItemIds, item[i] # NoItem
    PROVE  item[i].category \in CategoryIds /\ category[item[i].category] # NoCategory
<1>1. item[i] \in Item
  BY DEF CatalogIInv, TypeOK
<1>. QED
  BY <1>1 DEF CatalogIInv, ItemsKept, Item

LEMMA SaveCategoryInv ==
    ASSUME CatalogIInv, NEW r \in Requests, SaveCategory(r)
    PROVE  CatalogIInv'
<1>1. /\ Written(r, UseCases) /\ item' = item /\ item \in [ItemIds -> Item]
      /\ category' = [c \in CategoryIds |-> category'[c]]
  BY DEF SaveCategory, CatalogIInv, TypeOK
<1>2. category' \in [CategoryIds -> Category]
  BY <1>1, SavedCategory
<1>3. \A c \in CategoryIds : category[c] # NoCategory => category'[c] # NoCategory
  BY SavedCategory
<1>4. \A c \in CategoryIds : category[c] = NoCategory =>
         category'[c] = NoCategory \/ (c = req[r].id /\ req[r].op = "createCategory")
  BY SavedCategory
<1>. QED
  BY <1>1, <1>2, <1>3, <1>4, ItemRows, WrittenInv

LEMMA DeleteCategoryInv ==
    ASSUME CatalogIInv, NEW r \in Requests, DeleteCategory(r)
    PROVE  CatalogIInv'
<1>1. /\ Written(r, UseCases) /\ item' = item /\ item \in [ItemIds -> Item]
      /\ category' = [category EXCEPT ![req[r].id] = req[r].row]
      /\ category \in [CategoryIds -> Category]
      /\ req[r].id \in Live /\ req[r].op = "deleteCategory"
      /\ req[r] \in Request /\ Known(req[r])
  BY DEF DeleteCategory, CatalogIInv, TypeOK
<1>2. /\ req[r].id \in CategoryIds /\ req[r].id # Absent
      /\ req[r].row \in Category /\ req[r].row.status = "DELETED"
      /\ category[req[r].id] # NoCategory
  BY <1>1, LiveCategory DEF Known, Request
<1>3. category' \in [CategoryIds -> Category] /\ req[r].row # NoCategory
  BY <1>1, <1>2 DEF NoCategory
<1>4. \A c \in CategoryIds : category'[c] = NoCategory <=> category[c] = NoCategory
  BY <1>1, <1>2, <1>3
<1>. QED
  BY <1>1, <1>3, <1>4, ItemRows, WrittenInv

LEMMA SaveItemInv ==
    ASSUME CatalogIInv, NEW r \in Requests, SaveItem(r)
    PROVE  CatalogIInv'
<1>1. /\ Written(r, ItemUseCases) /\ category' = category
      /\ item' = [item EXCEPT ![req[r].item] = req[r].new]
      /\ item \in [ItemIds -> Item] /\ category \in [CategoryIds -> Category]
      /\ req[r].op = "updateItem" => req[r].item \in LiveItems
      /\ req[r].op \in {"createItem", "updateItem"} /\ req[r].step = "save"
      /\ req[r] \in Request /\ Known(req[r])
  BY DEF SaveItem, CatalogIInv, TypeOK
<1>2. req[r].new \in Item
  BY <1>1 DEF Request
<1>3. item' \in [ItemIds -> Item]
  BY <1>1, <1>2
<1>4. req[r].new # NoItem =>
         req[r].new.category \in CategoryIds /\ category[req[r].new.category] # NoCategory
  BY <1>1, <1>2 DEF Known, Item
<1>5. \A i \in ItemIds : item'[i] = IF i = req[r].item THEN req[r].new ELSE item[i]
  BY <1>1
<1>6. \A i \in ItemIds : item[i] = NoItem =>
         item'[i] = NoItem \/ (i = req[r].item /\ req[r].op = "createItem")
  BY <1>1, <1>5, FoundItem
<1>7. \A i \in ItemIds : item'[i] # NoItem =>
         item'[i].category \in CategoryIds /\ category[item'[i].category] # NoCategory
  BY <1>4, <1>5, ItemRows
<1>. QED
  BY <1>1, <1>3, <1>6, <1>7, WrittenInv

LEMMA DeleteItemInv ==
    ASSUME CatalogIInv, NEW r \in Requests, DeleteItem(r)
    PROVE  CatalogIInv'
<1>1. /\ Written(r, ItemUseCases) /\ category' = category
      /\ item' = [item EXCEPT ![req[r].item].status = "DELETED"]
      /\ item \in [ItemIds -> Item] /\ category \in [CategoryIds -> Category]
      /\ req[r].item \in LiveItems
  BY DEF DeleteItem, CatalogIInv, TypeOK
<1>2. /\ item[req[r].item] \in
            [status : {"LIVE", "DELETED"}, category : CategoryIds, name : Names]
      /\ item[req[r].item] # NoItem
      /\ category[item[req[r].item].category] # NoCategory
  BY <1>1, FoundItem
<1>3. PICK row : row = [item[req[r].item] EXCEPT !.status = "DELETED"]
  OBVIOUS
<1>4. row \in Item /\ row.category = item[req[r].item].category
  BY <1>2, <1>3 DEF Item
<1>5. item' = [item EXCEPT ![req[r].item] = row]
  BY <1>1, <1>3
<1>6. item' \in [ItemIds -> Item]
  BY <1>1, <1>4, <1>5
<1>7. \A i \in ItemIds : item'[i] = IF i = req[r].item THEN row ELSE item[i]
  BY <1>1, <1>5
<1>8. \A i \in ItemIds : item[i] = NoItem => item'[i] = NoItem
  BY <1>2, <1>7
<1>9. \A i \in ItemIds : item'[i] # NoItem =>
         item'[i].category \in CategoryIds /\ category[item'[i].category] # NoCategory
  BY <1>2, <1>4, <1>7, ItemRows
<1>. QED
  BY <1>1, <1>6, <1>8, <1>9, WrittenInv

LEMMA CatalogNext == CatalogIInv /\ [Next]_vars => CatalogIInv'
<1>. SUFFICES ASSUME CatalogIInv, [Next]_vars PROVE CatalogIInv'
  OBVIOUS
<1>1. CASE UNCHANGED vars
  <2>1. category' = category /\ item' = item /\ req' = req
    BY <1>1 DEF vars
  <2>2. TypeOK' /\ ItemsKept' /\ OwnIds'
    BY <2>1 DEF CatalogIInv, TypeOK, ItemsKept, OwnIds
  <2>3. ASSUME NEW r \in Requests
        PROVE  (Known(req[r]) /\ Current(req[r]))'
    <3>1. Known(req[r]) /\ Current(req[r])
      BY DEF CatalogIInv
    <3>2. Known(req[r])'
      BY <2>1, <3>1 DEF Known
    <3>3. Current(req[r])'
      BY <2>1, <3>1 DEF Current, CurrentCategory, CurrentItem, Live, LiveItems, ToMove
    <3>. QED
      BY <3>2, <3>3
  <2>. QED
    BY <2>2, <2>3 DEF CatalogIInv
<1>2. ASSUME NEW r \in Requests, CategoryStep(r)
      PROVE  CatalogIInv'
  <2>1. CASE BeginMove(r) \/ SaveCategory(r) \/ CountItems(r) \/ DeleteCategory(r)
    BY <2>1, BeginMoveInv, SaveCategoryInv, CountItemsInv, DeleteCategoryInv
  <2>2. ASSUME NEW c \in CategoryIds, AddAtEnd(r, c)
        PROVE  CatalogIInv'
    <3>1. PICK k \in Orders : k = NextOrder
      BY <2>2 DEF AddAtEnd
    <3>. QED
      BY <2>2, <3>1, PrepareNewInv DEF AddAtEnd
  <2>3. ASSUME NEW c \in CategoryIds, NEW k \in Orders, AddAt(r, c, k)
        PROVE  CatalogIInv'
    BY <2>3, PrepareNewInv DEF AddAt
  <2>4. ASSUME NEW c \in CategoryIds, FindForDeletion(r, c)
        PROVE  CatalogIInv'
    BY <2>4, FindForDeletionInv
  <2>5. ASSUME NEW c \in CategoryIds, NEW b \in BOOLEAN, FindForStatus(r, c, b)
        PROVE  CatalogIInv'
    BY <2>5, FindForStatusInv
  <2>6. ASSUME NEW c \in CategoryIds, NEW k \in Orders, NEW b \in BOOLEAN,
               FindForUpdate(r, c, k, b)
        PROVE  CatalogIInv'
    BY <2>6, FindForUpdateInv
  <2>. QED
    BY <1>2, <2>1, <2>2, <2>3, <2>4, <2>5, <2>6 DEF CategoryStep
<1>3. ASSUME NEW r \in Requests, ItemStep(r)
      PROVE  CatalogIInv'
  <2>1. CASE FindPlace(r) \/ FindName(r) \/ SaveItem(r) \/ DeleteItem(r)
    BY <2>1, FindPlaceInv, FindNameInv, SaveItemInv, DeleteItemInv
  <2>2. ASSUME NEW i \in ItemIds, FindItemForDeletion(r, i)
        PROVE  CatalogIInv'
    BY <2>2, FindItemForDeletionInv
  <2>3. ASSUME NEW i \in ItemIds, NEW c \in CategoryIds, NEW n \in Names,
               PrepareItem(r, i, c, n)
        PROVE  CatalogIInv'
    BY <2>3, PrepareItemInv
  <2>4. ASSUME NEW i \in ItemIds, NEW c \in CategoryIds, NEW n \in Names,
               FindItem(r, i, c, n)
        PROVE  CatalogIInv'
    BY <2>4, FindItemInv
  <2>. QED
    BY <1>3, <2>1, <2>2, <2>3, <2>4 DEF ItemStep
<1>4. ASSUME NEW r \in Requests, End(r) \/ \E o \in UseCases : Receive(r, o)
      PROVE  CatalogIInv'
  BY <1>4, ReceiveEndInv
<1>. QED
  BY <1>1, <1>2, <1>3, <1>4 DEF Next

LEMMA CatalogHolds == Spec => []CatalogIInv
  BY CategoryInit, CatalogNext, PTL DEF Spec

\* However late the rows are written that a request has read, no id is used
\* twice, no category is created where one exists, and no item points at a
\* category that was not created (menu-category.entity.ts, create;
\* prisma-menu-category.repository.ts, create and updateCategory).
THEOREM CatalogAlwaysSound == Spec => []CatalogInv
  BY CatalogHolds, StrongerInv, PTL

\* Only four actions write rows.
LEMMA WritesOfRows ==
    ASSUME NEW r \in Requests
    PROVE  /\ End(r) \/ (\E o \in UseCases : Receive(r, o)) => UNCHANGED rowVars
           /\ CategoryStep(r) =>
                 SaveCategory(r) \/ DeleteCategory(r) \/ UNCHANGED rowVars
           /\ ItemStep(r) => SaveItem(r) \/ DeleteItem(r) \/ UNCHANGED rowVars
<1>1. End(r) \/ (\E o \in UseCases : Receive(r, o)) => UNCHANGED rowVars
  BY DEF End, Receive
<1>2. CategoryStep(r) => SaveCategory(r) \/ DeleteCategory(r) \/ UNCHANGED rowVars
  BY DEF CategoryStep, BeginMove, CountItems, AddAtEnd, AddAt, PrepareNew,
         FindForDeletion, FindForStatus, FindForUpdate, Proceed
<1>3. ItemStep(r) => SaveItem(r) \/ DeleteItem(r) \/ UNCHANGED rowVars
  BY DEF ItemStep, FindPlace, FindName, FindItemForDeletion, PrepareItem,
         FindItem, Proceed
<1>. QED
  BY <1>1, <1>2, <1>3

\* A deleted category or item stays deleted, although requests that have read
\* it before write it still (prisma-menu-category.repository.ts,
\* updateCategory: is_deleted is not among the columns it writes).
THEOREM DeletedForGood == Spec => DeletedStays
<1>. DEFINE Kept ==
       /\ \A c \in CategoryIds :
             category[c].status = "DELETED" => category'[c].status = "DELETED"
       /\ \A i \in ItemIds : item[i].status = "DELETED" => item'[i].status = "DELETED"
<1>1. CatalogIInv /\ [Next]_vars => [Kept]_vars
  <2>. SUFFICES ASSUME CatalogIInv, Next PROVE Kept
    OBVIOUS
  <2>1. ASSUME UNCHANGED rowVars PROVE Kept
    BY <2>1 DEF rowVars
  <2>2. ASSUME NEW r \in Requests, SaveCategory(r) PROVE Kept
    <3>1. item' = item
      BY <2>2 DEF SaveCategory
    <3>2. \A c \in CategoryIds :
             category[c].status = "DELETED" => category'[c].status = "DELETED"
      BY <2>2, SavedCategory DEF NoCategory
    <3>. QED
      BY <3>1, <3>2
  <2>3. ASSUME NEW r \in Requests, DeleteCategory(r) PROVE Kept
    BY <2>3 DEF DeleteCategory, Live, CatalogIInv, TypeOK
  <2>4. ASSUME NEW r \in Requests, SaveItem(r) PROVE Kept
    <3>1. /\ category' = category /\ item' = [item EXCEPT ![req[r].item] = req[r].new]
          /\ item \in [ItemIds -> Item]
      BY <2>4 DEF SaveItem, CatalogIInv, TypeOK
    <3>2. req[r].item \in ItemIds => item[req[r].item].status # "DELETED"
      <4>1. req[r].op = "updateItem" => item[req[r].item].status = "LIVE"
        BY <2>4 DEF SaveItem, LiveItems
      <4>2. req[r].op = "createItem" /\ req[r].item \in ItemIds =>
               item[req[r].item] = NoItem
        BY CatalogAssumption DEF CatalogIInv, Known
      <4>. QED
        BY <2>4, <4>1, <4>2 DEF SaveItem, NoItem
    <3>. QED
      BY <3>1, <3>2
  <2>5. ASSUME NEW r \in Requests, DeleteItem(r) PROVE Kept
    BY <2>5 DEF DeleteItem, CatalogIInv, TypeOK, LiveItems
  <2>. HIDE DEF Kept
  <2>. QED
    BY <2>1, <2>2, <2>3, <2>4, <2>5, WritesOfRows DEF Next
<1>2. Spec => [][Kept]_vars
  BY <1>1, CatalogHolds, PTL DEF Spec
<1>. QED
  BY <1>2 DEF DeletedStays

-----------------------------------------------------------------------------
\* The menu as a board.

\* Numbers that keep their order keep the sequence.
LEMMA RankedSame ==
    ASSUME NEW S, NEW ord, NEW new, NEW s, IsRanked(s, S, ord),
           \A x \in S : new[x] \in Int,
           \A x, y \in S : ord[x] < ord[y] => new[x] < new[y]
    PROVE  IsRanked(s, S, new)
<1>1. \A j \in 1..Len(s) : s[j] \in S
  BY SortedOnce
<1>. QED
  BY <1>1 DEF IsRanked

DisplayOrder == [c \in CategoryIds |-> category[c].order]

BoardIsRanked == IsRanked(InOrder, Live, DisplayOrder)

LEMMA LiveOrder ==
    ASSUME CatalogIInv
    PROVE  /\ IsFiniteSet(Live) /\ Live \subseteq CategoryIds
           /\ \A c \in Live : DisplayOrder[c] = category[c].order /\ DisplayOrder[c] \in Int
<1>1. Live \subseteq CategoryIds
  BY DEF Live
<1>2. IsFiniteSet(Live)
  BY <1>1, FS_Subset, CatalogAssumption
<1>3. ASSUME NEW c \in Live
      PROVE  DisplayOrder[c] = category[c].order /\ DisplayOrder[c] \in Int
  <2>1. category[c].order \in Orders
    BY LiveCategory
  <2>. QED
    BY <1>1, <2>1, CatalogAssumption DEF DisplayOrder, Orders
<1>. QED
  BY <1>1, <1>2, <1>3

\* The listing is a function of the rows.
CategoryOrder(cs) ==
    CHOOSE s \in SetToSeqs({c \in CategoryIds : cs[c].status = "LIVE"}) :
       \A j, k \in 1..Len(s) : cs[s[j]].order < cs[s[k]].order => j < k

LEMMA OrderOfRows ==
    /\ InOrder = CategoryOrder(category)
    /\ InOrder' = CategoryOrder(category')
  BY DEF InOrder, CategoryOrder, Live, Before

IsListed(s) == \A j, k \in 1..Len(s) : Before(s[j], s[k]) => j < k

\* Two numbers in the place of one: the second tells apart what ties.
LEMMA TieBreak ==
    ASSUME NEW n \in Nat, NEW a \in Int, NEW b \in Int, a < b,
           NEW i \in 1..n, NEW j \in 1..n
    PROVE  a * (n + 1) + i < b * (n + 1) + j
<1>1. (a + 1) * (n + 1) <= b * (n + 1)
  OBVIOUS
<1>2. (a + 1) * (n + 1) = a * (n + 1) + (n + 1)
  OBVIOUS
<1>3. a * (n + 1) \in Int /\ b * (n + 1) \in Int
  OBVIOUS
<1>. QED
  BY <1>1, <1>2, <1>3

LEMMA ListingExists ==
    ASSUME CatalogIInv
    PROVE  InOrder \in SetToSeqs(Live) /\ IsListed(InOrder)
<1>. DEFINE n == Cardinality(Live)
<1>1. /\ IsFiniteSet(Live) /\ n \in Nat
      /\ \A c \in Live : DisplayOrder[c] = category[c].order /\ DisplayOrder[c] \in Int
  BY LiveOrder, FS_CardinalityType
<1>2. PICK e : e \in Bijection(1..n, Live)
  BY <1>1, FS_CardinalityType DEF ExistsBijection
<1>3. \A c \in Live : \E i \in 1..n : e[i] = c
  BY <1>2 DEF Bijection, Surjection
<1>. HIDE DEF n
<1>. DEFINE at == [c \in Live |-> CHOOSE i \in 1..n : e[i] = c]
            ord == [c \in Live |-> DisplayOrder[c] * (n + 1) + at[c]]
<1>4. \A c \in Live : at[c] \in 1..n /\ e[at[c]] = c
  BY <1>3
<1>. HIDE DEF at
<1>5. \A c \in Live : ord[c] \in Int
  <2>1. \A k \in Int : k * (n + 1) \in Int
    BY <1>1
  <2>. QED
    BY <1>1, <1>4, <2>1
<1>6. \A c, d \in Live : DisplayOrder[c] < DisplayOrder[d] => ord[c] < ord[d]
  BY <1>1, <1>4, TieBreak
<1>7. \A c, d \in Live : ord[c] = ord[d] => c = d
  <2>. SUFFICES ASSUME NEW c \in Live, NEW d \in Live, ord[c] = ord[d]
                PROVE  c = d
    OBVIOUS
  <2>1. ~(DisplayOrder[c] < DisplayOrder[d]) /\ ~(DisplayOrder[d] < DisplayOrder[c])
    <3>1. ord[c] \in Int /\ ord[d] \in Int
      BY <1>5
    <3>. HIDE DEF ord
    <3>. QED
      BY <1>6, <3>1
  <2>2. DisplayOrder[c] = DisplayOrder[d]
    BY <1>1, <2>1
  <2>3. DisplayOrder[c] * (n + 1) \in Int
    BY <1>1
  <2>4. at[c] = at[d]
    BY <1>4, <2>2, <2>3
  <2>. QED
    BY <1>4, <2>4
<1>8. PICK s : IsRanked(s, Live, ord)
  <2>. HIDE DEF ord
  <2>. QED
    BY <1>1, <1>5, <1>7, SortedExists
<1>9. s \in SetToSeqs(Live)
  BY <1>8, RankedIsSeq
<1>10. IsListed(s)
  <2>. SUFFICES ASSUME NEW j \in 1..Len(s), NEW k \in 1..Len(s), Before(s[j], s[k])
                PROVE  j < k
    BY DEF IsListed
  <2>. HIDE DEF ord
  <2>1. /\ s[j] \in Live /\ s[k] \in Live /\ Len(s) \in Nat
        /\ ord[s[j]] \in Int /\ ord[s[k]] \in Int
    BY <1>8, SortedOnce
  <2>2. ord[s[j]] < ord[s[k]]
    BY <1>1, <1>6, <2>1 DEF Before
  <2>3. k < j => ord[s[k]] < ord[s[j]]
    BY <1>8 DEF IsRanked
  <2>. QED
    BY <2>1, <2>2, <2>3
<1>. QED
  BY <1>9, <1>10 DEF InOrder, IsListed

LEMMA OnTheBoard ==
    ASSUME CatalogIInv
    PROVE  /\ ToSet(InOrder) = Live
           /\ InOrder \in Seq(Live)
           /\ \A x \in Live : \E j \in 1..Len(InOrder) : InOrder[j] = x
           /\ \A j, k \in 1..Len(InOrder) : InOrder[j] = InOrder[k] => j = k
<1>1. /\ InOrder \in Seq(Live)
      /\ \A x \in Live : \E j \in 1..Len(InOrder) : InOrder[j] = x
      /\ \A j, k \in 1..Len(InOrder) : InOrder[j] = InOrder[k] => j = k
  BY LiveOrder, ListingExists, SeqIsRanked
<1>2. ToSet(InOrder) = Live
  BY <1>1 DEF ToSet
<1>. QED
  BY <1>1, <1>2

\* As long as no two categories have one order, the listing is determined.
LEMMA BoardRanked == CatalogIInv /\ ~Clash => BoardIsRanked
<1>. SUFFICES ASSUME CatalogIInv, ~Clash PROVE BoardIsRanked
  OBVIOUS
<1>1. /\ IsFiniteSet(Live) /\ \A c \in Live : DisplayOrder[c] = category[c].order
      /\ \A c \in Live : DisplayOrder[c] \in Int
  BY LiveOrder
<1>2. \A c, d \in Live : DisplayOrder[c] = DisplayOrder[d] => c = d
  BY <1>1 DEF Clash
<1>3. IsListed(InOrder)
  BY ListingExists
<1>4. /\ InOrder \in Seq(Live)
      /\ \A x \in Live : \E j \in 1..Len(InOrder) : InOrder[j] = x
      /\ \A j, k \in 1..Len(InOrder) : InOrder[j] = InOrder[k] => j = k
  BY OnTheBoard
<1>5. ASSUME NEW j \in 1..Len(InOrder), NEW k \in 1..Len(InOrder), j < k
      PROVE  DisplayOrder[InOrder[j]] < DisplayOrder[InOrder[k]]
  <2>1. InOrder[j] \in Live /\ InOrder[k] \in Live /\ Len(InOrder) \in Nat
    BY <1>4
  <2>2. InOrder[j] # InOrder[k]
    BY <1>4, <1>5, <2>1
  <2>3. DisplayOrder[InOrder[j]] # DisplayOrder[InOrder[k]]
    BY <1>2, <2>1, <2>2
  <2>4. ~Before(InOrder[k], InOrder[j])
    BY <1>3, <1>5, <2>1 DEF IsListed
  <2>5. ~(DisplayOrder[InOrder[k]] < DisplayOrder[InOrder[j]])
    BY <1>1, <2>1, <2>4 DEF Before
  <2>6. DisplayOrder[InOrder[j]] \in Int /\ DisplayOrder[InOrder[k]] \in Int
    BY <1>1, <2>1
  <2>. QED
    BY <2>3, <2>5, <2>6
<1>. QED
  BY <1>1, <1>4, <1>5 DEF BoardIsRanked, IsRanked

LEMMA BoardRankedNext == CatalogIInv' /\ ~Clash' => BoardIsRanked'
  BY BoardRanked, PTL

\* What a transaction that has read what still holds makes of the other rows.
LEMMA MovedRow ==
    ASSUME CatalogIInv, NEW r \in Requests, SaveCategory(r), ~req[r].stale,
           NEW c \in Live, c # req[r].id
    PROVE  /\ category'[c].status = "LIVE"
           /\ category'[c].active = category[c].active
           /\ category'[c].order =
                 IF ToMove(req[r], c)
                 THEN IF req[r].op # "createCategory" /\ req[r].row.order > req[r].prev
                      THEN category[c].order - 1 ELSE category[c].order + 1
                 ELSE category[c].order
<1>1. c \in CategoryIds /\ category[c].status = "LIVE" /\
      category[c] \in [status : {"LIVE", "DELETED"}, order : Orders, active : BOOLEAN]
  BY LiveCategory
<1>2. category'[c] = Moved(req[r], c)
  BY <1>1 DEF SaveCategory
<1>3. c \in req[r].found <=> ToMove(req[r], c)
  <2>1. CurrentCategory(req[r]) /\ req[r].op \in SaveOps /\ req[r].step = "save"
    BY DEF CatalogIInv, Current, SaveCategory, SaveOps
  <2>. QED
    BY <1>1, <2>1 DEF CurrentCategory
<1>. QED
  BY <1>1, <1>2, <1>3 DEF Moved

\* What it makes of the row itself.
LEMMA SavedRow ==
    ASSUME CatalogIInv, NEW r \in Requests, SaveCategory(r), ~req[r].stale
    PROVE  /\ req[r].id \in CategoryIds /\ req[r].row.order \in Int
           /\ category'[req[r].id].status = "LIVE"
           /\ category'[req[r].id].order = req[r].row.order
           /\ category'[req[r].id].active = req[r].row.active
           /\ req[r].op = "createCategory" => req[r].id \notin Live /\ req[r].row.active
           /\ req[r].op # "createCategory" =>
                 req[r].id \in Live /\ req[r].prev = category[req[r].id].order
<1>. DEFINE q == req[r]
<1>1. /\ CurrentCategory(q) /\ Known(q) /\ q \in Request
      /\ q.op \in SaveOps /\ q.step = "save"
  BY DEF CatalogIInv, TypeOK, Current, SaveCategory, SaveOps
<1>2. q.row \in Category
  BY <1>1 DEF Request
<1>3. q.row.order \in Int
  BY <1>2, CatalogAssumption DEF Category, NoCategory, Orders
<1>4. CASE q.op = "createCategory"
  <2>1. q.id \in CategoryIds /\ q.row = NewCategory(q.row.order)
    BY <1>1, <1>4 DEF CurrentCategory
  <2>2. q.row.status = "LIVE" /\ q.row.active
    BY <2>1 DEF NewCategory
  <2>3. category'[q.id] = q.row
    BY <1>4, <2>1 DEF SaveCategory
  <2>4. q.id \notin Live
    BY <1>1, <1>4, <2>1, CatalogAssumption DEF Known, Live, NoCategory
  <2>. QED
    BY <1>3, <1>4, <2>1, <2>2, <2>3, <2>4
<1>5. CASE q.op # "createCategory"
  <2>1. q.id \in Live /\ q.prev = category[q.id].order /\ q.row.status = "LIVE"
    BY <1>1, <1>5 DEF CurrentCategory, SaveOps
  <2>2. q.id \in CategoryIds /\ category[q.id].status = "LIVE"
    BY <2>1 DEF Live
  <2>3. category'[q.id] = [q.row EXCEPT !.status = "LIVE"]
    BY <1>5, <2>2 DEF SaveCategory
  <2>4. /\ category'[q.id].status = "LIVE" /\ category'[q.id].order = q.row.order
        /\ category'[q.id].active = q.row.active
    BY <1>2, <2>1, <2>3 DEF Category, NoCategory
  <2>. QED
    BY <1>3, <1>5, <2>1, <2>2, <2>4
<1>. QED
  BY <1>4, <1>5

\* The others keep their order, and make place.
LEMMA OthersMakePlace ==
    ASSUME CatalogIInv, ~Clash, NEW r \in Requests, SaveCategory(r), ~req[r].stale
    PROVE  /\ \A c \in Live \ {req[r].id} :
                 /\ category'[c].order \in Int
                 /\ category'[c].order # category'[req[r].id].order
           /\ \A c, d \in Live \ {req[r].id} :
                 category[c].order < category[d].order
                    => category'[c].order < category'[d].order
<1>. DEFINE q == req[r]
            to == q.row.order
<1>1. /\ to \in Int /\ category'[q.id].order = to
      /\ q.op # "createCategory" => q.id \in Live /\ q.prev = category[q.id].order
  BY SavedRow
<1>2. \A c \in Live : category[c].order \in Int
  BY LiveOrder
<1>3. \A c \in Live \ {q.id} : q.op # "createCategory" => category[c].order # q.prev
  BY <1>1 DEF Clash
<1>4. CASE q.op = "createCategory"
  <2>1. ASSUME NEW c \in Live \ {q.id}
        PROVE  category'[c].order =
                  IF category[c].order >= to THEN category[c].order + 1
                                             ELSE category[c].order
    <3>1. ToMove(q, c) <=> category[c].order >= to
      BY <1>4 DEF ToMove
    <3>. QED
      BY <1>4, <3>1, MovedRow
  <2>. HIDE DEF q, to
  <2>2. \A c \in Live \ {q.id} : category'[c].order \in Int /\ category'[c].order # to
    BY <1>1, <1>2, <2>1
  <2>3. \A c, d \in Live \ {q.id} : category[c].order < category[d].order
           => category'[c].order < category'[d].order
    BY <1>1, <1>2, <2>1
  <2>. QED
    BY <1>1, <2>2, <2>3 DEF q
<1>5. CASE q.op # "createCategory" /\ to < q.prev
  <2>1. q.prev \in Int
    BY <1>1, <1>2, <1>5
  <2>2. ASSUME NEW c \in Live \ {q.id}
        PROVE  category'[c].order =
                  IF to <= category[c].order /\ category[c].order < q.prev
                  THEN category[c].order + 1 ELSE category[c].order
    <3>1. ToMove(q, c) <=> to <= category[c].order /\ category[c].order < q.prev
      BY <1>1, <1>2, <1>5, <2>1 DEF ToMove
    <3>2. ~(to > q.prev)
      BY <1>1, <1>2, <1>5
    <3>. QED
      BY <1>5, <3>1, <3>2, MovedRow
  <2>. HIDE DEF q, to
  <2>3. \A c \in Live \ {q.id} : category'[c].order \in Int /\ category'[c].order # to
    BY <1>1, <1>2, <1>3, <1>5, <2>2, <2>1
  <2>4. \A c, d \in Live \ {q.id} : category[c].order < category[d].order
           => category'[c].order < category'[d].order
    BY <1>1, <1>2, <1>3, <1>5, <2>2, <2>1
  <2>. QED
    BY <1>1, <2>3, <2>4 DEF q
<1>6. CASE q.op # "createCategory" /\ ~(to < q.prev)
  <2>1. q.prev \in Int
    BY <1>1, <1>2, <1>6
  <2>2. ASSUME NEW c \in Live \ {q.id}
        PROVE  category'[c].order =
                  IF q.prev < category[c].order /\ category[c].order <= to
                  THEN category[c].order - 1 ELSE category[c].order
    <3>1. ToMove(q, c) <=> q.prev < category[c].order /\ category[c].order <= to
      BY <1>1, <1>2, <1>6, <2>1 DEF ToMove
    <3>2. ToMove(q, c) => to > q.prev
      BY <1>1, <1>2, <2>1, <3>1
    <3>. QED
      BY <1>6, <3>1, <3>2, MovedRow
  <2>. HIDE DEF q, to
  <2>3. \A c \in Live \ {q.id} : category'[c].order \in Int /\ category'[c].order # to
    BY <1>1, <1>2, <1>3, <1>6, <2>2, <2>1
  <2>4. \A c, d \in Live \ {q.id} : category[c].order < category[d].order
           => category'[c].order < category'[d].order
    BY <1>1, <1>2, <1>3, <1>6, <2>2, <2>1
  <2>. QED
    BY <1>1, <2>3, <2>4 DEF q
<1>. QED
  BY <1>4, <1>5, <1>6

LEMMA LiveAfterSave ==
    ASSUME CatalogIInv, NEW r \in Requests, SaveCategory(r), ~req[r].stale
    PROVE  Live' = Live \cup {req[r].id}
<1>1. req[r].id \in CategoryIds /\ category'[req[r].id].status = "LIVE"
  BY SavedRow
<1>2. \A c \in CategoryIds : c # req[r].id => category'[c].status = category[c].status
  BY SavedCategory
<1>. QED
  BY <1>1, <1>2 DEF Live

LEMMA NoClashAfterSave ==
    ASSUME CatalogIInv, ~Clash, NEW r \in Requests, SaveCategory(r), ~req[r].stale
    PROVE  ~Clash'
<1>. DEFINE id == req[r].id
<1>1. Live' = Live \cup {id}
  BY LiveAfterSave
<1>2. /\ \A c \in Live \ {id} : /\ category'[c].order \in Int
                                /\ category'[c].order # category'[id].order
      /\ \A c, d \in Live \ {id} :
            category[c].order < category[d].order => category'[c].order < category'[d].order
  BY OthersMakePlace
<1>3. \A c \in Live : category[c].order \in Int
  BY LiveOrder
<1>. HIDE DEF id
<1>4. ASSUME NEW c \in Live', NEW d \in Live', c # d
      PROVE  category'[c].order # category'[d].order
  <2>1. CASE c = id \/ d = id
    BY <1>1, <1>2, <1>4, <2>1
  <2>2. CASE c # id /\ d # id
    <3>1. c \in Live \ {id} /\ d \in Live \ {id}
      BY <1>1, <2>2
    <3>2. category[c].order # category[d].order
      BY <1>4, <3>1 DEF Clash
    <3>. QED
      BY <1>2, <1>3, <3>1, <3>2
  <2>. QED
    BY <2>1, <2>2
<1>. QED
  BY <1>4 DEF Clash

LEMMA ListingAfterSave ==
    ASSUME CatalogIInv, CatalogIInv', ~Clash,
           NEW r \in Requests, SaveCategory(r), ~req[r].stale
    PROVE  /\ req[r].op = "createCategory" =>
                 \E k \in 1..Len(InOrder) + 1 : InOrder' = InsertAt(InOrder, k, req[r].id)
           /\ req[r].op # "createCategory" =>
                 \E j, k \in 1..Len(InOrder) :
                    /\ InOrder[j] = req[r].id
                    /\ InOrder' = InsertAt(RemoveAt(InOrder, j), k, req[r].id)
<1>. DEFINE id == req[r].id
            new == DisplayOrder'
            rest == Live \ {id}
<1>1. Live' = rest \cup {id} /\ id \notin rest
  BY LiveAfterSave
<1>2. IsRanked(InOrder', Live', new)
  BY NoClashAfterSave, BoardRankedNext DEF BoardIsRanked
<1>3. IsRanked(InOrder, Live, DisplayOrder)
  BY BoardRanked DEF BoardIsRanked
<1>4. \A c \in CategoryIds : new[c] = category'[c].order /\ DisplayOrder[c] = category[c].order
  BY DEF DisplayOrder
<1>5. id \in CategoryIds /\ Live \subseteq CategoryIds /\ category'[id].order \in Int
  BY SavedRow, LiveOrder
<1>6. /\ \A c \in rest : category'[c].order \in Int /\ category'[c].order # category'[id].order
      /\ \A c, d \in rest :
            category[c].order < category[d].order => category'[c].order < category'[d].order
  BY OthersMakePlace
<1>. HIDE DEF id, new
<1>7. /\ \A c \in rest : new[c] \in Int /\ new[c] # new[id]
      /\ \A c, d \in rest : DisplayOrder[c] < DisplayOrder[d] => new[c] < new[d]
      /\ new[id] \in Int
  BY <1>4, <1>5, <1>6
<1>. HIDE DEF rest
<1>8. ASSUME NEW t, IsRanked(t, rest, DisplayOrder)
      PROVE  \E k \in 1..Len(t) + 1 : InOrder' = InsertAt(t, k, id)
  <2>1. IsRanked(t, rest, new)
    BY <1>7, <1>8, RankedSame
  <2>2. PICK k \in 1..Len(t) + 1 : IsRanked(InsertAt(t, k, id), rest \cup {id}, new)
    BY <1>1, <1>7, <2>1, SortedInsert
  <2>3. InOrder' = InsertAt(t, k, id)
    BY <1>1, <1>2, <2>2, SortedUnique
  <2>. QED
    BY <2>3
<1>9. CASE req[r].op = "createCategory"
  <2>1. rest = Live
    BY <1>9, SavedRow DEF rest, id
  <2>2. IsRanked(InOrder, rest, DisplayOrder)
    BY <1>3, <2>1
  <2>. QED
    BY <1>8, <1>9, <2>2 DEF id
<1>10. CASE req[r].op # "createCategory"
  <2>1. id \in Live /\ rest = Live \ {id}
    BY <1>10, SavedRow DEF rest, id
  <2>2. PICK p \in 1..Len(InOrder) :
           InOrder[p] = id /\ IsRanked(RemoveAt(InOrder, p), rest, DisplayOrder)
    BY <1>3, <2>1, SortedRemove
  <2>3. PICK k \in 1..Len(RemoveAt(InOrder, p)) + 1 :
           InOrder' = InsertAt(RemoveAt(InOrder, p), k, id)
    BY <1>8, <2>2
  <2>4. InOrder \in Seq(Live) /\ Len(InOrder) \in Nat
    BY <1>3 DEF IsRanked
  <2>5. Len(RemoveAt(InOrder, p)) + 1 = Len(InOrder)
    BY <2>4, RemoveAtFacts
  <2>. QED
    BY <1>10, <2>2, <2>3, <2>5 DEF id
<1>. QED
  BY <1>9, <1>10

LEMMA ListingAfterDelete ==
    ASSUME CatalogIInv, CatalogIInv', ~Clash, NEW r \in Requests, DeleteCategory(r)
    PROVE  /\ req[r].id \in Live
           /\ Live' = Live \ {req[r].id}
           /\ \A c \in Live' : category'[c] = category[c]
           /\ ~Clash'
           /\ \E j \in 1..Len(InOrder) :
                 InOrder[j] = req[r].id /\ InOrder' = RemoveAt(InOrder, j)
<1>. DEFINE id == req[r].id
<1>1. /\ id \in Live /\ id \in CategoryIds /\ id # Absent
  BY LiveCategory DEF DeleteCategory
<1>2. req[r].row.status = "DELETED"
  BY <1>1 DEF DeleteCategory, CatalogIInv, Known
<1>3. \A c \in CategoryIds : category'[c] = IF c = id THEN req[r].row ELSE category[c]
  BY DEF DeleteCategory, CatalogIInv, TypeOK
<1>4. Live' = Live \ {id}
  BY <1>1, <1>2, <1>3 DEF Live
<1>5. \A c \in Live' : category'[c] = category[c]
  BY <1>3, <1>4 DEF Live
<1>6. ~Clash'
  BY <1>4, <1>5 DEF Clash
<1>7. IsRanked(InOrder', Live', DisplayOrder')
  BY <1>6, BoardRankedNext DEF BoardIsRanked
<1>8. IsRanked(InOrder, Live, DisplayOrder)
  BY BoardRanked DEF BoardIsRanked
<1>9. \A c \in Live' : DisplayOrder'[c] = DisplayOrder[c] /\ DisplayOrder[c] \in Int
  BY <1>4, <1>5, LiveOrder DEF DisplayOrder
<1>10. PICK p \in 1..Len(InOrder) :
          InOrder[p] = id /\ IsRanked(RemoveAt(InOrder, p), Live', DisplayOrder)
  BY <1>1, <1>4, <1>8, SortedRemove
<1>11. IsRanked(RemoveAt(InOrder, p), Live', DisplayOrder')
  BY <1>9, <1>10, RankedSame
<1>12. InOrder' = RemoveAt(InOrder, p)
  BY <1>7, <1>11, SortedUnique
<1>. QED
  BY <1>1, <1>4, <1>5, <1>6, <1>10, <1>12

\* The abstract module's copies of library operators.
LEMMA SameOperators ==
    /\ \A s : Board!ToSet(s) = ToSet(s)
    /\ \A s, k, x : Board!InsertAt(s, k, x) = InsertAt(s, k, x)
    /\ \A s, k : Board!RemoveAt(s, k) = RemoveAt(s, k)
  BY DEF Board!ToSet, ToSet, Board!InsertAt, InsertAt, Board!RemoveAt, RemoveAt

\* A category that is saved is inserted into the board, or changed there.
LEMMA SaveOnBoard ==
    ASSUME CatalogIInv, CatalogIInv', ~Clash,
           NEW r \in Requests, SaveCategory(r), ~req[r].stale
    PROVE  Board!BoardNext
<1>. DEFINE id == req[r].id
            Off == {c \in Live : ~category[c].active}
<1>1. item' = item /\ id \in CategoryIds
  BY SavedRow DEF SaveCategory
<1>2. LiveItems' = LiveItems
  BY <1>1 DEF LiveItems
<1>3. Live' = Live \cup {id}
  BY LiveAfterSave
<1>4. /\ \A c \in Live \ {id} : category'[c].active = category[c].active
      /\ category'[id].active = req[r].row.active
  BY MovedRow, SavedRow
<1>5. /\ [i \in ItemIds |-> IF i \in LiveItems THEN item[i].category ELSE Absent]' =
            [i \in ItemIds |-> IF i \in LiveItems THEN item[i].category ELSE Absent]
      /\ [i \in ItemIds |-> IF i \in LiveItems THEN item[i].name ELSE Absent]' =
            [i \in ItemIds |-> IF i \in LiveItems THEN item[i].name ELSE Absent]
  BY <1>1, <1>2
<1>6. ToSet(InOrder) = Live
  BY OnTheBoard
<1>7. CASE req[r].op = "createCategory"
  <2>1. id \notin Live /\ category'[id].active
    BY <1>7, SavedRow
  <2>2. PICK k \in 1..Len(InOrder) + 1 : InOrder' = InsertAt(InOrder, k, id)
    BY <1>7, ListingAfterSave
  <2>3. Off' = Off \ {id}
    BY <1>3, <1>4, <2>1
  <2>4. PICK c \in CategoryIds : c = id
    BY <1>1
  <2>5. Board!Insert(c)
    BY <1>5, <1>6, <2>1, <2>2, <2>3, <2>4, SameOperators DEF Board!Insert, Board!OnBoard
  <2>. QED
    BY <2>5 DEF Board!BoardNext
<1>8. CASE req[r].op # "createCategory"
  <2>1. id \in Live
    BY <1>8, SavedRow
  <2>2. PICK j \in 1..Len(InOrder), k \in 1..Len(InOrder) :
           InOrder[j] = id /\ InOrder' = InsertAt(RemoveAt(InOrder, j), k, id)
    BY <1>8, ListingAfterSave
  <2>3. Off' \in {Off \cup {id}, Off \ {id}}
    BY <1>3, <1>4, <2>1
  <2>4. PICK c \in CategoryIds : c = id
    BY <1>1
  <2>5. Board!Change(c)
    BY <1>5, <1>6, <2>1, <2>2, <2>3, <2>4, SameOperators DEF Board!Change, Board!OnBoard
  <2>. QED
    BY <2>5 DEF Board!BoardNext
<1>. QED
  BY <1>7, <1>8

\* A category that is deleted was on the board, and empty.
LEMMA DeleteOnBoard ==
    ASSUME CatalogIInv, CatalogIInv', ~Clash, NEW r \in Requests, DeleteCategory(r)
    PROVE  Board!BoardNext
<1>. DEFINE id == req[r].id
            Off == {c \in Live : ~category[c].active}
<1>1. item' = item /\ id \in Live /\ ~HasItems(id)
  BY DEF DeleteCategory
<1>2. LiveItems' = LiveItems /\ id \in CategoryIds /\ id # Absent
  BY <1>1, LiveCategory DEF LiveItems
<1>3. /\ [i \in ItemIds |-> IF i \in LiveItems THEN item[i].category ELSE Absent]' =
            [i \in ItemIds |-> IF i \in LiveItems THEN item[i].category ELSE Absent]
      /\ [i \in ItemIds |-> IF i \in LiveItems THEN item[i].name ELSE Absent]' =
            [i \in ItemIds |-> IF i \in LiveItems THEN item[i].name ELSE Absent]
  BY <1>1, <1>2
<1>4. ToSet(InOrder) = Live
  BY OnTheBoard
<1>5. /\ Live' = Live \ {id}
      /\ \A c \in Live' : category'[c] = category[c]
      /\ \E j \in 1..Len(InOrder) : InOrder[j] = id /\ InOrder' = RemoveAt(InOrder, j)
  BY ListingAfterDelete
<1>6. Off' = Off \ {id}
  BY <1>5
<1>7. Board!ItemsIn(id) = {}
  BY <1>1, <1>2 DEF Board!ItemsIn, HasItems
<1>8. PICK c \in CategoryIds : c = id
  BY <1>2
<1>9. Board!RemoveEmpty(c)
  BY <1>1, <1>3, <1>4, <1>5, <1>6, <1>7, <1>8, SameOperators
     DEF Board!RemoveEmpty, Board!OnBoard
<1>. QED
  BY <1>9 DEF Board!BoardNext

\* The categories are as they were when their rows are.
LEMMA SameCategories ==
    ASSUME category' = category
    PROVE  /\ InOrder' = InOrder /\ Live' = Live /\ (Clash' <=> Clash)
           /\ {c \in Live : ~category[c].active}' = {c \in Live : ~category[c].active}
<1>1. InOrder' = InOrder
  BY OrderOfRows
<1>2. Live' = Live
  BY DEF Live
<1>. QED
  BY <1>1, <1>2 DEF Clash

Places == [i \in ItemIds |-> IF i \in LiveItems THEN item[i].category ELSE Absent]
Named == [i \in ItemIds |-> IF i \in LiveItems THEN item[i].name ELSE Absent]

LEMMA LiveItemRow ==
    ASSUME CatalogIInv, NEW i \in LiveItems
    PROVE  /\ i \in ItemIds /\ item[i].status = "LIVE"
           /\ item[i].category \in CategoryIds /\ item[i].category # Absent
           /\ item[i].name \in Names /\ item[i].name # Absent
<1>1. i \in ItemIds /\ item[i].status = "LIVE" /\ item[i] \in Item
  BY DEF LiveItems, CatalogIInv, TypeOK
<1>2. item[i].category \in CategoryIds /\ item[i].name \in Names
  BY <1>1 DEF Item, NoItem
<1>. QED
  BY <1>1, <1>2, CatalogAssumption

LEMMA SaveItemOnBoard ==
    ASSUME CatalogIInv, NEW r \in Requests, SaveItem(r), ~req[r].stale
    PROVE  Board!BoardNext
<1>. DEFINE i == req[r].item
            new == req[r].new
<1>1. /\ CurrentItem(req[r]) /\ Known(req[r]) /\ req[r] \in Request
      /\ req[r].op \in {"createItem", "updateItem"} /\ req[r].step = "save"
      /\ category' = category /\ item' = [item EXCEPT ![i] = new]
      /\ item \in [ItemIds -> Item]
  BY DEF CatalogIInv, TypeOK, Current, SaveItem
<1>2. /\ i \in ItemIds /\ new.status = "LIVE"
      /\ \A j \in LiveItems \ {i} : item[j].name # new.name
  BY <1>1 DEF CurrentItem, LiveItems
<1>3. new \in Item
  BY <1>1 DEF Request
<1>4. new.category \in CategoryIds /\ new.name \in Names
  BY <1>2, <1>3 DEF Item, NoItem
<1>5. new.category # Absent /\ new.name # Absent
  BY <1>4, CatalogAssumption
<1>6. LiveItems' = LiveItems \cup {i}
  BY <1>1, <1>2 DEF LiveItems
<1>7. /\ Places' = [Places EXCEPT ![i] = new.category]
      /\ Named' = [Named EXCEPT ![i] = new.name]
  BY <1>1, <1>2, <1>6 DEF Places, Named
<1>8. /\ InOrder' = InOrder
      /\ {c \in Live : ~category[c].active}' = {c \in Live : ~category[c].active}
  BY <1>1, SameCategories
<1>9. ToSet(InOrder) = Live
  BY OnTheBoard
<1>10. \A j \in ItemIds \ {i} : Named[j] # new.name
  BY <1>2, <1>5 DEF Named
<1>11. PICK j \in ItemIds, c \in CategoryIds, n \in Names :
          j = i /\ c = new.category /\ n = new.name
  BY <1>2, <1>4
<1>12. CASE req[r].op = "createItem"
  <2>1. new.category \in Live
    BY <1>1, <1>12 DEF CurrentItem
  <2>2. item[i] = NoItem
    BY <1>1, <1>2, <1>12, CatalogAssumption DEF Known
  <2>3. Places[i] = Absent
    BY <1>2, <2>2 DEF Places, LiveItems, NoItem
  <2>4. Board!AddItem(j, c, n)
    BY <1>7, <1>8, <1>9, <1>10, <1>11, <2>1, <2>3, SameOperators
       DEF Board!AddItem, Board!OnBoard, Board!IsFree, Places, Named
  <2>. QED
    BY <2>4 DEF Board!BoardNext
<1>13. CASE req[r].op = "updateItem"
  <2>1. i \in LiveItems
    BY <1>1, <1>13 DEF CurrentItem
  <2>2. Places[i] = item[i].category /\ Places[i] # Absent
    BY <1>2, <2>1, LiveItemRow DEF Places
  <2>3. \/ new.category = Places[i]
        \/ new.category \in Live /\ category[new.category].active
    BY <1>1, <1>13, <2>2 DEF CurrentItem
  <2>4. Board!ChangeItem(j, c, n)
    BY <1>7, <1>8, <1>9, <1>10, <1>11, <2>2, <2>3, SameOperators
       DEF Board!ChangeItem, Board!OnBoard, Board!IsFree, Places, Named
  <2>. QED
    BY <2>4 DEF Board!BoardNext
<1>. QED
  BY <1>1, <1>12, <1>13

LEMMA DeleteItemOnBoard ==
    ASSUME CatalogIInv, NEW r \in Requests, DeleteItem(r)
    PROVE  Board!BoardNext
<1>. DEFINE i == req[r].item
<1>1. /\ category' = category /\ item' = [item EXCEPT ![i].status = "DELETED"]
      /\ item \in [ItemIds -> Item] /\ i \in LiveItems
  BY DEF DeleteItem, CatalogIInv, TypeOK
<1>2. /\ i \in ItemIds /\ item[i].category # Absent /\ item[i] \in Item
      /\ item[i].status = "LIVE"
  BY <1>1, LiveItemRow
<1>3. item'[i].status = "DELETED" /\ \A j \in ItemIds \ {i} : item'[j] = item[j]
  BY <1>1, <1>2 DEF Item, NoItem
<1>4. LiveItems' = LiveItems \ {i}
  BY <1>2, <1>3 DEF LiveItems
<1>5. /\ Places' = [Places EXCEPT ![i] = Absent]
      /\ Named' = [Named EXCEPT ![i] = Absent]
  BY <1>2, <1>3, <1>4 DEF Places, Named
<1>6. Places[i] # Absent
  BY <1>1, <1>2 DEF Places
<1>7. /\ InOrder' = InOrder
      /\ {c \in Live : ~category[c].active}' = {c \in Live : ~category[c].active}
  BY <1>1, SameCategories
<1>8. PICK j \in ItemIds : j = i
  BY <1>2
<1>9. Board!RemoveItem(j)
  BY <1>5, <1>6, <1>7, <1>8 DEF Board!RemoveItem, Places, Named
<1>. QED
  BY <1>9 DEF Board!BoardNext

\* Every step of any number of concurrent requests is a step of the board or
\* leaves it alone, except writes of what was read before another write, and
\* steps of categories to two of which such a write has given one order
\* (prisma-menu-category.repository.ts, create and updateCategory: a moved
\* category pushes the others aside and never on top of each other;
\* prisma-menu-item.repository.ts, updateWithDetails).
THEOREM OnlyStaleWritesLeaveTheBoard == Spec => BoardUnlessStale
<1>. DEFINE Body == \/ Board!BoardNext /\ (Clash' => Clash)
                    \/ Clash /\ UNCHANGED item
                    \/ \E r \in Requests :
                          req[r].stale /\ (SaveCategory(r) \/ SaveItem(r))
<1>1. CatalogIInv /\ CatalogIInv' /\ [Next]_vars => [Body]_(Board!boardVars)
  <2>. SUFFICES ASSUME CatalogIInv, CatalogIInv', [Next]_vars
                PROVE  [Body]_(Board!boardVars)
    OBVIOUS
  <2>1. ASSUME UNCHANGED rowVars PROVE UNCHANGED Board!boardVars
    <3>1. category' = category /\ item' = item
      BY <2>1 DEF rowVars
    <3>2. Places' = Places /\ Named' = Named
      BY <3>1 DEF Places, Named, LiveItems
    <3>. QED
      BY <3>1, <3>2, SameCategories DEF Board!boardVars, Places, Named
  <2>2. ASSUME NEW r \in Requests, SaveCategory(r) PROVE Body
    <3>1. CASE req[r].stale
      BY <2>2, <3>1
    <3>2. CASE Clash
      BY <2>2, <3>2 DEF SaveCategory
    <3>3. CASE ~req[r].stale /\ ~Clash
      BY <2>2, <3>3, SaveOnBoard, NoClashAfterSave
    <3>. QED
      BY <3>1, <3>2, <3>3
  <2>3. ASSUME NEW r \in Requests, DeleteCategory(r) PROVE Body
    <3>1. CASE Clash
      BY <2>3, <3>1 DEF DeleteCategory
    <3>2. CASE ~Clash
      BY <2>3, <3>2, DeleteOnBoard, ListingAfterDelete
    <3>. QED
      BY <3>1, <3>2
  <2>4. ASSUME NEW r \in Requests, SaveItem(r) PROVE Body
    <3>1. CASE req[r].stale
      BY <2>4, <3>1
    <3>2. CASE ~req[r].stale
      <4>1. Clash' <=> Clash
        BY <2>4, SameCategories DEF SaveItem
      <4>. QED
        BY <2>4, <3>2, <4>1, SaveItemOnBoard
    <3>. QED
      BY <3>1, <3>2
  <2>5. ASSUME NEW r \in Requests, DeleteItem(r) PROVE Body
    <3>1. Clash' <=> Clash
      BY <2>5, SameCategories DEF DeleteItem
    <3>. QED
      BY <2>5, <3>1, DeleteItemOnBoard
  <2>. HIDE DEF Body
  <2>6. ASSUME Next PROVE Body \/ UNCHANGED rowVars
    BY <2>2, <2>3, <2>4, <2>5, <2>6, WritesOfRows DEF Next
  <2>7. UNCHANGED vars => UNCHANGED rowVars
    BY DEF vars, rowVars
  <2>. QED
    BY <2>1, <2>6, <2>7
<1>2. Spec => [][Body]_(Board!boardVars)
  BY <1>1, CatalogHolds, CatalogNext, PTL DEF Spec
<1>. QED
  BY <1>2 DEF BoardUnlessStale
=============================================================================
