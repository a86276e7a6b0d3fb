----------------------------- MODULE MenuCatalog -----------------------------
(***************************************************************************)
(* The categories of one restaurant in their display order, and the names  *)
(* and categories of its items.  Categories are renumbered by transactions *)
(* of two statements: the first moves the rows it found when it began, the *)
(* second writes the category itself; others that run at the same time do  *)
(* not see either before the end.  Names of categories are looked up like  *)
(* those of items, and left out.                                           *)
(***************************************************************************)
EXTENDS Integers, FiniteSets, SequencesExt

CONSTANTS
    Requests,        \* HTTP requests in flight at the same time
    CategoryIds, ItemIds, Names,
    MaxOrder,        \* the largest integer of the column display_order
    Absent           \* no category, no item, no name

VARIABLES
    category,        \* the rows of "menu_categories"
    item,            \* the rows of "menu_items"
    req              \* what each request does, and holds in memory

rowVars == <<category, item>>
vars == <<category, item, req>>

Orders == 0..MaxOrder
NoCategory == [status |-> "NONE", order |-> 0, active |-> FALSE]
Category == {NoCategory} \cup
            [status : {"LIVE", "DELETED"}, order : Orders, active : BOOLEAN]

NoItem == [status |-> "NONE", category |-> Absent, name |-> Absent]
Item == {NoItem} \cup
        [status : {"LIVE", "DELETED"}, category : CategoryIds, name : Names]

CategoryUseCases == {"createCategory", "updateCategory", "categoryStatus", "deleteCategory"}
ItemUseCases == {"createItem", "updateItem", "deleteItem"}
UseCases == CategoryUseCases \cup ItemUseCases

\* id and row: the category and its row as it will be written; prev: the
\* order it was read with; found: the rows the transaction is to move; item
\* and new: the item likewise; stale: what it has read was written since
\* (history, no data of the code).
Idle == [op |-> "none", step |-> "idle", id |-> Absent, row |-> NoCategory,
         prev |-> 0, found |-> {}, item |-> Absent, new |-> NoItem, stale |-> FALSE]

Request == [op : UseCases \cup {"none"},
            step : {"idle", "find", "items", "move", "place", "name", "save"},
            id : CategoryIds \cup {Absent}, row : Category, prev : Orders,
            found : SUBSET CategoryIds,
            item : ItemIds \cup {Absent}, new : Item, stale : BOOLEAN]

ASSUME CatalogAssumption ==
    /\ IsFiniteSet(CategoryIds)
    /\ MaxOrder \in Nat
    /\ Absent \notin CategoryIds \cup ItemIds \cup Names

-----------------------------------------------------------------------------
Receive(r, o) ==
    /\ req[r] = Idle
    /\ req' = [req EXCEPT ![r] = [Idle EXCEPT !.op = o, !.step = "find"]]
    /\ UNCHANGED rowVars

\* What the request reads refuses it, there is nothing to do, a call rejects, a
\* transaction is rolled back, or the process stops.
End(r) ==
    /\ req[r] # Idle
    /\ req' = [req EXCEPT ![r] = Idle]
    /\ UNCHANGED rowVars

Proceed(r, q) == req' = [req EXCEPT ![r] = q] /\ UNCHANGED rowVars

Finds(r, o) == req[r].step = "find" /\ req[r].op = o

Live == {c \in CategoryIds : category[c].status = "LIVE"}
LiveItems == {i \in ItemIds : item[i].status = "LIVE"}
HasItems(c) == \E i \in LiveItems : item[i].category = c

\* r is done; what requests for the use cases in S have read is out of date.
Written(r, S) ==
    req' = [q \in Requests |->
              IF q = r THEN Idle
              ELSE IF req[q].op \in S /\ req[q].step # "find"
                   THEN [req[q] EXCEPT !.stale = TRUE]
                   ELSE req[q]]

-----------------------------------------------------------------------------
(* Categories.                                                             *)

NewCategory(k) == [status |-> "LIVE", order |-> k, active |-> TRUE]

\* Slip: a new id that is not among the rows, but may be in use.
UnusedRow(c) == category[c] = NoCategory

Unused(c) == category[c] = NoCategory /\ \A q \in Requests : req[q].id # c

PrepareNew(r, c, k) ==
    /\ Finds(r, "createCategory")
    /\ Unused(c)
    /\ Proceed(r, [req[r] EXCEPT !.step = "move", !.id = c, !.row = NewCategory(k)])

\* getNextDisplayOrder.  The integer after the largest is refused (End).
NextOrder == IF Live = {} THEN 0 ELSE Max({category[c].order : c \in Live}) + 1

\* With the order given, or at the end.
AddAt(r, c, k) == k \in Orders /\ PrepareNew(r, c, k)
AddAtEnd(r, c) == NextOrder \in Orders /\ PrepareNew(r, c, NextOrder)

\* What changes is given; the order too, or it is written as it was read.
FindForUpdate(r, c, k, b) ==
    /\ Finds(r, "updateCategory")
    /\ c \in Live
    /\ Proceed(r, [req[r] EXCEPT !.id = c, !.prev = category[c].order,
                     !.row = [category[c] EXCEPT !.order = k, !.active = b],
                     !.step = IF k = category[c].order THEN "save" ELSE "move"])

FindForStatus(r, c, b) ==
    /\ Finds(r, "categoryStatus")
    /\ c \in Live
    /\ category[c].active # b
    /\ Proceed(r, [req[r] EXCEPT !.step = "save", !.id = c,
                     !.prev = category[c].order, !.row = [category[c] EXCEPT !.active = b]])

\* The rows that make place for a new category, or one that moves.
ToMove(q, c) ==
    LET k == category[c].order  to == q.row.order
    IN  /\ c \in Live \ {q.id}
        /\ IF q.op = "createCategory" THEN k >= to
           ELSE \/ to <= k /\ k < q.prev
                \/ q.prev < k /\ k <= to

\* The first statement of the transaction begins: it finds its rows.
BeginMove(r) ==
    /\ req[r].step = "move"
    /\ Proceed(r, [req[r] EXCEPT !.step = "save",
                                 !.found = {c \in CategoryIds : ToMove(req[r], c)}])

\* It has waited for others that were writing them, and moves those that are
\* still to be moved.
Moved(q, c) ==
    LET down == q.op # "createCategory" /\ q.row.order > q.prev
    IN  IF c \in q.found /\ ToMove(q, c)
        THEN [category[c] EXCEPT !.order = IF down THEN @ - 1 ELSE @ + 1]
        ELSE category[c]

\* Slip: a row is written back with is_deleted as it was read.
SaveWholeCategory(r) ==
    LET q == req[r]
    IN  /\ q.step = "save"
        /\ q.op \in {"createCategory", "updateCategory", "categoryStatus"}
        /\ \A c \in q.found : Moved(q, c).order \in Orders
        /\ category' = [c \in CategoryIds |-> IF c = q.id THEN q.row ELSE Moved(q, c)]
        /\ Written(r, UseCases)
        /\ UNCHANGED item

\* The row itself: is_deleted is not written, and not asked for.  An integer
\* that is too large fails (End).
SaveCategory(r) ==
    LET q == req[r]
    IN  /\ q.step = "save"
        /\ q.op \in {"createCategory", "updateCategory", "categoryStatus"}
        /\ \A c \in q.found : Moved(q, c).order \in Orders
        /\ category' = [c \in CategoryIds |->
                          IF c # q.id THEN Moved(q, c)
                          ELSE IF q.op = "createCategory" THEN q.row
                          ELSE [q.row EXCEPT !.status = category[c].status]]
        /\ Written(r, UseCases)
        /\ UNCHANGED item

FindForDeletion(r, c) ==
    /\ Finds(r, "deleteCategory")
    /\ c \in Live
    /\ Proceed(r, [req[r] EXCEPT !.step = "items", !.id = c,
                     !.row = [category[c] EXCEPT !.status = "DELETED", !.active = FALSE]])

CountItems(r) ==
    /\ req[r].step = "items"
    /\ ~HasItems(req[r].id)
    /\ Proceed(r, [req[r] EXCEPT !.step = "save"])

\* Slip: the items were counted before.
DeleteCounted(r) ==
    /\ req[r].step = "save" /\ req[r].op = "deleteCategory"
    /\ req[r].id \in Live
    /\ category' = [category EXCEPT ![req[r].id] = req[r].row]
    /\ Written(r, UseCases)
    /\ UNCHANGED item

\* The same statement that deletes the category asks for its items.
DeleteCategory(r) ==
    /\ req[r].step = "save" /\ req[r].op = "deleteCategory"
    /\ req[r].id \in Live /\ ~HasItems(req[r].id)
    /\ category' = [category EXCEPT ![req[r].id] = req[r].row]
    /\ Written(r, UseCases)
    /\ UNCHANGED item

-----------------------------------------------------------------------------
(* Items.                                                                  *)

NewItem(c, n) == [status |-> "LIVE", category |-> c, name |-> n]

PrepareItem(r, i, c, n) ==
    /\ Finds(r, "createItem")
    /\ item[i] = NoItem /\ \A q \in Requests : req[q].item # i
    /\ c \in Live
    /\ Proceed(r, [req[r] EXCEPT !.step = "name", !.item = i, !.new = NewItem(c, n)])

FindItem(r, i, c, n) ==
    /\ Finds(r, "updateItem")
    /\ i \in LiveItems
    /\ Proceed(r, [req[r] EXCEPT !.item = i, !.new = NewItem(c, n),
                     !.step = IF c = item[i].category THEN "name" ELSE "place"])

\* An item is moved into a category that is live and active only.
FindPlace(r) ==
    /\ req[r].step = "place"
    /\ req[r].new.category \in Live /\ category[req[r].new.category].active
    /\ Proceed(r, [req[r] EXCEPT !.step = "name"])

\* Names are looked up by the use case, and again in the transaction, which is
\* the look-up that counts; there is no unique key.
FindName(r) ==
    /\ req[r].step = "name"
    /\ \A j \in LiveItems \ {req[r].item} : item[j].name # req[r].new.name
    /\ Proceed(r, [req[r] EXCEPT !.step = "save"])

SaveItem(r) ==
    /\ req[r].step = "save" /\ req[r].op \in {"createItem", "updateItem"}
    /\ req[r].op = "updateItem" => req[r].item \in LiveItems
    /\ item' = [item EXCEPT ![req[r].item] = req[r].new]
    /\ Written(r, ItemUseCases)
    /\ UNCHANGED category

FindItemForDeletion(r, i) ==
    /\ Finds(r, "deleteItem")
    /\ i \in LiveItems
    /\ Proceed(r, [req[r] EXCEPT !.step = "save", !.item = i])

DeleteItem(r) ==
    /\ req[r].step = "save" /\ req[r].op = "deleteItem"
    /\ req[r].item \in LiveItems
    /\ item' = [item EXCEPT ![req[r].item].status = "DELETED"]
    /\ Written(r, ItemUseCases)
    /\ UNCHANGED category

-----------------------------------------------------------------------------
Init ==
    /\ category = [c \in CategoryIds |-> NoCategory]
    /\ item = [i \in ItemIds |-> NoItem]
    /\ req = [r \in Requests |-> Idle]

CategoryStep(r) ==
    \/ BeginMove(r) \/ SaveCategory(r) \/ CountItems(r) \/ DeleteCategory(r)
    \/ \E c \in CategoryIds :
          \/ AddAtEnd(r, c) \/ FindForDeletion(r, c)
          \/ \E k \in Orders : AddAt(r, c, k)
          \/ \E b \in BOOLEAN : FindForStatus(r, c, b)
          \/ \E k \in Orders, b \in BOOLEAN : FindForUpdate(r, c, k, b)

ItemStep(r) ==
    \/ FindPlace(r) \/ FindName(r) \/ SaveItem(r) \/ DeleteItem(r)
    \/ \E i \in ItemIds : FindItemForDeletion(r, i)
    \/ \E i \in ItemIds, c \in CategoryIds, n \in Names :
          PrepareItem(r, i, c, n) \/ FindItem(r, i, c, n)

Next ==
    \E r \in Requests :
       \/ CategoryStep(r) \/ ItemStep(r) \/ End(r)
       \/ \E o \in UseCases : Receive(r, o)

Spec == Init /\ [][Next]_vars

-----------------------------------------------------------------------------
TypeOK ==
    /\ category \in [CategoryIds -> Category]
    /\ item \in [ItemIds -> Item]
    /\ req \in [Requests -> Request]

\* An item's category is a row that was created, and is not taken for another
\* one: no request creates a category that exists.
FreshInv ==
    /\ \A i \in ItemIds : item[i] # NoItem => category[item[i].category] # NoCategory
    /\ \A r \in Requests :
          /\ req[r].new # NoItem /\ req[r].step # "place" =>
                category[req[r].new.category] # NoCategory
          /\ req[r].op = "createCategory" /\ req[r].id # Absent =>
                /\ category[req[r].id] = NoCategory
                /\ \A q \in Requests \ {r} : req[q].id # req[r].id
          /\ req[r].id # Absent /\ req[r].op # "createCategory" =>
                category[req[r].id] # NoCategory

CatalogInv == TypeOK /\ FreshInv

\* A deleted category or item stays deleted, although requests that have read a
\* category before still write its other columns by its id.
DeletedStays ==
    [][ /\ \A c \in CategoryIds :
              category[c].status = "DELETED" => category'[c].status = "DELETED"
        /\ \A i \in ItemIds : item[i].status = "DELETED" => item'[i].status = "DELETED" ]_vars

\* Two categories with one order: no listing says which comes first.
Clash == \E c, d \in Live : c # d /\ category[c].order = category[d].order

Before(c, d) == category[c].order < category[d].order

InOrder ==
    CHOOSE s \in SetToSeqs(Live) : \A j, k \in 1..Len(s) : Before(s[j], s[k]) => j < k

\* The board that the rows stand for.
Board == INSTANCE MenuBoard WITH
    board <- InOrder,
    off <- {c \in Live : ~category[c].active},
    place <- [i \in ItemIds |-> IF i \in LiveItems THEN item[i].category ELSE Absent],
    name <- [i \in ItemIds |-> IF i \in LiveItems THEN item[i].name ELSE Absent]

\* Every step is a step of the board, also when it deletes a category although
\* other requests have written since it counted the items.  The exceptions are
\* writes of what was read before another write, and steps of categories that
\* such a write has given one order.
BoardUnlessStale ==
    [][ \/ Board!BoardNext /\ (Clash' => Clash)
        \/ Clash /\ UNCHANGED item
        \/ \E r \in Requests :
              req[r].stale /\ (SaveCategory(r) \/ SaveItem(r)) ]_(Board!boardVars)
===============================================================================
