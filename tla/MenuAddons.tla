------------------------------ MODULE MenuAddons ------------------------------
(***************************************************************************)
(* The add-ons of one restaurant, and the links from one of its items.     *)
(* Look-ups by name ignore case; the unique key of the names of add-ons    *)
(* that are not deleted does not.  A request that changes an add-on writes *)
(* all its columns, as read and changed, by its id.                        *)
(***************************************************************************)
CONSTANTS
    Requests,        \* HTTP requests in flight at the same time
    AddonIds,
    Words,           \* names up to case
    Spellings,       \* ways of writing one
    NoName, NoId,
    Gone             \* the name of a deleted add-on, on the shelf

VARIABLES
    addon,           \* the rows of "addons"
    link,            \* the add-ons the item has rows for in "menu_item_addons"
    req              \* what each request does, and holds in memory

rowVars == <<addon, link>>
vars == <<addon, link, req>>

Names == [word : Words, spelling : Spellings]
SameName(n, m) == n.word = m.word

NoAddon == [status |-> "NONE", name |-> NoName]
Addon == {NoAddon} \cup [status : {"LIVE", "DELETED"}, name : Names]

UseCases == {"add", "update", "delete", "item"}

\* id and row: the add-on and its row as it will be written; links: the
\* links to be written; stale: add-ons were written since the first reading
\* (history, no data of the code).
Idle == [op |-> "none", step |-> "idle", id |-> NoId, row |-> NoAddon,
         links |-> {}, stale |-> FALSE]

Request == [op : UseCases \cup {"none"}, step : {"idle", "find", "name", "save"},
            id : AddonIds \cup {NoId}, row : Addon, links : SUBSET AddonIds,
            stale : BOOLEAN]

ASSUME AddonsAssumption == 
    /\ NoId \notin AddonIds
    /\ NoName \notin Names /\ Gone \notin Names

-----------------------------------------------------------------------------
Receive(r, o) ==
    /\ req[r] = Idle
    /\ req' = [req EXCEPT ![r] = [Idle EXCEPT !.op = o, !.step = "find"]]
    /\ UNCHANGED rowVars

\* Blocked restaurants and staff without a right are refused, a call rejects,
\* or the process stops.
End(r) ==
    /\ req[r] # Idle
    /\ req' = [req EXCEPT ![r] = Idle]
    /\ UNCHANGED rowVars

Proceed(r, q) == req' = [req EXCEPT ![r] = q] /\ UNCHANGED rowVars

Finds(r, o) == req[r].step = "find" /\ req[r].op = o

Live == {a \in AddonIds : addon[a].status = "LIVE"}

\* findByNameAndRestaurantId finds nothing but a itself.
NameIsFree(n, a) == \A b \in Live \ {a} : ~SameName(addon[b].name, n)

\* The unique key, of the exact names.
KeyIsFree(row, a) ==
    row.status = "LIVE" => \A b \in Live \ {a} : addon[b].name # row.name

NewAddon(n) == [status |-> "LIVE", name |-> n]

\* The id of a new add-on is random.
FindForNew(r, a, n) ==
    /\ Finds(r, "add")
    /\ addon[a] = NoAddon /\ \A q \in Requests : req[q].id # a
    /\ NameIsFree(n, a)
    /\ Proceed(r, [req[r] EXCEPT !.step = "save", !.id = a, !.row = NewAddon(n)])

\* Slip: a new name is looked up only if it is another spelling.
FindForUpdateLax(r, a, n) ==
    /\ Finds(r, "update")
    /\ a \in Live
    /\ Proceed(r, [req[r] EXCEPT !.id = a, !.row = [addon[a] EXCEPT !.name = n],
                     !.step = IF SameName(n, addon[a].name) THEN "name" ELSE "save"])

\* Another spelling of the name it has is not looked up.
FindForUpdate(r, a, n) ==
    /\ Finds(r, "update")
    /\ a \in Live
    /\ Proceed(r, [req[r] EXCEPT !.id = a, !.row = [addon[a] EXCEPT !.name = n],
                     !.step = IF SameName(n, addon[a].name) THEN "save" ELSE "name"])

FindName(r) ==
    /\ req[r].step = "name"
    /\ NameIsFree(req[r].row.name, req[r].id)
    /\ Proceed(r, [req[r] EXCEPT !.step = "save"])

FindForDeletion(r, a) ==
    /\ Finds(r, "delete")
    /\ a \in Live
    /\ Proceed(r, [req[r] EXCEPT !.step = "save", !.id = a,
                                 !.row = [addon[a] EXCEPT !.status = "DELETED"]])

\* r is done; what others have read is out of date.
Written(r) ==
    req' = [q \in Requests |->
              IF q = r THEN Idle
              ELSE IF req[q].step \in {"name", "save"} THEN [req[q] EXCEPT !.stale = TRUE]
                                                       ELSE req[q]]

\* All columns, is_deleted too; a name that is taken fails (End).
SaveAddon(r) ==
    LET a == req[r].id
    IN  /\ req[r].step = "save" /\ req[r].op # "item"
        /\ KeyIsFree(req[r].row, a)
        /\ addon' = [addon EXCEPT ![a] = req[r].row]
        /\ Written(r)
        /\ UNCHANGED link

-----------------------------------------------------------------------------
(* The add-ons of the item.                                                *)

\* Slip: what is given is not looked up.
FindAnyAddons(r, A) ==
    /\ Finds(r, "item")
    /\ Proceed(r, [req[r] EXCEPT !.step = "save", !.links = A])

\* Those given to createMenuItem or updateMenuItem must be live.
FindAddons(r, A) ==
    /\ Finds(r, "item")
    /\ A \subseteq Live
    /\ Proceed(r, [req[r] EXCEPT !.step = "save", !.links = A])

\* All links are replaced; nothing asks whether the add-ons are still live.
SaveLinks(r) ==
    /\ req[r].step = "save" /\ req[r].op = "item"
    /\ link' = req[r].links
    /\ req' = [req EXCEPT ![r] = Idle]
    /\ UNCHANGED addon

\* Readings of an item leave out add-ons that are deleted.
Shown == link \cap Live

-----------------------------------------------------------------------------
Init ==
    /\ addon = [a \in AddonIds |-> NoAddon]
    /\ link = {}
    /\ req = [r \in Requests |-> Idle]

Next ==
    \E r \in Requests :
       \/ \E o \in UseCases : Receive(r, o)
       \/ End(r) \/ FindName(r) \/ SaveAddon(r) \/ SaveLinks(r)
       \/ \E a \in AddonIds : FindForDeletion(r, a)
       \/ \E a \in AddonIds, n \in Names : FindForNew(r, a, n) \/ FindForUpdate(r, a, n)
       \/ \E A \in SUBSET AddonIds : FindAddons(r, A)

Spec == Init /\ [][Next]_vars

-----------------------------------------------------------------------------
TypeOK ==
    /\ addon \in [AddonIds -> Addon]
    /\ link \subseteq AddonIds
    /\ req \in [Requests -> Request]

\* The foreign keys of links, written or prepared, never refuse one, and the
\* unique key of names holds: however late rows are written.
KeysHold ==
    /\ \A a \in link \cup UNION {req[r].links : r \in Requests} : addon[a] # NoAddon
    /\ \A a, b \in Live : addon[a].name = addon[b].name => a = b

\* The shelf that the rows stand for.
Shelf == INSTANCE AddonShelf WITH
    shelf <- [a \in AddonIds |->
                IF addon[a].status = "DELETED" THEN Gone ELSE addon[a].name],
    shown <- Shown, Unused <- NoName

\* Everything the use cases do is an operation of the shelf at one instant, or
\* the write of a request that has read add-ons which were written since.
\* Links are never too late: what was deleted in between is not shown.
ShelfUnlessStale ==
    [][ Shelf!ShelfNext \/ \E r \in Requests : req[r].stale /\ SaveAddon(r) ]_(Shelf!shelfVars)

AddonsInv == TypeOK /\ KeysHold
===============================================================================
