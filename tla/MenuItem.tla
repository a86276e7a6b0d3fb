------------------------------- MODULE MenuItem -------------------------------
(***************************************************************************)
(* One item of the menu and its variants.  A request is a use case at the  *)
(* database call it waits for; it prepares what it writes from one reading *)
(* of the item with its variants, and the transaction that writes it tests *)
(* little of that again.  Names and categories of items are in MenuCatalog *)
(* and add-ons in MenuAddons; of refusals that rest on other data, the     *)
(* outcome (End) is kept.                                                  *)
(***************************************************************************)
CONSTANTS
    Requests,        \* HTTP requests in flight at the same time
    Offered,         \* the use cases that clients call
    VariantIds, Prices,
    NoPrice, NoId,
    Keep             \* what an update leaves alone

VARIABLES
    item,            \* the row of the item
    variant,         \* its rows in "menu_item_variants"
    req              \* what each request does, and holds in memory

rowVars == <<item, variant>>
vars == <<item, variant, req>>

NoItem == [status |-> "NONE", available |-> FALSE, price |-> NoPrice]
Item == [status : {"LIVE", "DELETED"}, available : BOOLEAN, price : Prices]
          \cup {NoItem}

NoVariant == [price |-> NoPrice, isDefault |-> FALSE, isAvailable |-> FALSE]
Variant == [price : Prices, isDefault : BOOLEAN, isAvailable : BOOLEAN]

\* The variants of an item, by id.
Sheet == [VariantIds -> Variant \cup {NoVariant}]
Ids(s) == {v \in VariantIds : s[v] # NoVariant}
Available(s) == {v \in Ids(s) : s[v].isAvailable}
Defaults(s) == {v \in Ids(s) : s[v].isDefault}

FormUseCases == {"create", "update"}
SwitchUseCases == {"status", "variant", "delete"}
UseCases == FormUseCases \cup SwitchUseCases

\* item and sheet: the item and the variants to be written; id, turn, other:
\* the variant to be switched on or off, and the next default.  stale: the
\* rows it has read were written since (history, no data of the code).
Idle == [op |-> "none", step |-> "idle", item |-> NoItem, sheet |-> Keep,
         id |-> NoId, turn |-> FALSE, other |-> NoId, stale |-> FALSE]

Request == [op : UseCases \cup {"none"}, step : {"idle", "find", "save"},
            item : Item, sheet : {Keep} \cup Sheet,
            id : VariantIds \cup {NoId}, turn : BOOLEAN,
            other : VariantIds \cup {NoId}, stale : BOOLEAN]

ASSUME MenuItemAssumption ==
    /\ NoPrice \notin Prices
    /\ NoId \notin VariantIds
    /\ \A s \in Sheet : s # Keep
    /\ Offered \subseteq UseCases

-----------------------------------------------------------------------------
(* Requests arrive, read and end.                                          *)

Receive(r, o) ==
    /\ req[r] = Idle
    /\ o \in Offered
    /\ req' = [req EXCEPT ![r] = [Idle EXCEPT !.op = o, !.step = "find"]]
    /\ UNCHANGED rowVars

\* What the request reads refuses it, a call rejects, a transaction is rolled
\* back, or the process stops.
End(r) ==
    /\ req[r] # Idle
    /\ req' = [req EXCEPT ![r] = Idle]
    /\ UNCHANGED rowVars

\* r waits for a look-up of use case o.
Finds(r, o) == req[r].step = "find" /\ req[r].op = o

\* r goes on with what it has prepared.
Proceed(r, q) == req' = [req EXCEPT ![r] = q] /\ UNCHANGED rowVars

\* The id of a new variant is random: nobody has it.
IsNew(r, v) ==
    /\ variant[v] = NoVariant
    /\ \A q \in Requests \ {r} : req[q].sheet # Keep => req[q].sheet[v] = NoVariant

-----------------------------------------------------------------------------
(* Items: what is prepared.                                                *)

\* The default is the variant marked so, or else the first.
OneDefault(s) == Ids(s) # {} => \E d \in Ids(s) : Defaults(s) = {d}

\* With variants, the item costs what the default costs.
ResolvedPrice(s, p) == IF Ids(s) = {} THEN p ELSE s[CHOOSE v \in Defaults(s) : TRUE].price

NewItem(b, p) == [status |-> "LIVE", available |-> b, price |-> p]

\* A new item may have variants of which none is available.
Prepare(r, b, p, s) ==
    /\ Finds(r, "create")
    /\ item = NoItem
    /\ \A q \in Requests \ {r} : req[q].op = "create" => req[q].step = "find"
    /\ \A v \in Ids(s) : IsNew(r, v)
    /\ OneDefault(s)
    /\ Proceed(r, [req[r] EXCEPT !.step = "save", !.sheet = s,
                                 !.item = NewItem(b, ResolvedPrice(s, p))])

\* Items that are not deleted are found.
Found == item.status = "LIVE"

\* The item as it will be after an update with what was given.
Updated(b, p) == [item EXCEPT !.available = b, !.price = p]

\* The variants that an update may be given.
Accepts(r, s) ==
    /\ Ids(s) # {}
    /\ OneDefault(s)
    /\ Available(s) # {}
    /\ \A v \in Ids(s) \ Ids(variant) : IsNew(r, v)

ReviseVariants(r, b, s) ==
    /\ Finds(r, "update")
    /\ Found
    /\ Accepts(r, s)
    /\ Proceed(r, [req[r] EXCEPT !.step = "save", !.sheet = s,
                                 !.item = Updated(b, ResolvedPrice(s, item.price))])

Repriced(s, p) ==
    [v \in VariantIds |-> IF v \in Defaults(s) THEN [s[v] EXCEPT !.price = p] ELSE s[v]]

\* A price alone changes the default too, and writes all variants as read.
Reprice(r, b, p) ==
    /\ Finds(r, "update")
    /\ Found
    /\ Proceed(r, [req[r] EXCEPT
                     !.step = "save", !.item = Updated(b, p),
                     !.sheet = IF Ids(variant) = {} THEN Keep ELSE Repriced(variant, p)])

\* Anything else of the item: its price is written as read.
Revise(r, b) ==
    /\ Finds(r, "update")
    /\ Found
    /\ Proceed(r, [req[r] EXCEPT !.step = "save", !.item = Updated(b, item.price)])

FindForStatus(r, b) ==
    /\ Finds(r, "status")
    /\ Found
    /\ Proceed(r, [req[r] EXCEPT !.step = "save", !.item = [item EXCEPT !.available = b]])

FindForDeletion(r) ==
    /\ Finds(r, "delete")
    /\ Found
    /\ Proceed(r, [req[r] EXCEPT !.step = "save",
                     !.item = [item EXCEPT !.status = "DELETED", !.available = FALSE]])

\* Slip: the last available variant is switched off like the others.
SwitchableAny(v) == v \in Ids(variant)

Switchable(v) ==
    v \in Ids(variant) /\ (variant[v].isAvailable => Available(variant) # {v})

\* The default hands over to the first other that is available: which one
\* depends on prices and ages.
NextDefaults(v) ==
    IF variant[v].isAvailable /\ variant[v].isDefault THEN Available(variant) \ {v}
                                                      ELSE {NoId}

FindVariant(r, v, w) ==
    /\ Finds(r, "variant")
    /\ Found
    /\ Switchable(v)
    /\ w \in NextDefaults(v)
    /\ Proceed(r, [req[r] EXCEPT !.step = "save", !.id = v, !.other = w,
                                 !.turn = ~variant[v].isAvailable])

-----------------------------------------------------------------------------
(* Items: what is written.                                                 *)

\* r is done; what others have read is out of date.
Written(r) ==
    req' = [q \in Requests |->
              IF q = r THEN Idle
              ELSE IF req[q].step = "save" THEN [req[q] EXCEPT !.stale = TRUE]
                                           ELSE req[q]]

Saves(r, o) == req[r].step = "save" /\ req[r].op = o

SaveNew(r) ==
    /\ Saves(r, "create")
    /\ item' = req[r].item
    /\ variant' = req[r].sheet
    /\ Written(r)

\* Slip: the variants that were given are written, and no other is removed.
SaveUpdateAdding(r) ==
    /\ Saves(r, "update")
    /\ item.status = "LIVE"
    /\ item' = req[r].item
    /\ variant' = IF req[r].sheet = Keep THEN variant
                  ELSE [v \in VariantIds |-> IF v \in Ids(req[r].sheet)
                                             THEN req[r].sheet[v] ELSE variant[v]]
    /\ Written(r)

\* The transaction of updateWithDetails, for an item that is still there.  It
\* removes the variants it was not given, and writes the others, or creates
\* them, also those that were removed meanwhile.
SaveUpdate(r) ==
    /\ Saves(r, "update")
    /\ item.status = "LIVE"
    /\ item' = req[r].item
    /\ variant' = IF req[r].sheet = Keep THEN variant ELSE req[r].sheet
    /\ Written(r)

\* The item and all its variants.
SaveStatus(r) ==
    LET b == req[r].item.available
    IN  /\ Saves(r, "status")
        /\ item.status = "LIVE"
        /\ item' = [item EXCEPT !.available = b]
        /\ variant' = [v \in VariantIds |->
                         IF v \in Ids(variant) THEN [variant[v] EXCEPT !.isAvailable = b]
                                               ELSE NoVariant]
        /\ Written(r)

\* Availability is left as it is.
SaveDeletion(r) ==
    /\ Saves(r, "delete")
    /\ item.status = "LIVE"
    /\ item' = [item EXCEPT !.status = "DELETED"]
    /\ Written(r)
    /\ UNCHANGED variant

\* v hands over to w, at whose price the item is shown.
Switch(r, v, w) ==
    /\ variant' = [variant EXCEPT ![v].isAvailable = req[r].turn, ![v].isDefault = FALSE,
                                  ![w].isDefault = TRUE]
    /\ item' = [item EXCEPT !.price = variant[w].price]

\* The rows of the variants must be there, and only one can be the default: or
\* else the transaction fails (End).  It does not ask whether the item is.
SaveVariant(r) ==
    LET v == req[r].id  w == req[r].other
    IN  /\ Saves(r, "variant")
        /\ v \in Ids(variant)
        /\ IF w = NoId
           THEN /\ variant' = [variant EXCEPT ![v].isAvailable = req[r].turn]
                /\ UNCHANGED item
           ELSE /\ w \in Ids(variant)
                /\ Defaults(variant) \subseteq {v, w}
                /\ Switch(r, v, w)
        /\ Written(r)

-----------------------------------------------------------------------------
Init ==
    /\ item = NoItem
    /\ variant = [v \in VariantIds |-> NoVariant]
    /\ req = [r \in Requests |-> Idle]

Read(r) ==
    \/ \E b \in BOOLEAN : FindForStatus(r, b) \/ Revise(r, b)
    \/ \E b \in BOOLEAN, p \in Prices : Reprice(r, b, p)
    \/ \E b \in BOOLEAN, p \in Prices, s \in Sheet : Prepare(r, b, p, s)
    \/ \E b \in BOOLEAN, s \in Sheet : ReviseVariants(r, b, s)
    \/ FindForDeletion(r)
    \/ \E v \in VariantIds, w \in VariantIds \cup {NoId} : FindVariant(r, v, w)

Write(r) ==
    SaveNew(r) \/ SaveUpdate(r) \/ SaveStatus(r) \/ SaveDeletion(r) \/ SaveVariant(r)

Next ==
    \E r \in Requests : Read(r) \/ Write(r) \/ End(r) \/ \E o \in UseCases : Receive(r, o)

Spec == Init /\ [][Next]_vars

-----------------------------------------------------------------------------
TypeOK ==
    /\ item \in Item
    /\ variant \in Sheet
    /\ req \in [Requests -> Request]

\* An item with variants has one default, whatever switches, rewrites and
\* removals of variants come in between the reading and the writing of it:
\* price and details are taken from that variant.
DefaultInv == OneDefault(variant)

\* The card that the rows stand for.
Card == INSTANCE MenuCard

\* Everything the use cases do to an item and its variants is an operation of
\* the card at one instant, or the write of a request that has read what was
\* written since: an item costs what its default costs, and the last variant
\* to order is not switched off, unless requests overtake each other.
CardUnlessStale ==
    [][ Card!CardNext \/ \E r \in Requests : req[r].stale /\ Write(r) ]_rowVars

-----------------------------------------------------------------------------
(* The inductive invariant.                                                *)

\* Prepared variants have one default too, and a switch moves the mark.
PreparedInv ==
    \A r \in Requests :
        LET q == req[r]
        IN  /\ q.sheet # Keep => OneDefault(q.sheet)
            /\ q.op = "create" /\ q.step = "save" =>
                  q.item # NoItem /\ q.sheet # Keep
            /\ q.op = "variant" /\ q.step = "save" => q.id \in VariantIds /\ q.id # q.other

MenuItemInv == TypeOK /\ DefaultInv /\ PreparedInv
===============================================================================
