------------------------------- MODULE MenuCard -------------------------------
(***************************************************************************)
(* One item of the menu as its restaurant may think of it: its price and   *)
(* its variants, of which one is the default.  Everything happens at one   *)
(* instant.  An item with variants costs what its default costs, and       *)
(* switching variants off one by one never leaves none to order.  A step   *)
(* is said by what it leads to: this module is compared with, not run.     *)
(***************************************************************************)
CONSTANTS VariantIds, Prices, NoPrice

VARIABLES
    item,        \* its status, price, and whether it is available
    variant      \* its variants

cardVars == <<item, variant>>

NoItem == [status |-> "NONE", available |-> FALSE, price |-> NoPrice]
Listed == [status : {"LIVE"}, available : BOOLEAN, price : Prices]

NoVariant == [price |-> NoPrice, isDefault |-> FALSE, isAvailable |-> FALSE]
Variant == [price : Prices, isDefault : BOOLEAN, isAvailable : BOOLEAN]
Sheet == [VariantIds -> Variant \cup {NoVariant}]

Ids(s) == {v \in VariantIds : s[v] # NoVariant}
Available(s) == {v \in Ids(s) : s[v].isAvailable}
Defaults(s) == {v \in Ids(s) : s[v].isDefault}

\* p is a price for an item with the variants s.
Fits(p, s) ==
    IF Ids(s) = {} THEN p \in Prices
                   ELSE \E d \in Ids(s) : Defaults(s) = {d} /\ s[d].price = p

IsListed ==
    /\ item' \in Listed
    /\ variant' \in Sheet
    /\ Fits(item'.price, variant')

List == item = NoItem /\ IsListed

\* The availability of variants is kept, or leaves something to order.
Reprice ==
    /\ item.status = "LIVE"
    /\ IsListed
    /\ \/ Available(variant') # {}
       \/ Ids(variant') = Ids(variant) /\ Available(variant') = Available(variant)

\* Anything else of the item changes.
Revise ==
    /\ item.status = "LIVE"
    /\ \E b \in BOOLEAN : item' = [item EXCEPT !.available = b]
    /\ UNCHANGED variant

SetAvailability(b) ==
    /\ item.status = "LIVE"
    /\ item' = [item EXCEPT !.available = b]
    /\ variant' = [v \in VariantIds |->
                     IF v \in Ids(variant) THEN [variant[v] EXCEPT !.isAvailable = b]
                                           ELSE NoVariant]

SwitchOn(v) ==
    /\ item.status = "LIVE"
    /\ v \in Ids(variant) \ Available(variant)
    /\ variant' = [variant EXCEPT ![v].isAvailable = TRUE]
    /\ UNCHANGED item

\* The default hands over to w.
SwitchOff(v, w) ==
    /\ item.status = "LIVE"
    /\ v # w /\ {v, w} \subseteq Available(variant)
    /\ IF variant[v].isDefault
       THEN /\ variant' = [variant EXCEPT ![v].isAvailable = FALSE, ![v].isDefault = FALSE,
                                          ![w].isDefault = TRUE]
            /\ item' = [item EXCEPT !.price = variant[w].price]
       ELSE /\ variant' = [variant EXCEPT ![v].isAvailable = FALSE]
            /\ UNCHANGED item

Withdraw ==
    /\ item.status = "LIVE"
    /\ item' = [item EXCEPT !.status = "DELETED"]
    /\ UNCHANGED variant

CardInit ==
    /\ item = NoItem
    /\ variant = [v \in VariantIds |-> NoVariant]

CardNext ==
    \/ List \/ Reprice \/ Revise \/ Withdraw
    \/ \E b \in BOOLEAN : SetAvailability(b)
    \/ \E v, w \in VariantIds : SwitchOn(v) \/ SwitchOff(v, w)

CardSpec == CardInit /\ [][CardNext]_cardVars

\* What the card promises: as soon as an item is listed, its price is that of
\* its only default variant, if it has variants.
PriceIsDefaults == item # NoItem => Fits(item.price, variant)
===============================================================================
