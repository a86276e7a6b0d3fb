---------------------------- MODULE MenuItemProofs ----------------------------
(***************************************************************************)
(* Proofs about MenuItem.  A request that is about to write holds variants *)
(* of which one is the default, and, as long as nobody has written since   *)
(* it read them, what it writes is an operation of the card.               *)
(***************************************************************************)
EXTENDS MenuItem, TLAPS

(* Sheets of variants.                                                     *)

LEMMA SheetTyped ==
    ASSUME NEW s \in Sheet
    PROVE  /\ s # Keep
           /\ \A v \in VariantIds : s[v] \in Variant \cup {NoVariant}
           /\ \A v \in VariantIds : v \in Ids(s) <=> s[v] \in Variant
  BY MenuItemAssumption DEF Sheet, Ids, Variant, NoVariant

LEMMA NoVariantsOneDefault ==
    LET s == [v \in VariantIds |-> NoVariant]
    IN  s \in Sheet /\ Ids(s) = {} /\ OneDefault(s)
  BY DEF Sheet, Ids, OneDefault

\* The price of the default, of which there is one.
LEMMA PriceResolved ==
    ASSUME NEW s \in Sheet, OneDefault(s), NEW p \in Prices
    PROVE  /\ ResolvedPrice(s, p) \in Prices
           /\ Card!Fits(ResolvedPrice(s, p), s)
  <1>1. CASE Ids(s) = {}
    BY <1>1 DEF ResolvedPrice, Card!Fits, Ids, Card!Ids, NoVariant, Card!NoVariant
  <1>2. CASE Ids(s) # {}
    <2>1. PICK d \in Ids(s) : Defaults(s) = {d}
      BY <1>2 DEF OneDefault
    <2>2. (CHOOSE v \in Defaults(s) : TRUE) = d
      BY <2>1
    <2>3. ResolvedPrice(s, p) = s[d].price
      BY <1>2, <2>2 DEF ResolvedPrice
    <2>4. d \in VariantIds /\ s[d] \in Variant
      BY <2>1, SheetTyped DEF Ids
    <2>5. s[d].price \in Prices
      BY <2>4 DEF Variant
    <2>6. Card!Ids(s) = Ids(s) /\ Card!Defaults(s) = Defaults(s)
      BY DEF Ids, Defaults, NoVariant, Card!Ids, Card!Defaults, Card!NoVariant
    <2> QED
      BY <1>2, <2>1, <2>3, <2>5, <2>6 DEF Card!Fits
  <1> QED
    BY <1>1, <1>2

\* A new price of the default.
LEMMA RepricedSheet ==
    ASSUME NEW s \in Sheet, OneDefault(s), NEW p \in Prices
    PROVE  /\ Repriced(s, p) \in Sheet
           /\ OneDefault(Repriced(s, p))
           /\ Ids(Repriced(s, p)) = Ids(s)
           /\ Available(Repriced(s, p)) = Available(s)
           /\ Ids(s) # {} => Card!Fits(p, Repriced(s, p))
  <1> DEFINE n == Repriced(s, p)
  <1>1. /\ n \in Sheet
        /\ \A v \in VariantIds : n[v] = IF v \in Defaults(s) THEN [s[v] EXCEPT !.price = p]
                                                            ELSE s[v]
    BY SheetTyped DEF Repriced, Defaults, Ids, Sheet, Variant
  <1>2. \A v \in Defaults(s) : /\ n[v] \in Variant /\ n[v].price = p /\ n[v].isDefault
                               /\ n[v].isAvailable = s[v].isAvailable
    <2> SUFFICES ASSUME NEW v \in Defaults(s)
                 PROVE  /\ n[v] \in Variant /\ n[v].price = p /\ n[v].isDefault
                        /\ n[v].isAvailable = s[v].isAvailable
      OBVIOUS
    <2>1. v \in VariantIds /\ s[v] \in Variant /\ s[v].isDefault
      BY SheetTyped DEF Defaults, Ids
    <2>2. n[v] = [s[v] EXCEPT !.price = p]
      BY <1>1, <2>1
    <2> HIDE DEF n
    <2> QED
      BY <2>1, <2>2 DEF Variant
  <1> HIDE DEF n
  <1>3. Ids(n) = Ids(s)
    BY <1>1, <1>2, SheetTyped DEF Ids, Defaults
  <1>4. Available(n) = Available(s) /\ Defaults(n) = Defaults(s)
    BY <1>1, <1>2, <1>3 DEF Available, Defaults, Ids
  <1>5. Card!Ids(n) = Ids(n) /\ Card!Defaults(n) = Defaults(n)
    BY DEF Ids, Defaults, NoVariant, Card!Ids, Card!Defaults, Card!NoVariant
  <1>6. Ids(s) # {} => Card!Fits(p, n)
    BY <1>2, <1>3, <1>4, <1>5 DEF OneDefault, Card!Fits
  <1> QED
    BY <1>1, <1>3, <1>4, <1>6 DEF OneDefault, n

-----------------------------------------------------------------------------
(* What a request that is to write knows, as long as nobody else writes.   *)

FreshCreate(q) ==
    item = NoItem /\ q.sheet \in Sheet /\ q.item \in Card!Listed
        /\ Card!Fits(q.item.price, q.sheet)

Rewrites(q) ==
    /\ q.item \in Card!Listed
    /\ \/ /\ q.sheet \in Sheet
          /\ Card!Fits(q.item.price, q.sheet)
          /\ \/ Available(q.sheet) # {}
             \/ Ids(q.sheet) = Ids(variant) /\ Available(q.sheet) = Available(variant)
       \/ /\ q.sheet = Keep
          /\ Ids(variant) = {}

Revises(q) ==
    q.sheet = Keep /\ \E b \in BOOLEAN : q.item = [item EXCEPT !.available = b]

FreshVariant(q) ==
    /\ q.id \in Ids(variant)
    /\ q.turn = ~variant[q.id].isAvailable
    /\ item.status = "LIVE"
    /\ variant[q.id].isAvailable => Available(variant) # {q.id}
    /\ IF variant[q.id].isAvailable /\ variant[q.id].isDefault
       THEN q.other \in Available(variant) \ {q.id} ELSE q.other = NoId

PreparedOne(q) ==
    /\ q.sheet # Keep => OneDefault(q.sheet)
    /\ q.op = "create" /\ q.step = "save" => q.item # NoItem /\ q.sheet # Keep
    /\ q.op = "variant" /\ q.step = "save" => q.id \in VariantIds /\ q.id # q.other

FreshOne(q) ==
    /\ q.step # "save" => q.sheet = Keep
    /\ q.step = "save" /\ q.op = "update" => q.item.status = "LIVE"
    /\ q.step = "save" /\ ~q.stale =>
          /\ q.op = "create" => FreshCreate(q)
          /\ q.op = "update" => Rewrites(q) \/ Revises(q)
          /\ q.op = "variant" => FreshVariant(q)

FreshInv == \A r \in Requests : FreshOne(req[r])

\* Variants belong to an item.
BareInv == item = NoItem => Ids(variant) = {}

MenuItemLocal == MenuItemInv /\ FreshInv /\ BareInv

LEMMA IdleKept == Idle \in Request /\ PreparedOne(Idle) /\ FreshOne(Idle)
  BY DEF Idle, Request, PreparedOne, FreshOne, Item, NoItem

\* A step of one request that writes no row.
LEMMA Prepares ==
    ASSUME MenuItemLocal, NEW r \in Requests, NEW q \in Request,
           req' = [req EXCEPT ![r] = q], UNCHANGED rowVars, PreparedOne(q), FreshOne(q)
    PROVE  MenuItemLocal'
  <1>1. /\ req \in [Requests -> Request] /\ req' \in [Requests -> Request]
        /\ req'[r] = q /\ \A p \in Requests \ {r} : req'[p] = req[p]
    BY DEF MenuItemLocal, MenuItemInv, TypeOK
  <1>2. \A p \in Requests : PreparedOne(req'[p]) /\ FreshOne(req'[p])
    BY <1>1 DEF MenuItemLocal, MenuItemInv, PreparedInv, PreparedOne, FreshInv, FreshOne
  <1>3. item' = item /\ variant' = variant
    BY DEF rowVars
  <1>4. TypeOK' /\ DefaultInv' /\ BareInv'
    BY <1>1, <1>3 DEF MenuItemLocal, MenuItemInv, TypeOK, DefaultInv, BareInv
  <1>5. PreparedInv'
    BY <1>2 DEF PreparedInv, PreparedOne
  <1>6. FreshInv'
    BY <1>2, <1>3 DEF FreshInv, FreshOne, FreshCreate, Rewrites, Revises, FreshVariant
  <1> QED
    BY <1>4, <1>5, <1>6 DEF MenuItemLocal, MenuItemInv

\* A step of one request that writes: what the others hold is out of date.
LEMMA Writes ==
    ASSUME MenuItemLocal, NEW r \in Requests, Written(r),
           item' \in Item, variant' \in Sheet, OneDefault(variant'), BareInv'
    PROVE  MenuItemLocal'
  <1>1. \A p \in Requests : req[p] \in Request
    BY DEF MenuItemLocal, MenuItemInv, TypeOK
  <1>2. /\ req' \in [Requests -> Request]
        /\ \A p \in Requests :
              \/ req'[p] = Idle
              \/ /\ req'[p].step = req[p].step /\ req'[p].op = req[p].op
                 /\ req'[p].sheet = req[p].sheet /\ req'[p].item = req[p].item
                 /\ req'[p].id = req[p].id /\ req'[p].other = req[p].other
                 /\ req'[p].step = "save" => req'[p].stale
    BY <1>1, IdleKept DEF Written, Request
  <1>3. \A p \in Requests : PreparedOne(req[p])' /\ FreshOne(req[p])'
    <2> SUFFICES ASSUME NEW p \in Requests
                 PROVE  PreparedOne(req[p])' /\ FreshOne(req[p])'
      OBVIOUS
    <2>1. CASE req'[p] = Idle
      <3>1. PreparedOne(Idle) /\ Idle.step # "save" /\ Idle.sheet = Keep
        BY IdleKept DEF Idle
      <3> QED
        BY <2>1, <3>1 DEF PreparedOne, FreshOne
    <2>2. CASE req'[p] # Idle
      <3>1. PreparedOne(req[p]) /\ FreshOne(req[p])
        BY DEF MenuItemLocal, MenuItemInv, PreparedInv, PreparedOne, FreshInv
      <3> QED
        BY <1>2, <2>2, <3>1 DEF PreparedOne, FreshOne
    <2> QED
      BY <2>1, <2>2
  <1>4. TypeOK' /\ DefaultInv'
    BY <1>2 DEF TypeOK, DefaultInv, OneDefault
  <1>5. PreparedInv'
    BY <1>3 DEF PreparedInv, PreparedOne
  <1>6. FreshInv'
    BY <1>3 DEF FreshInv, FreshOne, FreshCreate, Rewrites, Revises, FreshVariant
  <1> QED
    BY <1>4, <1>5, <1>6 DEF MenuItemLocal, MenuItemInv

-----------------------------------------------------------------------------
(* Reading.                                                                *)

\* What all reading steps have in common.
LEMMA Proceeds ==
    ASSUME MenuItemLocal, NEW r \in Requests, NEW q \in Request, Proceed(r, q),
           PreparedOne(q), FreshOne(q)
    PROVE  MenuItemLocal'
  BY Prepares DEF Proceed

LEMMA Known ==
    ASSUME MenuItemLocal
    PROVE  /\ item \in Item /\ variant \in Sheet /\ OneDefault(variant) /\ BareInv
           /\ \A r \in Requests : req[r] \in Request
  BY DEF MenuItemLocal, MenuItemInv, TypeOK, DefaultInv

LEMMA FoundItem ==
    ASSUME item \in Item, item.status = "LIVE", NEW b \in BOOLEAN
    PROVE  /\ item \in Card!Listed /\ item.price \in Prices
           /\ [item EXCEPT !.available = b] \in Card!Listed
           /\ \A p \in Prices : Updated(b, p) \in Card!Listed /\ Updated(b, p).price = p
           /\ item \in [status : {"LIVE", "DELETED"}, available : BOOLEAN, price : Prices]
  <1>1. item \in [status : {"LIVE", "DELETED"}, available : BOOLEAN, price : Prices]
    BY DEF Item, NoItem
  <1>2. /\ item.price \in Prices
        /\ item = [status |-> "LIVE", available |-> item.available, price |-> item.price]
        /\ item.available \in BOOLEAN
    BY <1>1
  <1>3. item \in Card!Listed /\ [item EXCEPT !.available = b] \in Card!Listed
    BY <1>1, <1>2 DEF Card!Listed
  <1>4. \A p \in Prices : Updated(b, p) \in Card!Listed /\ Updated(b, p).price = p
    BY <1>1, <1>2 DEF Card!Listed, Updated
  <1> QED
    BY <1>1, <1>2, <1>3, <1>4

LEMMA ListedItem == Card!Listed \subseteq Item /\ NoItem \notin Card!Listed
  BY DEF Card!Listed, Item, NoItem

LEMMA ArrivalKeeps ==
    ASSUME MenuItemLocal, NEW r \in Requests,
           End(r) \/ \E o \in UseCases : Receive(r, o)
    PROVE  MenuItemLocal'
  <1>1. CASE End(r)
    BY <1>1, IdleKept, Prepares DEF End
  <1>2. ASSUME NEW o \in UseCases, Receive(r, o)
        PROVE  MenuItemLocal'
    <2> DEFINE q == [Idle EXCEPT !.op = o, !.step = "find"]
    <2>1. q \in Request /\ PreparedOne(q) /\ FreshOne(q)
      BY DEF Idle, Request, PreparedOne, FreshOne, Item, NoItem
    <2>2. req' = [req EXCEPT ![r] = q] /\ UNCHANGED rowVars
      BY <1>2 DEF Receive
    <2> HIDE DEF q
    <2> QED
      BY <2>1, <2>2, Prepares
  <1> QED
    BY <1>1, <1>2

LEMMA PrepareKeeps ==
    ASSUME MenuItemLocal, NEW r \in Requests, NEW b \in BOOLEAN, NEW p \in Prices,
           NEW s \in Sheet, Prepare(r, b, p, s)
    PROVE  MenuItemLocal'
  <1> DEFINE new == NewItem(b, ResolvedPrice(s, p))
             q == [req[r] EXCEPT !.step = "save", !.sheet = s, !.item = new]
  <1>1. /\ req[r].op = "create" /\ item = NoItem /\ OneDefault(s) /\ Proceed(r, q)
    BY DEF Prepare, Finds
  <1>2. ResolvedPrice(s, p) \in Prices /\ Card!Fits(ResolvedPrice(s, p), s)
    BY <1>1, PriceResolved
  <1>3. /\ new \in Card!Listed /\ new \in Item /\ new # NoItem
        /\ Card!Fits(new.price, s)
    BY <1>2, ListedItem DEF NewItem, Card!Listed
  <1> HIDE DEF new
  <1>4. /\ q \in Request /\ q.op = "create" /\ q.sheet = s /\ q.item = new
        /\ q.step = "save"
    BY <1>1, <1>3, Known DEF Request
  <1> HIDE DEF q
  <1>5. PreparedOne(q) /\ FreshOne(q)
    BY <1>1, <1>3, <1>4, SheetTyped DEF PreparedOne, FreshOne, FreshCreate
  <1> QED
    BY <1>1, <1>4, <1>5, Proceeds

LEMMA ReviseVariantsKeeps ==
    ASSUME MenuItemLocal, NEW r \in Requests, NEW b \in BOOLEAN, NEW s \in Sheet,
           ReviseVariants(r, b, s)
    PROVE  MenuItemLocal'
  <1> DEFINE new == Updated(b, ResolvedPrice(s, item.price))
             q == [req[r] EXCEPT !.step = "save", !.sheet = s, !.item = new]
  <1>1. /\ req[r].op = "update" /\ item.status = "LIVE" /\ OneDefault(s)
        /\ Available(s) # {} /\ Proceed(r, q)
    BY DEF ReviseVariants, Finds, Found, Accepts
  <1>2. item.price \in Prices
    BY <1>1, Known, FoundItem
  <1>3. ResolvedPrice(s, item.price) \in Prices /\ Card!Fits(ResolvedPrice(s, item.price), s)
    BY <1>1, <1>2, PriceResolved
  <1>4. new \in Card!Listed /\ new \in Item /\ Card!Fits(new.price, s)
    BY <1>1, <1>3, Known, FoundItem, ListedItem
  <1> HIDE DEF new
  <1>5. /\ q \in Request /\ q.op = "update" /\ q.sheet = s /\ q.item = new
        /\ q.step = "save"
    BY <1>1, <1>4, Known DEF Request
  <1> HIDE DEF q
  <1>6. PreparedOne(q) /\ FreshOne(q)
    BY <1>1, <1>4, <1>5 DEF PreparedOne, FreshOne, Rewrites, Card!Listed
  <1> QED
    BY <1>1, <1>5, <1>6, Proceeds

LEMMA RepriceKeeps ==
    ASSUME MenuItemLocal, NEW r \in Requests, NEW b \in BOOLEAN, NEW p \in Prices,
           Reprice(r, b, p)
    PROVE  MenuItemLocal'
  <1> DEFINE new == Updated(b, p)
             s == IF Ids(variant) = {} THEN Keep ELSE Repriced(variant, p)
             q == [req[r] EXCEPT !.step = "save", !.item = new, !.sheet = s]
  <1>1. req[r].op = "update" /\ item.status = "LIVE" /\ Proceed(r, q)
    BY DEF Reprice, Finds, Found
  <1>2. new \in Card!Listed /\ new \in Item /\ new.price = p
    BY <1>1, Known, FoundItem, ListedItem
  <1>3. \/ s = Keep /\ Ids(variant) = {}
        \/ /\ s \in Sheet /\ OneDefault(s) /\ Card!Fits(p, s)
           /\ Ids(s) = Ids(variant) /\ Available(s) = Available(variant)
    BY Known, RepricedSheet
  <1> HIDE DEF new, s
  <1>4. /\ q \in Request /\ q.op = "update" /\ q.sheet = s /\ q.item = new
        /\ q.step = "save"
    BY <1>1, <1>2, <1>3, Known DEF Request
  <1> HIDE DEF q
  <1>5. PreparedOne(q) /\ FreshOne(q)
    BY <1>2, <1>3, <1>4 DEF PreparedOne, FreshOne, Rewrites, Card!Listed
  <1> QED
    BY <1>1, <1>4, <1>5, Proceeds

LEMMA ReviseKeeps ==
    ASSUME MenuItemLocal, NEW r \in Requests, NEW b \in BOOLEAN,
           Revise(r, b) \/ FindForStatus(r, b)
    PROVE  MenuItemLocal'
  <1> DEFINE new == [item EXCEPT !.available = b]
             q == [req[r] EXCEPT !.step = "save", !.item = new]
  <1>1. /\ item.status = "LIVE" /\ req[r].op \in {"update", "status"} /\ Proceed(r, q)
        /\ req[r].op = "update" => Revise(r, b)
    <2>1. CASE Revise(r, b)
      <3>1. Updated(b, item.price) = new
        BY <2>1, Known DEF Updated, Item, NoItem, Revise, Found
      <3> QED
        BY <2>1, <3>1 DEF Revise, Finds, Found
    <2>2. CASE FindForStatus(r, b)
      BY <2>2 DEF FindForStatus, Finds, Found
    <2> QED
      BY <2>1, <2>2
  <1>2. new \in Item /\ new.status = "LIVE"
    BY <1>1, Known, FoundItem, ListedItem DEF Card!Listed
  <1>3. /\ q \in Request /\ q.op = req[r].op /\ q.sheet = Keep /\ q.item = new
    <2>1. req[r].sheet = Keep
      BY DEF MenuItemLocal, FreshInv, FreshOne, Revise, FindForStatus, Finds
    <2> QED
      BY <1>2, <2>1, Known DEF Request
  <1> HIDE DEF q
  <1>4. PreparedOne(q)
    BY <1>1, <1>3 DEF PreparedOne
  <1>5. FreshOne(q)
    BY <1>1, <1>2, <1>3 DEF FreshOne, Revises
  <1> QED
    BY <1>1, <1>3, <1>4, <1>5, Proceeds

LEMMA FindForDeletionKeeps ==
    ASSUME MenuItemLocal, NEW r \in Requests, FindForDeletion(r)
    PROVE  MenuItemLocal'
  <1> DEFINE new == [item EXCEPT !.status = "DELETED", !.available = FALSE]
             q == [req[r] EXCEPT !.step = "save", !.item = new]
  <1>1. /\ item.status = "LIVE" /\ req[r].op = "delete" /\ Proceed(r, q) /\ req[r].sheet = Keep
    BY DEF FindForDeletion, Finds, Found, MenuItemLocal, FreshInv, FreshOne
  <1>2. new \in Item
    BY <1>1, Known, FoundItem DEF Item
  <1>3. q \in Request /\ q.op = "delete" /\ q.sheet = Keep /\ q.step = "save"
    BY <1>1, <1>2, Known DEF Request
  <1> HIDE DEF q
  <1>4. PreparedOne(q) /\ FreshOne(q)
    BY <1>3 DEF PreparedOne, FreshOne
  <1> QED
    BY <1>1, <1>3, <1>4, Proceeds

LEMMA FindVariantKeeps ==
    ASSUME MenuItemLocal, NEW r \in Requests, NEW v \in VariantIds,
           NEW w \in VariantIds \cup {NoId}, FindVariant(r, v, w)
    PROVE  MenuItemLocal'
  <1> DEFINE turn == ~variant[v].isAvailable
             q == [req[r] EXCEPT !.step = "save", !.id = v, !.other = w, !.turn = turn]
  <1>1. /\ item.status = "LIVE" /\ req[r].op = "variant" /\ Proceed(r, q)
        /\ req[r].sheet = Keep /\ Switchable(v) /\ w \in NextDefaults(v)
    BY DEF FindVariant, Finds, Found, MenuItemLocal, FreshInv, FreshOne
  <1>2. v \in Ids(variant) /\ (variant[v].isAvailable => Available(variant) # {v})
    BY <1>1 DEF Switchable
  <1>3. IF variant[v].isAvailable /\ variant[v].isDefault
        THEN w \in Available(variant) \ {v} ELSE w = NoId
    BY <1>1 DEF NextDefaults
  <1>4. turn \in BOOLEAN
    OBVIOUS
  <1>5. /\ q \in Request /\ q.op = "variant" /\ q.sheet = Keep /\ q.step = "save"
        /\ q.id = v /\ q.other = w /\ q.turn = turn
    BY <1>1, <1>4, Known DEF Request
  <1> HIDE DEF q
  <1>6. v # w
    BY <1>3, MenuItemAssumption
  <1>7. PreparedOne(q) /\ FreshOne(q)
    BY <1>1, <1>2, <1>3, <1>5, <1>6 DEF PreparedOne, FreshOne, FreshVariant
  <1> QED
    BY <1>1, <1>5, <1>7, Proceeds

-----------------------------------------------------------------------------
(* Writing.  Each of these says what is written, and that it is a step of  *)
(* the card if the request is not stale.                                   *)

WritesWell(r) ==
    /\ item' \in Item /\ variant' \in Sheet /\ OneDefault(variant') /\ BareInv'
    /\ Written(r)
    /\ ~req[r].stale => Card!CardNext

LEMMA SaveNewWell ==
    ASSUME MenuItemLocal, NEW r \in Requests, SaveNew(r)
    PROVE  WritesWell(r)
  <1> DEFINE q == req[r]
  <1>1. q \in Request /\ PreparedOne(q) /\ FreshOne(q)
    BY DEF MenuItemLocal, MenuItemInv, TypeOK, PreparedInv, PreparedOne, FreshInv
  <1>2. /\ q.op = "create" /\ q.step = "save" /\ item' = q.item /\ variant' = q.sheet
        /\ Written(r)
    BY DEF SaveNew, Saves
  <1> HIDE DEF q
  <1>3. q.item \in Item /\ q.sheet \in Sheet /\ OneDefault(q.sheet)
    BY <1>1, <1>2 DEF Request, PreparedOne
  <1>4. ~q.stale => Card!CardNext
    <2>1. Sheet = Card!Sheet /\ NoItem = Card!NoItem
      BY DEF Sheet, Card!Sheet, Variant, Card!Variant, NoVariant, Card!NoVariant,
         NoItem, Card!NoItem
    <2> QED
      BY <1>1, <1>2, <2>1 DEF FreshOne, FreshCreate, Card!CardNext, Card!List, Card!IsListed
  <1> QED
    BY <1>1, <1>2, <1>3, <1>4 DEF WritesWell, q, BareInv, PreparedOne

LEMMA SaveUpdateWell ==
    ASSUME MenuItemLocal, NEW r \in Requests, SaveUpdate(r)
    PROVE  WritesWell(r)
  <1> DEFINE q == req[r]
  <1>1. q \in Request /\ PreparedOne(q) /\ FreshOne(q)
    BY DEF MenuItemLocal, MenuItemInv, TypeOK, PreparedInv, PreparedOne, FreshInv
  <1>2. /\ q.op = "update" /\ q.step = "save" /\ item.status = "LIVE" /\ item' = q.item
        /\ variant' = IF q.sheet = Keep THEN variant ELSE q.sheet
        /\ Written(r)
    BY DEF SaveUpdate, Saves
  <1> HIDE DEF q
  <1>3. item' \in Item /\ variant' \in Sheet /\ OneDefault(variant') /\ BareInv'
    BY <1>1, <1>2, Known DEF Request, PreparedOne, FreshOne, BareInv, NoItem
  <1>4. ASSUME ~q.stale
        PROVE  Card!CardNext
    <2>1. /\ Card!Ids(variant) = Ids(variant) /\ Card!Available(variant) = Available(variant)
          /\ Card!Ids(variant') = Ids(variant') /\ Card!Available(variant') = Available(variant')
          /\ Card!Sheet = Sheet
      BY DEF Ids, Available, NoVariant, Variant, Sheet, Card!Ids, Card!Available,
             Card!NoVariant, Card!Variant, Card!Sheet
    <2>2. CASE Revises(q)
      <3>1. variant' = variant /\ \E b \in BOOLEAN : item' = [item EXCEPT !.available = b]
        BY <1>2, <2>2 DEF Revises
      <3> QED
        BY <1>2, <3>1 DEF Card!CardNext, Card!Revise
    <2>3. CASE Rewrites(q) /\ q.sheet \in Sheet
      <3>1. variant' = q.sheet
        BY <1>2, <2>3, SheetTyped
      <3>2. /\ item' \in Card!Listed /\ Card!Fits(item'.price, variant')
            /\ \/ Available(variant') # {}
               \/ Ids(variant') = Ids(variant) /\ Available(variant') = Available(variant)
        BY <1>2, <2>3, <3>1, SheetTyped DEF Rewrites
      <3> QED
        BY <1>2, <1>3, <2>1, <3>2 DEF Card!CardNext, Card!Reprice, Card!IsListed
    <2>4. CASE Rewrites(q) /\ q.sheet = Keep /\ Ids(variant) = {}
      <3>1. variant' = variant /\ item' \in Card!Listed
        BY <1>2, <2>4 DEF Rewrites
      <3>2. Card!Fits(item'.price, variant')
        BY <2>1, <2>4, <3>1 DEF Card!Fits, Card!Listed
      <3> QED
        BY <1>2, <1>3, <2>1, <3>1, <3>2 DEF Card!CardNext, Card!Reprice, Card!IsListed
    <2> QED
      BY <1>1, <1>2, <1>4, <2>2, <2>3, <2>4 DEF FreshOne, Rewrites
  <1> QED
    BY <1>2, <1>3, <1>4 DEF WritesWell, q

LEMMA SaveStatusWell ==
    ASSUME MenuItemLocal, NEW r \in Requests, SaveStatus(r)
    PROVE  WritesWell(r)
  <1> DEFINE b == req[r].item.available
             new == [v \in VariantIds |->
                       IF v \in Ids(variant) THEN [variant[v] EXCEPT !.isAvailable = b]
                                             ELSE NoVariant]
  <1>1. /\ item.status = "LIVE" /\ item' = [item EXCEPT !.available = b]
        /\ variant' = new /\ Written(r)
    BY DEF SaveStatus
  <1>2. b \in BOOLEAN
    <2>1. req[r].item \in Item
      BY Known DEF Request
    <2>2. CASE req[r].item = NoItem
      BY <2>2 DEF NoItem
    <2>3. CASE req[r].item # NoItem
      BY <2>1, <2>3 DEF Item
    <2> QED
      BY <2>2, <2>3
  <1>3. item' \in Item /\ BareInv'
    BY <1>1, <1>2, Known, FoundItem, ListedItem DEF BareInv
  <1>4. /\ variant \in Sheet /\ OneDefault(variant)
        /\ \A v \in Ids(variant) : v \in VariantIds /\ variant[v] \in Variant
    BY Known, SheetTyped DEF Ids
  <1>5. /\ new \in Sheet
        /\ \A v \in Ids(variant) : new[v] \in Variant /\ new[v].isDefault = variant[v].isDefault
        /\ \A v \in VariantIds \ Ids(variant) : new[v] = NoVariant
    BY <1>2, <1>4 DEF Sheet, Variant, Ids
  <1>6. OneDefault(new)
    <2> HIDE DEF new
    <2>1. Ids(new) = Ids(variant)
      BY <1>4, <1>5, SheetTyped DEF Ids
    <2>2. Defaults(new) = Defaults(variant)
      BY <1>5, <2>1 DEF Defaults
    <2> QED
      BY <1>4, <2>1, <2>2 DEF OneDefault
  <1>7. Card!CardNext
    <2>1. Card!Ids(variant) = Ids(variant) /\ Card!NoVariant = NoVariant
      BY DEF Ids, NoVariant, Card!Ids, Card!NoVariant
    <2>2. Card!SetAvailability(b)
      BY <1>1, <2>1 DEF Card!SetAvailability
    <2> QED
      BY <1>2, <2>2 DEF Card!CardNext
  <1> QED
    BY <1>1, <1>3, <1>5, <1>6, <1>7 DEF WritesWell

LEMMA SaveDeletionWell ==
    ASSUME MenuItemLocal, NEW r \in Requests, SaveDeletion(r)
    PROVE  WritesWell(r)
  <1>1. /\ item.status = "LIVE" /\ item' = [item EXCEPT !.status = "DELETED"]
        /\ variant' = variant /\ Written(r)
    BY DEF SaveDeletion
  <1>2. item' \in Item /\ BareInv'
    BY <1>1, Known DEF Item, NoItem, BareInv
  <1> QED
    BY <1>1, <1>2, Known DEF WritesWell, Card!CardNext, Card!Withdraw

LEMMA SaveVariantWell ==
    ASSUME MenuItemLocal, NEW r \in Requests, SaveVariant(r)
    PROVE  WritesWell(r)
  <1> DEFINE q == req[r]
             v == q.id
             w == q.other
  <1>1. q \in Request /\ PreparedOne(q) /\ FreshOne(q)
    BY DEF MenuItemLocal, MenuItemInv, TypeOK, PreparedInv, PreparedOne, FreshInv
  <1>2. q.op = "variant" /\ q.step = "save" /\ v \in Ids(variant) /\ Written(r)
    BY DEF SaveVariant, Saves
  <1>3. /\ item \in Item /\ variant \in Sheet /\ OneDefault(variant)
        /\ v \in VariantIds /\ variant[v] \in Variant /\ v # w /\ q.turn \in BOOLEAN
    BY <1>1, <1>2, Known, SheetTyped DEF PreparedOne, Request
  <1>4. /\ Card!Ids(variant) = Ids(variant) /\ Card!Available(variant) = Available(variant)
    BY DEF Ids, Available, NoVariant, Card!Ids, Card!Available, Card!NoVariant
  <1>5. CASE w = NoId
    <2>1. variant' = [variant EXCEPT ![v].isAvailable = q.turn] /\ item' = item
      BY <1>5 DEF SaveVariant
    <2> HIDE DEF q, v, w
    <2>2. /\ variant' \in Sheet
          /\ variant'[v] \in Variant /\ variant'[v].isDefault = variant[v].isDefault
          /\ \A u \in VariantIds \ {v} : variant'[u] = variant[u]
      BY <1>3, <2>1 DEF Sheet, Variant
    <2>3. Ids(variant') = Ids(variant) /\ Defaults(variant') = Defaults(variant)
      BY <1>3, <2>2, SheetTyped DEF Ids, Defaults
    <2>4. OneDefault(variant') /\ BareInv'
      BY <1>3, <2>1, <2>3, Known DEF OneDefault, BareInv
    <2>5. ASSUME ~q.stale
          PROVE  Card!CardNext
      <3>1. /\ q.turn = ~variant[v].isAvailable /\ item.status = "LIVE"
            /\ variant[v].isAvailable => Available(variant) # {v}
            /\ ~(variant[v].isAvailable /\ variant[v].isDefault)
        BY <1>1, <1>2, <1>5, <2>5, MenuItemAssumption
           DEF FreshOne, FreshVariant, Available, Ids, v, w
      <3>2. CASE variant[v].isAvailable
        <4>1. v \in Available(variant) /\ \E u \in Available(variant) : u # v
          BY <1>2, <3>1, <3>2 DEF Available
        <4>2. PICK u \in Available(variant) : u # v
          BY <4>1
        <4>3. variant' = [variant EXCEPT ![v].isAvailable = FALSE] /\ ~variant[v].isDefault
          BY <2>1, <3>1, <3>2
        <4>4. Card!SwitchOff(v, u)
          BY <1>4, <2>1, <3>1, <4>1, <4>2, <4>3 DEF Card!SwitchOff
        <4> QED
          BY <1>3, <4>2, <4>4 DEF Card!CardNext, Available, Ids
      <3>3. CASE ~variant[v].isAvailable
        <4>1. v \in Ids(variant) \ Available(variant)
          BY <1>2, <3>3 DEF Available
        <4>2. variant' = [variant EXCEPT ![v].isAvailable = TRUE]
          BY <2>1, <3>1, <3>3
        <4>3. Card!SwitchOn(v)
          BY <1>4, <2>1, <3>1, <4>1, <4>2 DEF Card!SwitchOn
        <4> QED
          BY <1>3, <4>3 DEF Card!CardNext
      <3> QED
        BY <3>2, <3>3
    <2> QED
      BY <1>2, <1>3, <2>1, <2>2, <2>4, <2>5 DEF WritesWell, q
  <1>6. CASE w # NoId
    <2>1. /\ w \in Ids(variant) /\ Defaults(variant) \subseteq {v, w}
          /\ variant' = [variant EXCEPT ![v].isAvailable = q.turn, ![v].isDefault = FALSE,
                                        ![w].isDefault = TRUE]
          /\ item' = [item EXCEPT !.price = variant[w].price]
      BY <1>6 DEF SaveVariant, Switch
    <2> HIDE DEF q, v, w
    <2>2. w \in VariantIds /\ variant[w] \in Variant
      BY <1>3, <2>1, SheetTyped DEF Ids
    <2>3. /\ variant' \in Sheet
          /\ variant'[v] \in Variant /\ ~variant'[v].isDefault
          /\ variant'[w] \in Variant /\ variant'[w].isDefault
          /\ \A u \in VariantIds \ {v, w} : variant'[u] = variant[u]
      BY <1>3, <2>1, <2>2 DEF Sheet, Variant
    <2>4. Defaults(variant') = {w} /\ w \in Ids(variant')
      <3>1. w \in Ids(variant') /\ w \in Defaults(variant')
        BY <2>2, <2>3, SheetTyped DEF Defaults
      <3>2. v \notin Defaults(variant')
        BY <2>3 DEF Defaults
      <3>3. ASSUME NEW u \in VariantIds \ {v, w}
            PROVE  u \notin Defaults(variant')
        <4>1. u \notin Defaults(variant)
          BY <2>1
        <4> QED
          BY <2>3, <4>1 DEF Defaults, Ids
      <3> QED
        BY <3>1, <3>2, <3>3 DEF Defaults, Ids
    <2>5. OneDefault(variant')
      BY <2>4 DEF OneDefault
    <2>6. item' \in Item /\ BareInv'
      <3>1. item # NoItem
        BY <2>1, Known DEF BareInv
      <3> QED
        BY <1>3, <2>1, <2>2, <3>1 DEF Item, NoItem, Variant, BareInv
    <2>7. ASSUME ~q.stale
          PROVE  Card!CardNext
      <3>1. /\ q.turn = ~variant[v].isAvailable /\ item.status = "LIVE"
            /\ variant[v].isAvailable /\ variant[v].isDefault
            /\ w \in Available(variant) \ {v}
        BY <1>1, <1>2, <1>6, <2>7 DEF FreshOne, FreshVariant, v, w
      <3>2. /\ v \in Available(variant)
            /\ variant' = [variant EXCEPT ![v].isAvailable = FALSE, ![v].isDefault = FALSE,
                                          ![w].isDefault = TRUE]
        BY <1>2, <2>1, <3>1 DEF Available
      <3>3. Card!SwitchOff(v, w)
        BY <1>3, <1>4, <2>1, <3>1, <3>2 DEF Card!SwitchOff
      <3> QED
        BY <1>3, <2>2, <3>3 DEF Card!CardNext
    <2> QED
      BY <1>2, <2>3, <2>5, <2>6, <2>7 DEF WritesWell, q
  <1> QED
    BY <1>5, <1>6

-----------------------------------------------------------------------------

LEMMA WriteWell ==
    ASSUME MenuItemLocal, NEW r \in Requests, Write(r)
    PROVE  WritesWell(r)
  BY SaveNewWell, SaveUpdateWell, SaveStatusWell, SaveDeletionWell, SaveVariantWell DEF Write

LEMMA ReadKeeps ==
    ASSUME MenuItemLocal, NEW r \in Requests, Read(r)
    PROVE  MenuItemLocal'
  BY PrepareKeeps, ReviseVariantsKeeps, RepriceKeeps, ReviseKeeps, FindForDeletionKeeps,
     FindVariantKeeps DEF Read

LEMMA MenuItemStarts == Init => MenuItemLocal
  <1> SUFFICES ASSUME Init
               PROVE  MenuItemLocal
    OBVIOUS
  <1>1. item \in Item /\ variant \in Sheet /\ OneDefault(variant) /\ Ids(variant) = {}
    BY NoVariantsOneDefault DEF Init, Item
  <1>2. req \in [Requests -> Request] /\ \A r \in Requests : req[r] = Idle
    BY IdleKept DEF Init
  <1> QED
    BY <1>1, <1>2, IdleKept DEF MenuItemLocal, MenuItemInv, TypeOK, DefaultInv, PreparedInv,
                                PreparedOne, FreshInv, BareInv

LEMMA MenuItemSteps == MenuItemLocal /\ [Next]_vars => MenuItemLocal'
  <1> SUFFICES ASSUME MenuItemLocal, [Next]_vars
               PROVE  MenuItemLocal'
    OBVIOUS
  <1>1. CASE UNCHANGED vars
    BY <1>1 DEF vars, MenuItemLocal, MenuItemInv, TypeOK, DefaultInv, PreparedInv, FreshInv,
                FreshOne, FreshCreate, Rewrites, Revises, FreshVariant, BareInv
  <1>2. ASSUME NEW r \in Requests, Write(r)
        PROVE  MenuItemLocal'
    BY <1>2, WriteWell, Writes DEF WritesWell
  <1> QED
    BY <1>1, <1>2, ReadKeeps, ArrivalKeeps DEF Next

\* Whatever the requests, an item with variants has one default.
THEOREM MenuItemInvariant == Spec => []MenuItemInv
  <1>1. MenuItemLocal => MenuItemInv
    BY DEF MenuItemLocal
  <1> QED
    BY <1>1, MenuItemStarts, MenuItemSteps, PTL DEF Spec

\* Whatever is not the write of an outdated reading is a step of the card: the
\* item costs what its default costs, and the last variant stays available.
THEOREM OnlyStaleWritesLeaveTheCard == Spec => CardUnlessStale
  <1> DEFINE Kept == Card!CardNext \/ \E r \in Requests : req[r].stale /\ Write(r)
  <1>1. MenuItemLocal /\ [Next]_vars => [Kept]_rowVars
    <2> SUFFICES ASSUME MenuItemLocal, Next
                 PROVE  Kept \/ UNCHANGED rowVars
      BY DEF vars, rowVars
    <2>1. ASSUME NEW r \in Requests, Read(r) \/ End(r) \/ \E o \in UseCases : Receive(r, o)
          PROVE  UNCHANGED rowVars
      BY <2>1 DEF Read, FindForStatus, Revise, Reprice, Prepare, ReviseVariants,
                  FindForDeletion, FindVariant, Proceed, End, Receive
    <2>2. ASSUME NEW r \in Requests, Write(r)
          PROVE  Kept
      BY <2>2, WriteWell DEF WritesWell
    <2> QED
      BY <2>1, <2>2 DEF Next
  <1> QED
    BY <1>1, MenuItemStarts, MenuItemSteps, PTL DEF Spec, CardUnlessStale
===============================================================================
