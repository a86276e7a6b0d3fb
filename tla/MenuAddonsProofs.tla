--------------------------- MODULE MenuAddonsProofs ---------------------------
(***************************************************************************)
(* The add-ons of a restaurant, for any number of them, of names and of    *)
(* concurrent requests: the keys of the database hold, and what is not     *)
(* written from outdated readings is an operation of the shelf.            *)
(***************************************************************************)
EXTENDS MenuAddons, TLAPS

Saves(q) == q.step = "save"

\* What a request knows of the rows as long as nobody has written them.
Knows(q) ==
    /\ q.op = "add" /\ Saves(q) =>
          q.row.status = "LIVE" /\ addon[q.id] = NoAddon /\ NameIsFree(q.row.name, q.id)
    /\ q.op = "update" /\ q.step \in {"name", "save"} =>
          /\ q.id \in Live /\ q.row.status = "LIVE"
          /\ Saves(q) => \/ NameIsFree(q.row.name, q.id)
                         \/ SameName(q.row.name, addon[q.id].name)
    /\ q.op = "delete" /\ Saves(q) =>
          q.id \in Live /\ q.row.status = "DELETED"

\* What it holds, whatever others do.
RequestInv(q) ==
    /\ q.op = "none" => q.step = "idle"
    /\ q.step = "name" => q.op = "update"
    /\ q.step \in {"name", "save"} /\ q.op # "item" => q.id \in AddonIds /\ q.row # NoAddon
    /\ ~q.stale => Knows(q)

Inv == AddonsInv /\ \A r \in Requests : RequestInv(req[r])

-----------------------------------------------------------------------------
(* Rows and requests.                                                      *)

LEMMA AddonFacts ==
    ASSUME NEW row \in Addon
    PROVE  /\ row.status \in {"NONE", "LIVE", "DELETED"}
           /\ row.status = "NONE" <=> row = NoAddon
           /\ row.status # "NONE" => row.name \in Names
           /\ row = NoAddon => row.name = NoName
BY DEF Addon, NoAddon

LEMMA IdleFacts == Idle \in Request /\ RequestInv(Idle) /\ Idle.links = {}
BY DEF Idle, Request, RequestInv, Knows, Saves, Addon

\* One request moves, and no row is written.
LEMMA MoveInv ==
    ASSUME Inv, NEW r \in Requests, NEW q \in Request, RequestInv(q),
           req' = [req EXCEPT ![r] = q], UNCHANGED addon, link' \subseteq AddonIds,
           \A a \in link' \cup q.links : addon[a] # NoAddon
    PROVE  Inv'
<1>1. TypeOK'
  BY DEF Inv, AddonsInv, TypeOK
<1>2. KeysHold'
  BY DEF Inv, AddonsInv, KeysHold, Live, TypeOK
<1>3. ASSUME NEW p \in Requests
      PROVE  RequestInv(req[p])'
  <2>1. RequestInv(req'[p])
    BY DEF Inv, AddonsInv, TypeOK
  <2>. QED
    BY <2>1 DEF RequestInv, Knows, NameIsFree, Live
<1>. QED
  BY <1>1, <1>2, <1>3 DEF Inv, AddonsInv

\* A request that goes on holding the links that it held.
LEMMA ProceedInv ==
    ASSUME Inv, NEW r \in Requests, NEW q \in Request, RequestInv(q),
           Proceed(r, q), q.links = req[r].links
    PROVE  Inv'
<1>1. req' = [req EXCEPT ![r] = q] /\ addon' = addon /\ link' = link
  BY DEF Proceed, rowVars
<1>2. link' \subseteq AddonIds /\ \A a \in link' \cup q.links : addon[a] # NoAddon
  BY <1>1 DEF Inv, AddonsInv, TypeOK, KeysHold
<1>. QED
  BY <1>1, <1>2, MoveInv

-----------------------------------------------------------------------------
(* The steps that write no row.                                            *)

LEMMA ReceiveInv ==
    ASSUME Inv, NEW r \in Requests, NEW o \in UseCases, Receive(r, o)
    PROVE  Inv'
<1>. DEFINE q == [Idle EXCEPT !.op = o, !.step = "find"]
<1>1. q \in Request /\ q.op = o /\ q.step = "find" /\ q.links = {} /\ req[r].links = {}
  BY IdleFacts DEF Receive, Idle, Request, UseCases
<1>2. RequestInv(q)
  <2>. HIDE DEF q
  <2>. QED
    BY <1>1 DEF RequestInv, Knows, Saves, UseCases
<1>. QED
  BY <1>1, <1>2, ProceedInv DEF Receive, Proceed

LEMMA EndInv ==
    ASSUME Inv, NEW r \in Requests, End(r)
    PROVE  Inv'
<1>1. req' = [req EXCEPT ![r] = Idle] /\ addon' = addon /\ link' = link
  BY DEF End, rowVars
<1>2. link' \subseteq AddonIds /\ \A a \in link' \cup Idle.links : addon[a] # NoAddon
  BY <1>1, IdleFacts DEF Inv, AddonsInv, TypeOK, KeysHold
<1>. QED
  BY <1>1, <1>2, IdleFacts, MoveInv

LEMMA SaveLinksInv ==
    ASSUME Inv, NEW r \in Requests, SaveLinks(r)
    PROVE  Inv'
<1>1. req[r].links \subseteq AddonIds
  BY DEF Inv, AddonsInv, TypeOK, Request
<1>2. req' = [req EXCEPT ![r] = Idle] /\ addon' = addon /\ link' = req[r].links
  BY DEF SaveLinks
<1>3. \A a \in link' \cup Idle.links : addon[a] # NoAddon
  BY <1>2, IdleFacts DEF Inv, AddonsInv, KeysHold
<1>. QED
  BY <1>1, <1>2, <1>3, IdleFacts, MoveInv

LEMMA FindAddonsInv ==
    ASSUME Inv, NEW r \in Requests, NEW A \in SUBSET AddonIds, FindAddons(r, A)
    PROVE  Inv'
<1>. DEFINE q == [req[r] EXCEPT !.step = "save", !.links = A]
<1>1. req[r] \in Request /\ RequestInv(req[r]) /\ req[r].op = "item"
  BY DEF FindAddons, Finds, Inv, AddonsInv, TypeOK
<1>2. /\ q \in Request
      /\ q.op = "item" /\ q.step = "save" /\ q.links = A
  BY <1>1 DEF Request
<1>3. RequestInv(q)
  <2>. HIDE DEF q
  <2>. QED
    BY <1>2 DEF RequestInv, Knows
<1>4. \A a \in link \cup A : addon[a] # NoAddon
  BY DEF FindAddons, Live, NoAddon, Inv, AddonsInv, KeysHold
<1>. QED
  BY <1>2, <1>3, <1>4, MoveInv DEF FindAddons, Proceed, rowVars, Inv, AddonsInv, TypeOK

\* The first readings of the use cases of add-ons.
LEMMA FindInv ==
    ASSUME Inv, NEW r \in Requests, NEW a \in AddonIds,
           \/ \E n \in Names : FindForNew(r, a, n) \/ FindForUpdate(r, a, n)
           \/ FindForDeletion(r, a)
    PROVE  Inv'
<1>1. req[r] \in Request /\ RequestInv(req[r]) /\ addon[a] \in Addon
  BY DEF Inv, AddonsInv, TypeOK
<1>2. ASSUME NEW n \in Names, FindForNew(r, a, n)
      PROVE  Inv'
  <2>. DEFINE q == [req[r] EXCEPT !.step = "save", !.id = a, !.row = NewAddon(n)]
  <2>1. NewAddon(n) \in Addon /\ NewAddon(n) # NoAddon /\ NewAddon(n).status = "LIVE"
        /\ NewAddon(n).name = n
    BY DEF NewAddon, Addon, NoAddon
  <2>2. /\ q \in Request /\ q.op = "add" /\ q.step = "save" /\ q.id = a
        /\ q.row = NewAddon(n) /\ q.links = req[r].links /\ q.stale = req[r].stale
    BY <1>1, <1>2, <2>1 DEF Request, FindForNew, Finds
  <2>3. RequestInv(q)
    <3>. HIDE DEF q
    <3>. QED
      BY <1>2, <2>1, <2>2 DEF RequestInv, Knows, Saves, FindForNew
  <2>. QED
    BY <1>2, <2>2, <2>3, ProceedInv DEF FindForNew
<1>3. ASSUME NEW n \in Names, FindForUpdate(r, a, n)
      PROVE  Inv'
  <2>. DEFINE s == IF SameName(n, addon[a].name) THEN "save" ELSE "name"
              row == [addon[a] EXCEPT !.name = n]
              q == [req[r] EXCEPT !.id = a, !.row = row, !.step = s]
  <2>1. row \in Addon /\ row # NoAddon /\ row.status = "LIVE" /\ row.name = n
    BY <1>1, <1>3 DEF FindForUpdate, Live, Addon, NoAddon
  <2>. HIDE DEF row
  <2>2. /\ q \in Request /\ q.op = "update" /\ q.step = s /\ q.id = a
        /\ q.row = row /\ q.links = req[r].links /\ q.stale = req[r].stale
    BY <1>1, <1>3, <2>1 DEF Request, FindForUpdate, Finds
  <2>3. RequestInv(q)
    <3>. HIDE DEF q
    <3>. QED
      BY <1>3, <2>1, <2>2 DEF RequestInv, Knows, Saves, FindForUpdate
  <2>. QED
    BY <1>3, <2>2, <2>3, ProceedInv DEF FindForUpdate, row
<1>4. CASE FindForDeletion(r, a)
  <2>. DEFINE row == [addon[a] EXCEPT !.status = "DELETED"]
              q == [req[r] EXCEPT !.step = "save", !.id = a, !.row = row]
  <2>1. row \in Addon /\ row # NoAddon /\ row.status = "DELETED"
    BY <1>1, <1>4 DEF FindForDeletion, Live, Addon, NoAddon
  <2>. HIDE DEF row
  <2>2. /\ q \in Request /\ q.op = "delete" /\ q.step = "save" /\ q.id = a
        /\ q.row = row /\ q.links = req[r].links /\ q.stale = req[r].stale
    BY <1>1, <1>4, <2>1 DEF Request, FindForDeletion, Finds
  <2>3. RequestInv(q)
    <3>. HIDE DEF q
    <3>. QED
      BY <1>4, <2>1, <2>2 DEF RequestInv, Knows, Saves, FindForDeletion
  <2>. QED
    BY <1>4, <2>2, <2>3, ProceedInv DEF FindForDeletion, row
<1>. QED
  BY <1>2, <1>3, <1>4

LEMMA FindNameInv ==
    ASSUME Inv, NEW r \in Requests, FindName(r)
    PROVE  Inv'
<1>. DEFINE q == [req[r] EXCEPT !.step = "save"]
<1>1. req[r] \in Request /\ RequestInv(req[r])
  BY DEF Inv, AddonsInv, TypeOK
<1>2. /\ q \in Request /\ q.op = req[r].op /\ q.step = "save" /\ q.id = req[r].id
      /\ q.row = req[r].row /\ q.links = req[r].links /\ q.stale = req[r].stale
  BY <1>1 DEF Request
<1>3. RequestInv(q)
  <2>. HIDE DEF q
  <2>. QED
    BY <1>1, <1>2 DEF RequestInv, Knows, Saves, FindName
<1>. QED
  BY <1>2, <1>3, ProceedInv DEF FindName

-----------------------------------------------------------------------------
(* The write of a row.                                                     *)

LEMMA SaveAddonInv ==
    ASSUME Inv, NEW r \in Requests, SaveAddon(r)
    PROVE  Inv'
<1>. DEFINE a == req[r].id
            row == req[r].row
<1>1. /\ req[r] \in Request /\ RequestInv(req[r])
      /\ a \in AddonIds /\ row \in Addon /\ row # NoAddon
  BY DEF SaveAddon, Inv, AddonsInv, TypeOK, RequestInv, Request
<1>2. addon' = [addon EXCEPT ![a] = row] /\ link' = link /\ KeyIsFree(row, a)
  BY DEF SaveAddon
<1>3. addon'[a] = row /\ \A b \in AddonIds \ {a} : addon'[b] = addon[b]
  BY <1>1, <1>2 DEF Inv, AddonsInv, TypeOK
<1>4. ASSUME NEW p \in Requests
      PROVE  /\ req'[p] \in Request /\ RequestInv(req[p])'
             /\ req'[p].links \subseteq req[p].links
  <2>1. req[p] \in Request /\ RequestInv(req[p])
    BY DEF Inv, AddonsInv, TypeOK
  <2>2. CASE p = r
    <3>1. req'[p] = Idle
      BY <2>2 DEF SaveAddon, Written
    <3>. QED
      BY <3>1, IdleFacts DEF RequestInv, Knows, Saves, Idle
  <2>3. CASE p # r /\ req[p].step \in {"name", "save"}
    <3>. DEFINE q == [req[p] EXCEPT !.stale = TRUE]
    <3>1. req'[p] = q
      BY <2>3 DEF SaveAddon, Written
    <3>2. /\ q \in Request /\ q.op = req[p].op /\ q.step = req[p].step
          /\ q.id = req[p].id /\ q.row = req[p].row /\ q.stale /\ q.links = req[p].links
      BY <2>1 DEF Request
    <3>. HIDE DEF q
    <3>. QED
      BY <2>1, <3>1, <3>2 DEF RequestInv
  <2>4. CASE p # r /\ req[p].step \notin {"name", "save"}
    <3>1. req'[p] = req[p]
      BY <2>4 DEF SaveAddon, Written
    <3>. QED
      BY <2>1, <2>4, <3>1 DEF RequestInv, Knows, Saves
  <2>. QED
    BY <2>2, <2>3, <2>4
<1>5. TypeOK'
  BY <1>1, <1>2, <1>4 DEF Inv, AddonsInv, TypeOK, SaveAddon, Written
<1>6. KeysHold'
  <2>1. \A b \in AddonIds : addon[b] # NoAddon => addon'[b] # NoAddon
    BY <1>1, <1>3
  <2>2. \A b \in link' \cup UNION {req'[p].links : p \in Requests} : addon'[b] # NoAddon
    <3>1. /\ link \subseteq AddonIds
          /\ \A p \in Requests : req[p].links \subseteq AddonIds
      BY DEF Inv, AddonsInv, TypeOK, Request
    <3>. QED
      BY <1>2, <1>4, <2>1, <3>1 DEF Inv, AddonsInv, KeysHold
  <2>3. ASSUME NEW b \in Live', NEW c \in Live', addon'[b].name = addon'[c].name
        PROVE  b = c
    BY <1>2, <1>3, <2>3 DEF Live, KeyIsFree, Inv, AddonsInv, KeysHold
  <2>. QED
    BY <2>2, <2>3 DEF KeysHold
<1>. QED
  BY <1>4, <1>5, <1>6 DEF Inv, AddonsInv

-----------------------------------------------------------------------------
LEMMA InitInv == Init => Inv
BY IdleFacts DEF Init, Inv, AddonsInv, TypeOK, KeysHold, Live, Addon, NoAddon

LEMMA NextInv == Inv /\ [Next]_vars => Inv'
<1>. SUFFICES ASSUME Inv, [Next]_vars PROVE Inv'
  OBVIOUS
<1>1. CASE UNCHANGED vars
  BY <1>1 DEF vars, Inv, AddonsInv, TypeOK, KeysHold, Live, RequestInv, Knows, NameIsFree
<1>2. CASE Next
  BY <1>2, ReceiveInv, EndInv, FindNameInv, SaveAddonInv, SaveLinksInv, FindInv,
     FindAddonsInv DEF Next
<1>. QED
  BY <1>1, <1>2

LEMMA Invariance == Spec => []Inv
BY InitInv, NextInv, PTL DEF Spec

\* For any number of add-ons and requests: no foreign key of a link refuses
\* one, and no two live add-ons have one name (prisma-addon.repository.ts).
THEOREM AddonsInvariant == Spec => []AddonsInv
<1>1. Inv => AddonsInv
  BY DEF Inv
<1>. QED
  BY <1>1, Invariance, PTL

-----------------------------------------------------------------------------
(* The shelf.                                                              *)

NameOnShelf(row) == IF row.status = "DELETED" THEN Gone ELSE row.name

ShelfStep ==
    [ Shelf!ShelfNext \/ \E r \in Requests : req[r].stale /\ SaveAddon(r) ]_(Shelf!shelfVars)

\* What rows mean on the shelf.
LEMMA ShelfFacts ==
    ASSUME Inv
    PROVE  /\ Shelf!OnShelf = Live
           /\ \A a \in AddonIds : /\ addon[a] = NoAddon => NameOnShelf(addon[a]) = NoName
                                  /\ a \in Live => /\ NameOnShelf(addon[a]) = addon[a].name
                                                  /\ addon[a].name \in Names
<1>1. \A a \in AddonIds : addon[a] \in Addon
  BY DEF Inv, AddonsInv, TypeOK
<1>. QED
  BY <1>1, AddonFacts, AddonsAssumption
     DEF Shelf!OnShelf, Live, NameOnShelf, NoAddon

\* The operations of the shelf on one add-on.
LEMMA OperationStep ==
    ASSUME NEW b \in AddonIds, NEW m,
           \/ m \in Names /\ (Shelf!Add(b, m) \/ Shelf!Rename(b, m))
           \/ Shelf!Remove(b)
    PROVE  ShelfStep
<1>1. Shelf!ShelfNext
  BY DEF Shelf!ShelfNext
<1>. QED
  BY <1>1 DEF ShelfStep

\* A step that writes nothing is not seen.
LEMMA UnseenStep ==
    ASSUME UNCHANGED rowVars
    PROVE  ShelfStep
BY DEF ShelfStep, Shelf!shelfVars, rowVars, Shown, Live

\* The links are a choice of what is on the shelf now.
LEMMA SaveLinksStep ==
    ASSUME Inv, NEW r \in Requests, SaveLinks(r)
    PROVE  ShelfStep
<1>1. addon' = addon /\ link' = req[r].links
  BY DEF SaveLinks
<1>2. Shown' \subseteq Live /\ Live \in SUBSET AddonIds
  BY <1>1 DEF Shown, Live
<1>3. Shelf!Choose(Shown')
  BY <1>1, <1>2, ShelfFacts DEF Shelf!Choose
<1>. QED
  BY <1>2, <1>3 DEF ShelfStep, Shelf!ShelfNext

\* A row written from a reading that still holds.
LEMMA FreshSaveStep ==
    ASSUME Inv, NEW r \in Requests, SaveAddon(r), ~req[r].stale,
           NEW a, a = req[r].id, NEW row, row = req[r].row, NEW n, n = row.name
    PROVE  ShelfStep
<1>. DEFINE shelf == [b \in AddonIds |-> NameOnShelf(addon[b])]
<1>1. /\ req[r] \in Request /\ RequestInv(req[r]) /\ Knows(req[r])
      /\ a \in AddonIds /\ row \in Addon /\ row # NoAddon
      /\ addon[a] \in Addon
      /\ req[r].op \in {"add", "update", "delete"} /\ req[r].step = "save"
  BY DEF SaveAddon, Inv, AddonsInv, TypeOK, RequestInv, Request, UseCases
<1>2. addon' = [addon EXCEPT ![a] = row] /\ link' = link /\ KeyIsFree(row, a)
  BY DEF SaveAddon
<1>3. addon'[a] = row /\ \A b \in AddonIds \ {a} : addon'[b] = addon[b]
  BY <1>1, <1>2 DEF Inv, AddonsInv, TypeOK
<1>4. shelf' = [shelf EXCEPT ![a] = NameOnShelf(row)]
  BY <1>1, <1>3
<1>5. CASE row.status = "LIVE"
  <2>1. n \in Names /\ NameOnShelf(row) = n
    BY <1>1, <1>5, AddonFacts DEF NameOnShelf
  <2>2. Shown' = Shown
    <3>1. Live' = Live \cup {a}
      BY <1>1, <1>3, <1>5 DEF Live
    <3>2. a \in Live \/ a \notin link
      BY <1>1, <1>5 DEF Knows, Saves, Inv, AddonsInv, KeysHold
    <3>. QED
      BY <1>2, <3>1, <3>2 DEF Shown
  <2>3. ASSUME NameIsFree(n, a)
        PROVE  Shelf!IsFree(n, a)
    BY <2>3, ShelfFacts DEF NameIsFree, Shelf!IsFree, NameOnShelf, Live
  <2>4. CASE req[r].op = "add"
    <3>1. NameIsFree(n, a) /\ NameOnShelf(addon[a]) = NoName
      BY <1>1, <2>4, ShelfFacts DEF Knows, Saves
    <3>2. Shelf!Add(a, n)
      BY <1>1, <1>4, <2>1, <2>2, <2>3, <3>1 DEF Shelf!Add, NameOnShelf
    <3>. QED
      BY <1>1, <2>1, <3>2, OperationStep
  <2>5. CASE req[r].op = "update"
    <3>1. a \in Live /\ (NameIsFree(n, a) \/ SameName(n, addon[a].name))
      BY <1>1, <2>5 DEF Knows, Saves
    <3>2. Shelf!Rename(a, n)
      BY <1>1, <1>4, <2>1, <2>2, <2>3, <3>1, ShelfFacts
         DEF Shelf!Rename, NameOnShelf
    <3>. QED
      BY <1>1, <2>1, <3>2, OperationStep
  <2>. QED
    BY <1>1, <1>5, <2>4, <2>5 DEF Knows, Saves
<1>6. CASE row.status = "DELETED"
  <2>1. a \in Live /\ NameOnShelf(row) = Gone
    BY <1>1, <1>6 DEF Knows, Saves, NameOnShelf
  <2>2. Shown' = Shown \ {a}
    <3>1. Live' = Live \ {a}
      BY <1>1, <1>3, <1>6 DEF Live
    <3>. QED
      BY <1>2, <3>1 DEF Shown
  <2>3. Shelf!Remove(a)
    BY <1>4, <2>1, <2>2, ShelfFacts DEF Shelf!Remove, NameOnShelf
  <2>. QED
    BY <1>1, <2>3, OperationStep
<1>. QED
  BY <1>1, <1>5, <1>6, AddonFacts

LEMMA StepOfShelf == Inv /\ [Next]_vars => ShelfStep
<1>. SUFFICES ASSUME Inv, [Next]_vars PROVE ShelfStep
  OBVIOUS
<1>1. CASE UNCHANGED vars
  BY <1>1, UnseenStep DEF vars, rowVars
<1>2. ASSUME NEW r \in Requests, SaveAddon(r)
      PROVE  ShelfStep
  BY <1>2, FreshSaveStep DEF ShelfStep
<1>3. ASSUME NEW r \in Requests, SaveLinks(r)
      PROVE  ShelfStep
  BY <1>3, SaveLinksStep
<1>4. CASE Next
  <2>1. \/ \E r \in Requests : SaveAddon(r) \/ SaveLinks(r)
        \/ UNCHANGED rowVars
    BY <1>4 DEF Next, Receive, End, FindName, FindForDeletion, FindForNew,
       FindForUpdate, FindAddons, Proceed
  <2>. QED
    BY <1>2, <1>3, <2>1, UnseenStep
<1>. QED
  BY <1>1, <1>4

\* Whatever the interleaving, the use cases of add-ons do to the menu what the
\* shelf allows, but for rows written from outdated readings
\* (update-addon.use-case.ts, delete-addon.use-case.ts): add-ons have
\* different names in whatever spelling, and no item shows a deleted one.
THEOREM OnlyStaleWritesLeaveTheShelf == Spec => ShelfUnlessStale
<1>1. Inv /\ [Next]_vars =>
         [ Shelf!ShelfNext \/ \E r \in Requests : req[r].stale /\ SaveAddon(r) ]_(Shelf!shelfVars)
  BY StepOfShelf DEF ShelfStep
<1>. QED
  BY <1>1, Invariance, PTL DEF Spec, ShelfUnlessStale
===============================================================================
