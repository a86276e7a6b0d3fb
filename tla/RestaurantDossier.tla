-------------------------- MODULE RestaurantDossier --------------------------
(***************************************************************************)
(* What an owner files about a restaurant: the row itself, the profile,    *)
(* the settings, the address, the opening hours, the documents and the     *)
(* images.  The onboarding and the update of the profile each write some   *)
(* of these tables in one transaction, statement by statement, under READ  *)
(* COMMITTED; a row that a transaction has written stays locked until its  *)
(* end.  The update then answers with what it reads outside of it.         *)
(***************************************************************************)
EXTENDS Integers, FiniteSets, SequencesExt

CONSTANTS
    Forms,          \* the requests in flight at the same time
    Documents,      \* the types of documents, all asked for by an onboarding
    Images,         \* object keys of images
    Days,           \* days of the week
    Sections,       \* bound: the sections that updates of the profile have
    MaxCommits      \* bound on the transactions that commit

VARIABLES
    tables,         \* the commit that wrote each row last; 0: none so far
    papers,         \* how many rows there are of each document and image
    form,           \* what each request does
    commits         \* the transactions committed so far

dossierVars == <<tables, papers, form, commits>>

Rows == {"restaurant", "profile", "settings", "address"} \cup Days
Papers == Documents \cup Images

NoPapers == [p \in Papers |-> 0]

\* plan: the rows that the request has still to write, or to read, in order;
\* wrote, made: the rows written and the papers inserted, not yet committed;
\* held: the rows it has locked; found: the paper it looked for exists;
\* since: the rows as committed when it began to read; answer: as read.
Form == [step : {"idle", "write", "found", "read", "answered"}, op : {"onboard", "save", "get"},
         plan : Seq(Rows \cup Papers), held : SUBSET (Rows \cup Papers),
         wrote : SUBSET Rows, made : [Papers -> Nat], found : BOOLEAN,
         since : [Rows -> Nat], answer : [Rows -> Nat]]

ASSUME DossierAssumption ==
    /\ MaxCommits \in Nat
    /\ Sections \subseteq {"restaurant", "profile", "settings"}
    /\ IsFiniteSet(Documents)
    /\ Rows \cap Papers = {}
    /\ Documents \cap Images = {}
    /\ {"restaurant", "profile", "settings", "address"} \cap Days = {}

Blank == [step |-> "idle", op |-> "get", plan |-> <<>>, held |-> {}, wrote |-> {},
          made |-> NoPapers, found |-> FALSE,
          since |-> [r \in Rows |-> 0], answer |-> [r \in Rows |-> 0]]

Reads == <<"restaurant", "profile", "settings">>

-----------------------------------------------------------------------------
(* Receiving a request: what its body makes the transaction write.         *)

\* Slip: the documents and images first, the restaurant's row last.
OnboardingPlanBackwards(images) ==
    SetToSeq(Documents) \o images \o <<"address", "settings", "profile", "restaurant">>

\* All documents, in the order of the schema, and the images as given.
OnboardingPlan(images) ==
    <<"restaurant", "profile", "settings", "address">>
        \o SetToSeq(Documents) \o images

ReceiveOnboarding(f) ==
    /\ form[f].step = "idle"
    /\ \E i, j \in Images : \E images \in {<<i>>, <<i, j>>} :
          form' = [form EXCEPT ![f] = [Blank EXCEPT !.step = "write", !.op = "onboard",
                                                    !.plan = OnboardingPlan(images)]]
    /\ UNCHANGED <<tables, papers, commits>>

\* Only the sections with something in them, and the hours as given.
Given(row, sections) == IF row \in sections THEN <<row>> ELSE <<>>

SavePlan(sections, hours) ==
    Given("restaurant", sections) \o Given("profile", sections)
        \o Given("settings", sections) \o hours

ReceiveSave(f) ==
    /\ form[f].step = "idle"
    /\ \E sections \in SUBSET Sections, c, d \in Days :
       \E hours \in {<<>>, <<c>>, <<c, d>>} :
          form' = [form EXCEPT ![f] = [Blank EXCEPT !.step = "write", !.op = "save",
                                                    !.plan = SavePlan(sections, hours)]]
    /\ UNCHANGED <<tables, papers, commits>>

ReceiveGet(f) ==
    /\ form[f].step = "idle"
    /\ form' = [form EXCEPT ![f] = [Blank EXCEPT !.step = "read", !.op = "get",
                                                 !.plan = Reads, !.since = tables]]
    /\ UNCHANGED <<tables, papers, commits>>

-----------------------------------------------------------------------------
(* The transaction.                                                        *)

IsFree(f, row) == \A g \in Forms \ {f} : row \notin form[g].held

\* An update, or an upsert by a unique key: both wait for the row, or the key.
WriteRow(f) ==
    LET row == Head(form[f].plan)
    IN  /\ form[f].step = "write"
        /\ form[f].plan # <<>>
        /\ row \in Rows
        /\ IsFree(f, row)
        /\ form' = [form EXCEPT ![f].plan = Tail(@), ![f].held = @ \cup {row},
                                ![f].wrote = @ \cup {row}]
        /\ UNCHANGED <<tables, papers, commits>>

\* findFirst sees what is committed and what its own transaction inserted.
FindPaper(f) ==
    LET p == Head(form[f].plan)
    IN  /\ form[f].step = "write"
        /\ form[f].plan # <<>>
        /\ p \in Papers
        /\ form' = [form EXCEPT ![f].step = "found",
                                ![f].found = papers[p] + form[f].made[p] > 0]
        /\ UNCHANGED <<tables, papers, commits>>

\* What was found is updated, and locked; else a row is inserted, and no
\* unique key minds another one.
WritePaper(f) ==
    LET p == Head(form[f].plan)
    IN  /\ form[f].step = "found"
        /\ IF form[f].found
           THEN /\ IsFree(f, p)
                /\ form' = [form EXCEPT ![f].step = "write", ![f].plan = Tail(@),
                                        ![f].held = @ \cup {p}]
           ELSE form' = [form EXCEPT ![f].step = "write", ![f].plan = Tail(@),
                                     ![f].made[p] = @ + 1]
        /\ UNCHANGED <<tables, papers, commits>>

Committed(f) ==
    [r \in Rows |-> IF r \in form[f].wrote THEN commits + 1 ELSE tables[r]]

\* Slip: the details read before the transaction has committed.
CommitAfterReading(f) ==
    /\ form[f].step = "write"
    /\ form[f].plan = <<>>
    /\ commits < MaxCommits
    /\ commits' = commits + 1
    /\ tables' = Committed(f)
    /\ papers' = [p \in Papers |-> papers[p] + form[f].made[p]]
    /\ form' = [form EXCEPT ![f] = [Blank EXCEPT !.step = "answered", !.op = "get",
                                                 !.since = tables', !.answer = tables]]

\* An onboarding is answered; an update goes on to read what it answers with.
Commit(f) ==
    /\ form[f].step = "write"
    /\ form[f].plan = <<>>
    /\ commits < MaxCommits
    /\ commits' = commits + 1
    /\ tables' = Committed(f)
    /\ papers' = [p \in Papers |-> papers[p] + form[f].made[p]]
    /\ form' = [form EXCEPT ![f] =
                  IF @.op = "onboard" THEN Blank
                  ELSE [Blank EXCEPT !.step = "read", !.op = "get",
                                     !.plan = Reads, !.since = tables']]

\* A statement fails or waits too long, the database takes this transaction
\* out of a circle of waits, or the process stops: nothing of it remains.
Rollback(f) ==
    /\ form[f].step # "idle"
    /\ form' = [form EXCEPT ![f] = Blank]
    /\ UNCHANGED <<tables, papers, commits>>

-----------------------------------------------------------------------------
(* The answer: one query of the row and of each table that hangs on it,    *)
(* the hours of all days with the last.                                    *)

ReadRow(f) ==
    /\ form[f].step = "read"
    /\ form[f].plan # <<>>
    /\ LET row == Head(form[f].plan)
       IN  form' = [form EXCEPT ![f].plan = Tail(@), ![f].answer[row] = tables[row]]
    /\ UNCHANGED <<tables, papers, commits>>

ReadHours(f) ==
    /\ form[f].step = "read"
    /\ form[f].plan = <<>>
    /\ form' = [form EXCEPT ![f].step = "answered",
                            ![f].answer = [r \in Rows |-> IF r \in Days THEN tables[r] ELSE @[r]]]
    /\ UNCHANGED <<tables, papers, commits>>

Respond(f) ==
    /\ form[f].step = "answered"
    /\ form' = [form EXCEPT ![f] = Blank]
    /\ UNCHANGED <<tables, papers, commits>>

-----------------------------------------------------------------------------
DossierInit ==
    /\ tables = [r \in Rows |-> 0]
    /\ papers = NoPapers
    /\ form = [f \in Forms |-> Blank]
    /\ commits = 0

FormStep(f) ==
    \/ ReceiveOnboarding(f) \/ ReceiveSave(f) \/ ReceiveGet(f)
    \/ WriteRow(f) \/ FindPaper(f) \/ WritePaper(f)
    \/ Commit(f) \/ Rollback(f)
    \/ ReadRow(f) \/ ReadHours(f) \/ Respond(f)

DossierNext == \E f \in Forms : FormStep(f)

DossierSpec == DossierInit /\ [][DossierNext]_dossierVars

-----------------------------------------------------------------------------
DossierTypeOK ==
    /\ tables \in [Rows -> 0..MaxCommits]
    /\ papers \in [Papers -> Nat]
    /\ form \in [Forms -> Form]
    /\ commits \in 0..MaxCommits

\* No document type and no image has two rows, although nothing keys them and
\* an onboarding looks first and inserts later: two onboardings never overlap
\* there, for each has locked the row of the restaurant before.
OnePaperOfEach == \A p \in Papers : papers[p] <= 1

Wants(f) ==
    IF \/ form[f].step = "write" /\ form[f].plan # <<>> /\ Head(form[f].plan) \in Rows
       \/ form[f].step = "found" /\ form[f].found
    THEN {Head(form[f].plan)} ELSE {}

\* Two transactions that wait for each other both wait for a day's hours: all
\* other rows are locked in one order, the hours in the order of the body.
OnlyHoursWaitInACircle ==
    \A f, g \in Forms :
        Wants(f) \cap form[g].held # {} /\ Wants(g) \cap form[f].held # {}
            => f = g \/ Wants(f) \cup Wants(g) \subseteq Days

-----------------------------------------------------------------------------
(* The inductive invariant.                                                *)

IsWriting(q) == q.step \in {"write", "found"}

LocksInv == \A f, g \in Forms : f # g => form[f].held \cap form[g].held = {}

\* The order in which all transactions lock rows; days and papers share ranks.
Rank(x) ==
    IF x \in Papers THEN 6 ELSE IF x \in Days THEN 5
    ELSE IF x = "restaurant" THEN 1 ELSE IF x = "profile" THEN 2
    ELSE IF x = "settings" THEN 3 ELSE 4

Ascends(s) ==
    \A i, j \in 1..Len(s) : i < j => Rank(s[i]) <= Rank(s[j])

KeepsOrder(q) ==
    IsWriting(q) => /\ Ascends(q.plan)
                    /\ \A x \in q.held, i \in 1..Len(q.plan) : Rank(x) <= Rank(q.plan[i])

\* Papers are looked for and inserted under the lock of the restaurant only.
KeepsPapers(q) ==
    /\ \A p \in Papers : papers[p] + q.made[p] <= 1
    /\ ~IsWriting(q) => q.held = {} /\ q.made = NoPapers /\ q.op = "get"
    /\ q.op = "onboard" =>
          \/ "restaurant" \in q.held
          \/ /\ q.step = "write" /\ q.held = {} /\ q.made = NoPapers
             /\ q.plan # <<>> /\ Head(q.plan) = "restaurant"
    /\ q.op # "onboard" =>
          /\ q.made = NoPapers /\ q.held \subseteq Rows
          /\ \A i \in 1..Len(q.plan) : q.plan[i] \in Rows
    /\ q.step = "found" =>
          /\ q.op = "onboard" /\ q.plan # <<>> /\ Head(q.plan) \in Papers
          /\ ~q.found => papers[Head(q.plan)] + q.made[Head(q.plan)] = 0

OrderInv == \A f \in Forms : KeepsOrder(form[f])
PapersInv == \A f \in Forms : KeepsPapers(form[f])

DossierInv ==
    /\ DossierTypeOK
    /\ OnePaperOfEach
    /\ OnlyHoursWaitInACircle
    /\ LocksInv
    /\ OrderInv
    /\ PapersInv

-----------------------------------------------------------------------------

\* No part of an answer is older than what was committed when the reading
\* began: an update is answered with what it wrote, or with something newer.
AnswersFresh ==
    \A f \in Forms : form[f].step = "answered" =>
        \A r \in ToSet(Reads) \cup Days : form[f].answer[r] >= form[f].since[r]
=============================================================================
