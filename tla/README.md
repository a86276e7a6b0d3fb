# spotq restaurant service in TLA+

This directory models the restaurant service (`src/`): a TypeScript HTTP service
over Postgres (through Prisma), Redis and BullMQ. Paths below are relative to the
repository's `src/` directory; a line is quoted as `path:line`.

The service has one shape throughout. A use case reads rows, checks them with an
entity method in memory, and writes rows: every database call is an `await`, there
is hardly a row lock and no version column, and Postgres runs at its default
isolation. What can go wrong is what happens between two awaits of one request, so
the models keep *one action per database or Redis call* and abstract everything else.

## Inventory

| Component | State | Operations | Talks to |
|---|---|---|---|
| Tables and sections | `tables`, `table_sections` (occupancy, capacity, status, soft deletion) | assign, release (internal API); create, update, update status, delete; create and delete section; numbers, groups, details, availability | reads `restaurants.is_blocked`, `restaurant_staff` |
| Restaurant lifecycle | `restaurants` (status, onboarding status, block, reasons) | onboard, approve, reject, block, unblock | writes `is_blocked` and `status`, which every other component reads |
| Who sees a restaurant | none of its own | the rules of every list, detail and validation of a restaurant | reads the row of the lifecycle |
| Subscription | subscription columns of `restaurants`, `processed_events` | activation worker (BullMQ, at least once), expiry timer | enqueues the activation e-mail |
| Profile, documents, images | nine tables around `restaurants` | onboard, update the profile, read the profile | one interactive transaction each |
| Staff invitations and memberships | `staff`, `restaurant_staff`, `staff_invitations` | invite, resend, revoke, validate, accept; status, removal, profile, password | e-mail queue |
| Staff sign-in and sessions | Redis: revoked tokens, reset codes | login (two ways), select a restaurant, refresh, logout; forgot, verify, reset password | reads memberships and restaurants |
| E-mail OTP of owners | Redis keys (code, attempts, two rate counters) | send, resend, verify | e-mail queue; creates `restaurants` rows |
| Menu | categories, items, variants, add-ons, links | create, update, reorder, availability, delete | reads the restaurant |
| Paged lists | none of its own | nine lists, page by page | read rows others write |
| E-mail queue and worker | BullMQ jobs | enqueue, send | every component that mails |
| Edges | HTTP controllers, validators, authentication, rate limiter, storage URLs, queue-service client, health, metrics | - | - |

### What makes each correct, and what is hard

* **Tables and sections.** Status, occupancy and capacity agree; a party is seated
  whole or not at all and never beyond the capacity; live codes are unique; who asks
  for places is told the truth. That a section with live tables is not deleted holds
  only of the tables that the deletion has counted.
  Hard: whole rows are saved from old readings
  (`src/infrastructure/database/repositories/prisma-table.repository.ts:263`).
* **Restaurant lifecycle.** Only an onboarded restaurant is approved, rejected or
  blocked, and the reason fits the decision. Hard: four administrator use cases and
  the activation worker write `status` without looking at each other.
* **Access.** Fourteen readers write out their rule for "this restaurant is open"
  anew. Hard: that they agree, at every state the writers can reach.
* **Subscription.** An event is applied once and mailed at most once; an expired
  subscription becomes inactive. Hard: redelivery, concurrency and reordering of
  jobs, a crash between commit and enqueue, a timer run that throws.
* **Profile.** No document is filed twice, no circle of row locks, an answer not
  older than the update it answers. Hard: nothing is keyed, order is all there is.
* **Invitations and memberships.** A mailed link that stopped working never works
  again; a removal keeps its date. Hard: accept, revoke, resend and expiry race,
  and invitations and memberships are saved whole.
* **Sessions.** What was logged out or spent stays so; who signs in is an active
  member. Hard: tokens carry their own end, Redis only knows the revoked ones.
* **E-mail OTP.** A code gives tokens once and dies only of its own wrong tries.
  Hard: codes and counters are separate keys with lives of their own.
* **Menu.** One default variant; the price is the default's; something is left to
  order; names and orders do not clash; what was deleted stays deleted. Hard:
  shifts, toggles and whole-sheet writes by concurrent requests.
* **Lists.** A walk shows each row once if nothing changes. Hard: windows that
  count rows, totals read apart, orders by a column that is no key.

## Modules

| Module | Role |
|---|---|
| `SeatingLedger` | abstract: the account book that seating promises |
| `TableSeating` | tables and sections, requests call by call |
| `SeatingReaders` | extends it: what the service tells of the tables |
| `TableSeatingProofs` | its invariants; its steps against the account book; the answers of the readers |
| `SubscriptionFeed` | abstract: what activations mean for a restaurant |
| `RestaurantLifecycle` | every writer of the restaurant's status and subscription |
| `RestaurantAccess` | extends it: every reader's rule |
| `RestaurantLifecycleProofs` | its invariants, that it implements the feed, and who sees a restaurant |
| `RestaurantDossier` | the transactions of onboarding and profile, statement by statement |
| `StaffRoster` | abstract: who works at the restaurant, by which invitation |
| `StaffMembership` | invitations, memberships and the password of an account |
| `StaffMembershipProofs` | its invariants and links; its steps against the roster |
| `StaffSession` | sign-in, sessions, forgotten passwords |
| `StaffSessionProofs` | its five properties |
| `OwnerOtp` | the sign-in of owners by a mailed code |
| `OwnerAccountProofs` | the invariants of `OwnerOtp` and `RestaurantDossier`; what they say of codes, and the freshness of answers |
| `MenuCard` | abstract: one item with its variants |
| `MenuItem` | item and variants, requests call by call |
| `MenuItemProofs` | its invariant, and its steps against the card |
| `AddonShelf` | abstract: add-ons by name, and those shown with an item |
| `MenuAddons` | add-ons and links, requests call by call |
| `MenuAddonsProofs` | its invariant, and its steps against the shelf |
| `MenuBoard` | abstract: categories in order, items in categories |
| `MenuCatalog` | categories, their order in two-statement transactions, names of items |
| `Listing` | nine paged lists and the client that walks them |
| `OrderingProofs` | the properties of `Listing` and `MenuCatalog`, and the steps of the latter against the board |
| `MC...` | definitions for the runs: symmetry, the use cases a run offers; `MCOwnerAccount` joins `OwnerOtp` and `RestaurantDossier` |

Where a component has an abstract module, the detailed one INSTANCEs it with a
refinement mapping (`Ledger`, `Feed`, `Roster`, `Card`, `Shelf`, `Board`).
Definitions marked "Slip" are plausible mistakes, each before the definition it would
replace; `PROJECT.json` says which property each one breaks. They are part of no
specification.

Two compositions share state: `RestaurantAccess` reads the variables that
`RestaurantLifecycle` writes, `SeatingReaders` those of `TableSeating`. Elsewhere the
state of another component that a request reads is an arbitrary outcome: the block of
the restaurant is a free `SetBlocked` in `TableSeating`, a membership or restaurant
that changes at any time is `ChangeMember`, `ChangeRestaurant` in `StaffSession`, and
a refusal is a request that ends (`End`, `Abort`) in all others. That
over-approximates the other component, so no safety property depends on it.

What is common to the detailed modules: a request goes from `Idle` through a step per
call and back. `Receive...` is its arrival after the validator; a read and the tests
in memory that follow are one step; so are a statement, and a transaction whose writes
do not depend on what it reads. `End`, `Abort` or `Rollback` is everything that stops a
request before its write: a refusal, a call that rejects, a transaction that the
database rolls back, a process that dies. `stale` is history: somebody wrote what this
request has read and will rely on.

### TableSeating and SeatingReaders

`table` and `section` are the rows of the two database tables of one restaurant
(`NoTable`, `NoSection` where a key is unused), `isBlocked` the restaurant's flag. A
request has a program counter `pc[r]`, what the client asked, `input[r]`, and the rows
it has read, `snap[r]`. Shape, timestamps, `is_active` (never written after creation)
and the actor's identity are left out.

| Action | Code |
|---|---|
| `Receive...` | the request passes its validator and the restaurant is read; all but table creation refuse a blocked restaurant |
| `LoadTables` | `findByIds` / `findById`, then the entity method in memory (`Accepts`) |
| `CheckSection`, `CheckCode` | the look-ups of create and update |
| `Save` | `updateMany` in a transaction, `save` as an upsert: all the columns, from `snap` (`Written`) |
| `InsertTable`, `SoftDeleteTable` | the last call of create and delete |
| `CheckSectionName`, `InsertSection`, `FindSection`, `CountTables`, `SoftDeleteSection` | the section use cases |
| `SetBlocked` | block or unblock the restaurant |

The CHECK constraints and the partial unique indexes are tested at each write; a write
that breaks one fails whole. `SeatingReaders` adds what the readers answer
(`TableStats`, `StaffPage`, `AvailableTables`, `Availability`). `SeatingLedger` is the
same component without requests: `Seat`, `Leave`, `Resize`, `Maintain`, `Resume`,
`Open`, `Close` happen at one instant and a closed table stays closed.

### RestaurantLifecycle and RestaurantAccess

`row` has the columns of `restaurants` that decisions depend on: status, onboarding,
block, whether a rejection reason is set, and the subscription: active or not, and
`period`, the event that wrote the plan and its end. `processed` is the table of
processed events, `jobs` and `work` the queue and the handlers of the worker, `mails`
the mails they enqueued, `isRunning` and `cutoff` the expiry timer.

| Action | Code |
|---|---|
| `Read(q, op)`, `Write(q)` | a use case reads the row and tests it (`Accepts`); its write sets fixed columns, with no condition on the row (`After`) |
| `Publish`, `Take`, `Retry`, `GiveUp`, `Stall` | the queue (external): jobs come again, to two handlers at once, or never |
| `Lookup`, `ApplyEvent` | the transaction of `activateSubscription`: the look-up, and the commit under the unique key of the event |
| `Mail` | the owner is looked up and the mail enqueued |
| `ExpiryStart`, `ExpiryUpdate`, `ExpiryFails` | `expirePastDueSubscriptions`: the flag, the single `updateMany`, the `finally` |

`RestaurantAccess` gives each reader its predicate of a row and a time, translated from
its own query or test. `SubscriptionFeed` has no jobs, handlers or timer: `Apply`
happens at most once for an event, `Expire` only after the end of the period and,
fairly, eventually.

### RestaurantDossier

`tables` says which commit wrote each row last, `papers` how many rows each document
and image has. A request holds the `plan` of rows it has still to write, the row locks
it `held`, what it `wrote` and `made` and has not committed. The bodies decide the
plan: `OnboardingPlan` in the fixed order of the code, `SavePlan` with the sections
that are given and the hours in the order of the body.

| Action | Code |
|---|---|
| `ReceiveOnboarding`, `ReceiveSave`, `ReceiveGet` | validators; the transaction, or the reading, begins |
| `WriteRow` | an `update`, or an `upsert` by a unique key: both wait for the lock |
| `FindPaper`, `WritePaper` | `findFirst` without a lock, then `update` or `create` |
| `Commit`, `Rollback` | the end of the interactive transaction |
| `ReadRow`, `ReadHours`, `Respond` | the answer, read table by table outside of it |

### StaffMembership

One address at one restaurant. `invitation` are its rows of `staff_invitations`,
`member` its row of `restaurant_staff`, `password` that of the account in `staff`,
which other restaurants share. `minted` are the random tokens generated, `mailed`
those whose mail was enqueued.

| Action | Code |
|---|---|
| `FindMember`, `FindStaff` | the look-up of the membership and the tests on it (`Invitable`, `Suits`) |
| `PrepareInvitation` | invite: nothing is open, a token is generated |
| `RenewOpen`, `FindNoneOpen`, `RenewOlder` | resend: the open invitation, or any that was not accepted |
| `FindRevoked`, `FindExpired`, `FindAccepted` | revoke, validate, accept: the row is found and marked in memory |
| `Save`, `Mail` | `save` of an invitation, as an upsert of all columns; the mail is put in the queue |
| `Join` | the transaction of `createStaffWithInvitation` |
| `RemoveStaff`, `UpdateStatus` | the single-column writes of removal and status |
| `SaveStaff` | `save` of a membership and its account: all columns, from the old reading |

The clock counts validity periods; "at `expiresAt`" is an instant of its own, because
`findPendingByEmailAndRestaurant` wants the end after now and `isExpired` wants it
before now: the roster calls an invitation at that instant "closing". `StaffRoster` has
no requests and no links: `Invite`, `Renew`, `Revoke`, `Join`, `Leave`, `SetStatus`,
`ChangePassword` and `Pass` happen at one instant.

### StaffSession

One account, member of several restaurants. `member` and `open` are what the database
says and others change, `code` and `revoked` the keys of Redis with the time they have,
`issued` the tokens that clients hold and that have not ended. A token is its kind, its
restaurant and its end: two signed in the same second for the same purpose are the same
string. A wrong password is a request that ends. History says which tokens were given up
(`loggedOut`), which set a password (`spent`), which of those lost their request before
it revoked them (`lost`), and which codes gave a token (`used`).

| Action | Code |
|---|---|
| `FindMemberships`, `FindRestaurants`, `Fallback` | `LoginStaffUseCase`: the memberships not removed, their restaurants, or the restaurant of the first membership |
| `Choose` | `select-restaurant`: the membership is read and the token signed |
| `Refresh`, `Logout` | the revocation is looked up, then the token signed; the revocation is set |
| `SaveCode`, `CompareCode`, `DeleteCode` | forgot and verify, call by call |
| `FindForReset`, `SavePassword`, `RevokeSpent` | reset |
| `ChangeMember`, `ChangeRestaurant`, `Tick` | the rest of the service, and time |

### OwnerOtp

`code`, `attempts` and `asked` are keys of Redis with the time each has left; INCR and
EXPIRE are two calls. `returned`, `wrong`, `spared`, `mixed` and `orphans` are history:
which codes gave tokens, how many wrong tries the stored code has had, whether the
counter forgot some, counts others, or has lost its end.

| Action | Code |
|---|---|
| `Ask`, `SetWindow` | INCR of the counter of this way of asking, EXPIRE by the first in a window |
| `SaveCode`, `ClearAttempts` | the code replaces the stored one; its attempts are deleted afterwards |
| `ReadCode`, `CountTry`, `LimitTries`, `DeleteCode` | the stored code is read and compared; a wrong one is counted and, at the limit, deletes the key |
| `FindOwner`, `CreateOwner`, `Answer` | the right code: the restaurant is found or created, key and attempts deleted, tokens signed |
| `Tick` | keys that have no time left are gone |

### MenuItem, MenuAddons, MenuCatalog

Three views of the menu, cut where no decision of one looks at the rows of another.
`MenuItem`: one item and its variants, written from one reading (`Prepare`, `Reprice`,
`ReviseVariants`, `Revise`, `FindForStatus`, `FindVariant`, `FindForDeletion`) by
`SaveNew`, `SaveUpdate`, `SaveStatus`, `SaveVariant`, `SaveDeletion`, each one
transaction. `MenuAddons`: names up to case (`Words`), look-ups that ignore case and a
unique key that does not, rows saved whole, links under foreign keys. `MenuCatalog`:
categories with their order, moved by transactions of two statements (`BeginMove` finds the
rows to shift, `SaveCategory` moves those that are still to be moved, writes the
category and commits), and
items that are put into them. `MenuCard`, `AddonShelf` and `MenuBoard` say what a
restaurant would expect of each, at one instant.

### Listing

`rows` is the table behind one of nine lists, `query` the order and page size that the
client asked for, as the validator admits and the use case clamps them. `QueryPage` and
`QueryTotal` are the two queries of a request, in any order, `Answer` and `Fail` its
end; `Insert` and `Update` are what other requests do meanwhile. Ties in the order
column are resolved arbitrarily and anew by each query.

## Runs

| Run | Bounds | Question |
|---|---|---|
| `one_table` | 2 requests, 1 table, capacities 1 and 2, parties up to 2; every use case of a table | do row, readings and CHECK constraints stay consistent, and is only a stale request able to break the account book? |
| `two_tables` | 2 requests, 2 tables, 2 codes, 1 section | are parties spread over tables written whole, and are answers true, also when the section is deleted under its tables? |
| `one_request` | 1 request, all use cases, 2 tables, 2 codes, 2 capacities | is the component the account book when nothing is concurrent? |
| `lifecycle` | 2 requests, 2 events in any order and again, 2 handlers, clock to 3 | do reviews keep to onboarded restaurants and right reasons, do all readers agree, and who lets customers in and shuts them out? |
| `subscription` | 2 events delivered twice, 2 handlers, 1 request, clock to 3, fair | is each event applied and mailed at most once, and does a period that is over end? |
| `staff` | 2 requests, 2 invitations, 2 tokens, 2 passwords, clock to 2 | do dead links stay dead, and is only a stale request able to leave the roster? |
| `menu_item` | 2 requests, 2 variants, 2 prices | is there one default, and do price and availability go wrong only through stale writes? |
| `menu_addons` | 2 requests, 3 add-ons, 2 words in 3 spellings | do keys never refuse a link, is what was deleted not shown? |
| `menu_catalog` | 2 requests, 2 categories, 2 orders, 2 items, 1 name | does what was deleted stay deleted, and do orders clash only through stale writes? |
| `account` | 2 requests, 2 codes, 2 attempts, lives of 2 and 1; then 2 forms, 1 document, 1 image, 2 days, 2 commits | codes, attempts and limits; documents, locks and answers |
| `sessions` | 2 requests, 2 restaurants, 2 codes, 1 token, clock to 2, 1 change by others | does what was given up stay given up, does a code serve once unless verifications overlap, and a reset token unless resets overlap or the process died in one? |
| `listing` | 9 lists, 3 rows, 2 values, pages of 1 and 2, 1 write | when do page and total agree, when does a walk show each row? |

Why these bounds are enough to be interesting: a write is harmful when one other
write came between a reading and it, and two requests produce every such pair, over
rows that are unused, live, full, deleted, and deleted and written back. A third
request only adds a second stale reader. Two invitations are what two concurrent
`invite` leave behind; two tokens make a renewal replace one that was mailed. Two
copies of a job give a redelivery and a concurrent delivery. Two variants make a
default and another; three add-ons make a clash and a third to link. A code that lives
two units can outlive, and be outlived by, its attempts. Two commits are an update and
one that overtakes its reading. Three rows on pages of one or two make a row cross a
page border in both directions. The clock reaches past the end of each period. The
theorems remove the bounds where they apply.

Every bound is a constant of its module: `Horizon` (clock), `MaxJobs` (copies of a
job), `MaxParty`, `MaxOrder` (the largest value of the column), `MaxCommits`,
`MaxTokens`, `MaxChanges`, `MaxLimit`, `MaxWrites`, and the sets of keys. A soft-deleted
or used key is not used again, so a run ends creating when its keys are used up: the
request then ends in `Abort` or `End`. Only `listing` switches deadlock checking off:
the client has come to its last page and asks no more.

### Fairness

Only `subscription` assumes any, and it is what the code's scheduling gives:
`setInterval` keeps starting runs of the expiry service (`WF(ExpiryStart)`), and a
database that answers infinitely many of them is assumed (`SF(ExpiryUpdate)`: a run may
fail, not all of them). Nothing forces publications, handlers, retries, crashes or
administrators. All other runs check safety only.

### Properties that name their exceptions

The code promises less than its domain words do, and the properties say exactly how
much. `AtomicUnlessStale`, `RosterUnlessStale`, `CardUnlessStale`, `ShelfUnlessStale`
and `BoardUnlessStale` have one form: every step is an operation of the abstract module
or the write of a request whose reading is out of date. The rest of the project says
what such a write cannot do either: break a row, revive a mailed link, take away the
default variant, show a deleted add-on, undelete a category.

### Known deviations

Behaviour that a reader of the code should know of, and that the models have:

* Two assignments that read the same occupancy both write it back: a party sits at a
  full table and the other is lost from the count (`AtomicUnlessStale` admits it).
* A table can be put into a section deleted long ago, by a single request, because
  the inherited `findById` finds deleted rows.
* A section can be deleted while it has live tables: `countActiveBySectionId` counts them
  (`src/application/use-cases/table-section/delete-table-section.use-case.ts:52`) and the
  deletion is a later call that does not ask again, so a table created in the section,
  moved to it or written back from an old reading in between belongs to a deleted section,
  which `TABLE_SECTION_IN_USE` is meant to exclude. Such tables are still shown, counted
  and seated (`AnswersAreTrue`).
* A reset whose process dies between the password and the revocation leaves its token
  valid: it sets another password until it ends (`lost`). Two resets, or two verifications
  of one code, that overlap both succeed. `TokensResetOnce` and `CodesServeOnce` say that
  there is no other way.
* An application can be approved after another administrator rejected it: the write
  has no condition on the status read. An unblock makes any blocked restaurant ACTIVE.
* An activation committed by a process that then dies never sends its mail: the
  redelivered job finds its event processed. `MailedAtMostOnce` is all that holds.
* Activations handled late or out of order write an older plan and end over a newer
  one (`AccessEnds` names the case).
* A removed member is made active by a change of status, without an invitation; the
  date of leaving stays on the active membership.
* Two requests that switch off the last two variants each count the other's; a change
  of price alone writes all variants back as read.
* An add-on deleted while an update was under way returns with it, and its links too;
  two spellings of one name can be created at the same time.
* A login that finds no membership to choose signs in to the first one whatever its
  status, also to a removed one (`SignedForMembers` names the case).
* A counter incremented by a process that dies before EXPIRE never ends (`orphans`).
* The lists of restaurants, staff, invitations and menu items are ordered by one column
  that is no key: rows that tie may be repeated or skipped although nothing is written.
  Total and rows of one page are not read in one snapshot.
* Opening hours are stored as local time
  (`src/infrastructure/database/repositories/restaurant.repository.ts:844`) and read
  back in UTC (`:703`): on a server that is not in UTC they come back shifted. No model:
  a conversion of one value, without state.

## Proofs

`TableSeatingProofs` proves `Spec => []SeatingInv`, for every value of the constants
that satisfies `TableSeatingAssumption` (capacities positive, sentinels outside the
sets they complete), and from it `TypeOK`, `StatusMatchesOccupancy`
and `ChecksNeverReject`. `StatusMatchesOccupancy` is not inductive:
a write stores a row computed from a reading, so the invariant also says that whatever
a request has read was live and consistent, that at the write it has read each of its
tables and that its entity method accepted them (`RequestInv`). The lemmas first show
that each entity method keeps a row consistent, then that each action preserves the
row part and the request part.

The module also proves `Spec => AtomicUnlessStale` for any number of
requests, step by step: an entity method applied to the stored row is one operation of
the account book. With at most one request no reading is ever stale (`FreshInv`), so
`OneRequestImplementsLedger` follows. `PartiesSeatedWhole` needs no such assumption: the
theorem is about any number of requests.

`AnswersAreTrue` follows from `SeatingInv`, and its proof is about sums: the places that
are told (`Places`) and the guests of a party table by table (`Guests`) are sums over sets
of tables, and the totals of the two pages count tables status by status and section by
section. The
lemmas `SumExists` to `GroupsAddUp` say that such sums exist, grow with their terms and
split. They need induction over finite sets. The library's induction theorems take the
formula as a parameter, which no installed prover can instantiate; `LeastNumber` says
instead that a set of numbers that is not empty has a least one, and `FiniteInduction`
follows for a property given as the set of subsets that have it.

`RestaurantLifecycleProofs` proves `Spec => []LifecycleInv` under
`LifecycleAssumption`, the invariants of the runs, and that the component implements
`Feed!FeedSafety`. The strengthening says what each actor knows when it acts: a request
about to approve, reject, block or unblock read a complete onboarding, which nothing
undoes (`ReviewInv`); a handler about to mail holds an event that was applied, was not
mailed, and that no other handler is about to mail (`MailInv`); an active subscription
was paid for by a processed event (`PeriodInv`); a run of the timer works with a time
that has come (`CutoffInv`). From it follow the properties of `RestaurantAccess`: only
`SuspendedInv` and `NeverInactive` have to be proved inductive, and the rules of the
readers then agree row by row (`AccessInv`); a step that lets customers in or shuts
them out is told by the field of the row it changes, and each field by the write, the
activation, the run of the timer or the tick that can change it so (`AccessBegins`,
`AccessEnds`).

`StaffMembershipProofs` proves `Spec => []MembershipInv` under `MembershipAssumption`
and three properties from it. That a dead link stays dead is not evident, because
invitations are saved whole from old readings. The invariant says who can know a token:
every token in a row or in the memory of a request was generated for one invitation
(`OwnerInv`); a token not saved yet is known to its request alone and was not mailed
(`UnsavedInv`), and neither was its new invitation inserted (`InsertInv`); and what a
request is about to write follows from what it read (`WriteInv`, `StaffInv`). So a
save that makes an invitation PENDING carries a token nobody was mailed.
The same module proves `Spec => RosterUnlessStale`, write by write.

`OwnerAccountProofs` proves `DossierSpec => []DossierInv` and
`DossierSpec => []AnswersFresh` under `DossierAssumption`. The argument is one about order. Every
plan writes its rows in the order of ranks that the code fixes (`OnboardingPlan`,
`SavePlan`), so a request holds only locks of ranks below the row it asks for; two
requests that wait for each other can only meet where several rows have one rank, and
those are the opening hours, which come in the order of the body. The row of the
restaurant has the first rank and is written by every onboarding, so whoever looks for
a paper holds the lock that keeps every other request from writing one: what
`findFirst` did not find is not inserted by another before the request inserts it.
`AnswersFresh` needs that rows only get newer, and that what the answer has not read
yet is still to be read after the commit.

The same module proves `Spec => []OtpInv` under `OtpAssumption`, and from it
`DeletedForCause` and `TokensOncePerCode`. Keys of Redis know nothing of each other;
what relates them is what the requests know. A verification that nobody has made stale
holds the stored code, and at its deletion has the right code or has seen the wrong
tries reach the limit (`KnownInv`); who deleted a code has made everybody stale who
had read it (`DeletedInv`), so a code that gave tokens is neither stored nor held in
trust (`ReturnedInv`). `TriesInv` is inductive only with the clauses on `left`: the
counter started for a code ends no earlier than the code.

`MenuItemProofs` proves `Spec => []MenuItemInv` and `Spec => CardUnlessStale` under
`MenuItemAssumption`. Each sheet a request has prepared has one default variant and the
default's price (`Prepare`, `Reprice` and the other readers keep that, one lemma
each), so the transactions that write whole sheets keep it whatever they overwrite.
`CardUnlessStale` adds that what a request with a reading still in date is about to
write is the card after one operation.

`StaffSessionProofs` proves the five properties of `StaffSession` under
`SessionAssumption`. The invariant says that Redis holds a key for everything given up,
which ends with the token (`StoreInv`); that a token which set a password has such a key
too, or is still, or was when its request died, between the password and the revocation
(`SpentInv`); and what a request may still believe of the code and of the memberships it
has read, until the write that tells it (`Knows`): a refresh or a reset whose token is
revoked has been told. One lemma covers all the requests that do not move: each was told,
or what it relies on was not written (`OtherRequest`). `TokensResetOnce` and
`CodesServeOnce` are then read off at the two writes.

`MenuAddonsProofs` proves `Spec => []AddonsInv` and `Spec => ShelfUnlessStale` under
`AddonsAssumption`. A rename to another spelling of the add-on's own name is not looked
up, so the shelf allows it; two add-ons come to have one name in two spellings only
through a write of outdated readings.

`OrderingProofs` proves `WalkSpec => []ListingInv` and `WalkSpec => []WalksAreSound` under
`ListingAssumption`: for any number of rows, any page size, any sort a list offers and any
writes. Its first part says what a sort is. If no two rows tie, the place of a row in the
list is the number of rows before it, and a page shows the rows whose place is in its
window; if some tie, the database may put them in any order, and only how many rows a
page shows is known. The invariant (`WalkInv`) then counts. While the list keeps still, the
client has been shown just the rows before the page, each once (`QuietInv`); while rows only
come, to a list in the order of creation, a row of the beginning only moves towards the end, and is before the page only if it was shown (`GrowsInv`); a total and a page
agree unless a row came or went between the two queries (`ToldInv`, `TornInv`). At the last
page no row is left behind it, because the number of pages is rounded up
(`LastPageCovers`).

The second part proves `Spec => []CatalogInv` and `Spec => DeletedStays` of `MenuCatalog` under
`CatalogAssumption`, and then `Spec => BoardUnlessStale`, for any number of categories,
items and requests. The invariant `CatalogIInv` says of each request what holds however
old its readings are (`Known`: the row it will write exists, unless it is to create it, which
then no other is), and what holds while nothing was written since (`Current`: the rows
that it has found to be moved are all of those that are to be moved, the name is free, the
category of the item is there). The refinement is a fact about order: as long as
no two categories have one order, there is exactly one listing (`SortedExists`,
`SortedUnique`, `BoardRanked`), and a transaction with current readings keeps the others
in their order and leaves free the place it moves its category to (`OthersMakePlace`). So the
listing after it is the one before, with one category taken out and put in elsewhere
(`ListingAfterSave`), and again no two have one order (`NoClashAfterSave`). That two have
the same order is therefore the doing of a stale write alone.

### What is only model-checked

Liveness, which the temporal prover of TLAPS does not reach (it has no rule for ENABLED):
of `ImplementsFeed`, that an expired subscription ends. Its safety part,
`ImplementsFeedSafely`, is proved. Every other property of the runs is stated by a
theorem.

No module uses a recursive operator.

## Not modelled

* **E-mail queue, worker and queue-service client**
  (`src/infrastructure/queue/`, `src/infrastructure/services/`). The producers are modelled where a
  property depends on them (`MailedAtMostOnce`, `mailed`); only the mail of an
  activation has a job id of its own. The worker renders a template and calls the
  provider, and keeps no state: what becomes of a job is BullMQ's matter.
* **Storage and presigned URLs.** A URL is computed from a key and signed by the
  storage library. The keys themselves are data of `RestaurantDossier` and `MenuItem`,
  where no decision depends on them; the test that a key belongs to the restaurant is a
  refusal (`End`).
* **Authentication middleware and rate limiter.** The middleware looks at the
  signature and the claims of one token and at nothing else (revocations are looked up
  by refresh and reset, which `StaffSession` models); the limiter is a library with
  counters of its own. Their refusals are requests that end.
* **Controllers, routes, validators, mappers.** What a validator admits is what
  `Receive...` admits and the lists clamp; a controller maps a request to one call.
* **Health, logging, metrics.** They only read, and no component reads them.
* **Configuration, dependency injection, start-up.** Run once, before the first
  request.
* **Schema, migrations and seed.** The unique keys, CHECK constraints and foreign keys
  are in the writes that they can refuse. Migrations and the seed run alone.
* **Data without decisions**: descriptions, cuisine types, images, addresses, money
  beyond its order, the texts of reasons, timestamps that no query compares.

## Plan

1. One specification of a session together with the restaurant's lifecycle, instead of
   the free `ChangeRestaurant`.
2. Of the restrictions that the theorems keep: what a listing with ties (`Clash`) still
   shows; which of two transactions that move categories at once wins.
