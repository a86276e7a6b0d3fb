--------------------------- MODULE RestaurantAccess ---------------------------
(***************************************************************************)
(* Who sees a restaurant.  Every reader of its row has a rule of its own   *)
(* for which restaurants it shows or serves: queries of the repository,    *)
(* methods of the entity, and tests in use cases, each written out anew.   *)
(* Here they are, as predicates of a row r and a time now, and what they   *)
(* have in common while the writers of RestaurantLifecycle go on.          *)
(***************************************************************************)
EXTENDS RestaurantLifecycle

CONSTANT Entitled    \* the events that pay for a plan with a queue

ASSUME AccessAssumption == Entitled \subseteq Events

-----------------------------------------------------------------------------
(* The entity's rules.                                                     *)

EndsAfter(r, now) == r.period = NoEvent \/ EndOf[r.period] > now

IsSubscriptionEligible(r, now) == r.isSubscriptionActive /\ EndsAfter(r, now)

HasQueueEntitlement(r) == r.period \in Entitled

CanAccessQueueService(r, acceptsQueue, now) ==
    /\ r.status = "ACTIVE"
    /\ ~r.isBlocked
    /\ IsSubscriptionEligible(r, now)
    /\ HasQueueEntitlement(r)
    /\ acceptsQueue

IsEligibleForCustomer(r, now) ==
    /\ r.status = "ACTIVE"
    /\ ~r.isBlocked
    /\ IsSubscriptionEligible(r, now)
    /\ r.onboarded

HasOperationalAccess(r) == ~r.isBlocked

-----------------------------------------------------------------------------
(* Customers.                                                              *)

\* The list of restaurants does not look at the end of the period,
FoundInList(r) ==
    /\ r.status = "ACTIVE"
    /\ r.onboarded
    /\ ~r.isBlocked
    /\ r.isSubscriptionActive

\* the query of the details does,
FoundDetails(r, now) ==
    /\ r.status = "ACTIVE"
    /\ ~r.isBlocked
    /\ r.isSubscriptionActive
    /\ r.onboarded
    /\ EndsAfter(r, now)

\* and the use case tests what the query found once more, a moment later.
SeesDetails(r, asked, now) == FoundDetails(r, asked) /\ IsEligibleForCustomer(r, now)

SeesQueue(r, acceptsQueue, now) ==
    SeesDetails(r, now, now) /\ CanAccessQueueService(r, acceptsQueue, now)

SeesMenuItem(r) == ~r.isBlocked /\ r.status = "ACTIVE" /\ r.isSubscriptionActive

-----------------------------------------------------------------------------
(* Other services.                                                         *)

ServesMenuItem(r) == ~r.isBlocked /\ r.status = "ACTIVE" /\ r.isSubscriptionActive

Validation(r, acceptsQueue, now) ==
    [verificationStatus    |-> r.status,
     isBlocked             |-> r.isBlocked,
     isSubscriptionActive  |-> IsSubscriptionEligible(r, now),
     canAccessQueueService |-> CanAccessQueueService(r, acceptsQueue, now)]

BatchItem(r) ==
    [status               |-> r.status,
     isBlocked            |-> r.isBlocked,
     isSubscriptionActive |-> r.isSubscriptionActive]

-----------------------------------------------------------------------------
(* Administrators.  The filter is a status, or "any".                      *)

FoundInRestaurants(r, filter) ==
    /\ r.onboarded
    /\ IF filter \in Statuses \ {"PENDING"} THEN r.status = filter
                                            ELSE r.status # "PENDING"

FoundInApplications(r, filter) ==
    /\ r.onboarded
    /\ IF filter \in {"PENDING", "REJECTED"} THEN r.status = filter
                                             ELSE r.status \in {"PENDING", "REJECTED"}

FoundCompleted(r) == r.onboarded /\ r.status # "PENDING"

-----------------------------------------------------------------------------
(* The owner.                                                              *)

OwnsMenuItem(r) == ~r.isBlocked /\ r.status \in {"ACTIVE", "APPROVED"}

\* Where a sign-in leads.
\* Slip: the onboarding is looked at before the status.
NextStepOnboardingFirst(r) ==
    IF ~r.onboarded THEN "ONBOARDING"
    ELSE IF r.status \in {"APPROVED", "ACTIVE"}
    THEN IF r.isSubscriptionActive THEN "DASHBOARD" ELSE "SUBSCRIPTION"
    ELSE "VERIFICATION_STATUS"

NextStep(r) ==
    IF r.status \in {"APPROVED", "ACTIVE"}
    THEN IF r.isSubscriptionActive THEN "DASHBOARD" ELSE "SUBSCRIPTION"
    ELSE IF r.onboarded THEN "VERIFICATION_STATUS" ELSE "ONBOARDING"

\* Where the status page leads.
NavigationTarget(r) ==
    CASE r.status = "PENDING"  -> "ONBOARDING"
      [] r.status = "REJECTED" -> "REJECTED"
      [] r.status \notin {"PENDING", "REJECTED"} ->
            IF r.isSubscriptionActive THEN "DASHBOARD" ELSE "SUBSCRIPTION"

VerificationStatus(r) ==
    IF r.status \in {"APPROVED", "ACTIVE"} THEN "VERIFIED"
    ELSE IF r.status = "REJECTED" \/ r.isBlocked THEN "REJECTED"
    ELSE IF r.onboarded THEN "UNDER_REVIEW" ELSE "SUBMITTED"

-----------------------------------------------------------------------------
Opens(r, now) == SeesDetails(r, now, now)

\* Rules written apart agree: customers who are served find the restaurant in
\* the list, and one that is listed and not served is past its end; menu items
\* are served with it, and without it only before onboarding or past the end.
CustomersAgree ==
    /\ Opens(row, clock) => FoundInList(row)
    /\ FoundInList(row) /\ ~Opens(row, clock) => EndOf[row.period] <= clock
    /\ FoundInList(row) => SeesMenuItem(row) /\ ServesMenuItem(row)
    /\ SeesMenuItem(row) /\ ~FoundInList(row) => ~row.onboarded
    /\ \A b \in BOOLEAN :
          SeesQueue(row, b, clock) =>
            Validation(row, b, clock).canAccessQueueService

\* An administrator finds, and can block, every restaurant that customers see,
\* and finds each onboarded one where it can be acted upon; an owner is told
\* that the application is under review exactly while it can be approved, and a
\* sign-in leads to the same pages as the status page, as far as both have them.
DesksAgree ==
    /\ FoundInList(row) => FoundInRestaurants(row, "any") /\ Accepts("block", row)
    /\ row.onboarded => \E s \in Statuses : FoundInRestaurants(row, s)
                                            \/ FoundInApplications(row, s)
    /\ Accepts("approve", row) => FoundInApplications(row, "PENDING")
    /\ FoundCompleted(row) =>
          (row.isBlocked <=> Accepts("unblock", row)) /\ FoundInRestaurants(row, "any")
    /\ HasOperationalAccess(row) =>
          (VerificationStatus(row) = "UNDER_REVIEW" <=> Accepts("approve", row))
    /\ NextStep(row) \in {"DASHBOARD", "SUBSCRIPTION"}
          => NavigationTarget(row) = NextStep(row)
    /\ NextStep(row) = "ONBOARDING" => VerificationStatus(row) \in {"SUBMITTED", "REJECTED"}
    /\ FoundInList(row) => OwnsMenuItem(row) /\ NextStep(row) = "DASHBOARD"

\* Nobody is suspended without a block, so that an unblock always brings a
\* suspended restaurant back; none is ever INACTIVE.
SuspendedInv == row.status = "SUSPENDED" => row.isBlocked
NeverInactive == row.status # "INACTIVE"

AccessInv ==
    /\ SuspendedInv
    /\ NeverInactive
    /\ CustomersAgree
    /\ DesksAgree

Activated(e) == e \in processed' \ processed

Written(ops) == \E q \in Requests : pc[q] \in ops /\ pc'[q] = "idle"

\* Customers are let in only by an activation whose period is not over, or by
\* an unblock (which may come twice, the second undoing an onboarding): no
\* review, no onboarding and no run of the timer opens one.
AccessBegins ==
    [][ ~Opens(row, clock) /\ Opens(row', clock') =>
          \/ \E e \in Events : Activated(e) /\ EndOf[e] > clock
          \/ Written({"unblock"}) ]_vars

\* They are shut out only by the end of the period, by a block or another
\* onboarding, by a review that began before the restaurant was ACTIVE, or by
\* an activation for a period that is over already, handled late.
AccessEnds ==
    [][ Opens(row, clock) /\ ~Opens(row', clock') =>
          \/ clock' = EndOf[row.period]
          \/ Written({"block", "onboard", "approve", "reject"})
          \/ \E e \in Events : Activated(e) /\ EndOf[e] <= clock ]_vars
===============================================================================
