------------------------- MODULE RestaurantLifecycle -------------------------
(***************************************************************************)
(* The row of one restaurant in "restaurants" and everything that writes   *)
(* its status, its block and its subscription: the administrator's use     *)
(* cases and the onboarding, each a reading and a later write of fixed     *)
(* columns; the worker of the subscription queue, whose jobs come at least *)
(* once, in any order, to several handlers at a time; and the timer that   *)
(* expires subscriptions.  Nobody locks, and only the worker's transaction *)
(* looks at anything again when it writes.                                 *)
(***************************************************************************)
EXTENDS Integers, FiniteSets

CONSTANTS
    Requests,    \* HTTP requests in flight at the same time
    Offered,     \* the use cases that clients call
    Events,      \* subscription.activated events, by eventId
    EndOf,       \* currentPeriodEnd of each event
    Workers,     \* jobs handled at the same time (BULLMQ_WORKER_CONCURRENCY)
    MaxJobs,     \* bound on the copies of the job of one event
    Horizon,     \* bound on the clock
    NoEvent      \* no plan, no end of period

VARIABLES
    row,         \* the restaurant's row
    processed,   \* the rows of "processed_events"
    pc,          \* "idle", or the use case whose write each request awaits
    jobs,        \* the jobs that wait in the queue, by event
    work,        \* what each handler of the worker does
    mails,       \* the activation mails put in the e-mail queue, by event
    isRunning,   \* SubscriptionExpiryService.isRunning
    cutoff,      \* the "now" of its last run
    clock

vars == <<row, processed, pc, jobs, work, mails, isRunning, cutoff, clock>>

requestVars == pc
workerVars == <<processed, jobs, work, mails>>
expiryVars == <<isRunning, cutoff, clock>>

Statuses == {"PENDING", "APPROVED", "REJECTED", "SUSPENDED", "ACTIVE", "INACTIVE"}

\* onboarded: onboarding_status is COMPLETED; rejected: rejection_reason is
\* set; period: the event that wrote the plan code and the end of period.
Row == [status : Statuses, onboarded : BOOLEAN, isBlocked : BOOLEAN,
        rejected : BOOLEAN, isSubscriptionActive : BOOLEAN,
        period : Events \cup {NoEvent}]

ReviewUseCases == {"approve", "reject"}
BlockUseCases == {"block", "unblock"}
UseCases == {"onboard"} \cup ReviewUseCases \cup BlockUseCases

Handler == [step : {"lookup", "apply", "mail"}, event : Events]

Free == [step |-> "free", event |-> NoEvent]

ASSUME LifecycleAssumption ==
    /\ NoEvent \notin Events
    /\ EndOf \in [Events -> Int]
    /\ MaxJobs \in Nat
    /\ Horizon \in Nat
    /\ Offered \subseteq UseCases

-----------------------------------------------------------------------------
(* The use cases: what each asks of the row it reads, and what it writes.  *)

\* Slip: an application reviewed before its onboarding is complete.
IsReviewableEarly(r) == r.status = "PENDING"

IsReviewable(r) == r.status = "PENDING" /\ r.onboarded

\* Only a restaurant that was reviewed, or paid, can be blocked and unblocked.
IsManaged(r) == r.status # "PENDING" /\ r.onboarded

Accepts(op, r) ==
    CASE op \in ReviewUseCases -> IsReviewable(r)
      [] op = "block"   -> IsManaged(r) /\ ~r.isBlocked
      [] op = "unblock" -> IsManaged(r) /\ r.isBlocked
      [] op = "onboard" -> ~r.isBlocked

\* Slips: the reason of an earlier rejection kept by an approval; a restaurant
\* that is ACTIVE as soon as it is approved.
ApprovedKeepingReason(r) == [r EXCEPT !.status = "APPROVED"]
ApprovedAndOpen(r) == [r EXCEPT !.status = "ACTIVE", !.rejected = FALSE]

Approved(r) == [r EXCEPT !.status = "APPROVED", !.rejected = FALSE]

Rejected(r) == [r EXCEPT !.status = "REJECTED", !.rejected = TRUE]

Blocked(r) == [r EXCEPT !.status = "SUSPENDED", !.isBlocked = TRUE]

Unblocked(r) == [r EXCEPT !.status = "ACTIVE", !.isBlocked = FALSE]

Onboarded(r) == [r EXCEPT !.status = "PENDING", !.onboarded = TRUE]

\* The columns of its own use case only are written.
After(op, r) ==
    CASE op = "approve" -> Approved(r)
      [] op = "reject"  -> Rejected(r)
      [] op = "block"   -> Blocked(r)
      [] op = "unblock" -> Unblocked(r)
      [] op = "onboard" -> Onboarded(r)

Read(q, op) ==
    /\ pc[q] = "idle"
    /\ op \in Offered
    /\ Accepts(op, row)
    /\ pc' = [pc EXCEPT ![q] = op]
    /\ UNCHANGED <<row, workerVars, expiryVars>>

Write(q) ==
    /\ pc[q] # "idle"
    /\ row' = After(pc[q], row)
    /\ pc' = [pc EXCEPT ![q] = "idle"]
    /\ UNCHANGED <<workerVars, expiryVars>>

\* The write is refused by the database, or the process stops before it.
Abort(q) ==
    /\ pc[q] # "idle"
    /\ pc' = [pc EXCEPT ![q] = "idle"]
    /\ UNCHANGED <<row, workerVars, expiryVars>>

-----------------------------------------------------------------------------
(* The subscription worker.                                                *)

\* The jobs of an event, those being handled included.
Copies(e) == jobs[e] + Cardinality({w \in Workers : work[w].event = e})

\* The subscription service adds a job, perhaps again for the same event.
Publish(e) ==
    /\ Copies(e) < MaxJobs
    /\ jobs' = [jobs EXCEPT ![e] = @ + 1]
    /\ UNCHANGED <<row, processed, pc, work, mails, expiryVars>>

Take(w, e) ==
    /\ work[w] = Free
    /\ jobs[e] > 0
    /\ jobs' = [jobs EXCEPT ![e] = @ - 1]
    /\ work' = [work EXCEPT ![w] = [step |-> "lookup", event |-> e]]
    /\ UNCHANGED <<row, processed, pc, mails, expiryVars>>

\* The transaction starts: an event already processed ends the job.
Lookup(w) ==
    /\ work[w].step = "lookup"
    /\ work' = [work EXCEPT ![w] = IF @.event \in processed THEN Free
                                   ELSE [@ EXCEPT !.step = "apply"]]
    /\ UNCHANGED <<row, processed, pc, jobs, mails, expiryVars>>

\* Slip: no unique key on the events processed.
ApplyEventAgain(w) ==
    LET e == work[w].event
    IN  /\ work[w].step = "apply"
        /\ row' = [row EXCEPT !.status = "ACTIVE", !.period = e,
                              !.isSubscriptionActive = TRUE]
        /\ processed' = processed \cup {e}
        /\ work' = [work EXCEPT ![w].step = "mail"]
        /\ UNCHANGED <<pc, jobs, mails, expiryVars>>

\* The transaction commits: the row is written whatever it holds, unless
\* another handler has processed the event since (its key is unique).
ApplyEvent(w) ==
    LET e == work[w].event
    IN  /\ work[w].step = "apply"
        /\ IF e \in processed
           THEN /\ work' = [work EXCEPT ![w] = Free]
                /\ UNCHANGED <<row, processed>>
           ELSE /\ row' = [row EXCEPT !.status = "ACTIVE", !.period = e,
                                      !.isSubscriptionActive = TRUE]
                /\ processed' = processed \cup {e}
                /\ work' = [work EXCEPT ![w].step = "mail"]
        /\ UNCHANGED <<pc, jobs, mails, expiryVars>>

\* The owner is looked up and the mail put in the queue.
Mail(w) ==
    /\ work[w].step = "mail"
    /\ mails' = [mails EXCEPT ![work[w].event] = @ + 1]
    /\ work' = [work EXCEPT ![w] = Free]
    /\ UNCHANGED <<row, processed, pc, jobs, expiryVars>>

\* The handler throws or its process dies: a transaction that did not commit
\* leaves nothing, and the queue hands the job out again,
Retry(w) ==
    /\ work[w] # Free
    /\ jobs' = [jobs EXCEPT ![work[w].event] = @ + 1]
    /\ work' = [work EXCEPT ![w] = Free]
    /\ UNCHANGED <<row, processed, pc, mails, expiryVars>>

\* or has no attempts left and gives it up.
GiveUp(w) ==
    /\ work[w] # Free
    /\ work' = [work EXCEPT ![w] = Free]
    /\ UNCHANGED <<row, processed, pc, jobs, mails, expiryVars>>

\* The handler is slow: the queue takes the job for stalled and hands it out
\* again while it is still being handled.
Stall(w) ==
    /\ work[w] # Free
    /\ Copies(work[w].event) < MaxJobs
    /\ jobs' = [jobs EXCEPT ![work[w].event] = @ + 1]
    /\ UNCHANGED <<row, processed, pc, work, mails, expiryVars>>

-----------------------------------------------------------------------------
(* SubscriptionExpiryService.                                              *)

ExpiryStart ==
    /\ ~isRunning
    /\ isRunning' = TRUE
    /\ cutoff' = clock
    /\ UNCHANGED <<row, workerVars, pc, clock>>

\* Slip: a period over at the very moment of the run taken for past due.
ExpiryUpdateAtEnd ==
    /\ isRunning
    /\ isRunning' = FALSE
    /\ row' = IF row.isSubscriptionActive /\ EndOf[row.period] <= cutoff
              THEN [row EXCEPT !.isSubscriptionActive = FALSE] ELSE row
    /\ UNCHANGED <<workerVars, pc, cutoff, clock>>

\* Slip: the flag left up at the end of the run.
ExpiryUpdateFlagUp ==
    /\ isRunning
    /\ row' = IF row.isSubscriptionActive /\ EndOf[row.period] < cutoff
              THEN [row EXCEPT !.isSubscriptionActive = FALSE] ELSE row
    /\ UNCHANGED <<workerVars, pc, isRunning, cutoff, clock>>

\* Slip: a period still running taken for past due.
ExpiryUpdateAny ==
    /\ isRunning
    /\ isRunning' = FALSE
    /\ row' = [row EXCEPT !.isSubscriptionActive = FALSE]
    /\ UNCHANGED <<workerVars, pc, cutoff, clock>>

\* updateMany: one statement, on the row as it then is.
ExpiryUpdate ==
    /\ isRunning
    /\ isRunning' = FALSE
    /\ row' = IF row.isSubscriptionActive /\ EndOf[row.period] < cutoff
              THEN [row EXCEPT !.isSubscriptionActive = FALSE] ELSE row
    /\ UNCHANGED <<workerVars, pc, cutoff, clock>>

\* The update throws (finally takes the flag down), or the process restarts.
ExpiryFails ==
    /\ isRunning
    /\ isRunning' = FALSE
    /\ UNCHANGED <<row, workerVars, pc, cutoff, clock>>

Tick ==
    /\ clock < Horizon
    /\ clock' = clock + 1
    /\ UNCHANGED <<row, workerVars, pc, isRunning, cutoff>>

-----------------------------------------------------------------------------
\* The restaurant was created by the verification of its e-mail address.
Init ==
    /\ row = [status |-> "PENDING", onboarded |-> FALSE, isBlocked |-> FALSE,
              rejected |-> FALSE, isSubscriptionActive |-> FALSE,
              period |-> NoEvent]
    /\ processed = {}
    /\ pc = [q \in Requests |-> "idle"]
    /\ jobs = [e \in Events |-> 0]
    /\ work = [w \in Workers |-> Free]
    /\ mails = [e \in Events |-> 0]
    /\ isRunning = FALSE
    /\ cutoff = 0
    /\ clock = 0

RequestStep(q) == Write(q) \/ Abort(q) \/ \E op \in UseCases : Read(q, op)

Handle(w) == Lookup(w) \/ ApplyEvent(w) \/ Mail(w)

WorkerStep(w) ==
    \/ Handle(w) \/ Retry(w) \/ GiveUp(w) \/ Stall(w)
    \/ \E e \in Events : Take(w, e)

ExpiryStep == ExpiryStart \/ ExpiryUpdate \/ ExpiryFails

Next ==
    \/ \E q \in Requests : RequestStep(q)
    \/ \E e \in Events : Publish(e)
    \/ \E w \in Workers : WorkerStep(w)
    \/ ExpiryStep
    \/ Tick

Spec == Init /\ [][Next]_vars

\* setInterval keeps starting runs, and the database answers some of them.
Fairness ==
    /\ WF_vars(ExpiryStart)
    /\ SF_vars(ExpiryUpdate)

FairSpec == Spec /\ Fairness

-----------------------------------------------------------------------------
TypeOK ==
    /\ row \in Row
    /\ processed \subseteq Events
    /\ pc \in [Requests -> UseCases \cup {"idle"}]
    /\ jobs \in [Events -> Nat]
    /\ work \in [Workers -> Handler \cup {Free}]
    /\ mails \in [Events -> Nat]
    /\ isRunning \in BOOLEAN
    /\ cutoff \in 0..Horizon
    /\ clock \in 0..Horizon

\* Only a restaurant whose onboarding is complete was ever reviewed or blocked,
\* although onboarding is tested on an earlier reading than the write's.
ReviewedAfterOnboarding ==
    (row.status \in {"APPROVED", "REJECTED", "SUSPENDED"} \/ row.isBlocked)
        => row.onboarded

\* A rejected restaurant has a reason and an approved one has none, whichever
\* of two concurrent reviews is written last.
ReasonMatchesDecision ==
    /\ row.status = "REJECTED" => row.rejected
    /\ row.status = "APPROVED" => ~row.rejected

\* However often the job of an event is delivered, and to however many
\* handlers at a time, its mail is enqueued at most once, and only after the
\* event was applied.
MailedAtMostOnce ==
    \A e \in Events : mails[e] <= IF e \in processed THEN 1 ELSE 0

\* The feed of subscription events as the rest of the service may think of it.
Feed == INSTANCE SubscriptionFeed WITH
    applied <- processed,
    period  <- row.period,
    active  <- row.isSubscriptionActive,
    time    <- clock

\* Deliveries, retries, concurrent handlers and reviews amount to events
\* applied at most once each, at one instant, and expirations of past periods.
ImplementsFeedSafely == Feed!FeedSafety

\* And a subscription whose period is over eventually becomes inactive or is
\* renewed, although runs of the timer may fail.
ImplementsFeed == Feed!FeedSpec

-----------------------------------------------------------------------------
(* The inductive invariant.                                                *)

\* A request whose write depends on complete onboarding read it complete.
ReviewInv ==
    \A q \in Requests :
        pc[q] \in {"approve", "reject", "block", "unblock"} => row.onboarded

\* The mail of an event that was applied is enqueued, or in one pair of hands.
MailInv ==
    \A w \in Workers : work[w].step = "mail" =>
        /\ work[w].event \in processed
        /\ mails[work[w].event] = 0
        /\ \A v \in Workers : work[v].step = "mail" /\ work[v].event = work[w].event
                              => v = w

PeriodInv == row.isSubscriptionActive => row.period \in processed

\* A run of the timer works with a time that has come.
CutoffInv == cutoff <= clock

LifecycleInv ==
    /\ TypeOK
    /\ ReviewedAfterOnboarding
    /\ ReasonMatchesDecision
    /\ MailedAtMostOnce
    /\ ReviewInv
    /\ MailInv
    /\ PeriodInv
    /\ CutoffInv
=============================================================================
