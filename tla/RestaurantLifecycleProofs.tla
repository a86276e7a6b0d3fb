---------------------- MODULE RestaurantLifecycleProofs ----------------------
(***************************************************************************)
(* What RestaurantLifecycle guarantees for any number of requests, events, *)
(* handlers, copies of a job and for any length of time: its inductive     *)
(* invariant, and that the deliveries of the worker and the runs of the    *)
(* timer implement the subscription feed; and that the readers of the row  *)
(* agree, whoever writes it.                                               *)
(***************************************************************************)
EXTENDS RestaurantAccess, TLAPS

\* The part of the invariant about the row and the requests that review it.
ReviewPart ==
    /\ row \in Row
    /\ pc \in [Requests -> UseCases \cup {"idle"}]
    /\ ReviewedAfterOnboarding
    /\ ReasonMatchesDecision
    /\ ReviewInv

\* The part about the jobs of the worker and their mails.
WorkerPart ==
    /\ processed \subseteq Events
    /\ jobs \in [Events -> Nat]
    /\ work \in [Workers -> Handler \cup {Free}]
    /\ mails \in [Events -> Nat]
    /\ MailedAtMostOnce
    /\ MailInv

\* The part about the timer.
ExpiryPart ==
    /\ isRunning \in BOOLEAN
    /\ cutoff \in 0..Horizon
    /\ clock \in 0..Horizon
    /\ CutoffInv

\* The invariant is the three parts and the link between the row and the events.
LEMMA LifecycleInvParts ==
    /\ LifecycleInv <=> ReviewPart /\ WorkerPart /\ ExpiryPart /\ PeriodInv
    /\ LifecycleInv' <=> ReviewPart' /\ WorkerPart' /\ ExpiryPart' /\ PeriodInv'
  BY DEF LifecycleInv, TypeOK, ReviewPart, WorkerPart, ExpiryPart

-----------------------------------------------------------------------------
(* Requests.                                                               *)

\* What a use case writes keeps the row typed and reviewed after onboarding,
\* with the reason its decision needs, when onboarding was complete or the use
\* case completes it.
LEMMA AfterKeeps ==
    ASSUME ReviewPart, NEW op \in UseCases, op # "onboard" => row.onboarded
    PROVE  LET r == After(op, row)
           IN  /\ r \in Row
               /\ r.onboarded
               /\ r.status = "REJECTED" => r.rejected
               /\ r.status = "APPROVED" => ~r.rejected
               /\ r.period = row.period
               /\ r.isSubscriptionActive = row.isSubscriptionActive
  <1> USE DEF ReviewPart, Row, Statuses
  <1>1. CASE op = "onboard"
    BY <1>1 DEF After, Onboarded
  <1>2. CASE op = "approve"
    BY <1>2 DEF After, Approved
  <1>3. CASE op = "reject"
    BY <1>3 DEF After, Rejected
  <1>4. CASE op = "block"
    BY <1>4 DEF After, Blocked
  <1>5. CASE op = "unblock"
    BY <1>5 DEF After, Unblocked
  <1> QED
    BY <1>1, <1>2, <1>3, <1>4, <1>5 DEF UseCases, ReviewUseCases, BlockUseCases

\* Reading the row keeps the review part: the guards of the four reviews
\* include complete onboarding, which no write ever takes back.
LEMMA ReadKeeps ==
    ASSUME ReviewPart, NEW q \in Requests, NEW op \in UseCases, Read(q, op)
    PROVE  ReviewPart'
  <1>1. pc' \in [Requests -> UseCases \cup {"idle"}]
    BY DEF ReviewPart, Read
  <1>2. ReviewInv'
    BY DEF ReviewPart, ReviewInv, Read, Accepts, IsReviewable, IsManaged,
       UseCases, ReviewUseCases, BlockUseCases
  <1> QED
    BY <1>1, <1>2
    DEF ReviewPart, Read, ReviewedAfterOnboarding, ReasonMatchesDecision

\* Writing it keeps the review part, however old the reading.
LEMMA WriteKeeps ==
    ASSUME ReviewPart, NEW q \in Requests, Write(q)
    PROVE  /\ ReviewPart'
           /\ row'.period = row.period
           /\ row'.isSubscriptionActive = row.isSubscriptionActive
  <1>1. pc[q] \in UseCases /\ (pc[q] # "onboard" => row.onboarded)
    BY DEF ReviewPart, ReviewInv, Write, UseCases, ReviewUseCases, BlockUseCases
  <1>2. row' = After(pc[q], row)
    BY DEF Write
  <1>3. /\ row' \in Row
        /\ row'.onboarded
        /\ row'.status = "REJECTED" => row'.rejected
        /\ row'.status = "APPROVED" => ~row'.rejected
        /\ row'.period = row.period
        /\ row'.isSubscriptionActive = row.isSubscriptionActive
    BY <1>1, <1>2, AfterKeeps
  <1>4. pc' \in [Requests -> UseCases \cup {"idle"}]
    BY DEF ReviewPart, Write
  <1>5. ReviewedAfterOnboarding' /\ ReasonMatchesDecision' /\ ReviewInv'
    BY <1>3 DEF ReviewedAfterOnboarding, ReasonMatchesDecision, ReviewInv
  <1> QED
    BY <1>3, <1>4, <1>5 DEF ReviewPart

\* A step of a request keeps the invariant.
LEMMA RequestStepKeeps ==
    ASSUME LifecycleInv, NEW q \in Requests, RequestStep(q)
    PROVE  LifecycleInv'
  <1> USE LifecycleInvParts
  <1>1. UNCHANGED <<processed, jobs, work, mails, isRunning, cutoff, clock>>
    BY DEF RequestStep, Read, Write, Abort, workerVars, expiryVars
  <1>2. WorkerPart' /\ ExpiryPart'
    BY <1>1 DEF WorkerPart, ExpiryPart, CutoffInv, MailedAtMostOnce, MailInv
  <1>3. CASE Write(q)
    <2>1. ReviewPart'
      BY <1>3, WriteKeeps
    <2>2. PeriodInv'
      BY <1>1, <1>3, WriteKeeps DEF PeriodInv
    <2> QED
      BY <1>2, <2>1, <2>2
  <1>4. CASE Abort(q)
    <2>1. ReviewPart'
      BY <1>4 DEF ReviewPart, ReviewInv, Abort, ReviewedAfterOnboarding,
                  ReasonMatchesDecision
    <2>2. PeriodInv'
      BY <1>1, <1>4 DEF PeriodInv, Abort
    <2> QED
      BY <1>2, <2>1, <2>2
  <1>5. ASSUME NEW op \in UseCases, Read(q, op)
        PROVE  LifecycleInv'
    <2>1. ReviewPart'
      BY <1>5, ReadKeeps
    <2>2. PeriodInv'
      BY <1>1, <1>5 DEF PeriodInv, Read
    <2> QED
      BY <1>2, <2>1, <2>2
  <1> QED
    BY <1>3, <1>4, <1>5 DEF RequestStep

-----------------------------------------------------------------------------
(* The worker.                                                             *)

\* Nothing but requests moves "pc", and a row that is left alone keeps the
\* review part.
LEMMA ReviewPartUnchanged ==
    ASSUME ReviewPart, UNCHANGED <<row, pc>>
    PROVE  ReviewPart'
  BY DEF ReviewPart, ReviewedAfterOnboarding, ReasonMatchesDecision, ReviewInv

\* A step that only moves copies of jobs between the queue and handlers that
\* hold no mail keeps the part about the worker.
LEMMA MoveKeeps ==
    ASSUME WorkerPart, UNCHANGED <<processed, mails>>,
           jobs' \in [Events -> Nat],
           work' \in [Workers -> Handler \cup {Free}],
           \A w \in Workers : work'[w].step = "mail" => work'[w] = work[w]
    PROVE  WorkerPart'
  <1>1. MailedAtMostOnce'
    BY DEF WorkerPart, MailedAtMostOnce
  <1>2. MailInv'
    BY DEF WorkerPart, MailInv
  <1> QED
    BY <1>1, <1>2 DEF WorkerPart

\* Publication, delivery, look-up, retry, giving up and stalling move copies.
LEMMA MovesKeep ==
    ASSUME LifecycleInv, NEW w \in Workers, NEW e \in Events,
           \/ Publish(e) \/ Take(w, e) \/ Lookup(w)
           \/ Retry(w) \/ GiveUp(w) \/ Stall(w)
    PROVE  LifecycleInv'
  <1> USE LifecycleInvParts
  <1>1. UNCHANGED <<row, pc, processed, mails, isRunning, cutoff, clock>>
    BY DEF Publish, Take, Lookup, Retry, GiveUp, Stall, expiryVars
  <1>2. jobs' \in [Events -> Nat]
    <2>1. work[w] # Free => work[w].event \in Events
      BY DEF WorkerPart, Handler
    <2> QED
      BY <2>1 DEF WorkerPart, Publish, Take, Lookup, Retry, GiveUp, Stall
  <1>3. /\ work' \in [Workers -> Handler \cup {Free}]
        /\ \A v \in Workers : work'[v].step = "mail" => work'[v] = work[v]
    <2>1. CASE UNCHANGED work
      BY <2>1 DEF WorkerPart
    <2>2. CASE work' = [work EXCEPT ![w] = Free]
      BY <2>2 DEF WorkerPart, Free
    <2>3. CASE Take(w, e)
      BY <2>3 DEF WorkerPart, Take, Handler
    <2>4. CASE work' = [work EXCEPT ![w] = [@ EXCEPT !.step = "apply"]]
               /\ work[w].step = "lookup"
      BY <2>4 DEF WorkerPart, Handler, Free
    <2>5. CASE Lookup(w)
      BY <2>2, <2>4, <2>5 DEF Lookup
    <2> QED
      BY <2>1, <2>2, <2>3, <2>5 DEF Publish, Retry, GiveUp, Stall
  <1>4. WorkerPart'
    BY <1>1, <1>2, <1>3, MoveKeeps
  <1>5. ReviewPart'
    BY <1>1, ReviewPartUnchanged
  <1> QED
    BY <1>1, <1>4, <1>5 DEF ExpiryPart, CutoffInv, PeriodInv

\* The commit of an activation: the key of the event makes it happen once, so
\* no mail of this event was enqueued and no other handler is about to.
LEMMA ApplyEventKeeps ==
    ASSUME LifecycleInv, NEW w \in Workers, ApplyEvent(w)
    PROVE  LifecycleInv'
  <1> USE LifecycleInvParts
  <1> DEFINE e == work[w].event
  <1>1. e \in Events /\ work[w] \in Handler
    BY DEF ApplyEvent, WorkerPart, Handler, Free
  <1>2. UNCHANGED <<pc, jobs, mails, isRunning, cutoff, clock>>
    BY DEF ApplyEvent, expiryVars
  <1>3. ExpiryPart'
    BY <1>2 DEF ExpiryPart, CutoffInv
  <1>4. CASE e \in processed
    <2>1. work' = [work EXCEPT ![w] = Free] /\ UNCHANGED <<row, processed>>
      BY <1>4 DEF ApplyEvent
    <2>2. WorkerPart'
      BY <1>2, <2>1, MoveKeeps DEF WorkerPart, Free
    <2>3. ReviewPart'
      BY <1>2, <2>1, ReviewPartUnchanged
    <2> QED
      BY <1>3, <2>1, <2>2, <2>3 DEF PeriodInv
  <1>5. CASE e \notin processed
    <2>1. /\ row' = [row EXCEPT !.status = "ACTIVE", !.period = e,
                                !.isSubscriptionActive = TRUE]
          /\ processed' = processed \cup {e}
          /\ work' = [work EXCEPT ![w].step = "mail"]
      BY <1>5 DEF ApplyEvent
    <2>2. ReviewPart'
      <3>1. /\ row' \in Row
            /\ row'.status = "ACTIVE"
            /\ row'.onboarded = row.onboarded
            /\ row'.isBlocked = row.isBlocked
        BY <1>1, <2>1 DEF ReviewPart, Row, Statuses
      <3> QED
        BY <1>2, <3>1 DEF ReviewPart, ReviewedAfterOnboarding,
                          ReasonMatchesDecision, ReviewInv
    <2>3. PeriodInv'
      BY <2>1 DEF PeriodInv, ReviewPart, Row
    <2>4. mails[e] = 0
      BY <1>1, <1>5 DEF WorkerPart, MailedAtMostOnce
    <2>5. work' \in [Workers -> Handler \cup {Free}]
      BY <1>1, <2>1 DEF WorkerPart, Handler
    <2>6. /\ work'[w].event = e
          /\ \A v \in Workers \ {w} : work'[v] = work[v]
      BY <1>1, <2>1 DEF WorkerPart, Handler
    <2>7. \A v \in Workers \ {w} : work[v].step = "mail" => work[v].event # e
      BY <1>5 DEF WorkerPart, MailInv
    <2>8. MailInv'
      BY <1>2, <2>1, <2>4, <2>6, <2>7 DEF WorkerPart, MailInv
    <2>9. MailedAtMostOnce'
      BY <1>2, <2>1, <2>4 DEF WorkerPart, MailedAtMostOnce
    <2> QED
      BY <1>1, <1>2, <1>3, <2>1, <2>2, <2>3, <2>5, <2>8, <2>9 DEF WorkerPart
  <1> QED
    BY <1>4, <1>5

\* Enqueuing the mail: this handler alone held it.
LEMMA MailKeeps ==
    ASSUME LifecycleInv, NEW w \in Workers, Mail(w)
    PROVE  LifecycleInv'
  <1> USE LifecycleInvParts
  <1> DEFINE e == work[w].event
  <1>1. e \in Events /\ e \in processed /\ mails[e] = 0
    BY DEF Mail, WorkerPart, MailInv, Handler, Free
  <1>2. /\ mails' = [mails EXCEPT ![e] = @ + 1]
        /\ work' = [work EXCEPT ![w] = Free]
        /\ UNCHANGED <<row, processed, pc, jobs, isRunning, cutoff, clock>>
    BY DEF Mail, expiryVars
  <1>3. /\ mails' \in [Events -> Nat]
        /\ mails'[e] = 1
        /\ \A d \in Events \ {e} : mails'[d] = mails[d]
    BY <1>1, <1>2 DEF WorkerPart
  <1>4. /\ work' \in [Workers -> Handler \cup {Free}]
        /\ work'[w].step # "mail"
        /\ \A v \in Workers \ {w} : work'[v] = work[v]
    BY <1>2 DEF WorkerPart, Free
  <1>5. MailedAtMostOnce'
    BY <1>1, <1>2, <1>3 DEF WorkerPart, MailedAtMostOnce
  <1>6. \A v \in Workers \ {w} : work[v].step = "mail" =>
            work[v].event \in Events \ {e}
    BY DEF Mail, WorkerPart, MailInv, Handler, Free
  <1>7. MailInv'
    BY <1>2, <1>3, <1>4, <1>6 DEF WorkerPart, MailInv
  <1>8. ReviewPart'
    BY <1>2, ReviewPartUnchanged
  <1> QED
    BY <1>2, <1>3, <1>4, <1>5, <1>7, <1>8
    DEF WorkerPart, ExpiryPart, CutoffInv, PeriodInv

-----------------------------------------------------------------------------
(* The timer, and the whole.                                               *)

\* A run of the timer and the clock keep the invariant.
LEMMA ExpiryKeeps ==
    ASSUME LifecycleInv, ExpiryStep \/ Tick
    PROVE  LifecycleInv'
  <1> USE LifecycleInvParts, LifecycleAssumption
  <1>1. UNCHANGED <<processed, jobs, work, mails, pc>>
    BY DEF ExpiryStep, ExpiryStart, ExpiryUpdate, ExpiryFails, Tick, workerVars
  <1>2. WorkerPart'
    BY <1>1 DEF WorkerPart, MailedAtMostOnce, MailInv
  <1>3. ExpiryPart'
    <2>1. CASE Tick
      BY <2>1 DEF ExpiryPart, CutoffInv, Tick
    <2>2. CASE ExpiryStep
      <3>1. isRunning' \in BOOLEAN /\ clock' = clock /\ cutoff' \in {cutoff, clock}
        BY <2>2 DEF ExpiryStep, ExpiryStart, ExpiryUpdate, ExpiryFails
      <3> QED
        BY <3>1 DEF ExpiryPart, CutoffInv
    <2> QED
      BY <2>1, <2>2
  <1>4. CASE UNCHANGED row
    BY <1>1, <1>2, <1>3, <1>4, ReviewPartUnchanged DEF PeriodInv
  <1>5. CASE row' = [row EXCEPT !.isSubscriptionActive = FALSE]
    <2>1. /\ row' \in Row
          /\ row'.status = row.status
          /\ row'.onboarded = row.onboarded
          /\ row'.isBlocked = row.isBlocked
          /\ row'.rejected = row.rejected
          /\ ~row'.isSubscriptionActive
      BY <1>5 DEF ReviewPart, Row
    <2>2. ReviewPart'
      BY <1>1, <2>1 DEF ReviewPart, ReviewedAfterOnboarding,
                        ReasonMatchesDecision, ReviewInv
    <2> QED
      BY <1>2, <1>3, <2>1, <2>2 DEF PeriodInv
  <1> QED
    BY <1>4, <1>5 DEF ExpiryStep, ExpiryStart, ExpiryUpdate, ExpiryFails, Tick

\* The invariant holds of a restaurant that was just created.
LEMMA LifecycleInit == Init => LifecycleInv
  <1> SUFFICES ASSUME Init PROVE LifecycleInv
    OBVIOUS
  <1>1. ReviewPart
    BY DEF Init, ReviewPart, Row, Statuses, ReviewedAfterOnboarding,
           ReasonMatchesDecision, ReviewInv
  <1>2. WorkerPart
    BY DEF Init, WorkerPart, Free, MailedAtMostOnce, MailInv
  <1>3. ExpiryPart
    <2>1. 0 \in 0..Horizon
      BY LifecycleAssumption
    <2>2. cutoff <= clock
      BY DEF Init
    <2> QED
      BY <2>1, <2>2 DEF Init, ExpiryPart, CutoffInv
  <1>4. PeriodInv
    BY DEF Init, PeriodInv
  <1> QED
    BY <1>1, <1>2, <1>3, <1>4, LifecycleInvParts

\* Every step keeps it.
LEMMA LifecycleNext == LifecycleInv /\ [Next]_vars => LifecycleInv'
  <1> SUFFICES ASSUME LifecycleInv, [Next]_vars PROVE LifecycleInv'
    OBVIOUS
  <1>1. ASSUME NEW q \in Requests, RequestStep(q) PROVE LifecycleInv'
    BY <1>1, RequestStepKeeps
  <1>2. ASSUME NEW e \in Events, Publish(e) PROVE LifecycleInv'
    <2> USE LifecycleInvParts
    <2>1. UNCHANGED <<row, pc, processed, work, mails, isRunning, cutoff, clock>>
      BY <1>2 DEF Publish, expiryVars
    <2>2. jobs' \in [Events -> Nat]
      BY <1>2 DEF WorkerPart, Publish
    <2>3. WorkerPart'
      BY <2>1, <2>2, MoveKeeps DEF WorkerPart
    <2> QED
      BY <2>1, <2>3, ReviewPartUnchanged DEF ExpiryPart, CutoffInv, PeriodInv
  <1>3. ASSUME NEW w \in Workers, WorkerStep(w) PROVE LifecycleInv'
    <2>1. CASE ApplyEvent(w)
      BY <2>1, ApplyEventKeeps
    <2>2. CASE Mail(w)
      BY <2>2, MailKeeps
    <2>3. CASE Lookup(w) \/ Retry(w) \/ GiveUp(w) \/ Stall(w)
      <3>1. PICK e \in Events : TRUE
        BY <2>3 DEF Lookup, Retry, GiveUp, Stall, LifecycleInv, TypeOK, Handler, Free
      <3> QED
        BY <2>3, <3>1, MovesKeep
    <2>4. ASSUME NEW e \in Events, Take(w, e) PROVE LifecycleInv'
      BY <2>4, MovesKeep
    <2> QED
      BY <1>3, <2>1, <2>2, <2>3, <2>4 DEF WorkerStep, Handle
  <1>4. CASE ExpiryStep \/ Tick
    BY <1>4, ExpiryKeeps
  <1>5. CASE UNCHANGED vars
    BY <1>5 DEF vars, LifecycleInv, TypeOK, ReviewedAfterOnboarding,
       ReasonMatchesDecision, MailedAtMostOnce, ReviewInv, MailInv, PeriodInv,
       CutoffInv
  <1> QED
    BY <1>1, <1>2, <1>3, <1>4, <1>5 DEF Next

\* The invariant holds in every reachable state.
THEOREM LifecycleInvariant == Spec => []LifecycleInv
  BY LifecycleInit, LifecycleNext, PTL DEF Spec

\* Every variable keeps its type.
THEOREM LifecycleTypes == Spec => []TypeOK
  BY LifecycleInvariant, PTL DEF LifecycleInv

\* Only a restaurant whose onboarding is complete is ever approved, rejected
\* or blocked, although each use case tests this on an earlier reading.
THEOREM AlwaysReviewedAfterOnboarding == Spec => []ReviewedAfterOnboarding
  BY LifecycleInvariant, PTL DEF LifecycleInv

\* The stored reason agrees with the stored decision, whichever of any number
\* of concurrent reviews is written last.
THEOREM ReasonAlwaysMatches == Spec => []ReasonMatchesDecision
  BY LifecycleInvariant, PTL DEF LifecycleInv

\* However often and to however many handlers the job of an event is
\* delivered, its mail is enqueued at most once, after the event was applied.
THEOREM AlwaysMailedAtMostOnce == Spec => []MailedAtMostOnce
  BY LifecycleInvariant, PTL DEF LifecycleInv

-----------------------------------------------------------------------------
(* The refinement.                                                         *)

\* A step of the service is a step of the feed, or leaves it alone.
LEMMA FeedStep ==
    ASSUME LifecycleInv, [Next]_vars
    PROVE  [Feed!FeedNext]_(Feed!feedVars)
  <1> USE DEF Feed!feedVars
  <1> DEFINE same == UNCHANGED <<processed, row.period,
                                 row.isSubscriptionActive, clock>>
  <1>0. row \in Row
    BY DEF LifecycleInv, TypeOK
  <1>1. ASSUME NEW q \in Requests, RequestStep(q) PROVE same
    <2>1. CASE Write(q)
      <3>1. ReviewPart
        BY LifecycleInvParts
      <3> QED
        BY <2>1, <3>1, WriteKeeps DEF Write, workerVars, expiryVars
    <2>2. CASE Abort(q)
      BY <2>2 DEF Abort, workerVars, expiryVars
    <2>3. ASSUME NEW op \in UseCases, Read(q, op) PROVE same
      BY <2>3 DEF Read, workerVars, expiryVars
    <2> QED
      BY <1>1, <2>1, <2>2, <2>3 DEF RequestStep
  <1>2. ASSUME NEW e \in Events, Publish(e) PROVE same
    BY <1>2 DEF Publish, expiryVars
  <1>3. ASSUME NEW w \in Workers, ApplyEvent(w) PROVE Feed!FeedNext \/ same
    <2> DEFINE e == work[w].event
    <2>1. CASE e \in processed
      BY <1>3, <2>1 DEF ApplyEvent, expiryVars
    <2>2. CASE e \notin processed
      <3>1. e \in Events
        BY <1>3 DEF ApplyEvent, LifecycleInv, TypeOK, Handler, Free
      <3>2. Feed!Apply(e)
        BY <1>0, <1>3, <2>2 DEF ApplyEvent, expiryVars, Feed!Apply, Row
      <3> QED
        BY <3>1, <3>2 DEF Feed!FeedNext
    <2> QED
      BY <2>1, <2>2
  <1>4. ASSUME NEW w \in Workers, WorkerStep(w), ~ApplyEvent(w) PROVE same
    BY <1>4 DEF WorkerStep, Handle, Lookup, Mail, Retry, GiveUp, Stall, Take,
                expiryVars
  <1>5. CASE ExpiryStep
    <2>1. CASE ExpiryStart \/ ExpiryFails
      BY <2>1 DEF ExpiryStart, ExpiryFails, workerVars
    <2>2. CASE ExpiryUpdate /\ row' = row
      BY <2>2 DEF ExpiryUpdate, workerVars
    <2>3. CASE ExpiryUpdate /\ row' # row
      <3>1. /\ row.isSubscriptionActive
            /\ EndOf[row.period] < cutoff
            /\ row' = [row EXCEPT !.isSubscriptionActive = FALSE]
        BY <2>3 DEF ExpiryUpdate
      <3>2. EndOf[row.period] < clock
        BY <3>1, LifecycleAssumption
        DEF LifecycleInv, TypeOK, CutoffInv, PeriodInv
      <3>3. Feed!Expire
        BY <1>0, <2>3, <3>1, <3>2 DEF ExpiryUpdate, workerVars, Feed!Expire, Row
      <3> QED
        BY <3>3 DEF Feed!FeedNext
    <2> QED
      BY <1>5, <2>1, <2>2, <2>3 DEF ExpiryStep
  <1>6. CASE Tick
    BY <1>6 DEF Tick, workerVars, Feed!FeedNext, Feed!Pass
  <1>7. CASE UNCHANGED vars
    BY <1>7 DEF vars
  <1> QED
    BY <1>1, <1>2, <1>3, <1>4, <1>5, <1>6, <1>7 DEF Next

\* For any number of requests, handlers, deliveries and events: the feed.
THEOREM LifecycleImplementsFeed == Spec => ImplementsFeedSafely
  <1>1. Init => Feed!FeedInit
    BY DEF Init, Feed!FeedInit
  <1> QED
    BY <1>1, LifecycleInvariant, FeedStep, PTL
    DEF Spec, ImplementsFeedSafely, Feed!FeedSafety

-----------------------------------------------------------------------------
(* The readers.                                                            *)

\* No write leaves a restaurant INACTIVE, or SUSPENDED without a block.
LEMMA StatusStepKeeps ==
    ASSUME LifecycleInv, SuspendedInv, NeverInactive, [Next]_vars
    PROVE  SuspendedInv' /\ NeverInactive'
  <1>. row \in Row
    BY DEF LifecycleInv, TypeOK
  <1>1. CASE row' = row
    BY <1>1 DEF SuspendedInv, NeverInactive
  <1>2. ASSUME NEW q \in Requests, Write(q)
        PROVE  SuspendedInv' /\ NeverInactive'
    <2>1. pc[q] \in UseCases /\ row' = After(pc[q], row)
      BY <1>2 DEF LifecycleInv, TypeOK, Write
    <2>2. \/ row' = Approved(row)
          \/ row' = Rejected(row)
          \/ row' = Blocked(row)
          \/ row' = Unblocked(row)
          \/ row' = Onboarded(row)
      BY <2>1 DEF After, UseCases, ReviewUseCases, BlockUseCases
    <2>3. \/ row'.status = "SUSPENDED" /\ row'.isBlocked
          \/ row'.status \in {"APPROVED", "REJECTED", "ACTIVE", "PENDING"}
      BY <2>2 DEF Approved, Rejected, Blocked, Unblocked, Onboarded, Row
    <2> QED
      BY <2>3 DEF SuspendedInv, NeverInactive
  <1>3. ASSUME NEW w \in Workers, ApplyEvent(w)
        PROVE  SuspendedInv' /\ NeverInactive'
    <2>1. row' = row \/ row'.status = "ACTIVE"
      BY <1>3 DEF ApplyEvent, Row
    <2> QED
      BY <2>1 DEF SuspendedInv, NeverInactive
  <1>4. CASE ExpiryUpdate
    <2>1. row'.status = row.status /\ row'.isBlocked = row.isBlocked
      BY <1>4 DEF ExpiryUpdate, Row
    <2> QED
      BY <2>1 DEF SuspendedInv, NeverInactive
  <1>5. \/ row' = row
        \/ ExpiryUpdate
        \/ \E q \in Requests : Write(q)
        \/ \E w \in Workers : ApplyEvent(w)
    BY DEF Next, vars, RequestStep, Read, Abort, Publish, WorkerStep, Handle, Lookup, Mail,
       Retry, GiveUp, Stall, Take, ExpiryStep, ExpiryStart, ExpiryFails, Tick
  <1> QED
    BY <1>1, <1>2, <1>3, <1>4, <1>5

\* What customers see is one rule, up to the end of the period.
LEMMA RulesOfCustomers ==
    ASSUME LifecycleInv
    PROVE  CustomersAgree
  <1>1. /\ row \in Row
        /\ row.isSubscriptionActive => row.period # NoEvent /\ EndOf[row.period] \in Int
        /\ clock \in Int
    BY LifecycleAssumption DEF LifecycleInv, TypeOK, PeriodInv
  <1>2. /\ Opens(row, clock) => FoundInList(row)
        /\ FoundInList(row) => SeesMenuItem(row) /\ ServesMenuItem(row)
        /\ SeesMenuItem(row) /\ ~FoundInList(row) => ~row.onboarded
    BY DEF Opens, SeesDetails, FoundDetails, FoundInList, SeesMenuItem, ServesMenuItem
  <1>3. FoundInList(row) /\ ~Opens(row, clock) => EndOf[row.period] <= clock
    BY <1>1 DEF Opens, SeesDetails, FoundDetails, FoundInList, IsEligibleForCustomer,
       IsSubscriptionEligible, EndsAfter
  <1>4. \A b \in BOOLEAN :
           SeesQueue(row, b, clock) => Validation(row, b, clock).canAccessQueueService
    BY DEF SeesQueue, Validation
  <1> QED
    BY <1>2, <1>3, <1>4 DEF CustomersAgree

\* What administrators and owners see.
LEMMA RulesOfDesks ==
    ASSUME LifecycleInv, SuspendedInv, NeverInactive
    PROVE  DesksAgree
  <1>. /\ row \in Row
       /\ ReviewedAfterOnboarding
    BY DEF LifecycleInv, TypeOK
  <1>1. /\ Accepts("approve", row) <=> IsReviewable(row)
        /\ Accepts("block", row) <=> IsManaged(row) /\ ~row.isBlocked
        /\ Accepts("unblock", row) <=> IsManaged(row) /\ row.isBlocked
    BY DEF Accepts, ReviewUseCases
  <1>2. FoundInList(row) => FoundInRestaurants(row, "any") /\ Accepts("block", row)
    BY <1>1 DEF FoundInList, FoundInRestaurants, IsManaged, Statuses
  <1>3. row.onboarded => \E s \in Statuses : FoundInRestaurants(row, s)
                                              \/ FoundInApplications(row, s)
    BY DEF FoundInRestaurants, FoundInApplications, Statuses, Row
  <1>4. Accepts("approve", row) => FoundInApplications(row, "PENDING")
    BY <1>1 DEF IsReviewable, FoundInApplications
  <1>5. FoundCompleted(row) =>
          (row.isBlocked <=> Accepts("unblock", row)) /\ FoundInRestaurants(row, "any")
    BY <1>1 DEF FoundCompleted, IsManaged, FoundInRestaurants, Statuses
  <1>6. HasOperationalAccess(row) =>
          (VerificationStatus(row) = "UNDER_REVIEW" <=> Accepts("approve", row))
    BY <1>1 DEF HasOperationalAccess, VerificationStatus, IsReviewable, SuspendedInv,
       NeverInactive, Row, Statuses
  <1>7. NextStep(row) \in {"DASHBOARD", "SUBSCRIPTION"}
          => NavigationTarget(row) = NextStep(row)
    <2>1. row.status \notin {"PENDING", "REJECTED"}
            => NavigationTarget(row) = IF row.isSubscriptionActive THEN "DASHBOARD"
                                                                 ELSE "SUBSCRIPTION"
      BY DEF NavigationTarget
    <2> QED
      BY <2>1 DEF NextStep
  <1>8. NextStep(row) = "ONBOARDING" => VerificationStatus(row) \in {"SUBMITTED", "REJECTED"}
    BY DEF NextStep, VerificationStatus
  <1>9. FoundInList(row) => OwnsMenuItem(row) /\ NextStep(row) = "DASHBOARD"
    BY DEF FoundInList, OwnsMenuItem, NextStep
  <1> QED
    BY <1>2, <1>3, <1>4, <1>5, <1>6, <1>7, <1>8, <1>9 DEF DesksAgree

\* The rule of the customers in full.
LEMMA WhoIsOpen ==
    ASSUME NEW r, NEW now
    PROVE  Opens(r, now) <=> /\ r.status = "ACTIVE"
                             /\ ~r.isBlocked
                             /\ r.isSubscriptionActive
                             /\ r.onboarded
                             /\ EndsAfter(r, now)
  BY DEF Opens, SeesDetails, FoundDetails, IsEligibleForCustomer, IsSubscriptionEligible

\* What a step does to the row and the clock.
LEMMA StepsOfAccess ==
    ASSUME [Next]_vars
    PROVE  \/ row' = row /\ clock' = clock
           \/ row' = row /\ clock' = clock + 1
           \/ ExpiryUpdate
           \/ \E q \in Requests : Write(q)
           \/ \E w \in Workers : ApplyEvent(w)
  BY DEF Next, vars, expiryVars, RequestStep, Read, Abort, Publish, WorkerStep, Handle,
     Lookup, Mail, Retry, GiveUp, Stall, Take, ExpiryStep, ExpiryStart, ExpiryFails, Tick

\* A write of a request is told by its use case.
LEMMA WritesTold ==
    ASSUME LifecycleInv, NEW q \in Requests, Write(q)
    PROVE  \/ row' = Approved(row) /\ Written({"block", "onboard", "approve", "reject"})
           \/ row' = Rejected(row) /\ Written({"block", "onboard", "approve", "reject"})
           \/ row' = Blocked(row) /\ Written({"block", "onboard", "approve", "reject"})
           \/ row' = Onboarded(row) /\ Written({"block", "onboard", "approve", "reject"})
           \/ row' = Unblocked(row) /\ Written({"unblock"})
  <1>1. pc[q] \in UseCases /\ pc'[q] = "idle" /\ row' = After(pc[q], row)
    BY DEF LifecycleInv, TypeOK, Write
  <1>2. \A ops : pc[q] \in ops => Written(ops)
    BY <1>1 DEF Written
  <1>3. CASE pc[q] = "unblock"
    <2>1. Written({"unblock"})
      BY <1>2, <1>3
    <2> QED
      BY <1>1, <1>3, <2>1 DEF After
  <1>4. CASE pc[q] # "unblock"
    <2>1. pc[q] \in {"block", "onboard", "approve", "reject"}
      BY <1>1, <1>4 DEF UseCases, ReviewUseCases, BlockUseCases
    <2>2. Written({"block", "onboard", "approve", "reject"})
      BY <1>2, <2>1
    <2> QED
      BY <1>1, <2>1, <2>2 DEF After
  <1> QED
    BY <1>3, <1>4

\* The activation of an event writes its period.
LEMMA ActivationTold ==
    ASSUME LifecycleInv, NEW w \in Workers, ApplyEvent(w), row' # row
    PROVE  \E e \in Events :
              /\ Activated(e) /\ clock' = clock
              /\ row'.period = e /\ row'.status = "ACTIVE" /\ row'.isSubscriptionActive
              /\ row'.isBlocked = row.isBlocked /\ row'.onboarded = row.onboarded
  <1> DEFINE e == work[w].event
  <1>1. e \in Events
    BY DEF LifecycleInv, TypeOK, ApplyEvent, Handler, Free
  <1>2. /\ row' = [row EXCEPT !.status = "ACTIVE", !.period = e, !.isSubscriptionActive = TRUE]
        /\ e \notin processed /\ processed' = processed \cup {e} /\ clock' = clock
    BY DEF ApplyEvent, expiryVars
  <1>3. row \in Row
    BY DEF LifecycleInv, TypeOK
  <1> HIDE DEF e
  <1> QED
    BY <1>1, <1>2, <1>3 DEF Row, Activated

LEMMA AccessBeginsStep ==
    ASSUME LifecycleInv, [Next]_vars, ~Opens(row, clock), Opens(row', clock')
    PROVE  \/ \E e \in Events : Activated(e) /\ EndOf[e] > clock
           \/ Written({"unblock"})
  <1>. row \in Row /\ clock \in Int /\ \A e \in Events : EndOf[e] \in Int
    BY LifecycleAssumption DEF LifecycleInv, TypeOK
  <1>1. ~(row' = row /\ clock' = clock)
    OBVIOUS
  <1>2. ~(row' = row /\ clock' = clock + 1)
    <2> SUFFICES ASSUME row' = row, clock' = clock + 1
                 PROVE  FALSE
      OBVIOUS
    <2>1. EndsAfter(row, clock + 1) => EndsAfter(row, clock)
      BY DEF EndsAfter, Row
    <2> QED
      BY <2>1, WhoIsOpen
  <1>3. ~ExpiryUpdate
    <2> SUFFICES ASSUME ExpiryUpdate
                 PROVE  FALSE
      OBVIOUS
    <2>1. clock' = clock /\ (row' = row \/ ~row'.isSubscriptionActive)
      BY DEF ExpiryUpdate, Row
    <2> QED
      BY <2>1, WhoIsOpen
  <1>4. ASSUME NEW q \in Requests, Write(q)
        PROVE  Written({"unblock"})
    <2>1. row'.status = "ACTIVE"
      BY WhoIsOpen
    <2> QED
      BY <1>4, <2>1, WritesTold DEF Approved, Rejected, Blocked, Onboarded, Row
  <1>5. ASSUME NEW w \in Workers, ApplyEvent(w)
        PROVE  \E e \in Events : Activated(e) /\ EndOf[e] > clock
    <2>1. clock' = clock
      BY <1>5 DEF ApplyEvent, expiryVars
    <2>2. row' # row
      BY <1>1, <2>1
    <2>3. PICK e \in Events : Activated(e) /\ row'.period = e
      BY <1>5, <2>2, ActivationTold
    <2>4. EndsAfter(row', clock)
      BY <2>1, WhoIsOpen
    <2>5. e # NoEvent
      BY LifecycleAssumption
    <2> QED
      BY <2>3, <2>4, <2>5 DEF EndsAfter
  <1> QED
    BY <1>1, <1>2, <1>3, <1>4, <1>5, StepsOfAccess

LEMMA AccessEndsStep ==
    ASSUME LifecycleInv, [Next]_vars, Opens(row, clock), ~Opens(row', clock')
    PROVE  \/ clock' = EndOf[row.period]
           \/ Written({"block", "onboard", "approve", "reject"})
           \/ \E e \in Events : Activated(e) /\ EndOf[e] <= clock
  <1>. /\ row \in Row /\ clock \in Int /\ cutoff \in Int /\ cutoff <= clock
       /\ \A e \in Events : EndOf[e] \in Int
    BY LifecycleAssumption DEF LifecycleInv, TypeOK, CutoffInv
  <1>0. /\ row.status = "ACTIVE" /\ ~row.isBlocked /\ row.isSubscriptionActive /\ row.onboarded
        /\ EndsAfter(row, clock)
    BY WhoIsOpen
  <1>1. row.period \in Events /\ EndOf[row.period] > clock
    BY <1>0, LifecycleAssumption DEF LifecycleInv, TypeOK, PeriodInv, EndsAfter
  <1>2. ~(row' = row /\ clock' = clock)
    OBVIOUS
  <1>3. CASE row' = row /\ clock' = clock + 1
    <2>1. ~EndsAfter(row, clock + 1)
      BY <1>0, <1>3, WhoIsOpen
    <2>2. EndOf[row.period] = clock + 1
      BY <1>1, <2>1 DEF EndsAfter
    <2> QED
      BY <1>3, <2>2
  <1>4. ~ExpiryUpdate
    <2> SUFFICES ASSUME ExpiryUpdate
                 PROVE  FALSE
      OBVIOUS
    <2>1. ~(EndOf[row.period] < cutoff)
      BY <1>1
    <2>2. row' = row /\ clock' = clock
      BY <2>1 DEF ExpiryUpdate
    <2> QED
      BY <1>2, <2>2
  <1>5. ASSUME NEW q \in Requests, Write(q)
        PROVE  Written({"block", "onboard", "approve", "reject"})
    <2> SUFFICES ASSUME row' = Unblocked(row)
                 PROVE  FALSE
      BY <1>5, WritesTold
    <2>1. /\ row'.status = "ACTIVE" /\ ~row'.isBlocked /\ row'.isSubscriptionActive
          /\ row'.onboarded /\ row'.period = row.period /\ clock' = clock
      BY <1>0, <1>5 DEF Unblocked, Row, Write, expiryVars
    <2>2. EndsAfter(row', clock')
      BY <1>0, <2>1 DEF EndsAfter
    <2> QED
      BY <2>1, <2>2, WhoIsOpen
  <1>6. ASSUME NEW w \in Workers, ApplyEvent(w)
        PROVE  \E e \in Events : Activated(e) /\ EndOf[e] <= clock
    <2>1. row' # row
      BY <1>2, <1>6 DEF ApplyEvent, expiryVars
    <2>2. PICK e \in Events :
              /\ Activated(e) /\ clock' = clock
              /\ row'.period = e /\ row'.status = "ACTIVE" /\ row'.isSubscriptionActive
              /\ row'.isBlocked = row.isBlocked /\ row'.onboarded = row.onboarded
      BY <1>6, <2>1, ActivationTold
    <2>3. ~EndsAfter(row', clock')
      BY <1>0, <2>2, WhoIsOpen
    <2> QED
      BY <2>2, <2>3 DEF EndsAfter
  <1> QED
    BY <1>2, <1>3, <1>4, <1>5, <1>6, StepsOfAccess

\* Always: the rules by which customers, other services, administrators and the
\* owner see a restaurant agree (restaurant.repository.ts, restaurant.entity.ts).
THEOREM ReadersAgree == Spec => []AccessInv
  <1>1. Init => SuspendedInv /\ NeverInactive
    BY DEF Init, SuspendedInv, NeverInactive
  <1>2. LifecycleInv /\ SuspendedInv /\ NeverInactive /\ [Next]_vars
          => SuspendedInv' /\ NeverInactive'
    BY StatusStepKeeps
  <1>3. LifecycleInv /\ SuspendedInv /\ NeverInactive => AccessInv
    BY RulesOfCustomers, RulesOfDesks DEF AccessInv
  <1> QED
    BY <1>1, <1>2, <1>3, LifecycleInvariant, PTL DEF Spec

\* Customers are let in only by an activation whose period is not over, or by
\* an unblock (subscription.worker.ts, unblock-restaurant.use-case.ts).
THEOREM AccessBeginsForCause == Spec => AccessBegins
  <1> DEFINE Begins ==
        ~Opens(row, clock) /\ Opens(row', clock') =>
          \/ \E e \in Events : Activated(e) /\ EndOf[e] > clock
          \/ Written({"unblock"})
  <1>1. LifecycleInv /\ [Next]_vars => [Begins]_vars
    BY AccessBeginsStep
  <1>2. Spec => [][Begins]_vars
    BY <1>1, LifecycleInvariant, PTL DEF Spec
  <1> QED
    BY <1>2 DEF AccessBegins

\* They are shut out only by the end of the period, by a write that says so, or
\* by an activation for a period that is over (restaurant.repository.ts).
THEOREM AccessEndsForCause == Spec => AccessEnds
  <1> DEFINE Ends ==
        Opens(row, clock) /\ ~Opens(row', clock') =>
          \/ clock' = EndOf[row.period]
          \/ Written({"block", "onboard", "approve", "reject"})
          \/ \E e \in Events : Activated(e) /\ EndOf[e] <= clock
  <1>1. LifecycleInv /\ [Next]_vars => [Ends]_vars
    BY AccessEndsStep
  <1>2. Spec => [][Ends]_vars
    BY <1>1, LifecycleInvariant, PTL DEF Spec
  <1> QED
    BY <1>2 DEF AccessEnds
=============================================================================
