--------------------------- MODULE SubscriptionFeed ---------------------------
(***************************************************************************)
(* What the events of the subscription service mean for a restaurant: each *)
(* is applied at most once, at one instant, and replaces the period paid   *)
(* for; a period that is over becomes inactive, and does so eventually     *)
(* unless a new one is paid for.                                           *)
(***************************************************************************)
EXTENDS Integers

CONSTANTS Events,     \* the activations the subscription service announces
          EndOf,      \* when the period each of them pays for is over
          NoEvent     \* nothing was ever paid for

VARIABLES applied,    \* the events applied
          period,     \* the event that paid for the current period
          active,     \* is the subscription active
          time

feedVars == <<applied, period, active, time>>

FeedInit ==
    /\ applied = {}
    /\ period = NoEvent
    /\ active = FALSE
    /\ time = 0

Apply(e) ==
    /\ e \notin applied
    /\ applied' = applied \cup {e}
    /\ period' = e
    /\ active' = TRUE
    /\ UNCHANGED time

Expire ==
    /\ active
    /\ EndOf[period] < time
    /\ active' = FALSE
    /\ UNCHANGED <<applied, period, time>>

Pass ==
    /\ time' = time + 1
    /\ UNCHANGED <<applied, period, active>>

FeedNext == Expire \/ Pass \/ \E e \in Events : Apply(e)

FeedSafety == FeedInit /\ [][FeedNext]_feedVars

FeedSpec == FeedSafety /\ WF_feedVars(Expire)
=============================================================================
