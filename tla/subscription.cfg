CONSTANTS
    Requests = {q1}
    Offered = {"onboard"}
    Events = {1, 2}
    EndOf <- EndAtOwnNumber
    Workers = {w1, w2}
    MaxJobs = 2
    Horizon = 3
    Entitled = {1}
    NoEvent = NoEvent
SPECIFICATION FairSpec
INVARIANTS MailedAtMostOnce
PROPERTIES ImplementsFeed
