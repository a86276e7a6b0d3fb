CONSTANTS
    Requests = {q1, q2}
    Offered <- UseCases
    Events = {1, 2}
    EndOf <- EndAtOwnNumber
    Entitled = {1}
    Workers = {w1, w2}
    MaxJobs = 1
    Horizon = 3
    NoEvent = NoEvent
SPECIFICATION Spec
SYMMETRY LifecycleSymmetry
INVARIANTS LifecycleInv ReviewedAfterOnboarding ReasonMatchesDecision AccessInv
PROPERTIES ImplementsFeedSafely AccessBegins AccessEnds
