CONSTANTS
    TableIds = {t1}
    SectionIds = {s1}
    Codes = {c1}
    Names = {n1}
    Capacities = {1, 2}
    MaxParty = 2
    Requests = {r1, r2}
    Offered <- TableUseCases
    NoTable = NoTable
    NoSection = NoSection
    Keep = Keep
SPECIFICATION Spec
SYMMETRY RequestSymmetry
INVARIANTS SeatingInv ChecksNeverReject
PROPERTIES AtomicUnlessStale
