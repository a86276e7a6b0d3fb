CONSTANTS
    TableIds = {t1, t2}
    SectionIds = {s1}
    Codes = {c1, c2}
    Names = {n1}
    Capacities = {1, 2}
    MaxParty = 2
    Requests = {r1}
    Offered <- UseCases
    NoTable = NoTable
    NoSection = NoSection
    Keep = Keep
SPECIFICATION Spec
PROPERTIES ImplementsLedger
