CONSTANTS
    Requests = {r1, r2}
    AddonIds = {a1, a2, a3}
    Words = {w1, w2}
    Spellings = {s1, s2, s3}
    NoName = NoName
    NoId = NoId
    Gone = Gone
SPECIFICATION Spec
SYMMETRY AddonsSymmetry
INVARIANTS AddonsInv
PROPERTIES ShelfUnlessStale
