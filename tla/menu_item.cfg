CONSTANTS
    Requests = {r1, r2}
    Offered <- UseCases
    VariantIds = {v1, v2}
    Prices = {p1, p2}
    NoPrice = NoPrice
    NoId = NoId
    Keep = Keep
SPECIFICATION Spec
SYMMETRY MenuItemSymmetry
INVARIANTS MenuItemInv
PROPERTIES CardUnlessStale
