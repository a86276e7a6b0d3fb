CONSTANTS
    Requests = {r1, r2}
    CategoryIds = {c1, c2}
    ItemIds = {i1, i2}
    Names = {n1}
    MaxOrder = 1
    Absent = Absent
SPECIFICATION Spec
SYMMETRY CatalogSymmetry
INVARIANT CatalogInv
PROPERTIES DeletedStays BoardUnlessStale
