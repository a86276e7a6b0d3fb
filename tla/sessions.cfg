CONSTANTS
    Requests = {r1, r2}
    Offered = {"login", "loginAt", "select", "refresh", "forgot", "verify", "reset"}
    Restaurants = {a, b}
    Codes = {k1, k2}
    RefreshLife = 2
    TempLife = 1
    CodeLife = 1
    Horizon = 2
    MaxTokens = 1
    MaxChanges = 1
    NoCode = NoCode
    NoRestaurant = NoRestaurant
    NoToken = NoToken
SPECIFICATION Spec
SYMMETRY SessionSymmetry
INVARIANTS SessionInv
PROPERTIES LoggedOutStaysOut TokensResetOnce CodesServeOnce SignedForMembers
