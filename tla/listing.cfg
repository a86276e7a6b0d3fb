CONSTANTS
    Lists <- AllLists
    Ids = {1, 2, 3}
    Values = {1, 2}
    MaxLimit = 2
    MaxWrites = 1
    NoRow = NoRow
SPECIFICATION WalkSpec
INVARIANTS ListingInv WalksAreSound
CHECK_DEADLOCK FALSE
