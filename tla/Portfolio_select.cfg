SPECIFICATION PortfolioFairSpec
CONSTANTS
    Items <- FiveItems
    Origin <- FiveOrigins
    InProduct <- Product
    Rank <- Ranks
    None = 0
    Window = 2
    Kept = 3
    MaxNonProduct = 1
    MaxIntrospective = 1
    MaxCreative = 1
CHECK_DEADLOCK FALSE
INVARIANT CapsHold
PROPERTIES StarvingPassedOverOnlyIfCapped ProductIsServed
