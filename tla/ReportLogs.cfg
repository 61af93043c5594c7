SPECIFICATION FairSpec
CONSTANTS
    BodySizes = {1, 2}
    PageLimit = 2
    ErrorLimit = 1
    RemoteMax = 2
    Events <- ThreeReports
    Budget = 3
    Delays <- OneRetry
    Interval = 1
    MaxPages = 2
    MaxRows = 3
    TotalRaw = 2
INVARIANTS BudgetsKept RateKept
PROPERTIES ImplementsListing ListingEnds
