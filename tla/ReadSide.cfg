CONSTANTS
    None = None
    Reports = {r1, r2, r3}
    NoTarget = none
    NotParsed = notParsed
    Labels = {us}
    Scale = 2
    MaxTotal = 3
    MaxDepth = 2
    Cent = 2
    Days = {1, 2, 3}
    NavValues = {2, 4}
    RateDays = {1, 2}
    Quotes <- PublishedQuotes
    Portfolio <- TwoPositions
    Pool = {"f1", "f2"}
    SharesOf <- TwoFunds
    RepresentativeCode <- Representatives
    ReturnDays = {1, 2, 3}
    MonthStart <- Months
    QuarterStart <- Quarters
    NavRows <- StoredNavs
    StaleAfter = 1
    Calendar = {1, 2, 3, 4, 5, 6}
    Weekend = {4}
    StartDate = 2
    Level <- Levels
    NavsPublished <- ReviewedNavs
    ReferenceDays = {3}
    Funds <- ReviewedFunds
    ShareOfFund <- ReviewedShares
    Holdings <- ReviewedPositions
    Rules <- SmallRules
    RecentResiduals = 2
    EnoughResiduals = 1
SPECIFICATION ReadSpec
SYMMETRY Symmetry
CHECK_DEADLOCK FALSE
INVARIANTS
    ExposureIsExact
    FlagsAreHonest
    DailyProfitIsTheDaysChange
    SumsHideNothing
    ReturnsAreComparable
    PastStandsStill
    ReviewIsWhole
