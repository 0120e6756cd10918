CONSTANTS
    Funds = {f1}
    Versions = 2
    Worker = worker
    Commands = {cli}
    None = None
    HistoryDays = {1, 2, 3}
    Records <- NavRecords
    PageSizes = {1, 9}
    Lookbacks = {0, 2}
    Backfills <- BackfillWindows
    MaxRevisions = 1
    LimitShares <- TwoFunds
    NoticeLists <- ManagerPages
    Pages <- DistributorPages
    LimitDays = {1, 2}
    Raises = Raises
SPECIFICATION SyncSpec
INVARIANTS
    ReadyMeansFresh
    SyncedWindowIsWhole
    PremiumsAreCurrent
    QuietMeansCovered
PROPERTIES
    RowsAreNotLost
    ReturnsStayCurrent
