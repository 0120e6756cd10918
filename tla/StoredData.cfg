CONSTANTS
    None = None
    LimitShares <- TwoShares
    NoticeLists <- FundPages
    Pages <- DistributorPages
    LimitDays = {1, 2}
    Raises = Raises
    Fetchers = {w, c}
    Contents = {x, y}
    Attempts = 3
    Containers = {"old", "new", "twin"}
    HeadOf <- ImageHeads
    Edits <- EditsByHand
    MaxEdits = 1
    Positions = {p1}
    MaxDay = 2
    Weekdays = {1, 2}
    NavDays = {1, 2}
    NavValues = {v1, v2}
    Plans = {1, 2}
    Uploads <- PauseUploads
SPECIFICATION StoredSpec
SYMMETRY Symmetry
INVARIANTS
    SettlementIsSound
    PendingMissesNothing
    CapsAreStated
    ArchiveIsWhole
    ServesItsOwnSchema
PROPERTIES
    OrdersAreFinal
    DueIsDone
