CONSTANTS
    Clients = {c1, c2}
    Funds = {f1}
    Plans = {}
    Requests <- QueueRequests
    MaxOps = 2
    MaxCrashes = 2
    MaxDay = 1
SPECIFICATION Spec
SYMMETRY Symmetry
INVARIANTS TypeOK SlotMatchesStatus RunningIsOwned StagesRunAtMostOnce OutcomeIsHonest
PROPERTIES FinishedIsFinal PromiseKept
