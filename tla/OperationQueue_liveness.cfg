CONSTANTS
    Clients = {c1}
    Funds = {f1}
    Plans = {}
    Requests <- QueueRequests
    MaxOps = 2
    MaxCrashes = 1
    MaxDay = 1
SPECIFICATION FairSpec
PROPERTIES AcceptedFinishes RequestsAnswered PromiseKeptFairly
