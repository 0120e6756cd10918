CONSTANTS
    Clients = {c1}
    Funds = {f1, f2}
    Plans = {f1}
    Requests <- DailyRequests
    MaxOps = 2
    MaxCrashes = 0
    MaxDay = 2
SPECIFICATION Spec
PROPERTIES ReuseHidesNothingDue
