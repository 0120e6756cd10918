SPECIFICATION FairSpec
CONSTANTS
    Writers = {worker, cli}
    NumShares = 2
    MaxRuns = 3
    MaxCrashes = 2
CHECK_DEADLOCK FALSE
INVARIANTS IssuesAreHonest StatusIsHonest
PROPERTY RunsFinish
