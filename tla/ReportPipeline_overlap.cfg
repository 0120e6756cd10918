SPECIFICATION Spec
CONSTANTS
    Funds = {f1}
    Versions = 2
    Worker = worker
    Commands = {cli}
INVARIANT ParsedIsCurrent
