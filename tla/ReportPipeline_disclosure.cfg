SPECIFICATION Spec
CONSTANTS
    Funds = {f1}
    Versions = 2
    Worker = worker
    Commands <- NoCommands
INVARIANT DisclosureMatchesRows
