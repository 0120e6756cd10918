SPECIFICATION Spec
CONSTANTS
    Funds = {f1, f2}
    Versions = 2
    Worker = worker
    Commands <- NoCommands
SYMMETRY Symmetry
INVARIANTS StatusIsBacked OneGeneration
