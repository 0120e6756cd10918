SPECIFICATION Spec
CONSTANTS
    a = a
    b = b
    c = c
    fund = fund
    ownName = ownName
    Codes <- ThreeShares
    Importers = {u1}
    Savers = {u2}
    CatalogKey <- OneFund
    Priority <- InOrder
    Orders <- FirstShare
    Portfolios <- SomePortfolios
    Files <- SomeFiles
    MaxContracts = 3
INVARIANT RepresentativeIsPreferred
PROPERTIES ImportUnifies ImportIsAllOrNothing
