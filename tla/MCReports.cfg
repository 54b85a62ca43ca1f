SPECIFICATION Spec
CONSTANTS
    site = site  site2 = site2  depot = depot  leader = leader  mate = mate  boss = boss  nobody = nobody  k1 = k1
    r1 = r1  r2 = r2  r3 = r3  r4 = r4  c1 = c1  c2 = c2  c3 = c3
    Reports = {r1, r2, r3, r4}
    Projects = {site, site2}
    Users = {leader, mate, boss}
    Materials = {1, 2}
    Warehouses = {depot}
    Balances <- MCBalances
    Keys = {k1}
    Admins = {boss}
    Managers = {boss}
    Calls = {c1, c2, c3}
    Requests <- MCRequests
    Existing <- MCExisting
    Opening <- MCOpening
    MaxElsewhere <- MCElsewhere
    Null = nobody
INVARIANTS ChargedExactlyOnce StockAccountsForReports DeadlocksNeedTwoRows RetryCreatesNoDuplicate OneAfterTheOther
PROPERTY ImplementsAtomicReports
SYMMETRY Symmetry
