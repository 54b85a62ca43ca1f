SPECIFICATION FairSpec
CONSTANTS
    cement = cement  panel = panel  siteA = siteA  siteB = siteB  depot = depot
    nobody = nobody  k1 = k1  n1 = n1  c1 = c1  c2 = c2  c3 = c3
    Materials = {cement, panel}
    Projects = {siteA, siteB}
    Warehouses = {depot}
    Null = nobody
    Keys = {k1}
    Numbers = {n1}
    Calls = {c1, c2}
    Rows <- MCRows
    Opening <- MCOpening
    Ops <- MCOps
PROPERTY EveryCallIsAnswered
