SPECIFICATION Spec
CONSTANTS
    heavy = heavy
    light = light
    c1 = c1
    c2 = c2
    t1 = t1
    t2 = t2
    b1 = b1
    b2 = b2
    Backends = {b1, b2}
    Migrations = 2
    Heavy = heavy
    Fabricated = 2
    Consumptions = {c1, c2}
    TopUps = {t1, t2}
    MaxUps = 2
    MaxFailures = 0
    Customers <- MCCustomers
    Opening <- MCOpening
    Of <- MCOf
INVARIANTS
    BalanceMatchesLedger
CHECK_DEADLOCK FALSE
