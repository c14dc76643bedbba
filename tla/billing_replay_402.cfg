SPECIFICATION Spec
CONSTANTS
    Process = {p1, p2}
    Request = {r1, r2}
    c1 = c1
    c2 = c2
    x1 = x1
    k1 = k1
    k2 = k2
    Customer = {c1}
    Product = {x1}
    Key = {k1}
    Price = {1}
    Body <- RaceBodies
    Opening <- OpeningOne
    NoCustomer = NoCustomer
    NoProduct = NoProduct
    NoKey = NoKey
    NoProcess = NoProcess
    NoRequest = NoRequest
CHECK_DEADLOCK FALSE
PROPERTIES
    ReplaysAreHonoured
