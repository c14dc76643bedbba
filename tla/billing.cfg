SPECIFICATION BoundedSpec
CONSTANTS
    Process = {p1, p2}
    Request = {r1, r2, r3}
    c1 = c1
    c2 = c2
    x1 = x1
    k1 = k1
    k2 = k2
    Customer = {c1, c2}
    Product = {x1}
    Key = {k1}
    Price = {1, 2}
    Body <- AllBodies
    Opening <- OpeningTwo
    NoCustomer = NoCustomer
    NoProduct = NoProduct
    NoKey = NoKey
    NoProcess = NoProcess
    NoRequest = NoRequest
SYMMETRY Symmetry
CHECK_DEADLOCK FALSE
INVARIANTS
    TypeOK
    IInv
    NoOverdraft
    ChargedOncePerKey
    AnswersMatchBooks
    ReplayFindsOriginal
    TransactionIsolation
    Reconciled
    ListsReconcile
PROPERTIES
    AppendOnly
    WalletPromise
