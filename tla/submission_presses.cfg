SPECIFICATION FormSpec
CONSTANTS
    Process = {p1}
    Submission = {s1, t1}
    TopUp = {t1}
    Retries = 2
    Request <- Attempts
    c1 = c1
    x1 = x1
    x2 = x2
    Customer = {c1}
    Product = {x1, x2}
    Key = {s1}
    Price = {1}
    Fields <- EditedFields
    Credits <- OneCredit
    Body <- Posted
    Opening <- OpeningOne
    NoCustomer = NoCustomer
    NoProduct = NoProduct
    NoKey = NoKey
    NoProcess = NoProcess
    NoRequest = NoRequest
SYMMETRY Symmetry
CHECK_DEADLOCK FALSE
INVARIANTS
    Ties
    SuccessShowsTheCharge
    ChargedOncePerSubmission
PROPERTIES
    PurchasePromise
