SPECIFICATION FairFormSpec
CONSTANTS
    Process = {p1, p2}
    Submission = {s1}
    TopUp = {}
    Retries = 2
    Request <- Attempts
    c1 = c1
    x1 = x1
    x2 = x2
    Customer = {c1}
    Product = {x1}
    Key = {s1}
    Price = {1}
    Fields <- PlainFields
    Credits <- OneCredit
    Body <- Posted
    Opening <- OpeningTwo
    NoCustomer = NoCustomer
    NoProduct = NoProduct
    NoKey = NoKey
    NoProcess = NoProcess
    NoRequest = NoRequest
CHECK_DEADLOCK FALSE
PROPERTIES
    SubmissionsSettle
    HandlersFinish
