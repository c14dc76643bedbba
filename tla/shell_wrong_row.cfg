SPECIFICATION ShellSpec
CONSTANTS
    Forms = {f1, f2}
    Customers = {c1, c2}
    NoCustomer = NoCustomer
    NoPress = NoPress
    MaxVersion = 1
    MaxFailures = 1
INVARIANTS
    LockedToItsRow
