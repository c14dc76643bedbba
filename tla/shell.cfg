SPECIFICATION FairShellSpec
CONSTANTS
    Forms = {f1, f2}
    Customers = {c1, c2}
    NoCustomer = NoCustomer
    NoPress = NoPress
    MaxVersion = 2
    MaxFailures = 1
INVARIANTS
    ShellTypeOK
    SuccessIsFollowedUp
    PageFollowsModal
    ModalFindsItsCustomer
    OutcomeBesideItsCustomer
PROPERTIES
    ReadsOwnWrites
    NeverGoesBack
    Converges
