SPECIFICATION Spec
CONSTANTS
    Forms = {f1}
    MaxVersion = 1
    MaxFailures = 0
INVARIANTS
    NewBalanceIsNew
