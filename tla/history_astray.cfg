SPECIFICATION Spec
CONSTANTS
    PageSize = 1
    MaxLimit = 1
    MaxId = 2
    MaxFailures = 0
PROPERTIES
    TopUpReachesHistory
