SPECIFICATION FairSpec
CONSTANTS
    PageSize = 2
    MaxLimit = 3
    MaxId = 6
    MaxFailures = 1
INVARIANTS
    TypeOK
    NoGapsNoRepeats
    MoreMeansMore
PROPERTIES
    NeverGoesBack
    LoadMoreIsNotLost
    ReadsOwnTopUp
    Converges
