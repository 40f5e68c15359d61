SPECIFICATION FairSessionSpec
CONSTANTS
    None = None
    MaxCuts = 4
    MaxVersion = 2
    MaxWorks = 2
INVARIANTS SessionKept SessionTold
PROPERTIES StartsSucceed
