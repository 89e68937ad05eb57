SPECIFICATION Spec
CONSTANTS
    Plans = {p1}
    IDs = {1, 2, 3}
    Limit = 1
    Retention = 1
    Size = 1
    Buckets = 2
    TrendLimit = 2
    Filters <- Pages
    MaxTime = 3
INVARIANTS
    TypeOK
    PagesExact
    BucketsPartition
    TrendCovers
    LastStatusAgrees
