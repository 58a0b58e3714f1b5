CONSTANTS
    Search = {s1, s2, s3, s4}
    pageSize = 2
    Skew = 1
    MaxTime = 3
SYMMETRY Searches
SPECIFICATION Spec
INVARIANTS
    NothingLost
