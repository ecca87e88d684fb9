CONSTANTS
    here = here
    there = there
    mine = mine
    yours = yours
    a = a
    b = b
    c = c
    None = None
    Regions = {here, there}
    Accounts = {mine, yours}
    Workers = {w1, w2}
    Configs <- TwoRegions
    Home <- RegionHomes
SPECIFICATION Spec
INVARIANT RemovedIsGone
CHECK_DEADLOCK FALSE
