CONSTANTS
    here = here
    there = there
    mine = mine
    yours = yours
    a = a
    b = b
    c = c
    None = None
    Regions = {here, there}
    Accounts = {mine, yours}
    Workers = {w1, w2}
    Configs <- MCConfigs
    Home <- MCHome
SPECIFICATION Spec
INVARIANT IInv
PROPERTIES
    CreatedAtHome
    ReleasedWhenGone
CHECK_DEADLOCK FALSE
