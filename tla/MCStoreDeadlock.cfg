SPECIFICATION MemFairSpec
CONSTANTS
    a = a
    b = b
    m1 = m1
    m2 = m2
    m3 = m3
    Clients = {c1, c2}
    Slugs = {a}
    Msgs = {m1, m2}
    Handles = {h}
    Vals = {v}
    Limits = {1}
    None = None
    BoardOf <- MCBoardOf
PROPERTY EveryCallReturns
