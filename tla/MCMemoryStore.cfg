SPECIFICATION MemSpec
CONSTANTS
    a = a
    b = b
    m1 = m1
    m2 = m2
    m3 = m3
    Clients = {c1, c2}
    Slugs = {a, b}
    Msgs = {m1, m2, m3}
    Handles = {h}
    Vals = {v}
    Limits = {1}
    None = None
    BoardOf <- MCBoardOf
INVARIANT IndexMatchesMessages
PROPERTY MemImplementsStore
