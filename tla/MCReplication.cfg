SPECIFICATION FairSpec
CONSTANTS
    m1 = m1
    m2 = m2
    f = f
    Nodes = {a, b}
    Home = a
    Msgs = {m1, m2}
    Forged = {f}
    Foreign <- Strangers
    Limit = 2
    MaxRev = 1
    MaxSnapshots = 1
INVARIANTS NothingFromRejected HonestDigests
PROPERTY Converges
