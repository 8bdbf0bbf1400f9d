SPECIFICATION FairSpec
CONSTANTS
    p1 = p1
    r1 = r1
    Pods = {p1}
    Rooms = {r1}
    Workers = {w1, w2}
    Pollers = {q1}
    None = None
    MaxRev = 2
    RoomOf <- MCRoomOf
    Events <- MCEvents
    Reported <- MCReported
INVARIANTS GuardInv PostedAtMostOnce PostedInOrder NothingAfterTerminal GuardMatchesBoard OutcomePerTerminal LedgerMatchesBoard
PROPERTIES AckedIsPosted PollNeverStale ToldIsFinal EveryCallbackAnswered

