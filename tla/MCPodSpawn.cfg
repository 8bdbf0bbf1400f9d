SPECIFICATION SpawnSpec
CONSTANTS
    k1 = k1
    q1 = q1
    q2 = q2
    q3 = q3
    q4 = q4
    Requests = {q1, q2, q3, q4}
    KeyOf <- MCKeyOf
    NoKey = NoKey
INVARIANT SpawnIdempotent
\* Every request ends answered; nothing runs after that.
CHECK_DEADLOCK FALSE
