--------------------------- MODULE MCReplication ---------------------------
(* Instances of Replication for TLC.                                       *)
EXTENDS Replication

CONSTANTS m1, m2, f

Envelope(ok, kind, ms) ==
    [sealed |-> ok, kind |-> kind, board |-> NoBoard, msgs |-> ms]

\* A forged post; a snapshot with a forged post next to m2, which may also be
\* posted in the group; an envelope that does not open.
Strangers ==
    {Envelope(TRUE, "message", <<f>>),
     Envelope(TRUE, "snapshot", <<m2, f>>),
     Envelope(FALSE, "message", <<m2>>)}

\* InOrder is what SelectSeq computes, on every sequence of up to four posts.
ASSUME InOrderFilters ==
    \A s \in UNION {[1 .. k -> {m1, m2, f}] : k \in 0 .. 4}, T \in SUBSET {m1, m2, f} :
        {[i \in DOMAIN q |-> s[q[i]]] : q \in InOrder({i \in DOMAIN s : s[i] \notin T})}
            = {SelectSeq(s, LAMBDA m : m \notin T)}

============================================================================
