---------------------------- MODULE MCPodEvents ----------------------------
(* Instances of PodEvents for TLC.                                         *)
EXTENDS PodEvents

CONSTANTS p1, r1

Ev(id, pod, ts, st, cost, ok) ==
    [id |-> id, pod |-> pod, ts |-> ts, status |-> st, step |-> TRUE,
     cost |-> cost, authentic |-> ok, known |-> TRUE]

MCRoomOf == [p \in Pods |-> r1]

\* One pod: a step, a terminal one, one tied with it, a later one, a
\* forged one and one the receiver does not know.
MCEvents ==
    {Ev("e1", p1, 1, "Idle", 1, TRUE),
     Ev("e2", p1, 2, "Cancelled", 2, TRUE),
     Ev("e3", p1, 2, "Executing", 4, TRUE),
     Ev("e4", p1, 3, "AwaitingApproval", 8, TRUE),
     Ev("e5", p1, 4, "Idle", 16, FALSE),
     [Ev("e6", p1, 4, "Idle", 16, TRUE) EXCEPT !.known = FALSE]}

MCReported == {"Spawned", "Idle", "Cancelled"}

============================================================================
