----------------------------- MODULE MCPodSpawn -----------------------------
(* Instances of PodSpawn for TLC.                                          *)
EXTENDS PodSpawn

CONSTANTS k1, q1, q2, q3, q4

\* Three requests share a key, one has none.
MCKeyOf == [r \in Requests |-> IF r = q4 THEN NoKey ELSE k1]
=============================================================================
