--------------------------- MODULE MCMemoryStore ---------------------------
(* Instances of MemoryStore for TLC.                                       *)
EXTENDS MemoryStore

CONSTANTS a, b, m1, m2, m3

MCBoardOf == [m \in Msgs |-> IF m = m3 THEN b ELSE a]
============================================================================
