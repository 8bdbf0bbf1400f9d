----------------------------- MODULE StoreCalls -----------------------------
(***************************************************************************)
(* What MemoryStore and RedbStore of agentbbs-core have in common: the     *)
(* threads that call them through the Store trait, and the state of a call.*)
(***************************************************************************)
EXTENDS Integers, Sequences, SequencesExt, FiniteSets

CONSTANTS
    Clients,   \* threads that call the store
    Slugs,     \* board slugs
    Msgs,      \* content-addressed message ids
    BoardOf,   \* message id -> message.body.board
    Handles,   \* persona handles
    Vals,      \* board and persona contents
    Limits,    \* the listing limits callers use
    None

ASSUME StoreAssumption ==
    /\ BoardOf \in [Msgs -> Slugs]
    /\ Limits \subseteq Nat
    /\ None \notin Vals \cup Clients \cup Msgs \cup Slugs

VARIABLES
    pc,        \* client -> where it is in its call
    arg,       \* client -> the message it puts
    out        \* client -> the result of its latest call

NoResult == [op |-> "none", msgs |-> <<>>, n |-> 0]
PutOk == [NoResult EXCEPT !.op = "put"]

\* An index lists exactly the messages stored, each once and on its own board.
Agree(index, stored) ==
    /\ UNION {ToSet(index[s]) : s \in Slugs} = stored
    /\ \A s \in Slugs : /\ IsInjective(index[s])
                        /\ \A m \in ToSet(index[s]) : BoardOf[m] = s

\* "Thread-safe": a call that started returns, so no call waits for ever for a
\* lock or for the write transaction.
EveryCallReturns == \A c \in Clients : pc[c] # "idle" ~> pc[c] = "idle"
=============================================================================
