------------------------------- MODULE Store -------------------------------
(***************************************************************************)
(* What the Store trait of agentbbs-core promises: boards and personas are *)
(* maps with create-or-replace, messages are an append-only log per board  *)
(* that is idempotent on the message id, and a listing is the newest       *)
(* window of that log, oldest first.  Every call takes effect in one step. *)
(***************************************************************************)
EXTENDS Integers, Sequences, SequencesExt

CONSTANTS
    Clients,   \* threads that call the store
    Slugs,     \* board slugs
    Msgs,      \* content-addressed message ids
    BoardOf,   \* message id -> message.body.board
    Handles,   \* persona handles
    Vals,      \* board and persona contents
    Limits,    \* the listing limits callers use
    None

VARIABLES
    boards,    \* slug -> board contents or None
    personas,  \* handle -> persona contents or None
    log,       \* slug -> the ids of its messages, oldest first
    out        \* client -> the result of its latest call

vars == <<boards, personas, log, out>>

NoResult == [op |-> "none", msgs |-> <<>>, n |-> 0]

Result == [op : {"none", "put", "get", "list", "count", "error"},
           msgs : Seq(Msgs), n : Nat]

TypeOK ==
    /\ boards \in [Slugs -> Vals \cup {None}]
    /\ personas \in [Handles -> Vals \cup {None}]
    /\ log \in [Slugs -> Seq(Msgs)]
    /\ out \in [Clients -> Result]

Init ==
    /\ boards = [s \in Slugs |-> None]
    /\ personas = [h \in Handles |-> None]
    /\ log = [s \in Slugs |-> <<>>]
    /\ out = [c \in Clients |-> NoResult]

\* The newest-n window of a list, oldest first.
Window(l, n) == SubSeq(l, Len(l) - (IF n < Len(l) THEN n ELSE Len(l)) + 1,
                       Len(l))

Stored == UNION {ToSet(log[s]) : s \in Slugs}

PutMessage(c, m) ==
    /\ log' = IF m \in ToSet(log[BoardOf[m]]) THEN log
              ELSE [log EXCEPT ![BoardOf[m]] = Append(@, m)]
    /\ out' = [out EXCEPT ![c] = [NoResult EXCEPT !.op = "put"]]
    /\ UNCHANGED <<boards, personas>>

GetMessage(c, m) ==
    /\ out' = [out EXCEPT ![c] =
                 [op |-> "get", n |-> 0,
                  msgs |-> IF m \in Stored THEN <<m>> ELSE <<>>]]
    /\ UNCHANGED <<boards, personas, log>>

ListMessages(c, s, n) ==
    /\ out' = [out EXCEPT ![c] =
                 [op |-> "list", msgs |-> Window(log[s], n), n |-> 0]]
    /\ UNCHANGED <<boards, personas, log>>

MessageCount(c) ==
    /\ out' = [out EXCEPT ![c] =
                 [op |-> "count", msgs |-> <<>>, n |-> Cardinality(Stored)]]
    /\ UNCHANGED <<boards, personas, log>>

PutBoard(s, v) ==
    /\ boards' = [boards EXCEPT ![s] = v]
    /\ UNCHANGED <<personas, log, out>>

\* Create, replace (v \in Vals) or remove (v = None) a persona.
SetPersona(h, v) ==
    /\ personas' = [personas EXCEPT ![h] = v]
    /\ UNCHANGED <<boards, log, out>>

\* The backing store fails: an error is answered and nothing changes.
StorageError(c) ==
    /\ out' = [out EXCEPT ![c] = [NoResult EXCEPT !.op = "error"]]
    /\ UNCHANGED <<boards, personas, log>>

\* The process restarts: answers that were under way are lost, nothing else.
Restart ==
    /\ out' = [c \in Clients |-> NoResult]
    /\ UNCHANGED <<boards, personas, log>>

Next ==
    \/ \E c \in Clients :
         \/ \E m \in Msgs : PutMessage(c, m) \/ GetMessage(c, m)
         \/ \E s \in Slugs, n \in Limits : ListMessages(c, s, n)
         \/ MessageCount(c)
         \/ StorageError(c)
    \/ \E s \in Slugs, v \in Vals : PutBoard(s, v)
    \/ \E h \in Handles, v \in Vals \cup {None} : SetPersona(h, v)
    \/ Restart

Spec == Init /\ [][Next]_vars
=============================================================================
