---------------------------- MODULE MemoryStore ----------------------------
(***************************************************************************)
(* MemoryStore of agentbbs-core: one RwLock per map.  put_message takes    *)
(* `messages` for writing and, still holding it, `by_board` for writing;   *)
(* list_messages takes `by_board` and then `messages` for reading.  A      *)
(* critical section that takes its last lock, works and returns is one     *)
(* step, so the state only shows the locks held while waiting for another. *)
(***************************************************************************)
EXTENDS StoreCalls, Iteration

VARIABLES
    boards,          \* slug -> board contents or None
    agent_personas,  \* handle -> persona contents or None
    by_board,        \* slug -> ids, in order of arrival
    messages,        \* the ids stored in the messages map
    msgWriter,       \* the client holding messages.write(), or None
    idxReaders,      \* the clients holding by_board.read()
    query            \* client -> <<slug, limit>> it lists

memVars == <<boards, agent_personas, by_board, messages, msgWriter, idxReaders,
            pc, arg, query, out>>

maps == <<boards, agent_personas>>

MemTypeOK ==
    /\ boards \in [Slugs -> Vals \cup {None}]
    /\ agent_personas \in [Handles -> Vals \cup {None}]
    /\ by_board \in [Slugs -> Seq(Msgs)]
    /\ messages \subseteq Msgs
    /\ msgWriter \in Clients \cup {None}
    /\ idxReaders \subseteq Clients
    /\ pc \in [Clients -> {"idle", "put", "push", "list", "read"}]
    /\ arg \in [Clients -> Msgs \cup {None}]
    /\ query \in [Clients -> (Slugs \X Limits) \cup {None}]

MemInit ==
    /\ boards = [s \in Slugs |-> None]
    /\ agent_personas = [h \in Handles |-> None]
    /\ by_board = [s \in Slugs |-> <<>>]
    /\ messages = {}
    /\ msgWriter = None
    /\ idxReaders = {}
    /\ pc = [c \in Clients |-> "idle"]
    /\ arg = [c \in Clients |-> None]
    /\ query = [c \in Clients |-> None]
    /\ out = [c \in Clients |-> NoResult]

MemAnswer(c, r) ==
    /\ out' = [out EXCEPT ![c] = r]
    /\ pc' = [pc EXCEPT ![c] = "idle"]
    /\ arg' = [arg EXCEPT ![c] = None]
    /\ query' = [query EXCEPT ![c] = None]

-----------------------------------------------------------------------------
(* put_message                                                             *)

MemCallPut(c, m) ==
    /\ pc[c] = "idle"
    /\ pc' = [pc EXCEPT ![c] = "put"]
    /\ arg' = [arg EXCEPT ![c] = m]
    /\ UNCHANGED <<maps, by_board, messages, msgWriter, idxReaders, query, out>>

\* Fault: `messages` is released before `by_board` is taken (the obvious cure
\* for the inverted lock order).
PutInsertAndRelease(c) ==
    /\ pc[c] = "put"
    /\ msgWriter = None
    /\ \/ /\ arg[c] \in messages
          /\ MemAnswer(c, PutOk)
          /\ UNCHANGED messages
       \/ /\ arg[c] \notin messages
          /\ messages' = messages \cup {arg[c]}
          /\ pc' = [pc EXCEPT ![c] = "push"]
          /\ UNCHANGED <<arg, query, out>>
    /\ UNCHANGED <<maps, by_board, msgWriter, idxReaders>>

\* Fault: no idempotence check.
PutInsertAgain(c) ==
    /\ pc[c] = "put"
    /\ msgWriter = None
    /\ messages' = messages \cup {arg[c]}
    /\ msgWriter' = c
    /\ pc' = [pc EXCEPT ![c] = "push"]
    /\ UNCHANGED <<maps, by_board, idxReaders, arg, query, out>>

\* messages.write(), the idempotence check, the insert.
PutInsert(c) ==
    /\ pc[c] = "put"
    /\ msgWriter = None
    /\ \/ /\ arg[c] \in messages
          /\ MemAnswer(c, PutOk)
          /\ UNCHANGED <<messages, msgWriter>>
       \/ /\ arg[c] \notin messages
          /\ messages' = messages \cup {arg[c]}
          /\ msgWriter' = c
          /\ pc' = [pc EXCEPT ![c] = "push"]
          /\ UNCHANGED <<arg, query, out>>
    /\ UNCHANGED <<maps, by_board, idxReaders>>

\* by_board.write(), the push, both locks released.
PutPush(c) ==
    /\ pc[c] = "push"
    /\ idxReaders = {}
    /\ by_board' = [by_board EXCEPT ![BoardOf[arg[c]]] = Append(@, arg[c])]
    /\ msgWriter' = None
    /\ MemAnswer(c, PutOk)
    /\ UNCHANGED <<maps, messages, idxReaders>>

-----------------------------------------------------------------------------
(* list_messages                                                           *)

CallList(c, s, n) ==
    /\ pc[c] = "idle"
    /\ pc' = [pc EXCEPT ![c] = "list"]
    /\ query' = [query EXCEPT ![c] = <<s, n>>]
    /\ UNCHANGED <<maps, by_board, messages, msgWriter, idxReaders, arg, out>>

\* by_board.read(): no writer holds it between two steps.
ListLockIndex(c) ==
    /\ pc[c] = "list"
    /\ idxReaders' = idxReaders \cup {c}
    /\ pc' = [pc EXCEPT ![c] = "read"]
    /\ UNCHANGED <<maps, by_board, messages, msgWriter, arg, query, out>>

\* ids[len.saturating_sub(limit)..], looked up one by one: a set with one
\* listing in it.
Listing(s, n) ==
    LET ids == by_board[s]
        start == IF n < Len(ids) THEN Len(ids) - n ELSE 0
        kept == {i \in (start + 1) .. Len(ids) : ids[i] \in messages}
    IN  {[k \in DOMAIN q |-> ids[q[k]]] : q \in InOrder(kept)}

\* messages.read(), the window, both locks released.
ListRead(c) ==
    /\ pc[c] = "read"
    /\ msgWriter = None
    /\ \E l \in Listing(query[c][1], query[c][2]) :
         MemAnswer(c, [op |-> "list", n |-> 0, msgs |-> l])
    /\ idxReaders' = idxReaders \ {c}
    /\ UNCHANGED <<maps, by_board, messages, msgWriter>>

-----------------------------------------------------------------------------
(* Calls that take a single lock.                                          *)

MemGetMessage(c, m) ==
    /\ pc[c] = "idle"
    /\ msgWriter = None
    /\ MemAnswer(c, [op |-> "get", n |-> 0,
                  msgs |-> IF m \in messages THEN <<m>> ELSE <<>>])
    /\ UNCHANGED <<maps, by_board, messages, msgWriter, idxReaders>>

MemMessageCount(c) ==
    /\ pc[c] = "idle"
    /\ msgWriter = None
    /\ MemAnswer(c, [op |-> "count", n |-> Cardinality(messages), msgs |-> <<>>])
    /\ UNCHANGED <<maps, by_board, messages, msgWriter, idxReaders>>

MemPutBoard(s, v) ==
    /\ boards' = [boards EXCEPT ![s] = v]
    /\ UNCHANGED <<agent_personas, by_board, messages, msgWriter, idxReaders,
                   pc, arg, query, out>>

MemSetPersona(h, v) ==
    /\ agent_personas' = [agent_personas EXCEPT ![h] = v]
    /\ UNCHANGED <<boards, by_board, messages, msgWriter, idxReaders, pc, arg,
                   query, out>>

-----------------------------------------------------------------------------

MemStep(c) == PutInsert(c) \/ PutPush(c) \/ ListLockIndex(c) \/ ListRead(c)

MemNext ==
    \/ \E c \in Clients :
         \/ \E m \in Msgs : MemCallPut(c, m) \/ MemGetMessage(c, m)
         \/ \E s \in Slugs, n \in Limits : CallList(c, s, n)
         \/ MemMessageCount(c)
         \/ MemStep(c)
    \/ \E s \in Slugs, v \in Vals : MemPutBoard(s, v)
    \/ \E h \in Handles, v \in Vals \cup {None} : MemSetPersona(h, v)

MemSpec == MemInit /\ [][MemNext]_memVars

\* Every thread inside a call keeps being scheduled.
MemFairSpec == MemSpec /\ \A c \in Clients : SF_memVars(MemStep(c))

-----------------------------------------------------------------------------

\* The index a listing reads is the log the Store promises.
MemAbstract == INSTANCE Store WITH personas <- agent_personas, log <- by_board

\* MemoryStore behaves as a Store whose calls are atomic: between the insert
\* and the push nobody can observe the half-done put.
MemImplementsStore == MemAbstract!Spec

\* Outside put_message's critical section the index and the message map hold
\* the same messages, each once and on its own board.
IndexMatchesMessages == msgWriter = None => Agree(by_board, messages)
=============================================================================
