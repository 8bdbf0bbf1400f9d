----------------------------- MODULE RedbStore -----------------------------
(***************************************************************************)
(* RedbStore of agentbbs-core, the durable store.  put_message stages the  *)
(* message row and the board's index row in one write transaction and      *)
(* commits; redb admits one write transaction at a time and a reader sees  *)
(* the last commit.  list_messages reads the index in one read             *)
(* transaction and then every message in a transaction of its own.  Any    *)
(* call may fail with a storage error, and the process may crash between   *)
(* any two steps: what was committed stays, the rest is gone.              *)
(***************************************************************************)
EXTENDS StoreCalls

VARIABLES
    BOARDS,          \* table boards: slug -> contents or None
    AGENT_PERSONAS,  \* table agent_personas: handle -> contents or None
    MESSAGES,        \* table messages: the stored ids
    BOARD_INDEX,     \* table board_index: slug -> ordered ids
    writer,          \* the client with the open write transaction, or None
    txMessages,      \* the messages table as the transaction sees it
    txIndex,         \* the board_index table as the transaction sees it
    todo,            \* client -> ids its listing has still to fetch
    got              \* client -> messages its listing has fetched

tables == <<BOARDS, AGENT_PERSONAS, MESSAGES, BOARD_INDEX>>
txVars == <<writer, txMessages, txIndex>>
vars == <<tables, txVars, pc, arg, todo, got, out>>

TypeOK ==
    /\ BOARDS \in [Slugs -> Vals \cup {None}]
    /\ AGENT_PERSONAS \in [Handles -> Vals \cup {None}]
    /\ MESSAGES \subseteq Msgs
    /\ BOARD_INDEX \in [Slugs -> Seq(Msgs)]
    /\ writer \in Clients \cup {None}
    /\ txMessages \subseteq Msgs
    /\ txIndex \in [Slugs -> Seq(Msgs)]
    /\ pc \in [Clients -> {"idle", "put", "commit", "fetch"}]
    /\ arg \in [Clients -> Msgs \cup {None}]
    /\ todo \in [Clients -> Seq(Msgs)]
    /\ got \in [Clients -> Seq(Msgs)]

\* RedbStore::open on a new file: the tables exist and are empty.
Init ==
    /\ BOARDS = [s \in Slugs |-> None]
    /\ AGENT_PERSONAS = [h \in Handles |-> None]
    /\ MESSAGES = {}
    /\ BOARD_INDEX = [s \in Slugs |-> <<>>]
    /\ writer = None
    /\ txMessages = {}
    /\ txIndex = [s \in Slugs |-> <<>>]
    /\ pc = [c \in Clients |-> "idle"]
    /\ arg = [c \in Clients |-> None]
    /\ todo = [c \in Clients |-> <<>>]
    /\ got = [c \in Clients |-> <<>>]
    /\ out = [c \in Clients |-> NoResult]

Answer(c, r) ==
    /\ out' = [out EXCEPT ![c] = r]
    /\ pc' = [pc EXCEPT ![c] = "idle"]
    /\ arg' = [arg EXCEPT ![c] = None]
    /\ todo' = [todo EXCEPT ![c] = <<>>]
    /\ got' = [got EXCEPT ![c] = <<>>]

\* No write transaction is open any more.
DropTx ==
    /\ writer' = None
    /\ txMessages' = {}
    /\ txIndex' = [s \in Slugs |-> <<>>]

-----------------------------------------------------------------------------
(* put_message                                                             *)

CallPut(c, m) ==
    /\ pc[c] = "idle"
    /\ pc' = [pc EXCEPT ![c] = "put"]
    /\ arg' = [arg EXCEPT ![c] = m]
    /\ UNCHANGED <<tables, txVars, todo, got, out>>

\* Fault: the index row is committed in a transaction of its own.
PutStageIndexFirst(c) ==
    /\ pc[c] = "put"
    /\ writer = None
    /\ arg[c] \notin MESSAGES
    /\ writer' = c
    /\ txMessages' = MESSAGES \cup {arg[c]}
    /\ txIndex' = [BOARD_INDEX EXCEPT ![BoardOf[arg[c]]] = Append(@, arg[c])]
    /\ BOARD_INDEX' = txIndex'
    /\ pc' = [pc EXCEPT ![c] = "commit"]
    /\ UNCHANGED <<BOARDS, AGENT_PERSONAS, MESSAGES, arg, todo, got, out>>

\* Fault: no idempotence check.
PutStageAgain(c) ==
    /\ pc[c] = "put"
    /\ writer = None
    /\ writer' = c
    /\ txMessages' = MESSAGES \cup {arg[c]}
    /\ txIndex' = [BOARD_INDEX EXCEPT ![BoardOf[arg[c]]] = Append(@, arg[c])]
    /\ pc' = [pc EXCEPT ![c] = "commit"]
    /\ UNCHANGED <<tables, arg, todo, got, out>>

\* begin_write, the idempotence check, both rows staged.
PutStage(c) ==
    /\ pc[c] = "put"
    /\ writer = None
    /\ \/ /\ arg[c] \in MESSAGES
          /\ Answer(c, PutOk)
          /\ UNCHANGED txVars
       \/ /\ arg[c] \notin MESSAGES
          /\ writer' = c
          /\ txMessages' = MESSAGES \cup {arg[c]}
          /\ txIndex' = [BOARD_INDEX EXCEPT ![BoardOf[arg[c]]] =
                            Append(@, arg[c])]
          /\ pc' = [pc EXCEPT ![c] = "commit"]
          /\ UNCHANGED <<arg, todo, got, out>>
    /\ UNCHANGED tables

\* wtx.commit()
PutCommit(c) ==
    /\ pc[c] = "commit"
    /\ MESSAGES' = txMessages
    /\ BOARD_INDEX' = txIndex
    /\ DropTx
    /\ Answer(c, PutOk)
    /\ UNCHANGED <<BOARDS, AGENT_PERSONAS>>

-----------------------------------------------------------------------------
(* list_messages                                                           *)

\* read_index and the window.
ListIndex(c, s, n) ==
    LET ids == BOARD_INDEX[s]
        start == IF n < Len(ids) THEN Len(ids) - n ELSE 0
    IN  /\ pc[c] = "idle"
        /\ pc' = [pc EXCEPT ![c] = "fetch"]
        /\ todo' = [todo EXCEPT ![c] = SubSeq(ids, start + 1, Len(ids))]
        /\ UNCHANGED <<tables, txVars, arg, got, out>>

\* One get_message of the loop; an id without a message is skipped.
ListFetch(c) ==
    /\ pc[c] = "fetch"
    /\ todo[c] # <<>>
    /\ got' = [got EXCEPT ![c] = IF Head(todo[c]) \in MESSAGES
                                 THEN Append(@, Head(todo[c])) ELSE @]
    /\ todo' = [todo EXCEPT ![c] = Tail(@)]
    /\ UNCHANGED <<tables, txVars, pc, arg, out>>

ListReturn(c) ==
    /\ pc[c] = "fetch"
    /\ todo[c] = <<>>
    /\ Answer(c, [op |-> "list", msgs |-> got[c], n |-> 0])
    /\ UNCHANGED <<tables, txVars>>

-----------------------------------------------------------------------------
(* Calls of a single transaction.                                          *)

GetMessage(c, m) ==
    /\ pc[c] = "idle"
    /\ Answer(c, [op |-> "get", n |-> 0,
                  msgs |-> IF m \in MESSAGES THEN <<m>> ELSE <<>>])
    /\ UNCHANGED <<tables, txVars>>

MessageCount(c) ==
    /\ pc[c] = "idle"
    /\ Answer(c, [op |-> "count", n |-> Cardinality(MESSAGES), msgs |-> <<>>])
    /\ UNCHANGED <<tables, txVars>>

PutBoard(s, v) ==
    /\ writer = None
    /\ BOARDS' = [BOARDS EXCEPT ![s] = v]
    /\ UNCHANGED <<AGENT_PERSONAS, MESSAGES, BOARD_INDEX, txVars, pc, arg,
                   todo, got, out>>

SetPersona(h, v) ==
    /\ writer = None
    /\ AGENT_PERSONAS' = [AGENT_PERSONAS EXCEPT ![h] = v]
    /\ UNCHANGED <<BOARDS, MESSAGES, BOARD_INDEX, txVars, pc, arg, todo, got,
                   out>>

-----------------------------------------------------------------------------
(* Failures.                                                               *)

\* Fault: an error path leaves the write transaction open.
FailKeepingTx(c) ==
    /\ pc[c] # "idle"
    /\ Answer(c, [NoResult EXCEPT !.op = "error"])
    /\ UNCHANGED <<txVars, tables>>

\* Error::Storage: the open transaction, if any, is dropped uncommitted.
Fail(c) ==
    /\ pc[c] # "idle"
    /\ Answer(c, [NoResult EXCEPT !.op = "error"])
    /\ IF writer = c THEN DropTx ELSE UNCHANGED txVars
    /\ UNCHANGED tables

\* The process dies and RedbStore::open runs again.
Crash ==
    /\ DropTx
    /\ pc' = [c \in Clients |-> "idle"]
    /\ arg' = [c \in Clients |-> None]
    /\ todo' = [c \in Clients |-> <<>>]
    /\ got' = [c \in Clients |-> <<>>]
    /\ out' = [c \in Clients |-> NoResult]
    /\ UNCHANGED tables

Next ==
    \/ \E c \in Clients :
         \/ \E m \in Msgs : CallPut(c, m) \/ GetMessage(c, m)
         \/ \E s \in Slugs, n \in Limits : ListIndex(c, s, n)
         \/ MessageCount(c)
         \/ PutStage(c) \/ PutCommit(c) \/ ListFetch(c) \/ ListReturn(c)
         \/ Fail(c)
    \/ \E s \in Slugs, v \in Vals : PutBoard(s, v)
    \/ \E h \in Handles, v \in Vals \cup {None} : SetPersona(h, v)
    \/ Crash

Spec == Init /\ [][Next]_vars

\* Threads are scheduled and storage errors do not hit every call.
FairSpec ==
    Spec /\ \A c \in Clients :
              /\ WF_vars(ListFetch(c) \/ ListReturn(c) \/ PutCommit(c))
              /\ SF_vars(PutStage(c))

-----------------------------------------------------------------------------

\* A listing takes effect when it reads the index; from then on its answer is
\* what it has fetched followed by what it has still to fetch.
ListSoFar(c) == [op |-> "list", msgs |-> got[c] \o todo[c], n |-> 0]

Abstract ==
    INSTANCE Store WITH
        boards <- BOARDS, personas <- AGENT_PERSONAS, log <- BOARD_INDEX,
        out <- [c \in Clients |-> IF pc[c] = "fetch" THEN ListSoFar(c)
                                  ELSE out[c]]

\* RedbStore behaves as a Store with atomic calls, whatever crashes: a put is
\* entirely there or not at all, replaying it is harmless, and a listing that
\* spans several transactions is still the window of one moment.
ImplementsStore == Abstract!Spec

\* No two rows of the committed tables ever disagree: board_index lists the
\* messages of the messages table, each once and on its own board.
TablesAgree == Agree(BOARD_INDEX, MESSAGES)
=============================================================================
