-------------------------------- MODULE Bbs --------------------------------
(***************************************************************************)
(* The BBS service over one board: Bbs::create_board, set_locked and post  *)
(* (agentbbs-core service.rs) as the web server calls them, and the Slack, *)
(* Teams and WhatsApp bridges that post what a platform delivers           *)
(* (deliver_* in agentbbs-web lib.rs, SeenSet in agentbbs-bridge).         *)
(*                                                                         *)
(* The service holds no lock of its own: every operation reads the board   *)
(* from the store and writes in a later step.  Each store call is an       *)
(* action, and so is the answer, which the process may not live to give    *)
(* and the platform may not live to see.  The store keeps its contents     *)
(* over a restart and the set of delivery ids does not.  Capabilities,     *)
(* signatures and the scan of the text are preconditions of a request; the *)
(* limiter in front of it is in module Intake.                             *)
(***************************************************************************)
EXTENDS Integers

CONSTANTS Req,           \* requests of users and operators: bounds their number
          Handler,       \* bridge handlers that run at one time
          Ext,           \* external message ids
          MaxRestarts    \* bound: restarts in a behaviour


VARIABLES
  board,       \* the stored board: whether it exists and is locked, its founder
  messages,    \* requests and external ids whose message is stored, with copies
  seen,        \* SeenSet.ids
  task,        \* the handlers: what they do next
  acked,       \* external ids the platform has a 200 for
  failed,      \* ghost: external ids whose post was refused or failed
  gone,        \* ghost: external ids acknowledged as duplicates of a post a restart cut off
  sealed,      \* ghost: a lock was acknowledged and nobody has touched it since
  seals,       \* ghost: how often that happened
  owner,       \* ghost: creators whose board no earlier reader can replace
  restarts

vars == <<board, messages, seen, task, acked, failed, gone, sealed, seals, owner, restarts>>

ghosts == <<sealed, seals, owner>>

NoOne == "no one"
Idle == [pc |-> "idle"]
Done == [pc |-> "done"]
Reply == "reply"     \* the answers of agents that posts mention
Msg == Req \cup Ext \cup {Reply}

ASSUME BbsAssumption ==
  /\ MaxRestarts \in Nat
  /\ Req \cap Handler = {} /\ (Req \cup Handler) \cap Ext = {}
  /\ NoOne \notin Req /\ Reply \notin Req \cup Handler \cup Ext

TypeOK ==
  /\ board \in [exists : BOOLEAN, locked : BOOLEAN, by : Req \cup {NoOne}]
  /\ messages \in [Msg -> Nat]
  /\ seen \subseteq Ext /\ acked \subseteq Ext /\ failed \subseteq Ext /\ gone \subseteq Ext
  /\ \A t \in Req \cup Handler : task[t].pc \in {"idle", "done", "create", "lock", "check", "put", "answer"}
  /\ sealed \in BOOLEAN /\ seals \in Nat /\ owner \subseteq Req /\ restarts \in 0..MaxRestarts

Init ==
  /\ board \in {[exists |-> x, locked |-> FALSE, by |-> NoOne] : x \in BOOLEAN}
  /\ messages = [m \in Msg |-> 0]
  /\ seen = {} /\ acked = {} /\ failed = {} /\ gone = {}
  /\ task = [t \in Req \cup Handler |-> Idle]
  /\ sealed = FALSE /\ seals = 0 /\ owner = {} /\ restarts = 0

\* The requests that have read the board and will write it back.
Writers == {t \in Req : task[t].pc \in {"create", "lock"}}
Locks(t) == task[t].pc = "lock" /\ task[t].to

----------------------------------------------------------------------------
(* Operators *)

\* Fault: the slug is not looked up.
SlugFreeFaulty == TRUE
SlugFree == ~board.exists

\* create_board up to put_board.
CreateCheck(t) ==
  /\ task[t] = Idle
  /\ SlugFree
  /\ task' = [task EXCEPT ![t] = [pc |-> "create"]]
  /\ UNCHANGED <<board, messages, seen, acked, failed, gone, ghosts, restarts>>

CreatePut(t) ==
  /\ task[t].pc = "create"
  /\ board' = [exists |-> TRUE, locked |-> FALSE, by |-> t]
  /\ task' = [task EXCEPT ![t] = Done]
  /\ owner' = IF Writers = {t} THEN owner \cup {t} ELSE owner
  /\ UNCHANGED <<messages, seen, acked, failed, gone, sealed, seals, restarts>>

\* set_locked up to put_board.
LockRead(t, to) ==
  /\ task[t] = Idle /\ board.exists
  /\ task' = [task EXCEPT ![t] = [pc |-> "lock", to |-> to, copy |-> board]]
  /\ sealed' = (sealed /\ to)
  /\ UNCHANGED <<board, messages, seen, acked, failed, gone, seals, owner, restarts>>

\* The lock is sealed when no other writer could still undo it.
LockPut(t) ==
  /\ task[t].pc = "lock"
  /\ board' = [task[t].copy EXCEPT !.locked = task[t].to]
  /\ task' = [task EXCEPT ![t] = Done]
  /\ sealed' = (task[t].to /\ \A w \in Writers \ {t} : Locks(w))
  /\ seals' = IF sealed' /\ ~sealed THEN seals + 1 ELSE seals
  /\ UNCHANGED <<messages, seen, acked, failed, gone, owner, restarts>>

----------------------------------------------------------------------------
(* Posts: api_post and api_post_signed for a request, deliver_* for a handler *)

BeginPost(t) ==
  /\ task[t] = Idle
  /\ task' = [task EXCEPT ![t] = [pc |-> "check", msg |-> t]]
  /\ UNCHANGED <<board, messages, seen, acked, failed, gone, ghosts, restarts>>

\* Fault: the platform's id is recorded only once its message is stored.
RecordSeenFaulty(e) == UNCHANGED seen
RecordSeen(e) == seen' = seen \cup {e}

\* A delivery of e, up to the post: seen_or_record under the seen lock.  A
\* duplicate is answered at once (that answer too may be lost: a step that
\* changes nothing).
Deliver(t, e) ==
  /\ task[t] = Idle
  /\ \/ /\ e \notin seen
        /\ RecordSeen(e)
        /\ task' = [task EXCEPT ![t] = [pc |-> "check", msg |-> e]]
        /\ UNCHANGED acked
     \/ /\ e \in seen
        /\ acked' = acked \cup {e}
        /\ UNCHANGED <<seen, task>>
  /\ UNCHANGED <<board, messages, failed, gone, ghosts, restarts>>

\* The post has returned: a request is over, a bridge handler has to answer.
Returned(t) ==
  task' = [task EXCEPT ![t] = IF t \in Handler THEN [pc |-> "answer", msg |-> task[t].msg] ELSE Done]

\* A bridge's answer is a 200 whether or not the post went through, and the
\* handler serves again.  The platform may never get it.
Answer(t) ==
  /\ task[t].pc = "answer"
  /\ task' = [task EXCEPT ![t] = Idle]
  /\ acked' \in {acked, acked \cup {task[t].msg}}
  /\ UNCHANGED <<board, messages, seen, failed, gone, ghosts, restarts>>

Refuse(t) ==
  /\ Returned(t)
  /\ failed' = IF t \in Handler THEN failed \cup {task[t].msg} ELSE failed
  /\ UNCHANGED <<board, messages, seen, acked, gone, ghosts, restarts>>

\* Fault: the lock is not looked at.
AcceptsPostsFaulty == board.exists
AcceptsPosts == board.exists /\ ~board.locked

\* Bbs::post: get_board and the lock flag.
PostCheck(t) ==
  /\ task[t].pc = "check"
  /\ IF AcceptsPosts
     THEN /\ task' = [task EXCEPT ![t] = [pc |-> "put", msg |-> task[t].msg, seals |-> seals]]
          /\ UNCHANGED <<board, messages, seen, acked, failed, gone, ghosts, restarts>>
     ELSE Refuse(t)

\* maybe_loop_in: a stored post may mention an agent, whose answer, once it is
\* composed, is posted before the request is answered.
LoopIn(t) ==
  /\ task[t].msg = t
  /\ task' = [task EXCEPT ![t] = [pc |-> "check", msg |-> Reply]]

\* Bbs::post: put_message.
PostPut(t) ==
  /\ task[t].pc = "put"
  /\ messages' = [messages EXCEPT ![task[t].msg] = @ + 1]
  /\ Returned(t) \/ LoopIn(t)
  /\ UNCHANGED <<board, seen, acked, failed, gone, ghosts, restarts>>

StorageError(t) == task[t].pc = "put" /\ Refuse(t)

----------------------------------------------------------------------------
\* Fault: the ids of deliveries outlive the handlers that were to post them.
RestartKeepingSeen ==
  /\ restarts < MaxRestarts
  /\ restarts' = restarts + 1
  /\ task' = [t \in Req \cup Handler |-> IF t \in Req /\ task[t] # Idle THEN Done ELSE Idle]
  /\ gone' = gone \cup {e \in acked : messages[e] = 0 /\ e \notin failed}
  /\ UNCHANGED <<board, messages, seen, acked, failed, ghosts>>
\* The process stops and starts again: handlers and the delivery ids are gone.
Restart ==
  /\ restarts < MaxRestarts
  /\ restarts' = restarts + 1
  /\ seen' = {}
  /\ task' = [t \in Req \cup Handler |-> IF t \in Req /\ task[t] # Idle THEN Done ELSE Idle]
  /\ gone' = gone \cup {e \in acked : messages[e] = 0 /\ e \notin failed}
  /\ UNCHANGED <<board, messages, acked, failed, ghosts>>

PostStep(t) == PostCheck(t) \/ PostPut(t) \/ StorageError(t) \/ Answer(t)

Next ==
  \/ \E t \in Req :
       \/ CreateCheck(t) \/ CreatePut(t) \/ LockPut(t) \/ BeginPost(t)
       \/ \E to \in BOOLEAN : LockRead(t, to)
  \/ \E t \in Handler, e \in Ext : Deliver(t, e)
  \/ \E t \in Req \cup Handler : PostStep(t)
  \/ Restart

Spec == Init /\ [][Next]_vars

\* A handler awaits nothing once it has begun, and a platform repeats a
\* delivery until it has its 200.  A repetition already on its way may still
\* arrive after that.
FairSpec ==
  /\ Spec
  /\ \A t \in Handler : WF_vars(PostStep(t))
  /\ \A e \in Ext : WF_vars(e \notin acked /\ \E t \in Handler : Deliver(t, e))

----------------------------------------------------------------------------
(* Properties *)

\* An acknowledged lock holds until somebody asks to unlock: unless a request
\* that read the board earlier had yet to write it back (service.rs:53, 131)
\* when the lock was acknowledged, the board stays locked, and the only posts
\* still to be stored are those that looked at the flag before (service.rs:96).
SealedBoardStaysQuiet ==
  sealed =>
    /\ board.locked
    /\ \A t \in Req \cup Handler : task[t].pc = "put" => task[t].seals < seals

\* Two concurrent creators may both be told they created the board
\* (service.rs:53), and a lock written back from an earlier read restores what it
\* read; but a creator answered while no other request held a copy of the board
\* is its founder for good.
FounderIsKept == \A t \in owner : board.exists /\ board.by = t

InFlight(e) == \E t \in Handler : task[t] # Idle /\ task[t].msg = e

\* However often and however concurrently a platform repeats a delivery
\* (lib.rs:2806), one life of the process stores its message at most once, and
\* an id that is marked seen is being posted, posted, or was refused.  A life
\* that follows may store it again: the process stopped between the store and
\* the 200, or a repetition arrived late, and the ids were in memory.  An id the
\* platform has its 200 for is being posted, posted or refused too, unless a
\* restart cut off the post that a repetition had been acknowledged for.
BridgedOnce ==
  \A e \in Ext :
    /\ messages[e] <= 1 + restarts
    /\ e \in seen => messages[e] > 0 \/ e \in failed \/ InFlight(e)
    /\ e \in acked => messages[e] > 0 \/ e \in failed \/ e \in gone \/ InFlight(e)

\* A message the platform delivers is stored or refused in the end, but for one
\* case: its repetition was acknowledged as a duplicate while the first attempt
\* was still to be stored, and the process stopped in between.
DeliveryIsSettled ==
  \A e \in Ext : <>(messages[e] > 0 \/ e \in failed \/ e \in gone)
=============================================================================
