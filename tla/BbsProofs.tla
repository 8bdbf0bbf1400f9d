----------------------------- MODULE BbsProofs -----------------------------
(***************************************************************************)
(* Theorems about Bbs, for any number of requests, handlers, external      *)
(* messages and restarts.                                                  *)
(***************************************************************************)
EXTENDS Bbs, TLAPS

Board == [exists : BOOLEAN, locked : BOOLEAN, by : Req \cup {NoOne}]

\* What the provers need to know of a task's record.
TaskOK(t) ==
  /\ task[t].pc \in {"idle", "done", "create", "lock", "check", "put", "answer"}
  /\ task[t].pc = "create" => t \in Req
  /\ task[t].pc = "lock" => /\ t \in Req /\ task[t].to \in BOOLEAN
                            /\ task[t].copy \in Board /\ task[t].copy.exists
  /\ task[t].pc \in {"check", "put"} =>
       /\ t \in Req => task[t].msg \in {t, Reply}
       /\ t \in Handler => task[t].msg \in Ext
  /\ task[t].pc = "answer" => t \in Handler /\ task[t].msg \in Ext
  /\ task[t].pc = "put" => task[t].seals \in Nat

Types ==
  /\ board \in Board
  /\ messages \in [Msg -> Nat]
  /\ seen \subseteq Ext /\ acked \subseteq Ext /\ failed \subseteq Ext /\ gone \subseteq Ext
  /\ task = [t \in Req \cup Handler |-> task[t]]
  /\ \A t \in Req \cup Handler : TaskOK(t)
  /\ sealed \in BOOLEAN /\ seals \in Nat /\ owner \subseteq Req /\ restarts \in 0..MaxRestarts

\* A sealed board is locked; every writer under way locks it too; and the posts
\* still to be stored looked at the flag in an earlier period.
Seal ==
  /\ board.locked => board.exists
  /\ \A t \in Req \cup Handler : task[t].pc = "put" => task[t].seals <= seals
  /\ sealed =>
       /\ board.locked
       /\ \A w \in Req : task[w].pc \in {"create", "lock"} => Locks(w)
       /\ \A t \in Req \cup Handler : task[t].pc = "put" => task[t].seals < seals

\* A founder's board exists, nobody is about to create another one, and every
\* copy that may be written back names the founder.
Founder ==
  \A f \in owner :
    /\ board.exists /\ board.by = f
    /\ \A w \in Req : /\ task[w].pc # "create"
                      /\ task[w].pc = "lock" => task[w].copy.by = f

\* The handler t is about to post e.
Carries(t, e) == task[t].pc \in {"check", "put"} /\ task[t].msg = e

\* In one life of the process one handler at most carries a message, and only
\* while that life has not stored it.
Once ==
  \A e \in Ext :
    /\ messages[e] <= 1 + restarts
    /\ e \notin seen => messages[e] <= restarts
    /\ \A t \in Handler : Carries(t, e) => e \in seen /\ messages[e] <= restarts
    /\ \A t, u \in Handler : Carries(t, e) /\ Carries(u, e) => t = u
    /\ e \in seen => messages[e] > 0 \/ e \in failed \/ \E t \in Handler : Carries(t, e)

\* An id the platform has its 200 for is stored, refused, cut off by a restart,
\* or still in the set of this life's ids.
\* A handler that has yet to answer has settled its message.
Accounted ==
  /\ \A e \in acked : messages[e] > 0 \/ e \in failed \/ e \in gone \/ e \in seen
  /\ \A t \in Handler : task[t].pc = "answer" => task[t].msg \in seen

Inv == Types /\ Seal /\ Founder /\ Once /\ Accounted

Actor == Req \cup Handler

\* What an update of one task leaves of the others.
LEMMA TaskUpdate ==
  ASSUME Types, NEW t \in Actor, NEW r, task' = [task EXCEPT ![t] = r]
  PROVE  /\ task'[t] = r
         /\ \A v \in Actor \ {t} : task'[v] = task[v]
         /\ task' = [v \in Actor |-> task'[v]]
  BY DEF Types, Actor

\* The steps of a request or a handler, with the record its task becomes.
LEMMA TypesUpdate ==
  ASSUME Types, NEW t \in Actor, NEW r, task' = [task EXCEPT ![t] = r],
         TaskOK(t)',
         board' \in Board, messages' \in [Msg -> Nat],
         seen' \subseteq Ext, acked' \subseteq Ext, failed' \subseteq Ext,
         gone' = gone, restarts' = restarts,
         sealed' \in BOOLEAN, seals' \in Nat, owner' \subseteq Req
  PROVE  Types'
<1>1. /\ task'[t] = r
      /\ \A v \in Actor \ {t} : task'[v] = task[v]
      /\ task' = [v \in Actor |-> task'[v]]
    BY TaskUpdate
<1>2. \A v \in Actor \ {t} : TaskOK(v)'
    BY <1>1 DEF Types, TaskOK, Actor
<1> QED
    BY <1>1, <1>2 DEF Types, Actor

\* Every operation of a request is well typed.
LEMMA RequestTypes ==
  ASSUME Types, NEW t \in Req,
         \/ CreateCheck(t) \/ CreatePut(t) \/ LockPut(t) \/ BeginPost(t)
         \/ \E to \in BOOLEAN : LockRead(t, to)
  PROVE  Types'
<1>0. t \in Actor /\ TaskOK(t)
    BY DEF Types, Actor
<1>1. CASE CreateCheck(t)
  <2>1. TaskOK(t)'
      BY <1>0, <1>1, TaskUpdate DEF CreateCheck, TaskOK
  <2> QED
      BY <1>0, <1>1, <2>1, TypesUpdate DEF CreateCheck, Types, ghosts
<1>2. CASE CreatePut(t)
  <2>1. TaskOK(t)'
      BY <1>0, <1>2, TaskUpdate DEF CreatePut, TaskOK, Done
  <2>2. board' \in Board /\ owner' \subseteq Req
      BY <1>2 DEF CreatePut, Board, Types
  <2> QED
      BY <1>0, <1>2, <2>1, <2>2, TypesUpdate DEF CreatePut, Types
<1>3. CASE LockPut(t)
  <2>1. TaskOK(t)'
      BY <1>0, <1>3, TaskUpdate DEF LockPut, TaskOK, Done
  <2>2. board' \in Board /\ sealed' \in BOOLEAN /\ seals' \in Nat
      BY <1>0, <1>3 DEF LockPut, Board, Types, TaskOK, Locks
  <2> QED
      BY <1>0, <1>3, <2>1, <2>2, TypesUpdate DEF LockPut, Types
<1>4. CASE BeginPost(t)
  <2>0. t \notin Handler
      BY BbsAssumption
  <2>1. TaskOK(t)'
      BY <1>0, <1>4, <2>0, TaskUpdate DEF BeginPost, TaskOK
  <2> QED
      BY <1>0, <1>4, <2>1, TypesUpdate DEF BeginPost, Types, ghosts
<1>5. ASSUME NEW to \in BOOLEAN, LockRead(t, to)
      PROVE  Types'
  <2>1. TaskOK(t)'
      BY <1>0, <1>5, TaskUpdate DEF LockRead, TaskOK, Types
  <2>2. sealed' \in BOOLEAN
      BY <1>5 DEF LockRead, Types
  <2> QED
      BY <1>0, <1>5, <2>1, <2>2, TypesUpdate DEF LockRead, Types
<1> QED
    BY <1>1, <1>2, <1>3, <1>4, <1>5

\* What a post that has returned leaves of its task.
LEMMA ReturnTypes ==
  ASSUME Types, NEW t \in Actor, task[t].pc \in {"check", "put"}, Returned(t)
  PROVE  /\ \E r : task' = [task EXCEPT ![t] = r]
         /\ \A v \in Actor \ {t} : task'[v] = task[v]
         /\ task'[t].pc \in {"answer", "done"}
         /\ task'[t].pc = "answer" => t \in Handler /\ task'[t].msg = task[t].msg
         /\ TaskOK(t)'
<1>0. TaskOK(t)
    BY DEF Types, Actor
<1>1. CASE t \in Handler
  <2>1. task' = [task EXCEPT ![t] = [pc |-> "answer", msg |-> task[t].msg]]
      BY <1>1 DEF Returned
  <2>2. /\ task'[t] = [pc |-> "answer", msg |-> task[t].msg]
        /\ \A v \in Actor \ {t} : task'[v] = task[v]
      BY <2>1, TaskUpdate
  <2>3. TaskOK(t)'
      BY <1>0, <1>1, <2>2, BbsAssumption DEF TaskOK
  <2>4. \E r : task' = [task EXCEPT ![t] = r]
      BY <2>1
  <2>5. task'[t].pc = "answer" /\ task'[t].msg = task[t].msg
      BY <2>2
  <2> QED
      BY <1>1, <2>2, <2>3, <2>4, <2>5, Zenon
<1>2. CASE t \notin Handler
  <2>1. task' = [task EXCEPT ![t] = Done]
      BY <1>2 DEF Returned
  <2>2. /\ task'[t] = Done
        /\ \A v \in Actor \ {t} : task'[v] = task[v]
      BY <2>1, TaskUpdate
  <2>3. TaskOK(t)' /\ task'[t].pc = "done"
      BY <2>2 DEF TaskOK, Done
  <2>4. \E r : task' = [task EXCEPT ![t] = r]
      BY <2>1
  <2> QED
      BY <2>2, <2>3, <2>4
<1> QED
    BY <1>1, <1>2

\* Every step of a post or a delivery is well typed.
LEMMA PostTypes ==
  ASSUME Types, NEW t \in Actor, PostStep(t)
  PROVE  Types'
<1>0. TaskOK(t)
    BY DEF Types, Actor
<1>1. ASSUME task[t].pc \in {"check", "put"}, Refuse(t)
      PROVE  Types'
  <2>1. Returned(t)
      BY <1>1 DEF Refuse
  <2>2. failed' \subseteq Ext
      BY <1>0, <1>1 DEF Refuse, TaskOK, Types
  <2> QED
      BY <1>1, <2>1, <2>2, ReturnTypes, TypesUpdate DEF Refuse, Types, ghosts
<1>2. CASE PostCheck(t)
  <2>1. CASE ~AcceptsPosts
      BY <1>1, <1>2, <2>1 DEF PostCheck
  <2>2. CASE AcceptsPosts
    <3>1. task' = [task EXCEPT ![t] = [pc |-> "put", msg |-> task[t].msg, seals |-> seals]]
        BY <1>2, <2>2 DEF PostCheck
    <3>2. TaskOK(t)'
        BY <1>0, <1>2, <3>1, TaskUpdate DEF PostCheck, TaskOK, Types
    <3> QED
        BY <1>2, <2>2, <3>1, <3>2, TypesUpdate DEF PostCheck, Types, ghosts
  <2> QED
      BY <2>1, <2>2
<1>3. CASE PostPut(t)
  <2>1. task[t].msg \in Msg
      BY <1>0, <1>3 DEF PostPut, TaskOK, Msg, Actor
  <2>2. messages' \in [Msg -> Nat]
      BY <1>3, <2>1 DEF PostPut, Types
  <2>3. CASE Returned(t)
      BY <1>3, <2>2, <2>3, ReturnTypes, TypesUpdate DEF PostPut, Types, ghosts
  <2>4. CASE LoopIn(t)
    <3>1. t \in Req /\ t \notin Handler
        BY <1>0, <1>3, <2>4, BbsAssumption DEF PostPut, LoopIn, TaskOK, Actor
    <3>2. TaskOK(t)'
        BY <2>4, <3>1, TaskUpdate DEF LoopIn, TaskOK
    <3> QED
        BY <1>3, <2>2, <2>4, <3>2, TypesUpdate DEF PostPut, LoopIn, Types, ghosts
  <2> QED
      BY <1>3, <2>3, <2>4 DEF PostPut
<1>4. CASE StorageError(t)
    BY <1>1, <1>4 DEF StorageError
<1>5. CASE Answer(t)
  <2>1. task' = [task EXCEPT ![t] = Idle] /\ acked' \subseteq Ext
      BY <1>0, <1>5 DEF Answer, TaskOK, Types
  <2>2. TaskOK(t)'
      BY <2>1, TaskUpdate DEF TaskOK, Idle
  <2> QED
      BY <1>5, <2>1, <2>2, TypesUpdate DEF Answer, Types, ghosts
<1> QED
    BY <1>2, <1>3, <1>4, <1>5 DEF PostStep

\* A delivery is well typed.
LEMMA DeliverTypes ==
  ASSUME Types, NEW t \in Handler, NEW e \in Ext, Deliver(t, e)
  PROVE  Types'
<1>0. t \in Actor /\ t \notin Req
    BY BbsAssumption DEF Actor
<1>1. CASE e \notin seen
  <2>1. task' = [task EXCEPT ![t] = [pc |-> "check", msg |-> e]]
      BY <1>1 DEF Deliver
  <2>2. TaskOK(t)'
      BY <1>0, <2>1, TaskUpdate DEF TaskOK
  <2> QED
      BY <1>0, <1>1, <2>1, <2>2, TypesUpdate DEF Deliver, RecordSeen, Types, ghosts
<1>2. CASE e \in seen
    BY <1>2 DEF Deliver, Types, TaskOK, ghosts
<1> QED
    BY <1>1, <1>2

\* A restart is well typed.
LEMMA RestartTypes ==
  ASSUME Types, Restart
  PROVE  Types'
<1>1. \A t \in Actor : task'[t] = Idle \/ task'[t] = Done
    BY DEF Restart, Actor
<1>2. \A t \in Actor : TaskOK(t)'
    BY <1>1 DEF TaskOK, Idle, Done
<1>3. task' = [t \in Actor |-> task'[t]]
    BY DEF Restart, Actor
<1>4. restarts' \in 0..MaxRestarts
    BY BbsAssumption DEF Restart, Types
<1> QED
    BY <1>2, <1>3, <1>4 DEF Restart, Types, ghosts, Actor

\* Every step is well typed.
LEMMA TypesStep == Types /\ [Next]_vars => Types'
<1> SUFFICES ASSUME Types, [Next]_vars
             PROVE  Types'
    OBVIOUS
<1>1. CASE UNCHANGED vars
    BY <1>1 DEF vars, Types, TaskOK
<1>2. CASE \E t \in Req :
             \/ CreateCheck(t) \/ CreatePut(t) \/ LockPut(t) \/ BeginPost(t)
             \/ \E to \in BOOLEAN : LockRead(t, to)
    BY <1>2, RequestTypes
<1>3. CASE \E t \in Handler, e \in Ext : Deliver(t, e)
    BY <1>3, DeliverTypes
<1>4. CASE \E t \in Req \cup Handler : PostStep(t)
    BY <1>4, PostTypes DEF Actor
<1>5. CASE Restart
    BY <1>5, RestartTypes
<1> QED
    BY <1>1, <1>2, <1>3, <1>4, <1>5 DEF Next
----------------------------------------------------------------------------
(* The steps, as the three invariants see them *)

\* A post under way is found acceptable, refused or stored, or it is answered.
LEMMA PostEffect ==
  ASSUME Types, NEW t \in Actor, PostStep(t)
  PROVE  /\ UNCHANGED <<board, seen, gone, sealed, seals, owner, restarts>>
         /\ \A v \in Actor \ {t} : task'[v] = task[v]
         /\ \/ /\ task[t].pc = "check" /\ AcceptsPosts
               /\ task'[t] = [pc |-> "put", msg |-> task[t].msg, seals |-> seals]
               /\ UNCHANGED <<messages, failed, acked>>
            \/ /\ task[t].pc \in {"check", "put"} /\ Returned(t)
               /\ task'[t].pc \in {"answer", "done"}
               /\ failed' = IF t \in Handler THEN failed \cup {task[t].msg} ELSE failed
               /\ UNCHANGED <<messages, acked>>
            \/ /\ task[t].pc = "put"
               /\ messages' = [messages EXCEPT ![task[t].msg] = @ + 1]
               /\ \/ Returned(t) /\ task'[t].pc \in {"answer", "done"}
                  \/ t \in Req /\ task'[t].pc = "check"
               /\ UNCHANGED <<failed, acked>>
            \/ /\ task[t].pc = "answer" /\ task'[t] = Idle
               /\ acked' \subseteq acked \cup {task[t].msg}
               /\ UNCHANGED <<messages, failed>>
<1>0. TaskOK(t)
    BY DEF Types, Actor
<1>1. ASSUME task[t].pc \in {"check", "put"}, Returned(t)
      PROVE  /\ \A v \in Actor \ {t} : task'[v] = task[v]
             /\ task'[t].pc \in {"answer", "done"}
    BY <1>1, ReturnTypes
<1>2. CASE PostCheck(t) /\ AcceptsPosts
  <2>1. task' = [task EXCEPT ![t] = [pc |-> "put", msg |-> task[t].msg, seals |-> seals]]
      BY <1>2 DEF PostCheck
  <2>2. /\ task'[t] = [pc |-> "put", msg |-> task[t].msg, seals |-> seals]
        /\ \A v \in Actor \ {t} : task'[v] = task[v]
      BY <2>1, TaskUpdate
  <2> QED
      BY <1>2, <2>2 DEF PostCheck, ghosts
<1>3. CASE task[t].pc \in {"check", "put"} /\ Refuse(t)
    BY <1>1, <1>3 DEF Refuse, ghosts
<1>4. CASE PostPut(t) /\ Returned(t)
    BY <1>1, <1>4 DEF PostPut, ghosts
<1>5. CASE PostPut(t) /\ LoopIn(t)
  <2>1. t \in Req
      BY <1>0, <1>5, BbsAssumption DEF PostPut, LoopIn, TaskOK, Actor
  <2>2. /\ task'[t] = [pc |-> "check", msg |-> Reply]
        /\ \A v \in Actor \ {t} : task'[v] = task[v]
      BY <1>5, TaskUpdate DEF LoopIn
  <2> QED
      BY <1>5, <2>1, <2>2 DEF PostPut, ghosts
<1>6. CASE Answer(t)
  <2>1. /\ task'[t] = Idle
        /\ \A v \in Actor \ {t} : task'[v] = task[v]
      BY <1>6, TaskUpdate DEF Answer
  <2> QED
      BY <1>6, <2>1 DEF Answer, ghosts
<1> QED
    BY <1>2, <1>3, <1>4, <1>5, <1>6 DEF PostStep, PostCheck, PostPut, StorageError

\* A post under way writes no board, and looks at the flag before it is stored.
LEMMA PostWriters ==
  ASSUME Types, NEW t \in Actor, PostStep(t)
  PROVE  /\ UNCHANGED <<board, sealed, seals, owner>>
         /\ \A v \in Actor \ {t} : task'[v] = task[v]
         /\ task'[t].pc \notin {"create", "lock"}
         /\ task'[t].pc = "put" => AcceptsPosts /\ task'[t].seals = seals
<1>1. UNCHANGED <<board, sealed, seals, owner>> /\ \A v \in Actor \ {t} : task'[v] = task[v]
    BY PostEffect
<1>2. CASE AcceptsPosts /\ task'[t] = [pc |-> "put", msg |-> task[t].msg, seals |-> seals]
    BY <1>1, <1>2
<1>3. CASE task'[t].pc \in {"answer", "done", "check", "idle"}
    BY <1>1, <1>3
<1> QED
    BY <1>2, <1>3, PostEffect DEF Idle

\* A sealed board stays sealed until somebody asks to unlock it.
LEMMA SealStep == Types /\ Seal /\ [Next]_vars => Seal'
<1> SUFFICES ASSUME Types, Seal, [Next]_vars
             PROVE  Seal'
    OBVIOUS
<1>0. \A t \in Actor : TaskOK(t)
    BY DEF Types, Actor
<1>1. CASE UNCHANGED vars
    BY <1>1 DEF vars, Seal, Locks
<1>2. ASSUME NEW t \in Req, CreateCheck(t)
      PROVE  Seal'
  <2>1. /\ task'[t] = [pc |-> "create"]
        /\ \A v \in Actor \ {t} : task'[v] = task[v]
      BY <1>2, TaskUpdate DEF CreateCheck, Actor
  <2>2. ~sealed
      BY <1>2 DEF Seal, CreateCheck, SlugFree
  <2> QED
      BY <1>2, <2>1, <2>2 DEF Seal, CreateCheck, ghosts, Actor
<1>3. ASSUME NEW t \in Req, CreatePut(t)
      PROVE  Seal'
  <2>1. /\ task'[t] = Done
        /\ \A v \in Actor \ {t} : task'[v] = task[v]
      BY <1>3, TaskUpdate DEF CreatePut, Actor
  <2>2. ~sealed
      BY <1>3 DEF Seal, CreatePut, Locks
  <2> QED
      BY <1>3, <2>1, <2>2 DEF Seal, CreatePut, Actor, Done
<1>4. ASSUME NEW t \in Req, LockPut(t)
      PROVE  Seal'
  <2>1. /\ task'[t] = Done
        /\ \A v \in Actor \ {t} : task'[v] = task[v]
      BY <1>4, TaskUpdate DEF LockPut, Actor
  <2>2. /\ board'.exists /\ board'.locked = task[t].to
      BY <1>0, <1>4 DEF LockPut, TaskOK, Board, Actor
  <2>3. seals \in Nat /\ seals' \in Nat /\ seals <= seals' /\ (sealed' /\ ~sealed => seals < seals')
      BY <1>4 DEF LockPut, Types
  <2>4. \A v \in Actor : task'[v].pc = "put" => task[v].pc = "put" /\ task'[v].seals = task[v].seals
                                                 /\ task[v].seals \in Nat
      BY <1>0, <2>1 DEF Done, TaskOK
  <2>5. \A v \in Actor : task'[v].pc = "put" =>
          task'[v].seals <= seals' /\ (sealed' => task'[v].seals < seals')
    <3> SUFFICES ASSUME NEW v \in Actor, task'[v].pc = "put"
                 PROVE  task'[v].seals <= seals' /\ (sealed' => task'[v].seals < seals')
        OBVIOUS
    <3>1. task[v].seals \in Nat /\ task[v].seals <= seals /\ (sealed => task[v].seals < seals)
        BY <2>4 DEF Seal, Actor
    <3> QED
        BY <2>3, <2>4, <3>1
  <2>6. sealed' => board'.locked /\ \A w \in Req : task'[w].pc \in {"create", "lock"} => Locks(w)'
    <3>1. SUFFICES ASSUME sealed'
                   PROVE  board'.locked /\ \A w \in Req : task'[w].pc \in {"create", "lock"} => Locks(w)'
        OBVIOUS
    <3>2. task[t].to /\ \A w \in Writers \ {t} : Locks(w)
        BY <1>4, <3>1 DEF LockPut
    <3>3. ASSUME NEW w \in Req, task'[w].pc \in {"create", "lock"}
          PROVE  Locks(w)'
      <4>1. w # t
          BY <2>1, <3>3 DEF Done
      <4>2. task'[w] = task[w]
          BY <2>1, <4>1 DEF Actor
      <4>3. w \in Writers \ {t}
          BY <3>3, <4>1, <4>2 DEF Writers
      <4> QED
          BY <3>2, <4>2, <4>3 DEF Locks
    <3> QED
        BY <2>2, <3>2, <3>3
  <2> QED
      BY <2>2, <2>5, <2>6 DEF Seal, Actor
<1>5. ASSUME NEW t \in Req, BeginPost(t)
      PROVE  Seal'
  <2>1. /\ task'[t] = [pc |-> "check", msg |-> t]
        /\ \A v \in Actor \ {t} : task'[v] = task[v]
      BY <1>5, TaskUpdate DEF BeginPost, Actor
  <2> QED
      BY <1>5, <2>1 DEF Seal, BeginPost, ghosts, Actor, Locks
<1>6. ASSUME NEW t \in Req, NEW to \in BOOLEAN, LockRead(t, to)
      PROVE  Seal'
  <2>1. /\ task'[t] = [pc |-> "lock", to |-> to, copy |-> board]
        /\ \A v \in Actor \ {t} : task'[v] = task[v]
      BY <1>6, TaskUpdate DEF LockRead, Actor
  <2>2. sealed' => sealed /\ to
      BY <1>6 DEF LockRead
  <2>3. /\ UNCHANGED <<board, seals>>
        /\ \A v \in Actor : task'[v].pc = "put" => task[v].pc = "put" /\ task'[v].seals = task[v].seals
      BY <1>6, <2>1 DEF LockRead
  <2>4. sealed' => \A w \in Req : task'[w].pc \in {"create", "lock"} => Locks(w)'
      BY <2>1, <2>2 DEF Seal, Locks, Actor
  <2> QED
      BY <2>2, <2>3, <2>4 DEF Seal, Actor
<1>7. ASSUME NEW t \in Handler, NEW e \in Ext, Deliver(t, e)
      PROVE  Seal'
  <2>1. t \in Actor /\ t \notin Req
      BY BbsAssumption DEF Actor
  <2>2. CASE UNCHANGED task
      BY <1>7, <2>2 DEF Seal, Deliver, ghosts, Locks
  <2>3. CASE task' = [task EXCEPT ![t] = [pc |-> "check", msg |-> e]]
    <3>1. /\ task'[t] = [pc |-> "check", msg |-> e]
          /\ \A v \in Actor \ {t} : task'[v] = task[v]
        BY <2>1, <2>3, TaskUpdate
    <3> QED
        BY <1>7, <2>1, <3>1 DEF Seal, Deliver, ghosts, Actor, Locks
  <2> QED
      BY <1>7, <2>2, <2>3 DEF Deliver
<1>8. ASSUME NEW t \in Actor, PostStep(t)
      PROVE  Seal'
  <2>1. /\ UNCHANGED <<board, sealed, seals>>
        /\ \A v \in Actor \ {t} : task'[v] = task[v]
        /\ task'[t].pc \notin {"create", "lock"}
        /\ task'[t].pc = "put" => AcceptsPosts /\ task'[t].seals = seals
      BY <1>8, PostWriters
  <2>2. seals \in Nat /\ (task'[t].pc = "put" => ~sealed)
      BY <2>1 DEF AcceptsPosts, Seal, Types
  <2> QED
      BY <2>1, <2>2 DEF Seal, Actor, Locks
<1>9. CASE Restart
  <2>1. \A t \in Actor : task'[t] = Idle \/ task'[t] = Done
      BY <1>9 DEF Restart, Actor
  <2> QED
      BY <1>9, <2>1 DEF Seal, Restart, ghosts, Idle, Done, Actor
<1> QED
    BY <1>1, <1>2, <1>3, <1>4, <1>5, <1>6, <1>7, <1>8, <1>9 DEF Next, Actor

\* A founder's board is replaced by nobody.
LEMMA FounderStep == Types /\ Founder /\ [Next]_vars => Founder'
<1> SUFFICES ASSUME Types, Founder, [Next]_vars
             PROVE  Founder'
    OBVIOUS
<1>1. CASE UNCHANGED vars
    BY <1>1 DEF vars, Founder
<1>2. ASSUME NEW t \in Req, CreateCheck(t)
      PROVE  Founder'
    BY <1>2 DEF Founder, CreateCheck, SlugFree, ghosts
<1>3. ASSUME NEW t \in Req, CreatePut(t)
      PROVE  Founder'
  <2>1. /\ task'[t] = Done
        /\ \A v \in Actor \ {t} : task'[v] = task[v]
      BY <1>3, TaskUpdate DEF CreatePut, Actor
  <2>2. owner = {}
      BY <1>3 DEF Founder, CreatePut
  <2>3. owner' # {} => owner' = {t} /\ \A w \in Req \ {t} : task[w].pc \notin {"create", "lock"}
      BY <1>3, <2>2 DEF CreatePut, Writers
  <2>4. board'.exists /\ board'.by = t
      BY <1>3 DEF CreatePut
  <2> QED
      BY <2>1, <2>3, <2>4 DEF Founder, Done, Actor
<1>4. ASSUME NEW t \in Req, LockPut(t)
      PROVE  Founder'
  <2>1. /\ task'[t] = Done
        /\ \A v \in Actor \ {t} : task'[v] = task[v]
      BY <1>4, TaskUpdate DEF LockPut, Actor
  <2>2. board'.exists /\ board'.by = task[t].copy.by
      BY <1>4 DEF LockPut, Types, TaskOK, Board
  <2> QED
      BY <1>4, <2>1, <2>2 DEF Founder, LockPut, Done, Actor
<1>5. ASSUME NEW t \in Req, BeginPost(t)
      PROVE  Founder'
  <2>1. /\ task'[t] = [pc |-> "check", msg |-> t]
        /\ \A v \in Actor \ {t} : task'[v] = task[v]
      BY <1>5, TaskUpdate DEF BeginPost, Actor
  <2> QED
      BY <1>5, <2>1 DEF Founder, BeginPost, ghosts, Actor
<1>6. ASSUME NEW t \in Req, NEW to \in BOOLEAN, LockRead(t, to)
      PROVE  Founder'
  <2>1. /\ task'[t] = [pc |-> "lock", to |-> to, copy |-> board]
        /\ \A v \in Actor \ {t} : task'[v] = task[v]
      BY <1>6, TaskUpdate DEF LockRead, Actor
  <2> QED
      BY <1>6, <2>1 DEF Founder, LockRead, Actor
<1>7. ASSUME NEW t \in Handler, NEW e \in Ext, Deliver(t, e)
      PROVE  Founder'
  <2>1. t \in Actor /\ t \notin Req
      BY BbsAssumption DEF Actor
  <2>2. \A v \in Req : task'[v] = task[v]
      BY <1>7, <2>1, TaskUpdate DEF Deliver, Actor
  <2> QED
      BY <1>7, <2>2 DEF Founder, Deliver, ghosts
<1>8. ASSUME NEW t \in Actor, PostStep(t)
      PROVE  Founder'
  <2>1. /\ UNCHANGED <<board, owner>>
        /\ \A v \in Actor \ {t} : task'[v] = task[v]
        /\ task'[t].pc \notin {"create", "lock"}
      BY <1>8, PostWriters
  <2> QED
      BY <2>1 DEF Founder, Actor
<1>9. CASE Restart
  <2>1. \A t \in Actor : task'[t] = Idle \/ task'[t] = Done
      BY <1>9 DEF Restart, Actor
  <2> QED
      BY <1>9, <2>1 DEF Founder, Restart, ghosts, Idle, Done, Actor
<1> QED
    BY <1>1, <1>2, <1>3, <1>4, <1>5, <1>6, <1>7, <1>8, <1>9 DEF Next, Actor

\* The deliveries see only the handlers, the stored copies of external messages
\* and the recorded ids.
LEMMA OnceSame ==
  ASSUME Once, UNCHANGED <<seen, failed, restarts>>,
         \A e \in Ext : messages'[e] = messages[e],
         \A h \in Handler : task'[h] = task[h]
  PROVE  Once'
  BY DEF Once, Carries

\* A delivery is posted at most once in one life of the process.
LEMMA OnceStep == Types /\ Once /\ [Next]_vars => Once'
<1> SUFFICES ASSUME Types, Once, [Next]_vars
             PROVE  Once'
    OBVIOUS
<1>0. restarts \in Nat /\ \A e \in Ext : messages[e] \in Nat
    BY BbsAssumption DEF Types, Msg
<1>1. CASE UNCHANGED vars
    BY <1>1, OnceSame DEF vars
<1>2. ASSUME NEW t \in Req,
             \/ CreateCheck(t) \/ CreatePut(t) \/ LockPut(t) \/ BeginPost(t)
             \/ \E to \in BOOLEAN : LockRead(t, to)
      PROVE  Once'
  <2>1. UNCHANGED <<seen, failed, restarts, messages>>
      BY <1>2 DEF CreateCheck, CreatePut, LockPut, BeginPost, LockRead
  <2>2. \E r : task' = [task EXCEPT ![t] = r]
      BY <1>2 DEF CreateCheck, CreatePut, LockPut, BeginPost, LockRead
  <2>3. \A h \in Handler : h # t /\ h \in Actor
      BY BbsAssumption DEF Actor
  <2>4. \A h \in Handler : task'[h] = task[h]
      BY <2>2, <2>3 DEF Types, Actor
  <2> QED
      BY <2>1, <2>4, OnceSame
<1>3. ASSUME NEW t \in Handler, NEW e \in Ext, Deliver(t, e)
      PROVE  Once'
  <2>0. t \in Actor
      BY DEF Actor
  <2>1. CASE e \in seen
      BY <1>3, <2>1, OnceSame DEF Deliver
  <2>2. CASE e \notin seen
    <3>1. /\ task' = [task EXCEPT ![t] = [pc |-> "check", msg |-> e]]
          /\ seen' = seen \cup {e}
          /\ UNCHANGED <<messages, failed, restarts>> /\ task[t] = Idle
        BY <1>3, <2>2 DEF Deliver, RecordSeen
    <3>2. /\ task'[t] = [pc |-> "check", msg |-> e]
          /\ \A h \in Handler \ {t} : task'[h] = task[h]
        BY <2>0, <3>1, TaskUpdate DEF Actor
    <3>3. \A d \in Ext : /\ Carries(t, d)' <=> d = e
                         /\ ~Carries(t, d)
                         /\ \A h \in Handler \ {t} : Carries(h, d)' <=> Carries(h, d)
        BY <3>1, <3>2 DEF Carries, Idle
    <3>4. \A h \in Handler : ~Carries(h, e)
        BY <2>2 DEF Once
    <3> SUFFICES ASSUME NEW d \in Ext
                 PROVE  /\ messages'[d] <= 1 + restarts'
                        /\ d \notin seen' => messages'[d] <= restarts'
                        /\ \A h \in Handler : Carries(h, d)' => d \in seen' /\ messages'[d] <= restarts'
                        /\ \A h, u \in Handler : Carries(h, d)' /\ Carries(u, d)' => h = u
                        /\ d \in seen' => \/ messages'[d] > 0 \/ d \in failed'
                                          \/ \E h \in Handler : Carries(h, d)'
        BY DEF Once
    <3>5. CASE d = e
        BY <2>2, <3>1, <3>3, <3>4, <3>5 DEF Once
    <3>6. CASE d # e
      <4>1. \A h \in Handler : Carries(h, d)' <=> Carries(h, d)
          BY <3>3, <3>6
      <4> QED
          BY <3>1, <3>6, <4>1 DEF Once
    <3> QED
        BY <3>5, <3>6
  <2> QED
      BY <2>1, <2>2
<1>4. ASSUME NEW t \in Req, PostStep(t)
      PROVE  Once'
  <2>0. t \in Actor /\ \A h \in Handler : h \in Actor \ {t}
      BY BbsAssumption DEF Actor
  <2>1. task[t].pc \in {"check", "put"} => task[t].msg \notin Ext
      BY <2>0, BbsAssumption, SMTT(40) DEF Types, TaskOK, Actor
  <2>2. \A h \in Handler : task'[h] = task[h]
      BY <1>4, <2>0, PostEffect
  <2>3. UNCHANGED <<seen, failed, restarts>>
      BY <1>4, <2>0, PostEffect
  <2>4. \A e \in Ext : messages'[e] = messages[e]
    <3>1. CASE UNCHANGED messages
        BY <3>1
    <3>2. CASE task[t].pc = "put" /\ messages' = [messages EXCEPT ![task[t].msg] = @ + 1]
        BY <2>1, <3>2 DEF Types, Msg
    <3> QED
        BY <1>4, <2>0, <3>1, <3>2, PostEffect
  <2> QED
      BY <2>2, <2>3, <2>4, OnceSame
<1>5. ASSUME NEW t \in Handler, PostStep(t)
      PROVE  Once'
  <2> DEFINE m == task[t].msg
  <2>0. t \in Actor /\ t \notin Req
      BY BbsAssumption DEF Actor
  <2>1. /\ UNCHANGED <<seen, restarts>>
        /\ \A h \in Handler \ {t} : task'[h] = task[h]
      BY <1>5, <2>0, PostEffect DEF Actor
  <2>2. \A d \in Ext : \A h \in Handler \ {t} : Carries(h, d)' <=> Carries(h, d)
      BY <2>1 DEF Carries
  <2>3. task[t].pc \in {"check", "put"} => m \in Ext /\ Carries(t, m)
      BY <2>0 DEF Types, TaskOK, Actor, Carries
  <2>4. CASE /\ task[t].pc = "check"
             /\ task'[t] = [pc |-> "put", msg |-> task[t].msg, seals |-> seals]
             /\ UNCHANGED <<messages, failed>>
    <3>1. \A d \in Ext : Carries(t, d)' <=> Carries(t, d)
        BY <2>4 DEF Carries
    <3>2. \A d \in Ext : \A h \in Handler : Carries(h, d)' <=> Carries(h, d)
        BY <2>2, <3>1
    <3> QED
        BY <2>1, <2>4, <3>2 DEF Once
  <2>5. ASSUME task[t].pc \in {"check", "put"}, task'[t].pc \in {"answer", "done"},
               failed \subseteq failed',
               \A d \in Ext \ {m} : messages'[d] = messages[d],
               messages'[m] \in {messages[m], messages[m] + 1},
               messages'[m] > 0 \/ m \in failed'
        PROVE  Once'
    <3>1. \A d \in Ext : ~Carries(t, d)'
        BY <2>5 DEF Carries
    <3>2. m \in seen /\ messages[m] <= restarts /\ \A h \in Handler \ {t} : ~Carries(h, m)
        BY <2>3, <2>5 DEF Once
    <3> HIDE DEF m
    <3> SUFFICES ASSUME NEW d \in Ext
                 PROVE  /\ messages'[d] <= 1 + restarts'
                        /\ d \notin seen' => messages'[d] <= restarts'
                        /\ \A h \in Handler : Carries(h, d)' => d \in seen' /\ messages'[d] <= restarts'
                        /\ \A h, u \in Handler : Carries(h, d)' /\ Carries(u, d)' => h = u
                        /\ d \in seen' => \/ messages'[d] > 0 \/ d \in failed'
                                          \/ \E h \in Handler : Carries(h, d)'
        BY DEF Once
    <3>3. CASE d = m
      <4>1. \A h \in Handler : ~Carries(h, d)'
          BY <2>2, <3>1, <3>2, <3>3
      <4> QED
          BY <1>0, <2>1, <2>5, <3>2, <3>3, <4>1
    <3>4. CASE d # m
      <4>1. ~Carries(t, d)
          BY <3>4 DEF Carries, m
      <4>2. \A h \in Handler : Carries(h, d)' <=> Carries(h, d)
          BY <2>2, <3>1, <4>1
      <4> QED
          BY <2>1, <2>5, <3>4, <4>2 DEF Once
    <3> QED
        BY <3>3, <3>4
  <2>6. CASE /\ task[t].pc \in {"check", "put"} /\ task'[t].pc \in {"answer", "done"}
             /\ failed' = failed \cup {m} /\ UNCHANGED messages
      BY <2>5, <2>6
  <2>7. CASE /\ task[t].pc = "put" /\ task'[t].pc \in {"answer", "done"}
             /\ messages' = [messages EXCEPT ![m] = @ + 1] /\ UNCHANGED failed
    <3>1. m \in Ext /\ messages[m] \in Nat
        BY <1>0, <2>3, <2>7
    <3> HIDE DEF m
    <3>2. /\ messages'[m] = messages[m] + 1
          /\ \A d \in Ext \ {m} : messages'[d] = messages[d]
        BY <2>7, <3>1 DEF Types, Msg
    <3> QED
        BY <2>5, <2>7, <3>1, <3>2
  <2>8. CASE task[t].pc = "answer" /\ task'[t] = Idle /\ UNCHANGED <<messages, failed>>
    <3>1. \A d \in Ext : ~Carries(t, d) /\ ~Carries(t, d)'
        BY <2>8 DEF Carries, Idle
    <3>2. \A d \in Ext : \A h \in Handler : Carries(h, d)' <=> Carries(h, d)
        BY <2>2, <3>1
    <3> QED
        BY <2>1, <2>8, <3>2 DEF Once
  <2> QED
      BY <1>5, <2>0, <2>4, <2>6, <2>7, <2>8, PostEffect
<1>6. CASE Restart
  <2>1. \A h \in Handler : task'[h] = Idle \/ task'[h] = Done
      BY <1>6 DEF Restart
  <2>2. \A h \in Handler, d \in Ext : ~Carries(h, d)'
      BY <2>1 DEF Carries, Idle, Done
  <2>3. restarts' = restarts + 1 /\ seen' = {} /\ UNCHANGED messages
      BY <1>6 DEF Restart
  <2> QED
      BY <1>0, <2>2, <2>3 DEF Once
<1> QED
    BY <1>1, <1>2, <1>3, <1>4, <1>5, <1>6 DEF Next

\* A post under way acknowledges its own message at most, and loses none.
LEMMA PostAcks ==
  ASSUME Types, NEW t \in Actor, PostStep(t)
  PROVE  /\ \/ acked' = acked
            \/ task[t].pc = "answer" /\ acked' \subseteq acked \cup {task[t].msg}
         /\ task'[t].pc = "answer" =>
              /\ t \in Handler /\ task'[t].msg = task[t].msg
              /\ task[t].pc \in {"check", "put"}
         /\ UNCHANGED <<seen, gone>> /\ failed \subseteq failed'
         /\ \A e \in Ext : messages[e] > 0 => messages'[e] > 0
<1>1. \/ acked' = acked
      \/ task[t].pc = "answer" /\ acked' \subseteq acked \cup {task[t].msg}
    BY PostEffect
<1>2. ASSUME task'[t].pc = "answer"
      PROVE  /\ t \in Handler /\ task'[t].msg = task[t].msg
             /\ task[t].pc \in {"check", "put"}
  <2>0. task'[t] # Idle /\ task'[t] # [pc |-> "put", msg |-> task[t].msg, seals |-> seals]
      BY <1>2 DEF Idle
  <2>1. task[t].pc \in {"check", "put"} /\ Returned(t)
      BY <1>2, <2>0, PostEffect
  <2> QED
      BY <1>2, <2>1, ReturnTypes
<1>3. UNCHANGED <<seen, gone>> /\ failed \subseteq failed'
    BY PostEffect
<1>4. ASSUME NEW e \in Ext, messages[e] > 0
      PROVE  messages'[e] > 0
  <2>1. CASE UNCHANGED messages
      BY <1>4, <2>1
  <2>2. CASE messages' = [messages EXCEPT ![task[t].msg] = @ + 1]
      BY <1>4, <2>2 DEF Types, Msg
  <2> QED
      BY <2>1, <2>2, PostEffect
<1> QED
    BY <1>1, <1>2, <1>3, <1>4

\* No acknowledged delivery is lost sight of.
LEMMA AccountedStep == Types /\ Once /\ Accounted /\ [Next]_vars => Accounted'
<1> SUFFICES ASSUME Types, Once, Accounted, [Next]_vars
             PROVE  Accounted'
    OBVIOUS
<1>0. acked \subseteq Ext /\ \A e \in Ext : messages[e] \in Nat
    BY DEF Types, Msg
<1>1. CASE UNCHANGED vars
    BY <1>1 DEF vars, Accounted
<1>2. ASSUME NEW t \in Req,
             \/ CreateCheck(t) \/ CreatePut(t) \/ LockPut(t) \/ BeginPost(t)
             \/ \E to \in BOOLEAN : LockRead(t, to)
      PROVE  Accounted'
  <2>1. UNCHANGED <<seen, acked, failed, gone, messages>>
      BY <1>2 DEF CreateCheck, CreatePut, LockPut, BeginPost, LockRead
  <2>2. \E r : task' = [task EXCEPT ![t] = r]
      BY <1>2 DEF CreateCheck, CreatePut, LockPut, BeginPost, LockRead
  <2>3. \A h \in Handler : task'[h] = task[h]
      BY <2>2, BbsAssumption DEF Types
  <2> QED
      BY <2>1, <2>3 DEF Accounted
<1>3. ASSUME NEW t \in Handler, NEW e \in Ext, Deliver(t, e)
      PROVE  Accounted'
  <2>0. t \in Actor
      BY DEF Actor
  <2>1. CASE e \in seen
      BY <1>3, <2>1 DEF Deliver, Accounted
  <2>2. CASE e \notin seen
    <3>1. /\ task' = [task EXCEPT ![t] = [pc |-> "check", msg |-> e]]
          /\ seen' = seen \cup {e} /\ UNCHANGED <<acked, messages, failed, gone>>
        BY <1>3, <2>2 DEF Deliver, RecordSeen
    <3>2. /\ task'[t] = [pc |-> "check", msg |-> e]
          /\ \A h \in Handler \ {t} : task'[h] = task[h]
        BY <2>0, <3>1, TaskUpdate DEF Actor
    <3> QED
        BY <3>1, <3>2 DEF Accounted
  <2> QED
      BY <2>1, <2>2
<1>4. ASSUME NEW t \in Actor, PostStep(t)
      PROVE  Accounted'
  <2>0. TaskOK(t)
      BY DEF Types, Actor
  <2>1. t \in Handler /\ task[t].pc \in {"check", "put"} => task[t].msg \in seen
    <3>1. t \in Handler /\ task[t].pc \in {"check", "put"} =>
            Carries(t, task[t].msg) /\ task[t].msg \in Ext
        BY <2>0 DEF TaskOK, Carries
    <3> QED
        BY <3>1 DEF Once
  <2>2. task[t].pc = "answer" => t \in Handler /\ task[t].msg \in seen
      BY <2>0 DEF TaskOK, Accounted
  <2>3. \A e \in acked' : e \in acked \/ e \in seen
      BY <1>4, <2>2, PostAcks
  <2>4. \A e \in acked' : messages'[e] > 0 \/ e \in failed' \/ e \in gone' \/ e \in seen'
      BY <1>0, <1>4, <2>3, PostAcks DEF Accounted
  <2>5. task'[t].pc = "answer" => task'[t].msg \in seen'
      BY <1>4, <2>1, PostAcks
  <2>6. \A h \in Handler \ {t} : task'[h] = task[h] /\ seen' = seen
      BY <1>4, PostEffect DEF Actor
  <2> QED
      BY <2>4, <2>5, <2>6 DEF Accounted
<1>5. CASE Restart
  <2>1. \A t \in Handler : task'[t] = Idle \/ task'[t] = Done
      BY <1>5 DEF Restart
  <2> QED
      BY <1>0, <1>5, <2>1 DEF Restart, Accounted, Idle, Done
<1> QED
    BY <1>1, <1>2, <1>3, <1>4, <1>5 DEF Next, Actor
----------------------------------------------------------------------------
(* Theorems *)

\* The invariant holds before the first request.
LEMMA InvInit == Init => Inv
<1> SUFFICES ASSUME Init
             PROVE  Inv
    OBVIOUS
<1>1. \A t \in Req \cup Handler : task[t] = Idle
    BY DEF Init
<1>2. Types
  <2>1. \A t \in Req \cup Handler : TaskOK(t)
      BY <1>1 DEF TaskOK, Idle
  <2>2. board \in Board
    <3>1. PICK x \in BOOLEAN : board = [exists |-> x, locked |-> FALSE, by |-> NoOne]
        BY DEF Init
    <3> QED
        BY <3>1 DEF Board
  <2>3. messages \in [Msg -> Nat] /\ task = [t \in Req \cup Handler |-> task[t]]
      BY DEF Init
  <2>4. restarts \in 0..MaxRestarts /\ seals \in Nat
      BY BbsAssumption DEF Init
  <2> QED
      BY <2>1, <2>2, <2>3, <2>4 DEF Init, Types
<1>3. Seal /\ Founder
    BY <1>1 DEF Init, Seal, Founder, Idle
<1>4. Once
    BY <1>1 DEF Init, Once, Carries, Idle, Msg
<1>5. Accounted
    BY <1>1 DEF Init, Accounted, Idle
<1> QED
    BY <1>2, <1>3, <1>4, <1>5 DEF Inv

\* The invariant holds in every reachable state.
THEOREM ServiceInOrder == Spec => []Inv
<1>1. Inv /\ [Next]_vars => Inv'
    BY TypesStep, SealStep, FounderStep, OnceStep, AccountedStep DEF Inv
<1> QED
    BY <1>1, InvInit, PTL DEF Spec

\* Once a lock is acknowledged and no older read of the board is still to be
\* written back, the board stays locked and only posts that looked at the flag
\* before can still be stored (Bbs::set_locked and Bbs::post).
THEOREM LockHolds == Spec => []SealedBoardStaysQuiet
<1>1. Inv => SealedBoardStaysQuiet
    BY DEF Inv, Seal, SealedBoardStaysQuiet
<1> QED
    BY <1>1, ServiceInOrder, PTL

\* A creator answered while no other request held a copy of the board remains
\* its founder, through every lock, unlock and restart (Bbs::create_board).
THEOREM FounderHolds == Spec => []FounderIsKept
<1>1. Inv => FounderIsKept
    BY DEF Inv, Founder, FounderIsKept
<1> QED
    BY <1>1, ServiceInOrder, PTL

\* One life of the process stores a platform's message at most once, however
\* many handlers it is delivered to (deliver_slack_message and its siblings
\* behind SeenSet::seen_or_record), and every life can store it once more: the
\* process may stop after the store and before the 200.  A message the platform
\* was told is delivered is accounted for.
THEOREM DeliveredOnce == Spec => []BridgedOnce
<1>1. Inv => BridgedOnce
  <2> SUFFICES ASSUME Inv, NEW e \in Ext
               PROVE  /\ messages[e] <= 1 + restarts
                      /\ e \in seen => messages[e] > 0 \/ e \in failed \/ InFlight(e)
                      /\ e \in acked => \/ messages[e] > 0 \/ e \in failed
                                        \/ e \in gone \/ InFlight(e)
      BY DEF BridgedOnce
  <2>1. ASSUME NEW t \in Handler, Carries(t, e)
        PROVE  InFlight(e)
      BY <2>1 DEF Carries, InFlight, Idle
  <2>2. /\ messages[e] <= 1 + restarts
        /\ e \in seen => messages[e] > 0 \/ e \in failed \/ InFlight(e)
      BY <2>1 DEF Inv, Once
  <2> QED
      BY <2>2 DEF Inv, Accounted
<1> QED
    BY <1>1, ServiceInOrder, PTL
=============================================================================
