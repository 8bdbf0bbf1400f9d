-------------------------- MODULE PodEventsProofs --------------------------
(***************************************************************************)
(* Proofs about the pod control plane, for any number of pods, rooms,      *)
(* events, workers, pollers and requests: of PodEvents, typing, the        *)
(* at-most-once and ordering guarantees of the callback path, the ledger,  *)
(* the reputation book and the polls, what is final about a pod's end, and *)
(* that the callback locks come back; of PodSpawn, that a key on record    *)
(* keeps its first pod.                                                    *)
(***************************************************************************)
EXTENDS PodEvents, PodSpawn, NaturalsInduction, WellFoundedInduction, TLAPS

TInv == TypeOK /\ Exclusion

\* What the provers need to know about an event.
LEMMA EventFields ==
  ASSUME NEW e \in Events
  PROVE  /\ e.id \in STRING /\ e.pod \in Pods /\ e.ts \in Nat
         /\ e.status \in EventStatus /\ CostOf(e) \in Nat
         /\ RoomOf[e.pod] \in Rooms /\ e # None
  BY ConstAssumption DEF EventType, CostOf

\* The initial state is well typed and nobody holds a lock.
LEMMA TypeInit == Init => TInv
  BY DEF Init, TInv, TypeOK, Exclusion, WorkerPC, Held, Responses

\* Every step keeps the state well typed and the callback locks exclusive.
LEMMA TypeStep == TInv /\ [Next]_vars => TInv'
<1> SUFFICES ASSUME TInv, [Next]_vars PROVE TInv'
  OBVIOUS
<1> USE DEF TInv
<1>0. CASE UNCHANGED vars
  BY <1>0 DEF vars, podVars, guardVars, effectVars, workerVars, pollVars,
     TypeOK, Exclusion
<1>1. ASSUME NEW p \in Pods, NEW st \in Reported, Register(p, st)
      PROVE  TInv'
  BY <1>1, ConstAssumption DEF Register, guardVars, effectVars, workerVars,
     pollVars, TypeOK, Exclusion, Status
<1>2. ASSUME NEW r \in Rooms, SetLocked(r) PROVE TInv'
  BY <1>2 DEF SetLocked, podVars, guardVars, workerVars, pollVars, TypeOK,
     Exclusion
<1>3. ASSUME NEW w \in Workers, NEW e \in Events, Receive(w, e) PROVE TInv'
  <2> USE DEF podVars, guardVars, effectVars, pollVars, WorkerPC, Held,
          Responses
  <2>1. CASE e.authentic
    <3>1. /\ pc' = [pc EXCEPT ![w] = "lock"]
          /\ ev' = [ev EXCEPT ![w] = e]
          /\ resp' = [resp EXCEPT ![w] = "none"]
      BY <1>3, <2>1 DEF Receive
    <3>2. TypeOK'
      BY <1>3, <3>1 DEF Receive, TypeOK
    <3>3. Exclusion'
      BY <1>3, <3>1 DEF Receive, TypeOK, Exclusion
    <3> QED
      BY <3>2, <3>3
  <2>2. CASE ~e.authentic
    <3>1. /\ pc' = pc /\ ev' = ev
          /\ resp' = [resp EXCEPT ![w] = "refused"]
      BY <1>3, <2>2 DEF Receive
    <3> QED
      BY <1>3, <3>1 DEF Receive, TypeOK, Exclusion
  <2> QED
    BY <2>1, <2>2
<1>4. ASSUME NEW w \in Workers, Step(w) PROVE TInv'
  <2>0. pc[w] # "idle" => /\ ev[w] \in Events /\ ev[w].id \in STRING
                          /\ ev[w].pod \in Pods /\ ev[w].ts \in Nat
                          /\ ev[w].status \in EventStatus
                          /\ CostOf(ev[w]) \in Nat
                          /\ RoomOf[ev[w].pod] \in Rooms
    BY EventFields DEF Exclusion
  <2> USE <2>0 DEF WorkerPC, Held
  <2>1. CASE Acquire(w)
    BY <2>1, ConstAssumption DEF Acquire, Goto, podVars, guardVars, effectVars,
       pollVars, TypeOK, Exclusion
  <2>2. ASSUME NEW r \in Responses, Return(w, r), pc[w] \in Held
        PROVE  /\ cbLock' \in [Pods -> Workers \cup {None}]
               /\ pc' \in [Workers -> WorkerPC]
               /\ ev' \in [Workers -> Events \cup {None}]
               /\ existing' \in [Workers -> Status \cup {None}]
               /\ previous' \in [Workers -> Order \cup {None}]
               /\ resp' \in [Workers -> Responses]
               /\ Exclusion'
    BY <2>2 DEF Return, TypeOK, Exclusion
  <2> USE DEF Responses
  <2>3. CASE Lookup(w)
    <3>0. pc[w] = "lookup" /\ UNCHANGED <<podVars, guardVars, effectVars, pollVars>>
      BY <2>3 DEF Lookup
    <3>1. CASE Return(w, "refused")
      BY <2>2, <3>0, <3>1 DEF podVars, guardVars, effectVars, pollVars, TypeOK
    <3>2. CASE /\ existing' = [existing EXCEPT ![w] = status[ev[w].pod]]
               /\ Goto(w, "dedupe")
               /\ UNCHANGED <<cbLock, previous>>
      BY <3>0, <3>2 DEF Goto, podVars, guardVars, effectVars, pollVars, TypeOK,
         Exclusion
    <3> QED
      BY <2>3, <3>1, <3>2 DEF Lookup
  <2>4. CASE Dedupe(w)
    BY <2>2, <2>4, ZenonT(60) DEF Dedupe, Goto, podVars, guardVars, effectVars, pollVars,
       TypeOK, Exclusion
  <2>5. CASE Reserve(w)
    <3>0. pc[w] = "reserve" /\ UNCHANGED <<podVars, effectVars, pollVars>>
      BY <2>5 DEF Reserve
    <3>1. CASE (Return(w, "dup") \/ Return(w, "refused")) /\ UNCHANGED guardVars
      BY <2>2, <3>0, <3>1 DEF podVars, guardVars, effectVars, pollVars, TypeOK
    <3>2. CASE /\ previous' = [previous EXCEPT ![w] = last[ev[w].pod]]
               /\ last' = [last EXCEPT ![ev[w].pod] =
                             [ts |-> ev[w].ts, id |-> ev[w].id]]
               /\ seen' = seen \cup {ev[w].id}
               /\ Goto(w, "room")
               /\ UNCHANGED <<cbLock, existing>>
      <4>1. [ts |-> ev[w].ts, id |-> ev[w].id] \in Order
        BY <3>0 DEF Order
      <4> QED
        BY <3>0, <3>2, <4>1 DEF Goto, podVars, effectVars, pollVars, TypeOK,
           Exclusion
    <3> QED
      BY <2>5, <3>1, <3>2 DEF Reserve
  <2>6. CASE EnsureRoom(w)
    BY <2>6 DEF EnsureRoom, Goto, podVars, guardVars, pollVars, TypeOK,
       Exclusion
  <2>7. CASE Post(w)
    <3>1. board' \in Seq(Events)
      <4>1. ev[w] \in Events /\ board \in Seq(Events)
        BY <2>7 DEF Post, TypeOK
      <4>2. Append(board, ev[w]) \in Seq(Events)
        BY <4>1
      <4> QED
        BY <2>7, <4>1, <4>2 DEF Post
    <3>2. \/ pc' = [pc EXCEPT ![w] = "budget"]
          \/ pc' = [pc EXCEPT ![w] = "rollback"]
      BY <2>7 DEF Post, Goto
    <3>3. /\ pc[w] = "post"
          /\ UNCHANGED <<podVars, guardVars, cbLock, rooms, spent, outcomes,
                         existing, previous, pollVars, ev, resp>>
      BY <2>7 DEF Post, Goto
    <3>4. /\ pc' \in [Workers -> WorkerPC]
          /\ \A v \in Workers : pc[v] \in Held <=> pc'[v] \in Held
          /\ \A v \in Workers : pc[v] = "idle" <=> pc'[v] = "idle"
      BY <3>2, <3>3, ZenonT(60) DEF TypeOK
    <3> QED
      BY <3>1, <3>3, <3>4 DEF podVars, guardVars, pollVars, TypeOK, Exclusion
  <2>8. CASE Rollback(w)
    BY <2>2, <2>8 DEF Rollback, podVars, effectVars, pollVars, TypeOK,
       Exclusion
  <2>9. CASE RecordSpend(w)
    BY <2>9 DEF RecordSpend, Goto, podVars, guardVars, pollVars, TypeOK,
       Exclusion
  <2>10. CASE RecordOutcome(w)
    BY <2>10 DEF RecordOutcome, Goto, podVars, guardVars, pollVars, TypeOK,
       Exclusion
  <2>11. CASE Commit(w)
    BY <2>2, <2>11 DEF Commit, guardVars, effectVars, pollVars, TypeOK,
       Exclusion, Status, GatewayStatus
  <2> QED
    BY <1>4, <2>1, <2>3, <2>4, <2>5, <2>6, <2>7, <2>8, <2>9, <2>10, <2>11
    DEF Step
<1>5. ASSUME NEW q \in Pollers, NEW p \in Pods, PollRead(q, p) PROVE TInv'
  BY <1>5 DEF PollRead, podVars, guardVars, effectVars, workerVars, TypeOK,
     Exclusion
<1>6. ASSUME NEW q \in Pollers, NEW st \in Reported, PollAnswer(q, st)
      PROVE  TInv'
  <2>1. /\ status' \in [Pods -> Status \cup {None}]
        /\ rev' \in [Pods -> Nat]
    <3>0. polled[q] \in Pods /\ st \in Status
      BY <1>6, ConstAssumption DEF PollAnswer, TypeOK, Status
    <3>1. CASE UNCHANGED podVars
      BY <3>1 DEF podVars, TypeOK
    <3>2. CASE /\ status' = [status EXCEPT ![polled[q]] = st]
               /\ rev' = [rev EXCEPT ![polled[q]] = @ + 1]
      BY <3>0, <3>2 DEF TypeOK
    <3> QED
      BY <1>6, <3>1, <3>2 DEF PollAnswer, CommitPolled
  <2>2. /\ polled' \in [Pollers -> Pods \cup {None}]
        /\ snapStatus' \in [Pollers -> Status \cup {None}]
        /\ snapRev' \in [Pollers -> Nat]
    BY <1>6 DEF PollAnswer, PollReturn, TypeOK
  <2> QED
    BY <1>6, <2>1, <2>2 DEF PollAnswer, guardVars, effectVars, workerVars,
       TypeOK, Exclusion
<1>7. ASSUME NEW q \in Pollers, PollError(q) PROVE TInv'
  BY <1>7 DEF PollError, PollReturn, podVars, guardVars, effectVars,
     workerVars, TypeOK, Exclusion
<1> QED
  BY <1>0, <1>1, <1>2, <1>3, <1>4, <1>5, <1>6, <1>7 DEF Next

(* The state of the pod control plane is always well typed.                *)
THEOREM Typing == Spec => []TypeOK
<1>1. TInv => TypeOK
  BY DEF TInv
<1> QED
  BY TypeInit, TypeStep, <1>1, PTL DEF Spec
-----------------------------------------------------------------------------
(* The guard and the board.                                                *)

Core ==
    /\ SettledIsPosted /\ Reservations /\ LastSettled /\ BoardBehindLast
    /\ PostedAtMostOnce /\ PostedInOrder

\* What a step does that neither takes, uses nor undoes a reservation.
Aside ==
    /\ seen' = seen /\ last' = last /\ board' = board
    /\ \A v \in Workers :
         /\ pc'[v] \in Reserving <=> pc[v] \in Reserving
         /\ pc[v] \in Reserving => ev'[v] = ev[v] /\ previous'[v] = previous[v]

\* The guard and the board agree initially: both are empty.
LEMMA CoreInit == Init => Core
  BY DEF Init, Core, SettledIsPosted, Reservations, LastSettled,
     BoardBehindLast, PostedAtMostOnce, PostedInOrder, Settled, Reserving

\* A step that leaves guard, board and reservations alone keeps them in agreement.
LEMMA CoreAside == Core /\ Aside => Core'
<1> SUFFICES ASSUME Core, Aside PROVE Core'
  OBVIOUS
<1>1. Settled' = Settled
  BY DEF Aside, Settled
<1>2. SettledIsPosted'
  BY <1>1 DEF Core, Aside, SettledIsPosted
<1>3. Reservations'
  BY <1>1 DEF Core, Aside, Reservations
<1>4. LastSettled'
  BY <1>1 DEF Core, Aside, LastSettled
<1>5. BoardBehindLast'
  BY DEF Core, Aside, BoardBehindLast
<1>6. PostedAtMostOnce' /\ PostedInOrder'
  BY DEF Core, Aside, PostedAtMostOnce, PostedInOrder
<1> QED
  BY <1>2, <1>3, <1>4, <1>5, <1>6 DEF Core

\* A handler's return, from where it holds no reservation, is such a step.
LEMMA ReturnAside ==
  ASSUME TInv, NEW w \in Workers, NEW r, pc[w] \notin Reserving, Return(w, r),
         seen' = seen, last' = last, board' = board
  PROVE  Aside
  BY DEF TInv, TypeOK, Return, Aside, Reserving

\* So is a step of the program counter that stays on its side.
LEMMA GotoAside ==
  ASSUME TInv, NEW w \in Workers, NEW l, Goto(w, l),
         pc[w] \in Reserving <=> l \in Reserving,
         pc[w] \in Reserving => previous' = previous,
         \A v \in Workers \ {w} : previous'[v] = previous[v],
         seen' = seen, last' = last, board' = board
  PROVE  Aside
  BY DEF TInv, TypeOK, Goto, Aside

\* Two handlers past the lock are handlers of different pods.
LEMMA HoldersDiffer ==
  ASSUME TInv, NEW v \in Workers, NEW w \in Workers, pc[v] \in Held,
         pc[w] \in Held, ev[v].pod = ev[w].pod
  PROVE  v = w
  BY DEF TInv, Exclusion

\* Taking a reservation.
LEMMA ReserveCore ==
  ASSUME TInv, Core, NEW w \in Workers, pc[w] = "reserve",
         ev[w].id \notin seen, ~OutOfOrder(ev[w]),
         previous' = [previous EXCEPT ![w] = last[ev[w].pod]],
         last' = [last EXCEPT ![ev[w].pod] = [ts |-> ev[w].ts, id |-> ev[w].id]],
         seen' = seen \cup {ev[w].id},
         Goto(w, "room"), board' = board
  PROVE  Core'
<1> DEFINE e == ev[w]
<1>0. /\ e \in Events /\ e.id \in STRING /\ e.pod \in Pods /\ e.ts \in Nat
      /\ pc[w] \in Held
  BY EventFields DEF TInv, Exclusion, Held, WorkerPC
<1>1. /\ pc' = [pc EXCEPT ![w] = "room"] /\ ev' = ev
      /\ pc \in [Workers -> WorkerPC] /\ last \in [Pods -> Order \cup {None}]
      /\ previous \in [Workers -> Order \cup {None}]
      /\ \A v \in Workers : pc'[v] \in Reserving <=> (v = w \/ pc[v] \in Reserving)
  BY DEF Goto, TInv, TypeOK, Reserving
<1>2. \A v \in Workers : pc[v] \in Reserving => ev[v].pod # e.pod /\ ev[v].id # e.id
  <2> SUFFICES ASSUME NEW v \in Workers, pc[v] \in Reserving
               PROVE  ev[v].pod # e.pod /\ ev[v].id # e.id
    OBVIOUS
  <2>1. pc[v] \in Held /\ v # w
    BY DEF Held, Reserving, WorkerPC
  <2>2. ev[v].id \in seen
    BY DEF Core, Reservations
  <2> QED
    BY <1>0, <2>1, <2>2, HoldersDiffer
<1>3. Settled' = Settled
  <2>1. \A x \in Settled : x \in Settled'
    BY <1>1 DEF Settled
  <2>2. \A x \in Settled' : x \in Settled
    BY <1>1 DEF Settled
  <2> QED
    BY <2>1, <2>2
<1>4. SettledIsPosted'
  BY <1>3 DEF Core, SettledIsPosted
<1>5. last[e.pod] # None => /\ last[e.pod].id \in Settled
                            /\ last[e.pod].ts \in Nat /\ last[e.pod].ts < e.ts
  <2> SUFFICES ASSUME last[e.pod] # None
               PROVE  /\ last[e.pod].id \in Settled
                      /\ last[e.pod].ts \in Nat /\ last[e.pod].ts < e.ts
    OBVIOUS
  <2>1. last[e.pod].id \in Settled
    BY <1>0, <1>2 DEF Core, LastSettled
  <2>2. last[e.pod].id # e.id
    BY <2>1 DEF Settled
  <2>3. last[e.pod].ts \in Nat
    BY <1>0, <1>1 DEF Order
  <2> QED
    BY <1>0, <2>1, <2>2, <2>3 DEF OutOfOrder
<1>6. Reservations'
  <2> SUFFICES ASSUME NEW v \in Workers, pc'[v] \in Reserving
               PROVE  /\ ev[v].id \in seen'
                      /\ last'[ev[v].pod] = [ts |-> ev[v].ts, id |-> ev[v].id]
                      /\ previous'[v] # None => previous'[v].id \in Settled
                      /\ \A u \in Workers :
                           (pc'[u] \in Reserving /\ ev[u].id = ev[v].id) => u = v
    BY <1>1, <1>3 DEF Reservations
  <2>1. CASE v = w
    BY <1>0, <1>1, <1>2, <1>5, <2>1
  <2>2. CASE v # w
    <3>1. pc[v] \in Reserving /\ ev[v] \in Events
      BY <1>1, <2>2 DEF TInv, Exclusion, Reserving
    <3>2. ev[v].pod \in Pods /\ ev[v].pod # e.pod /\ ev[v].id # e.id
      BY <1>2, <3>1, EventFields
    <3> QED
      BY <1>0, <1>1, <2>2, <3>1, <3>2 DEF Core, Reservations
  <2> QED
    BY <2>1, <2>2
<1>7. LastSettled'
  BY <1>0, <1>1, <1>3 DEF Core, LastSettled
<1>8. BoardBehindLast'
  <2> SUFFICES ASSUME NEW i \in DOMAIN board
               PROVE  /\ last'[board[i].pod] # None
                      /\ board[i].ts <= last'[board[i].pod].ts
                      /\ \A v \in Workers :
                           (pc'[v] \in Reserving /\ ev[v].pod = board[i].pod) =>
                             /\ previous'[v] # None
                             /\ board[i].ts <= previous'[v].ts
                             /\ board[i].ts < ev[v].ts
    BY <1>1 DEF BoardBehindLast
  <2>1. board[i] \in Events /\ board[i].pod \in Pods /\ board[i].ts \in Nat
    BY EventFields DEF TInv, TypeOK
  <2>2. [ts |-> e.ts, id |-> e.id] # None
    BY <1>0, ConstAssumption
  <2>3. /\ last[board[i].pod] # None
        /\ board[i].ts <= last[board[i].pod].ts
        /\ \A v \in Workers : (pc[v] \in Reserving /\ ev[v].pod = board[i].pod) =>
              /\ previous[v] # None
              /\ board[i].ts <= previous[v].ts
              /\ board[i].ts < ev[v].ts
    BY DEF Core, BoardBehindLast
  <2>4. CASE board[i].pod = e.pod
    BY <1>0, <1>1, <1>2, <1>5, <2>1, <2>2, <2>3, <2>4
  <2>5. CASE board[i].pod # e.pod
    BY <1>0, <1>1, <2>1, <2>3, <2>5
  <2> QED
    BY <2>4, <2>5
<1>9. PostedAtMostOnce' /\ PostedInOrder'
  BY DEF Core, PostedAtMostOnce, PostedInOrder
<1> QED
  BY <1>4, <1>6, <1>7, <1>8, <1>9 DEF Core

\* Using a reservation: the event goes to the board and its id is settled.
LEMMA PostCore ==
  ASSUME TInv, Core, NEW w \in Workers, pc[w] = "post",
         board' = Append(board, ev[w]), Goto(w, "budget"),
         seen' = seen, last' = last, previous' = previous
  PROVE  Core'
<1> DEFINE e == ev[w]
           n == Len(board) + 1
<1>0. /\ e \in Events /\ e.id \in STRING /\ e.pod \in Pods /\ e.ts \in Nat
      /\ pc[w] \in Held /\ pc[w] \in Reserving
  BY EventFields DEF TInv, Exclusion, Held, Reserving, WorkerPC
<1>1. /\ pc' = [pc EXCEPT ![w] = "budget"] /\ ev' = ev
      /\ pc \in [Workers -> WorkerPC] /\ last \in [Pods -> Order \cup {None}]
      /\ previous \in [Workers -> Order \cup {None}]
      /\ \A v \in Workers : pc'[v] \in Reserving <=> (v # w /\ pc[v] \in Reserving)
  BY DEF Goto, TInv, TypeOK, Reserving
<1>2. /\ board \in Seq(Events)
      /\ DOMAIN board' = DOMAIN board \cup {n} /\ n \notin DOMAIN board
      /\ board'[n] = e /\ \A i \in DOMAIN board : board'[i] = board[i] /\ i < n
      /\ n \in Nat /\ DOMAIN board \subseteq Nat
  BY <1>0 DEF TInv, TypeOK
<1>3. \A v \in Workers : (v # w /\ pc[v] \in Reserving) =>
                          ev[v].pod # e.pod /\ ev[v].id # e.id
  <2> SUFFICES ASSUME NEW v \in Workers, v # w, pc[v] \in Reserving
               PROVE  ev[v].pod # e.pod /\ ev[v].id # e.id
    OBVIOUS
  <2>1. pc[v] \in Held
    BY DEF Held, Reserving, WorkerPC
  <2> QED
    BY <1>0, <2>1, HoldersDiffer DEF Core, Reservations
<1>4. Settled' = Settled \cup {e.id}
  <2>1. \A x \in Settled \cup {e.id} : x \in Settled'
    BY <1>0, <1>1, <1>3 DEF Settled, Core, Reservations
  <2>2. \A x \in Settled' : x \in Settled \cup {e.id}
    BY <1>1 DEF Settled
  <2> QED
    BY <2>1, <2>2
<1>5. SettledIsPosted'
  <2>1. \A i \in DOMAIN board' : board'[i].id \in Settled'
    BY <1>2, <1>4 DEF Core, SettledIsPosted
  <2>2. \A x \in Settled' : \E i \in DOMAIN board' : board'[i].id = x
    BY <1>2, <1>4 DEF Core, SettledIsPosted
  <2> QED
    BY <2>1, <2>2 DEF SettledIsPosted
<1>6. Reservations'
  BY <1>1, <1>4 DEF Core, Reservations
<1>7. LastSettled'
  <2> SUFFICES ASSUME NEW p \in Pods, last[p] # None
               PROVE  \/ last[p].id \in Settled'
                      \/ \E v \in Workers : pc'[v] \in Reserving /\ ev[v].pod = p
    BY <1>1 DEF LastSettled
  <2>1. CASE p = e.pod
    <3>0. last[e.pod] = [ts |-> e.ts, id |-> e.id]
      BY <1>0 DEF Core, Reservations
    <3>1. last[e.pod].id = e.id
      BY <3>0
    <3> QED
      BY <1>4, <2>1, <3>1
  <2>2. CASE p # e.pod
    BY <1>0, <1>1, <1>4, <2>2 DEF Core, LastSettled
  <2> QED
    BY <2>1, <2>2
<1>8. \A i \in DOMAIN board : /\ board[i].id # e.id
                              /\ board[i].pod = e.pod => board[i].ts < e.ts
  BY <1>0 DEF Core, SettledIsPosted, Settled, BoardBehindLast
<1>9. BoardBehindLast'
  <2> SUFFICES ASSUME NEW i \in DOMAIN board'
               PROVE  /\ last[board'[i].pod] # None
                      /\ board'[i].ts <= last[board'[i].pod].ts
                      /\ \A v \in Workers :
                           (pc'[v] \in Reserving /\ ev[v].pod = board'[i].pod) =>
                             /\ previous[v] # None
                             /\ board'[i].ts <= previous[v].ts
                             /\ board'[i].ts < ev[v].ts
    BY <1>1 DEF BoardBehindLast
  <2>1. CASE i \in DOMAIN board
    BY <1>1, <1>2, <2>1 DEF Core, BoardBehindLast
  <2>2. CASE i = n
    <3>1. last[e.pod] = [ts |-> e.ts, id |-> e.id]
      BY <1>0 DEF Core, Reservations
    <3>2. [ts |-> e.ts, id |-> e.id] # None
      BY <1>0, ConstAssumption
    <3> QED
      BY <1>0, <1>1, <1>2, <1>3, <2>2, <3>1, <3>2
  <2> QED
    BY <1>2, <2>1, <2>2
<1>10. PostedAtMostOnce'
  BY <1>2, <1>8 DEF Core, PostedAtMostOnce
<1>11. PostedInOrder'
  BY <1>2, <1>8 DEF Core, PostedInOrder
<1> QED
  BY <1>5, <1>6, <1>7, <1>9, <1>10, <1>11 DEF Core

\* Undoing a reservation.
LEMMA RollbackCore ==
  ASSUME TInv, Core, NEW w \in Workers, pc[w] = "rollback",
         seen' = seen \ {ev[w].id}, last' = [last EXCEPT ![ev[w].pod] = previous[w]],
         Return(w, "failed"), board' = board
  PROVE  Core'
<1> DEFINE e == ev[w]
<1>0. /\ e \in Events /\ e.id \in STRING /\ e.pod \in Pods /\ e.ts \in Nat
      /\ pc[w] \in Held /\ pc[w] \in Reserving
  BY EventFields DEF TInv, Exclusion, Held, Reserving, WorkerPC
<1>1. /\ last \in [Pods -> Order \cup {None}]
      /\ previous \in [Workers -> Order \cup {None}]
      /\ \A v \in Workers : /\ pc'[v] \in Reserving <=> (v # w /\ pc[v] \in Reserving)
                            /\ v # w => ev'[v] = ev[v] /\ previous'[v] = previous[v]
  BY DEF Return, TInv, TypeOK, Reserving
<1>2. \A v \in Workers : (v # w /\ pc[v] \in Reserving) =>
        ev[v].pod # e.pod /\ ev[v].id # e.id /\ ev[v].pod \in Pods
  <2> SUFFICES ASSUME NEW v \in Workers, v # w, pc[v] \in Reserving
               PROVE  ev[v].pod # e.pod /\ ev[v].id # e.id /\ ev[v].pod \in Pods
    OBVIOUS
  <2>1. pc[v] \in Held /\ ev[v] \in Events
    BY DEF Held, Reserving, WorkerPC, TInv, Exclusion
  <2> QED
    BY <1>0, <2>1, HoldersDiffer, EventFields DEF Core, Reservations
<1>3. Settled' = Settled
  <2>1. \A x \in Settled : x \in Settled'
    BY <1>0, <1>1 DEF Settled
  <2>2. \A x \in Settled' : x \in Settled
    BY <1>1 DEF Settled
  <2> QED
    BY <2>1, <2>2
<1>4. SettledIsPosted'
  BY <1>3 DEF Core, SettledIsPosted
<1>5. Reservations'
  <2> SUFFICES ASSUME NEW v \in Workers, v # w, pc[v] \in Reserving
               PROVE  /\ ev[v].id \in seen'
                      /\ last'[ev[v].pod] = [ts |-> ev[v].ts, id |-> ev[v].id]
                      /\ previous[v] # None => previous[v].id \in Settled
                      /\ \A u \in Workers :
                           (u # w /\ pc[u] \in Reserving /\ ev[u].id = ev[v].id) => u = v
    BY <1>1, <1>3 DEF Reservations
  <2> QED
    BY <1>0, <1>1, <1>2 DEF Core, Reservations
<1>6. LastSettled'
  <2> SUFFICES ASSUME NEW p \in Pods, last'[p] # None
               PROVE  \/ last'[p].id \in Settled
                      \/ \E v \in Workers : pc'[v] \in Reserving /\ ev'[v].pod = p
    BY <1>3 DEF LastSettled
  <2>1. CASE p = e.pod
    BY <1>0, <1>1, <2>1 DEF Core, Reservations
  <2>2. CASE p # e.pod
    BY <1>0, <1>1, <2>2 DEF Core, LastSettled
  <2> QED
    BY <2>1, <2>2
<1>7. BoardBehindLast'
  <2> SUFFICES ASSUME NEW i \in DOMAIN board
               PROVE  /\ last'[board[i].pod] # None
                      /\ board[i].ts <= last'[board[i].pod].ts
                      /\ \A v \in Workers :
                           (v # w /\ pc[v] \in Reserving /\ ev[v].pod = board[i].pod) =>
                             /\ previous[v] # None
                             /\ board[i].ts <= previous[v].ts
                             /\ board[i].ts < ev[v].ts
    BY <1>1 DEF BoardBehindLast
  <2>1. board[i].pod \in Pods
    BY EventFields DEF TInv, TypeOK
  <2> QED
    BY <1>0, <1>1, <2>1 DEF Core, BoardBehindLast
<1>8. PostedAtMostOnce' /\ PostedInOrder'
  BY DEF Core, PostedAtMostOnce, PostedInOrder
<1> QED
  BY <1>4, <1>5, <1>6, <1>7, <1>8 DEF Core

\* Every step keeps the guard, the reservations and the board in agreement.
LEMMA CoreStep == TInv /\ Core /\ [Next]_vars => Core'
<1> SUFFICES ASSUME TInv, Core, [Next]_vars PROVE Core'
  OBVIOUS
<1> USE DEF podVars, guardVars, effectVars, workerVars, pollVars
<1>0. CASE UNCHANGED vars
  BY <1>0, CoreAside DEF vars, Aside
<1>1. ASSUME NEW p \in Pods, NEW st \in Reported, Register(p, st)
      PROVE  Core'
  BY <1>1, CoreAside DEF Register, Aside
<1>2. ASSUME NEW r \in Rooms, SetLocked(r) PROVE Core'
  BY <1>2, CoreAside DEF SetLocked, Aside
<1>3. ASSUME NEW w \in Workers, NEW e \in Events, Receive(w, e) PROVE Core'
  <2>1. Aside
    BY <1>3 DEF Receive, Aside, Reserving, TInv, TypeOK
  <2> QED
    BY <2>1, CoreAside
<1>4. ASSUME NEW w \in Workers, Step(w) PROVE Core'
  <2>1. CASE Acquire(w) \/ EnsureRoom(w) \/ RecordSpend(w) \/ RecordOutcome(w)
    <3>1. Aside
      BY <2>1, GotoAside DEF Acquire, EnsureRoom, RecordSpend, RecordOutcome,
         Reserving
    <3> QED
      BY <3>1, CoreAside
  <2>2. CASE Lookup(w) \/ Dedupe(w) \/ Commit(w)
    <3>1. Aside
      BY <2>2, GotoAside, ReturnAside DEF Lookup, Dedupe, Commit, Reserving
    <3> QED
      BY <3>1, CoreAside
  <2>3. CASE Reserve(w)
    <3>1. CASE (Return(w, "dup") \/ Return(w, "refused")) /\ UNCHANGED guardVars
      <4>1. Aside
        BY <2>3, <3>1, ReturnAside DEF Reserve, Reserving
      <4> QED
        BY <4>1, CoreAside
    <3>2. CASE ~((Return(w, "dup") \/ Return(w, "refused")) /\ UNCHANGED guardVars)
      BY <2>3, <3>2, ReserveCore DEF Reserve
    <3> QED
      BY <3>1, <3>2
  <2>4. CASE Post(w)
    <3>1. CASE Goto(w, "rollback") /\ UNCHANGED board
      <4>1. Aside
        BY <2>4, <3>1, GotoAside DEF Post, Reserving
      <4> QED
        BY <4>1, CoreAside
    <3>2. CASE ~(Goto(w, "rollback") /\ UNCHANGED board)
      BY <2>4, <3>2, PostCore DEF Post
    <3> QED
      BY <3>1, <3>2
  <2>5. CASE Rollback(w)
    BY <2>5, RollbackCore DEF Rollback
  <2> QED
    BY <1>4, <2>1, <2>2, <2>3, <2>4, <2>5 DEF Step
<1>5. ASSUME NEW q \in Pollers, NEW p \in Pods, PollRead(q, p) PROVE Core'
  BY <1>5, CoreAside DEF PollRead, Aside
<1>6. ASSUME NEW q \in Pollers, NEW st \in Reported, PollAnswer(q, st)
      PROVE  Core'
  BY <1>6, CoreAside DEF PollAnswer, Aside
<1>7. ASSUME NEW q \in Pollers, PollError(q) PROVE Core'
  BY <1>7, CoreAside DEF PollError, Aside
<1> QED
  BY <1>0, <1>1, <1>2, <1>3, <1>4, <1>5, <1>6, <1>7 DEF Next
-----------------------------------------------------------------------------
(* Terminal results.                                                       *)

Ending == PostingIsPosted /\ TerminalRecorded /\ NothingAfterTerminal

\* What a step does that neither posts, commits nor passes a terminal check.
Bystander ==
    /\ board' = board
    /\ \A p \in Pods : (status[p] # None /\ IsTerminal(status[p])) => status'[p] = status[p]
    /\ \A v \in Workers :
         /\ pc'[v] \in Posting <=> pc[v] \in Posting
         /\ pc'[v] = "dedupe" => pc[v] = "dedupe" /\ existing'[v] = existing[v]
         /\ pc'[v] \in {"reserve"} \cup Reserving => pc[v] \in {"reserve"} \cup Reserving
         /\ pc'[v] \in Posting \cup {"dedupe", "reserve"} \cup Reserving => ev'[v] = ev[v]

\* Initially no terminal result is on the board.
LEMMA EndingInit == Init => Ending
  BY DEF Init, Ending, PostingIsPosted, TerminalRecorded, NothingAfterTerminal,
     TerminalPosted, Posting, Reserving

\* A step beside the posting handlers keeps terminal results recorded and last.
LEMMA EndingBystander == Ending /\ Bystander => Ending'
<1> SUFFICES ASSUME Ending, Bystander PROVE Ending'
  OBVIOUS
<1>1. PostingIsPosted'
  BY DEF Ending, Bystander, PostingIsPosted
<1>2. \A p : TerminalPosted(p)' <=> TerminalPosted(p)
  BY DEF Bystander, TerminalPosted
<1>3. TerminalRecorded'
  <2>1. ASSUME NEW p \in Pods, TerminalPosted(p)
        PROVE  \/ status'[p] # None /\ IsTerminal(status'[p])
               \/ \E w \in Workers : pc'[w] \in Posting /\ ev'[w].pod = p
                                    /\ IsTerminal(ev'[w].status)
    BY <2>1 DEF Ending, Bystander, TerminalRecorded
  <2>2. ASSUME NEW w \in Workers
        PROVE  /\ (pc'[w] = "dedupe" /\ TerminalPosted(ev'[w].pod)) => IsTerminal(existing'[w])
               /\ pc'[w] \in {"reserve"} \cup Reserving => ~TerminalPosted(ev'[w].pod)
    BY <2>2 DEF Ending, Bystander, TerminalRecorded
  <2> QED
    BY <1>2, <2>1, <2>2 DEF TerminalRecorded, IsTerminal
<1>4. NothingAfterTerminal'
  BY DEF Ending, Bystander, NothingAfterTerminal, IsTerminal
<1> QED
  BY <1>1, <1>3, <1>4 DEF Ending

\* A handler that returns without having posted takes such a step.
LEMMA ReturnBystander ==
  ASSUME TInv, NEW w \in Workers, NEW r, pc[w] \notin Posting, Return(w, r),
         status' = status, board' = board
  PROVE  Bystander
  BY DEF TInv, TypeOK, Return, Bystander, Posting, Reserving

\* So does one whose program counter moves before its post.
LEMMA GotoBystander ==
  ASSUME TInv, NEW w \in Workers, NEW l, Goto(w, l), l # "dedupe",
         pc[w] \in Posting <=> l \in Posting,
         l \in {"reserve"} \cup Reserving => pc[w] \in {"reserve"} \cup Reserving,
         existing' = existing, status' = status, board' = board
  PROVE  Bystander
  BY DEF TInv, TypeOK, Goto, Bystander

\* No other handler past the lock has this handler's pod.
LEMMA Alone ==
  ASSUME TInv, NEW w \in Workers, pc[w] \in Held
  PROVE  \A v \in Workers : (v # w /\ pc[v] \in Held) => ev[v].pod # ev[w].pod
  BY HoldersDiffer

\* The copy Lookup takes is terminal once a terminal result is posted.
LEMMA LookupEnding ==
  ASSUME TInv, Ending, NEW w \in Workers, pc[w] = "lookup",
         existing' = [existing EXCEPT ![w] = status[ev[w].pod]],
         Goto(w, "dedupe"), status' = status, board' = board
  PROVE  Ending'
<1>0. ev[w].pod \in Pods /\ pc[w] \in Held
  BY EventFields DEF TInv, Exclusion, Held, WorkerPC
<1>1. /\ pc' = [pc EXCEPT ![w] = "dedupe"] /\ ev' = ev
      /\ pc \in [Workers -> WorkerPC] /\ existing \in [Workers -> Status \cup {None}]
  BY DEF Goto, TInv, TypeOK
<1>2. \A p : TerminalPosted(p)' <=> TerminalPosted(p)
  BY DEF TerminalPosted
<1>3. TerminalPosted(ev[w].pod) => IsTerminal(status[ev[w].pod])
  <2>1. \A v \in Workers : pc[v] \in Posting => v # w /\ pc[v] \in Held
    BY DEF Posting, Held, WorkerPC
  <2> QED
    BY <1>0, <2>1, Alone DEF Ending, TerminalRecorded
<1>4. PostingIsPosted'
  BY <1>1 DEF Ending, PostingIsPosted, Posting
<1>5. TerminalRecorded'
  <2>1. ASSUME NEW p \in Pods, TerminalPosted(p)
        PROVE  \/ status[p] # None /\ IsTerminal(status[p])
               \/ \E v \in Workers : pc'[v] \in Posting /\ ev[v].pod = p
                                    /\ IsTerminal(ev[v].status)
    BY <1>1, <2>1 DEF Ending, TerminalRecorded, Posting
  <2>2. ASSUME NEW v \in Workers
        PROVE  /\ (pc'[v] = "dedupe" /\ TerminalPosted(ev[v].pod)) => IsTerminal(existing'[v])
               /\ pc'[v] \in {"reserve"} \cup Reserving => ~TerminalPosted(ev[v].pod)
    BY <1>1, <1>3, <2>2 DEF Ending, TerminalRecorded, Reserving
  <2> QED
    BY <1>1, <1>2, <2>1, <2>2 DEF TerminalRecorded, IsTerminal
<1>6. NothingAfterTerminal'
  BY DEF Ending, NothingAfterTerminal, IsTerminal
<1> QED
  BY <1>4, <1>5, <1>6 DEF Ending

\* Dedupe lets no handler of a finished pod pass.
LEMMA DedupeEnding ==
  ASSUME TInv, Ending, NEW w \in Workers, pc[w] = "dedupe",
         ~IsTerminal(existing[w]), Goto(w, "reserve"),
         existing' = existing, status' = status, board' = board
  PROVE  Ending'
<1>1. /\ pc' = [pc EXCEPT ![w] = "reserve"] /\ ev' = ev
      /\ pc \in [Workers -> WorkerPC]
  BY DEF Goto, TInv, TypeOK
<1>2. \A p : TerminalPosted(p)' <=> TerminalPosted(p)
  BY DEF TerminalPosted
<1>3. PostingIsPosted'
  BY <1>1 DEF Ending, PostingIsPosted, Posting
<1>4. TerminalRecorded'
  <2>1. ASSUME NEW p \in Pods, TerminalPosted(p)
        PROVE  \/ status[p] # None /\ IsTerminal(status[p])
               \/ \E v \in Workers : pc'[v] \in Posting /\ ev[v].pod = p
                                    /\ IsTerminal(ev[v].status)
    BY <1>1, <2>1 DEF Ending, TerminalRecorded, Posting
  <2>2. ASSUME NEW v \in Workers
        PROVE  /\ (pc'[v] = "dedupe" /\ TerminalPosted(ev[v].pod)) => IsTerminal(existing[v])
               /\ pc'[v] \in {"reserve"} \cup Reserving => ~TerminalPosted(ev[v].pod)
    BY <1>1, <2>2 DEF Ending, TerminalRecorded, Reserving
  <2> QED
    BY <1>1, <1>2, <2>1, <2>2 DEF TerminalRecorded, IsTerminal
<1>5. NothingAfterTerminal'
  BY DEF Ending, NothingAfterTerminal, IsTerminal
<1> QED
  BY <1>3, <1>4, <1>5 DEF Ending

\* A post comes before any terminal result of its pod, or is the terminal one.
LEMMA PostEnding ==
  ASSUME TInv, Ending, NEW w \in Workers, pc[w] = "post",
         board' = Append(board, ev[w]), Goto(w, "budget"),
         existing' = existing, status' = status
  PROVE  Ending'
<1> DEFINE e == ev[w]
           n == Len(board) + 1
<1>0. e \in Events /\ e.pod \in Pods /\ pc[w] \in Held /\ pc[w] \in Reserving
  BY EventFields DEF TInv, Exclusion, Held, Reserving, WorkerPC
<1>1. /\ pc' = [pc EXCEPT ![w] = "budget"] /\ ev' = ev
      /\ pc \in [Workers -> WorkerPC]
  BY DEF Goto, TInv, TypeOK
<1>2. /\ DOMAIN board' = DOMAIN board \cup {n} /\ n \notin DOMAIN board
      /\ board'[n] = e /\ \A i \in DOMAIN board : board'[i] = board[i] /\ i < n
      /\ n \in Nat /\ DOMAIN board \subseteq Nat
  BY <1>0 DEF TInv, TypeOK
<1>3. \A v \in Workers : (v # w /\ pc[v] \in Held) => ev[v].pod # e.pod
  BY <1>0, Alone
<1>4. ~TerminalPosted(e.pod)
  BY <1>0 DEF Ending, TerminalRecorded
<1>5. \A p : TerminalPosted(p)' <=>
             (TerminalPosted(p) \/ (p = e.pod /\ IsTerminal(e.status)))
  BY <1>2 DEF TerminalPosted, IsTerminal
<1>6. PostingIsPosted'
  <2> SUFFICES ASSUME NEW v \in Workers, pc'[v] \in Posting
               PROVE  \E i \in DOMAIN board' :
                        /\ board'[i] = ev[v]
                        /\ \A j \in DOMAIN board' : j > i => board'[j].pod # ev[v].pod
    BY <1>1 DEF PostingIsPosted
  <2>1. CASE v = w
    BY <1>2, <2>1
  <2>2. CASE v # w
    <3>1. pc[v] \in Posting /\ ev[v].pod # e.pod
      BY <1>1, <1>3, <2>2 DEF Posting, Held, WorkerPC
    <3>2. PICK i \in DOMAIN board : /\ board[i] = ev[v]
                                    /\ \A j \in DOMAIN board : j > i => board[j].pod # ev[v].pod
      BY <3>1 DEF Ending, PostingIsPosted
    <3> QED
      BY <1>2, <3>1, <3>2
  <2> QED
    BY <2>1, <2>2
<1>7. TerminalRecorded'
  <2>1. ASSUME NEW p \in Pods, TerminalPosted(p) \/ (p = e.pod /\ IsTerminal(e.status))
        PROVE  \/ status[p] # None /\ IsTerminal(status[p])
               \/ \E v \in Workers : pc'[v] \in Posting /\ ev[v].pod = p
                                    /\ IsTerminal(ev[v].status)
    BY <1>1, <2>1, ZenonT(60) DEF Ending, TerminalRecorded, Posting, TInv, TypeOK
  <2>2. ASSUME NEW v \in Workers, v # w
        PROVE  /\ (pc[v] = "dedupe" /\ (TerminalPosted(ev[v].pod) \/ ev[v].pod = e.pod))
                    => IsTerminal(existing[v])
               /\ pc[v] \in {"reserve"} \cup Reserving
                    => ~(TerminalPosted(ev[v].pod) \/ ev[v].pod = e.pod)
    BY <1>3, <2>2 DEF Ending, TerminalRecorded, Reserving, Held, WorkerPC
  <2>3. pc'[w] = "budget" /\ \A v \in Workers : v # w => pc'[v] = pc[v]
    BY <1>1
  <2> QED
    BY <1>1, <1>5, <2>1, <2>2, <2>3 DEF TerminalRecorded, IsTerminal, Reserving
<1>8. NothingAfterTerminal'
  <2> SUFFICES ASSUME NEW i \in DOMAIN board', NEW j \in DOMAIN board', i < j,
                      board'[i].pod = board'[j].pod
               PROVE  ~IsTerminal(board'[i].status)
    BY DEF NothingAfterTerminal, IsTerminal
  <2>1. i \in DOMAIN board
    BY <1>2
  <2>2. CASE j \in DOMAIN board
    BY <1>2, <2>1, <2>2 DEF Ending, NothingAfterTerminal
  <2>3. CASE j = n
    BY <1>2, <1>4, <2>1, <2>3 DEF TerminalPosted
  <2> QED
    BY <1>2, <2>2, <2>3
<1> QED
  BY <1>6, <1>7, <1>8 DEF Ending

\* The commit of a terminal result makes the record terminal.
LEMMA CommitEnding ==
  ASSUME TInv, Ending, NEW w \in Workers, Commit(w)
  PROVE  Ending'
<1> DEFINE e == ev[w]
<1>0. /\ e \in Events /\ e.pod \in Pods /\ e.status \in EventStatus
      /\ pc[w] \in Held /\ pc[w] \in Posting
  BY EventFields DEF TInv, Exclusion, Held, Posting, WorkerPC, Commit
<1>1. /\ board' = board /\ status' = [status EXCEPT ![e.pod] = e.status]
      /\ status \in [Pods -> Status \cup {None}]
      /\ pc'[w] = "idle"
      /\ \A v \in Workers : v # w => /\ pc'[v] = pc[v] /\ ev'[v] = ev[v]
                                      /\ existing'[v] = existing[v]
  BY DEF Commit, Return, effectVars, TInv, TypeOK
<1>2. \A p : TerminalPosted(p)' <=> TerminalPosted(p)
  BY <1>1 DEF TerminalPosted, IsTerminal
<1>3. TerminalPosted(e.pod) => IsTerminal(e.status)
  <2> SUFFICES ASSUME NEW k \in DOMAIN board, board[k].pod = e.pod,
                      IsTerminal(board[k].status)
               PROVE  IsTerminal(e.status)
    BY DEF TerminalPosted
  <2>1. PICK i \in DOMAIN board : /\ board[i] = e
                                  /\ \A j \in DOMAIN board : j > i => board[j].pod # e.pod
    BY <1>0 DEF Ending, PostingIsPosted
  <2>2. i \in Nat /\ k \in Nat
    BY DEF TInv, TypeOK
  <2>3. ~(k > i) /\ ~(k < i)
    BY <2>1 DEF Ending, NothingAfterTerminal
  <2> QED
    BY <2>1, <2>2, <2>3
<1>4. e.status # None
  BY <1>0, ConstAssumption DEF GatewayStatus
<1>5. PostingIsPosted'
  BY <1>1 DEF Ending, PostingIsPosted, Posting
<1>6. TerminalRecorded'
  <2>1. ASSUME NEW p \in Pods, TerminalPosted(p)
        PROVE  \/ status'[p] # None /\ IsTerminal(status'[p])
               \/ \E v \in Workers : pc'[v] \in Posting /\ ev'[v].pod = p
                                    /\ IsTerminal(ev'[v].status)
    <3>1. CASE p = e.pod
      BY <1>1, <1>3, <1>4, <2>1, <3>1
    <3>2. CASE p # e.pod
      BY <1>1, <2>1, <3>2 DEF Ending, TerminalRecorded
    <3> QED
      BY <3>1, <3>2
  <2>2. ASSUME NEW v \in Workers
        PROVE  /\ (pc'[v] = "dedupe" /\ TerminalPosted(ev'[v].pod)) => IsTerminal(existing'[v])
               /\ pc'[v] \in {"reserve"} \cup Reserving => ~TerminalPosted(ev'[v].pod)
    BY <1>1, <2>2 DEF Ending, TerminalRecorded, Reserving
  <2> QED
    BY <1>2, <2>1, <2>2 DEF TerminalRecorded, IsTerminal
<1>7. NothingAfterTerminal'
  BY <1>1 DEF Ending, NothingAfterTerminal, IsTerminal
<1> QED
  BY <1>5, <1>6, <1>7 DEF Ending

\* Every step keeps terminal results recorded and last on the board.
LEMMA EndingStep == TInv /\ Ending /\ [Next]_vars => Ending'
<1> SUFFICES ASSUME TInv, Ending, [Next]_vars PROVE Ending'
  OBVIOUS
<1> USE DEF podVars, guardVars, effectVars, workerVars, pollVars
<1>0. CASE UNCHANGED vars
  BY <1>0, EndingBystander DEF vars, Bystander
<1>1. ASSUME NEW p \in Pods, NEW st \in Reported, Register(p, st)
      PROVE  Ending'
  <2>1. Bystander
    BY <1>1 DEF Register, Bystander, TInv, TypeOK
  <2> QED
    BY <2>1, EndingBystander
<1>2. ASSUME NEW r \in Rooms, SetLocked(r) PROVE Ending'
  BY <1>2, EndingBystander DEF SetLocked, Bystander
<1>3. ASSUME NEW w \in Workers, NEW e \in Events, Receive(w, e) PROVE Ending'
  <2>1. Bystander
    BY <1>3 DEF Receive, Bystander, Posting, Reserving, TInv, TypeOK
  <2> QED
    BY <2>1, EndingBystander
<1>4. ASSUME NEW w \in Workers, Step(w) PROVE Ending'
  <2>1. CASE Acquire(w) \/ EnsureRoom(w) \/ RecordSpend(w) \/ RecordOutcome(w)
    <3>1. Bystander
      BY <2>1, GotoBystander DEF Acquire, EnsureRoom, RecordSpend,
         RecordOutcome, Posting, Reserving
    <3> QED
      BY <3>1, EndingBystander
  <2>2. CASE Lookup(w)
    <3>1. CASE Return(w, "refused")
      BY <2>2, <3>1, ReturnBystander, EndingBystander DEF Lookup, Posting
    <3>2. CASE ~Return(w, "refused")
      BY <2>2, <3>2, LookupEnding DEF Lookup
    <3> QED
      BY <3>1, <3>2
  <2>3. CASE Dedupe(w)
    <3>1. CASE Return(w, "dup") \/ Return(w, "refused")
      BY <2>3, <3>1, ReturnBystander, EndingBystander DEF Dedupe, Posting
    <3>2. CASE ~(Return(w, "dup") \/ Return(w, "refused"))
      BY <2>3, <3>2, DedupeEnding DEF Dedupe, TransitionAllowed
    <3> QED
      BY <3>1, <3>2
  <2>4. CASE Reserve(w)
    <3>1. CASE Return(w, "dup") \/ Return(w, "refused")
      BY <2>4, <3>1, ReturnBystander, EndingBystander DEF Reserve, Posting
    <3>2. CASE ~(Return(w, "dup") \/ Return(w, "refused"))
      BY <2>4, <3>2, GotoBystander, EndingBystander DEF Reserve, Posting, Reserving
    <3> QED
      BY <3>1, <3>2
  <2>5. CASE Post(w)
    <3>1. CASE Goto(w, "rollback") /\ UNCHANGED board
      BY <2>5, <3>1, GotoBystander, EndingBystander DEF Post, Posting, Reserving
    <3>2. CASE ~(Goto(w, "rollback") /\ UNCHANGED board)
      BY <2>5, <3>2, PostEnding DEF Post
    <3> QED
      BY <3>1, <3>2
  <2>6. CASE Rollback(w)
    BY <2>6, ReturnBystander, EndingBystander DEF Rollback, Posting
  <2>7. CASE Commit(w)
    BY <2>7, CommitEnding
  <2> QED
    BY <1>4, <2>1, <2>2, <2>3, <2>4, <2>5, <2>6, <2>7 DEF Step
<1>5. ASSUME NEW q \in Pollers, NEW p \in Pods, PollRead(q, p) PROVE Ending'
  BY <1>5, EndingBystander DEF PollRead, Bystander
<1>6. ASSUME NEW q \in Pollers, NEW st \in Reported, PollAnswer(q, st)
      PROVE  Ending'
  <2>1. Bystander
    BY <1>6 DEF PollAnswer, CommitPolled, Bystander, TInv, TypeOK
  <2> QED
    BY <2>1, EndingBystander
<1>7. ASSUME NEW q \in Pollers, PollError(q) PROVE Ending'
  BY <1>7, EndingBystander DEF PollError, Bystander
<1> QED
  BY <1>0, <1>1, <1>2, <1>3, <1>4, <1>5, <1>6, <1>7 DEF Next
-----------------------------------------------------------------------------
(* Reputation.                                                             *)

\* A handler has posted a terminal result of p and not yet its outcome.
Owed(p) ==
    \E w \in Workers : /\ pc[w] \in {"budget", "reputation"} /\ ev[w].pod = p
                       /\ IsTerminal(ev[w].status)

\* A pod has an outcome once its terminal result is posted and no longer owed.
OutcomesMatch ==
    \A p \in Pods : outcomes[p] = IF TerminalPosted(p) /\ ~Owed(p) THEN 1 ELSE 0

\* A step that posts nothing and records nothing, with the same handlers owing.
Unrelated ==
    /\ board' = board /\ outcomes' = outcomes
    /\ \A v \in Workers :
         /\ pc'[v] \in {"budget", "reputation"} <=> pc[v] \in {"budget", "reputation"}
         /\ pc[v] \in {"budget", "reputation"} => ev'[v] = ev[v]

\* Initially nothing is posted and nothing recorded.
LEMMA OutcomesInit == Init => OutcomesMatch
<1> SUFFICES ASSUME Init, NEW p \in Pods
             PROVE  outcomes[p] = 0 /\ ~TerminalPosted(p)
  BY DEF OutcomesMatch
<1> QED
  BY DEF Init, TerminalPosted

\* Such a step keeps the outcomes in agreement with the board.
LEMMA OutcomesUnrelated == OutcomesMatch /\ Unrelated => OutcomesMatch'
<1> SUFFICES ASSUME OutcomesMatch, Unrelated, NEW p \in Pods
             PROVE  outcomes'[p] = IF TerminalPosted(p)' /\ ~Owed(p)' THEN 1 ELSE 0
  BY DEF OutcomesMatch
<1>1. TerminalPosted(p)' <=> TerminalPosted(p)
  BY DEF Unrelated, TerminalPosted, IsTerminal
<1>2. Owed(p)' <=> Owed(p)
  BY DEF Unrelated, Owed, IsTerminal
<1> QED
  BY <1>1, <1>2 DEF OutcomesMatch, Unrelated

\* A handler that returns, not owing, takes such a step.
LEMMA ReturnUnrelated ==
  ASSUME TInv, NEW w \in Workers, NEW r, pc[w] \notin {"budget", "reputation"},
         Return(w, r), board' = board, outcomes' = outcomes
  PROVE  Unrelated
  BY DEF TInv, TypeOK, Return, Unrelated

\* So does one whose program counter moves outside or inside the owing part.
LEMMA GotoUnrelated ==
  ASSUME TInv, NEW w \in Workers, NEW l, Goto(w, l),
         pc[w] \in {"budget", "reputation"} <=> l \in {"budget", "reputation"},
         board' = board, outcomes' = outcomes
  PROVE  Unrelated
  BY DEF TInv, TypeOK, Goto, Unrelated

\* A post: a terminal result is owed at once, and it is the pod's first.
LEMMA PostOutcomes ==
  ASSUME TInv, Ending, OutcomesMatch, NEW w \in Workers, pc[w] = "post",
         board' = Append(board, ev[w]), Goto(w, "budget"), outcomes' = outcomes
  PROVE  OutcomesMatch'
<1> DEFINE e == ev[w]
           n == Len(board) + 1
<1>0. e \in Events /\ e.pod \in Pods
  BY EventFields DEF TInv, Exclusion
<1>1. /\ pc'[w] = "budget" /\ ev' = ev
      /\ \A v \in Workers : v # w => pc'[v] = pc[v]
  BY DEF Goto, TInv, TypeOK
<1>2. /\ DOMAIN board' = DOMAIN board \cup {n} /\ board'[n] = e
      /\ \A i \in DOMAIN board : board'[i] = board[i]
  BY <1>0 DEF TInv, TypeOK
<1>3. ~TerminalPosted(e.pod)
  BY DEF Ending, TerminalRecorded, Reserving
<1>4. \A p : TerminalPosted(p)' <=>
             (TerminalPosted(p) \/ (p = e.pod /\ IsTerminal(e.status)))
  BY <1>2 DEF TerminalPosted, IsTerminal
<1>5. \A p : Owed(p)' <=> (Owed(p) \/ (p = e.pod /\ IsTerminal(e.status)))
  BY <1>1 DEF Owed, IsTerminal
<1> HIDE DEF e, n
<1>6. ASSUME NEW p \in Pods
      PROVE  outcomes'[p] = IF TerminalPosted(p)' /\ ~Owed(p)' THEN 1 ELSE 0
  <2>1. outcomes[p] = IF TerminalPosted(p) /\ ~Owed(p) THEN 1 ELSE 0
    BY DEF OutcomesMatch
  <2> QED
    BY <1>3, <1>4, <1>5, <2>1
<1> QED
  BY <1>6 DEF OutcomesMatch

\* The outcome of the posted terminal result is recorded, once.
LEMMA RecordOutcomes ==
  ASSUME TInv, Ending, OutcomesMatch, NEW w \in Workers, RecordOutcome(w)
  PROVE  OutcomesMatch'
<1> DEFINE e == ev[w]
<1>0. e \in Events /\ e.pod \in Pods /\ pc[w] = "reputation" /\ pc[w] \in Held
  BY EventFields DEF TInv, Exclusion, RecordOutcome, Held, WorkerPC
<1>1. /\ outcomes' = [outcomes EXCEPT ![e.pod] = IF IsTerminal(e.status) THEN @ + 1 ELSE @]
      /\ board' = board /\ ev' = ev /\ outcomes \in [Pods -> Nat]
      /\ pc'[w] = "commit" /\ \A v \in Workers : v # w => pc'[v] = pc[v]
  BY DEF RecordOutcome, Goto, TInv, TypeOK
<1>2. \A p : TerminalPosted(p)' <=> TerminalPosted(p)
  BY <1>1 DEF TerminalPosted, IsTerminal
<1>3. \A v \in Workers : (v # w /\ pc[v] \in Held) => ev[v].pod # e.pod
  BY <1>0, Alone
<1>4. ASSUME NEW p, p = e.pod
      PROVE  ~Owed(p)'
  BY <1>1, <1>3, <1>4 DEF Owed, Held, WorkerPC
<1>5. ASSUME IsTerminal(e.status)
      PROVE  Owed(e.pod) /\ TerminalPosted(e.pod)
  <2>1. PICK i \in DOMAIN board : board[i] = e
    BY <1>0 DEF Ending, PostingIsPosted, Posting
  <2> QED
    BY <1>0, <1>5, <2>1 DEF Owed, TerminalPosted
<1>6. ASSUME ~IsTerminal(e.status)
      PROVE  ~Owed(e.pod)
  BY <1>3, <1>6 DEF Owed, Held, WorkerPC
<1>7. ASSUME NEW p, p # e.pod
      PROVE  Owed(p)' <=> Owed(p)
  BY <1>0, <1>1, <1>7 DEF Owed, IsTerminal
<1> HIDE DEF e
<1>8. ASSUME NEW p \in Pods
      PROVE  outcomes'[p] = IF TerminalPosted(p)' /\ ~Owed(p)' THEN 1 ELSE 0
  <2>0. outcomes[p] = IF TerminalPosted(p) /\ ~Owed(p) THEN 1 ELSE 0
    BY DEF OutcomesMatch
  <2>1. CASE p # e.pod
    <3>1. outcomes'[p] = outcomes[p]
      BY <1>1, <2>1
    <3> QED
      BY <1>2, <1>7, <2>0, <2>1, <3>1
  <2>2. CASE p = e.pod /\ IsTerminal(e.status)
    <3>1. outcomes'[p] = outcomes[p] + 1
      BY <1>0, <1>1, <2>2
    <3> QED
      BY <1>2, <1>4, <1>5, <2>0, <2>2, <3>1
  <2>3. CASE p = e.pod /\ ~IsTerminal(e.status)
    <3>1. outcomes'[p] = outcomes[p]
      BY <1>0, <1>1, <2>3
    <3> QED
      BY <1>2, <1>4, <1>6, <2>0, <2>3, <3>1
  <2> QED
    BY <2>1, <2>2, <2>3
<1> QED
  BY <1>8 DEF OutcomesMatch

\* Every step keeps the outcomes in agreement with the board.
LEMMA OutcomesStep == TInv /\ Ending /\ OutcomesMatch /\ [Next]_vars => OutcomesMatch'
<1> SUFFICES ASSUME TInv, Ending, OutcomesMatch, [Next]_vars PROVE OutcomesMatch'
  OBVIOUS
<1> USE DEF effectVars, workerVars
<1>0. CASE UNCHANGED vars
  BY <1>0, OutcomesUnrelated DEF vars, Unrelated
<1>1. ASSUME NEW p \in Pods, NEW st \in Reported, Register(p, st)
      PROVE  OutcomesMatch'
  BY <1>1, OutcomesUnrelated DEF Register, Unrelated
<1>2. ASSUME NEW r \in Rooms, SetLocked(r) PROVE OutcomesMatch'
  BY <1>2, OutcomesUnrelated DEF SetLocked, Unrelated
<1>3. ASSUME NEW w \in Workers, NEW e \in Events, Receive(w, e) PROVE OutcomesMatch'
  <2>1. Unrelated
    BY <1>3 DEF Receive, Unrelated, TInv, TypeOK
  <2> QED
    BY <2>1, OutcomesUnrelated
<1>4. ASSUME NEW w \in Workers, Step(w) PROVE OutcomesMatch'
  <2>1. CASE Acquire(w) \/ EnsureRoom(w) \/ RecordSpend(w)
    <3>1. Unrelated
      BY <2>1, GotoUnrelated DEF Acquire, EnsureRoom, RecordSpend
    <3> QED
      BY <3>1, OutcomesUnrelated
  <2>2. CASE Lookup(w) \/ Dedupe(w) \/ Reserve(w)
    <3>1. Unrelated
      BY <2>2, GotoUnrelated, ReturnUnrelated DEF Lookup, Dedupe, Reserve
    <3> QED
      BY <3>1, OutcomesUnrelated
  <2>3. CASE Rollback(w) \/ Commit(w)
    <3>1. Unrelated
      BY <2>3, ReturnUnrelated DEF Rollback, Commit
    <3> QED
      BY <3>1, OutcomesUnrelated
  <2>4. CASE Post(w)
    <3>1. CASE Goto(w, "rollback") /\ UNCHANGED board
      BY <2>4, <3>1, GotoUnrelated, OutcomesUnrelated DEF Post
    <3>2. CASE ~(Goto(w, "rollback") /\ UNCHANGED board)
      BY <2>4, <3>2, PostOutcomes DEF Post
    <3> QED
      BY <3>1, <3>2
  <2>5. CASE RecordOutcome(w)
    BY <2>5, RecordOutcomes
  <2> QED
    BY <1>4, <2>1, <2>2, <2>3, <2>4, <2>5 DEF Step
<1>5. ASSUME NEW q \in Pollers, NEW p \in Pods, PollRead(q, p) PROVE OutcomesMatch'
  BY <1>5, OutcomesUnrelated DEF PollRead, Unrelated
<1>6. ASSUME NEW q \in Pollers, NEW st \in Reported, PollAnswer(q, st)
      PROVE  OutcomesMatch'
  BY <1>6, OutcomesUnrelated DEF PollAnswer, Unrelated
<1>7. ASSUME NEW q \in Pollers, PollError(q) PROVE OutcomesMatch'
  BY <1>7, OutcomesUnrelated DEF PollError, Unrelated
<1> QED
  BY <1>0, <1>1, <1>2, <1>3, <1>4, <1>5, <1>6, <1>7 DEF Next
-----------------------------------------------------------------------------
(* Budget.                                                                 *)

\* A non-empty set of naturals has a least element.
LEMMA LeastNat ==
  ASSUME NEW T \in SUBSET Nat, T # {}
  PROVE  \E x \in T : \A y \in T : x <= y
<1> DEFINE R == {p \in Nat \X Nat : p[1] < p[2]}
<1>1. IsWellFoundedOn(R, Nat)
  BY NatLessThanWellFounded, Zenon DEF OpToRel
<1>2. ASSUME NEW x \in Nat, NEW y \in Nat, x < y
      PROVE  <<x, y>> \in R
  BY <1>2
<1> HIDE DEF R
<1>3. PICK x \in T : \A y \in T : ~ (<<y, x>> \in R)
  BY <1>1, WFMin
<1>4. ASSUME NEW y \in T
      PROVE  x <= y
  <2>1. x \in Nat /\ y \in Nat /\ ~(y < x)
    BY <1>2, <1>3
  <2> QED
    BY <2>1
<1> QED
  BY <1>4

\* What a step-result adds to the spend of p.
Charge(e, p) == IF e.pod = p THEN CostOf(e) ELSE 0

\* The running totals of the first n step-results of a board.
Totals(g, s, p, n) ==
    /\ g \in [0 .. n -> Nat]
    /\ g[0] = 0
    /\ \A k \in 1 .. n : g[k] = g[k - 1] + Charge(s[k], p)

\* A charge is a natural number.
LEMMA ChargeType == ASSUME NEW e \in Events, NEW p PROVE Charge(e, p) \in Nat
  BY EventFields DEF Charge

\* Every prefix of a board has its running totals.
LEMMA TotalsExist ==
  ASSUME NEW s \in Seq(Events), NEW p, NEW n \in 0 .. Len(s)
  PROVE  \E g : Totals(g, s, p, n)
<1> DEFINE Bad == {k \in 0 .. Len(s) : ~ \E g : Totals(g, s, p, k)}
<1> SUFFICES ASSUME Bad # {} PROVE FALSE
  BY DEF Bad
<1>1. PICK x \in Bad : \A y \in Bad : x <= y
  <2>1. Bad \in SUBSET Nat
    OBVIOUS
  <2> QED
    BY <2>1, LeastNat
<1>2. x \in Nat /\ x <= Len(s) /\ Len(s) \in Nat /\ ~ \E g : Totals(g, s, p, x)
  OBVIOUS
<1>3. x # 0
  <2> DEFINE g == [k \in 0 .. 0 |-> 0]
  <2>1. Totals(g, s, p, 0)
    BY DEF Totals
  <2> QED
    BY <1>2, <2>1
<1>4. x - 1 \in 0 .. Len(s) /\ ~(x <= x - 1) /\ x \in 1 .. Len(s)
  BY <1>2, <1>3
<1>5. PICK g : Totals(g, s, p, x - 1)
  BY <1>1, <1>4
<1>6. Charge(s[x], p) \in Nat
  BY <1>4, ChargeType
<1> HIDE DEF Bad
<1> DEFINE h == [k \in 0 .. x |-> IF k = x THEN g[x - 1] + Charge(s[x], p) ELSE g[k]]
<1>7. /\ g \in [0 .. (x - 1) -> Nat] /\ g[0] = 0
      /\ \A k \in 1 .. (x - 1) : g[k] = g[k - 1] + Charge(s[k], p)
  BY <1>5 DEF Totals
<1>8. g[x - 1] \in Nat
  BY <1>2, <1>3, <1>7
<1>9. /\ \A k \in 0 .. (x - 1) : h[k] = g[k]
      /\ h[x] = g[x - 1] + Charge(s[x], p)
  BY <1>2, <1>3
<1>10. h \in [0 .. x -> Nat]
  BY <1>2, <1>6, <1>7, <1>8
<1> HIDE DEF h
<1>11. h[0] = 0
  BY <1>2, <1>3, <1>7, <1>9
<1>12. ASSUME NEW k \in 1 .. x
       PROVE  h[k] = h[k - 1] + Charge(s[k], p)
  <2>1. k - 1 \in 0 .. (x - 1) /\ h[k - 1] = g[k - 1]
    BY <1>2, <1>9
  <2>2. CASE k = x
    BY <1>9, <2>1, <2>2
  <2>3. CASE k # x
    <3>1. k \in 1 .. (x - 1) /\ k \in 0 .. (x - 1)
      BY <1>2, <2>3
    <3> QED
      BY <1>7, <1>9, <2>1, <3>1
  <2> QED
    BY <2>2, <2>3
<1>13. Totals(h, s, p, x)
  BY <1>10, <1>11, <1>12 DEF Totals
<1> QED
  BY <1>2, <1>13

\* The totals of two boards agree as far as the boards do.
LEMMA TotalsAgree ==
  ASSUME NEW g, NEW h, NEW s, NEW t, NEW p, NEW n \in Nat, NEW m \in Nat, m <= n,
         Totals(g, s, p, m), Totals(h, t, p, n), \A k \in 1 .. m : s[k] = t[k]
  PROVE  g[m] = h[m]
<1> DEFINE Bad == {k \in 0 .. m : g[k] # h[k]}
<1> SUFFICES ASSUME Bad # {} PROVE FALSE
  BY DEF Bad
<1>1. PICK x \in Bad : \A y \in Bad : x <= y
  <2>1. Bad \in SUBSET Nat
    OBVIOUS
  <2> QED
    BY <2>1, LeastNat
<1>2. x \in 0 .. m /\ g[x] # h[x]
  OBVIOUS
<1>3. g[0] = h[0]
  BY DEF Totals
<1>4. x - 1 \in 0 .. m /\ ~(x <= x - 1) /\ x \in 1 .. m /\ x \in 1 .. n
  BY <1>2, <1>3
<1>5. g[x - 1] = h[x - 1]
  BY <1>1, <1>4
<1>6. g[x] = g[x - 1] + Charge(s[x], p) /\ h[x] = h[x - 1] + Charge(t[x], p)
  BY <1>4 DEF Totals
<1> QED
  BY <1>2, <1>4, <1>5, <1>6

\* The body of the recursive function in TotalCost.
Upto(f, s, p) ==
    [k \in 0 .. Len(s) |->
        IF k = 0 THEN 0 ELSE f[k - 1] + (IF s[k].pod = p THEN CostOf(s[k]) ELSE 0)]

\* TotalCost is the last running total.
LEMMA TotalCostTotals ==
  ASSUME NEW s \in Seq(Events), NEW p
  PROVE  \E g : Totals(g, s, p, Len(s)) /\ TotalCost(s, p) = g[Len(s)]
<1> DEFINE f == CHOOSE g : g = Upto(g, s, p)
<1>0. Len(s) \in Nat /\ Len(s) \in 0 .. Len(s)
  OBVIOUS
<1>1. f = Upto(f, s, p)
  <2>1. PICK g : Totals(g, s, p, Len(s))
    BY <1>0, TotalsExist
  <2>2. g = Upto(g, s, p)
    <3>1. /\ g \in [0 .. Len(s) -> Nat] /\ g[0] = 0
          /\ \A k \in 1 .. Len(s) :
               g[k] = g[k - 1] + (IF s[k].pod = p THEN CostOf(s[k]) ELSE 0)
      BY <2>1 DEF Totals, Charge
    <3>2. \A k \in 0 .. Len(s) : k = 0 \/ k \in 1 .. Len(s)
      BY <1>0
    <3>3. \A k \in 0 .. Len(s) :
            g[k] = IF k = 0 THEN 0
                   ELSE g[k - 1] + (IF s[k].pod = p THEN CostOf(s[k]) ELSE 0)
      BY <3>1, <3>2
    <3> QED
      BY <3>1, <3>3 DEF Upto
  <2> QED
    BY <2>2
<1>2. TotalCost(s, p) = f[Len(s)]
  BY DEF TotalCost, Upto
<1> HIDE DEF f
<1>3. PICK g : Totals(g, s, p, Len(s))
  BY <1>0, TotalsExist
<1>4. f[0] = 0 /\ \A k \in 1 .. Len(s) : f[k] = f[k - 1] + Charge(s[k], p)
  <2>1. \A k \in 0 .. Len(s) :
          f[k] = IF k = 0 THEN 0
                 ELSE f[k - 1] + (IF s[k].pod = p THEN CostOf(s[k]) ELSE 0)
    BY <1>1 DEF Upto
  <2>2. 0 \in 0 .. Len(s) /\ \A k \in 1 .. Len(s) : k \in 0 .. Len(s) /\ k # 0
    BY <1>0
  <2> QED
    BY <2>1, <2>2 DEF Charge
<1>5. f[Len(s)] = g[Len(s)]
  <2> DEFINE Bad == {k \in 0 .. Len(s) : f[k] # g[k]}
  <2> SUFFICES ASSUME Bad # {} PROVE FALSE
    BY <1>0 DEF Bad
  <2>1. PICK x \in Bad : \A y \in Bad : x <= y
    <3>1. Bad \in SUBSET Nat
      OBVIOUS
    <3> QED
      BY <3>1, LeastNat
  <2>2. x \in 0 .. Len(s) /\ f[x] # g[x]
    OBVIOUS
  <2>3. f[0] = g[0]
    BY <1>3, <1>4 DEF Totals
  <2>4. x - 1 \in 0 .. Len(s) /\ ~(x <= x - 1) /\ x \in 1 .. Len(s)
    BY <1>0, <2>2, <2>3
  <2>5. f[x - 1] = g[x - 1]
    BY <2>1, <2>4
  <2>6. g[x] = g[x - 1] + Charge(s[x], p) /\ f[x] = f[x - 1] + Charge(s[x], p)
    BY <1>3, <1>4, <2>4 DEF Totals
  <2> QED
    BY <2>2, <2>5, <2>6
<1> QED
  BY <1>2, <1>3, <1>5

\* A total is a natural number, and nothing has been spent on an empty board.
LEMMA TotalCostType ==
  ASSUME NEW s \in Seq(Events), NEW p
  PROVE  TotalCost(s, p) \in Nat /\ (s = <<>> => TotalCost(s, p) = 0)
<1>1. PICK g : Totals(g, s, p, Len(s)) /\ TotalCost(s, p) = g[Len(s)]
  BY TotalCostTotals
<1>2. Len(s) \in 0 .. Len(s) /\ (s = <<>> => Len(s) = 0)
  OBVIOUS
<1> QED
  BY <1>1, <1>2 DEF Totals

\* A further step-result adds its charge.
LEMMA TotalCostAppend ==
  ASSUME NEW s \in Seq(Events), NEW e \in Events, NEW p
  PROVE  TotalCost(Append(s, e), p) = TotalCost(s, p) + Charge(e, p)
<1> DEFINE t == Append(s, e)
           n == Len(s)
<1>1. /\ t \in Seq(Events) /\ Len(t) = n + 1 /\ n \in Nat /\ t[n + 1] = e
      /\ \A k \in 1 .. n : s[k] = t[k]
  OBVIOUS
<1> HIDE DEF t
<1>2. PICK g : Totals(g, s, p, n) /\ TotalCost(s, p) = g[n]
  BY TotalCostTotals
<1>3. PICK h : Totals(h, t, p, n + 1) /\ TotalCost(t, p) = h[n + 1]
  <2>1. PICK h : Totals(h, t, p, Len(t)) /\ TotalCost(t, p) = h[Len(t)]
    BY <1>1, TotalCostTotals
  <2> QED
    BY <1>1, <2>1
<1> HIDE DEF n
<1>4. g[n] = h[n]
  <2>1. n + 1 \in Nat /\ n <= n + 1
    BY <1>1
  <2> QED
    BY <1>1, <1>2, <1>3, <2>1, TotalsAgree
<1>5. h[n + 1] = h[n] + Charge(e, p)
  <2>1. n + 1 \in 1 .. (n + 1) /\ (n + 1) - 1 = n
    BY <1>1
  <2> QED
    BY <1>1, <1>3, <2>1 DEF Totals
<1>6. TotalCost(t, p) = TotalCost(s, p) + Charge(e, p)
  BY <1>2, <1>3, <1>4, <1>5
<1> QED
  BY <1>6 DEF t

\* The ledger is behind the board by exactly what the handler between its post
\* and its budget entry still has to record.
LedgerExact ==
    \A p \in Pods :
        /\ (\A w \in Workers : pc[w] = "budget" => ev[w].pod # p) =>
              spent[p] = TotalCost(board, p)
        /\ \A w \in Workers : (pc[w] = "budget" /\ ev[w].pod = p) =>
              spent[p] + CostOf(ev[w]) = TotalCost(board, p)

\* A step that posts nothing and records nothing, with the same handlers at
\* their budget entry.
NoCharge ==
    /\ board' = board /\ spent' = spent
    /\ \A v \in Workers : /\ pc'[v] = "budget" <=> pc[v] = "budget"
                          /\ pc[v] = "budget" => ev'[v] = ev[v]

\* Initially nothing is posted and nothing spent.
LEMMA LedgerInit == Init => LedgerExact
<1> SUFFICES ASSUME Init PROVE LedgerExact
  OBVIOUS
<1>1. <<>> \in Seq(Events)
  OBVIOUS
<1>2. board = <<>> /\ \A p : TotalCost(board, p) = 0
  BY <1>1, TotalCostType DEF Init
<1>3. \A p \in Pods : spent[p] = 0
  BY DEF Init
<1>4. \A w \in Workers : pc[w] # "budget"
  BY DEF Init
<1> QED
  BY <1>2, <1>3, <1>4 DEF LedgerExact

\* Such a step keeps the ledger in agreement with the board.
LEMMA LedgerNoCharge == LedgerExact /\ NoCharge => LedgerExact'
  BY DEF LedgerExact, NoCharge, CostOf

\* A handler that returns, not charging, takes such a step.
LEMMA ReturnNoCharge ==
  ASSUME TInv, NEW w \in Workers, NEW r, pc[w] # "budget",
         Return(w, r), board' = board, spent' = spent
  PROVE  NoCharge
  BY DEF TInv, TypeOK, Return, NoCharge

\* So does one that goes from one place to another, neither the budget entry.
LEMMA GotoNoCharge ==
  ASSUME TInv, NEW w \in Workers, NEW l, Goto(w, l), pc[w] # "budget", l # "budget",
         board' = board, spent' = spent
  PROVE  NoCharge
  BY DEF TInv, TypeOK, Goto, NoCharge

\* A post: the board is ahead by the cost of the new step-result.
LEMMA PostLedger ==
  ASSUME TInv, LedgerExact, NEW w \in Workers, pc[w] = "post",
         board' = Append(board, ev[w]), Goto(w, "budget"), spent' = spent
  PROVE  LedgerExact'
<1> DEFINE e == ev[w]
<1>0. e \in Events /\ e.pod \in Pods /\ pc[w] \in Held /\ board \in Seq(Events)
  BY EventFields DEF TInv, Exclusion, Held, WorkerPC, TypeOK
<1>1. /\ pc'[w] = "budget" /\ ev' = ev
      /\ \A v \in Workers : v # w => pc'[v] = pc[v]
  BY DEF Goto, TInv, TypeOK
<1>2. \A v \in Workers : (v # w /\ pc[v] = "budget") => ev[v].pod # e.pod
  BY <1>0, Alone DEF Held, WorkerPC
<1>3. \A p : TotalCost(board', p) = TotalCost(board, p) + Charge(e, p)
  BY <1>0, TotalCostAppend
<1>4. \A p : TotalCost(board, p) \in Nat
  BY <1>0, TotalCostType
<1>5. ASSUME NEW p \in Pods, p # e.pod
      PROVE  /\ (\A v \in Workers : pc'[v] = "budget" => ev'[v].pod # p) =>
                   spent'[p] = TotalCost(board', p)
             /\ \A v \in Workers : (pc'[v] = "budget" /\ ev'[v].pod = p) =>
                   spent'[p] + CostOf(ev'[v]) = TotalCost(board', p)
  <2>1. TotalCost(board', p) = TotalCost(board, p)
    BY <1>3, <1>4, <1>5 DEF Charge
  <2>2. \A v \in Workers : (pc'[v] = "budget" /\ ev'[v].pod = p) <=>
                           (pc[v] = "budget" /\ ev[v].pod = p)
    BY <1>1, <1>5
  <2> QED
    BY <1>1, <2>1, <2>2 DEF LedgerExact
<1>6. ASSUME NEW p \in Pods, p = e.pod
      PROVE  /\ ~ \A v \in Workers : pc'[v] = "budget" => ev'[v].pod # p
             /\ \A v \in Workers : (pc'[v] = "budget" /\ ev'[v].pod = p) =>
                   spent'[p] + CostOf(ev'[v]) = TotalCost(board', p)
  <2>1. TotalCost(board', p) = TotalCost(board, p) + CostOf(e)
    BY <1>3, <1>6 DEF Charge
  <2>2. \A v \in Workers : (pc'[v] = "budget" /\ ev'[v].pod = p) => v = w
    BY <1>1, <1>2, <1>6
  <2>3. spent[p] = TotalCost(board, p)
    <3>1. \A v \in Workers : pc[v] = "budget" => ev[v].pod # p
      BY <1>2, <1>6
    <3> QED
      BY <3>1 DEF LedgerExact
  <2> QED
    BY <1>1, <1>6, <2>1, <2>2, <2>3
<1> QED
  BY <1>5, <1>6 DEF LedgerExact

\* The cost of the posted step-result is recorded, once.
LEMMA RecordLedger ==
  ASSUME TInv, LedgerExact, NEW w \in Workers, RecordSpend(w)
  PROVE  LedgerExact'
<1> DEFINE e == ev[w]
<1>0. /\ e \in Events /\ e.pod \in Pods /\ pc[w] = "budget" /\ pc[w] \in Held
      /\ CostOf(e) \in Nat
  BY EventFields DEF TInv, Exclusion, RecordSpend, Held, WorkerPC
<1>1. /\ spent' = [spent EXCEPT ![e.pod] = @ + CostOf(e)]
      /\ board' = board /\ ev' = ev /\ spent \in [Pods -> Nat]
      /\ pc'[w] = "reputation" /\ \A v \in Workers : v # w => pc'[v] = pc[v]
  BY DEF RecordSpend, Goto, TInv, TypeOK
<1>2. \A v \in Workers : (v # w /\ pc[v] = "budget") => ev[v].pod # e.pod
  BY <1>0, Alone DEF Held, WorkerPC
<1>3. ASSUME NEW p \in Pods, p # e.pod
      PROVE  /\ (\A v \in Workers : pc'[v] = "budget" => ev'[v].pod # p) =>
                   spent'[p] = TotalCost(board', p)
             /\ \A v \in Workers : (pc'[v] = "budget" /\ ev'[v].pod = p) =>
                   spent'[p] + CostOf(ev'[v]) = TotalCost(board', p)
  <2>1. spent'[p] = spent[p]
    BY <1>1, <1>3
  <2>2. \A v \in Workers : (pc'[v] = "budget" /\ ev'[v].pod = p) <=>
                           (pc[v] = "budget" /\ ev[v].pod = p)
    BY <1>0, <1>1, <1>3
  <2> QED
    BY <1>1, <2>1, <2>2 DEF LedgerExact
<1>4. ASSUME NEW p \in Pods, p = e.pod
      PROVE  /\ spent'[p] = TotalCost(board', p)
             /\ \A v \in Workers : ~(pc'[v] = "budget" /\ ev'[v].pod = p)
  <2>1. spent[p] + CostOf(e) = TotalCost(board, p)
    BY <1>0, <1>4 DEF LedgerExact
  <2>2. spent'[p] = spent[p] + CostOf(e)
    BY <1>1, <1>4
  <2> QED
    BY <1>1, <1>2, <1>4, <2>1, <2>2
<1> QED
  BY <1>3, <1>4 DEF LedgerExact

\* Every step keeps the ledger in agreement with the board.
LEMMA LedgerStep == TInv /\ LedgerExact /\ [Next]_vars => LedgerExact'
<1> SUFFICES ASSUME TInv, LedgerExact, [Next]_vars PROVE LedgerExact'
  OBVIOUS
<1> USE DEF effectVars, workerVars
<1>0. CASE UNCHANGED vars
  BY <1>0, LedgerNoCharge DEF vars, NoCharge
<1>1. ASSUME NEW p \in Pods, NEW st \in Reported, Register(p, st)
      PROVE  LedgerExact'
  BY <1>1, LedgerNoCharge DEF Register, NoCharge
<1>2. ASSUME NEW r \in Rooms, SetLocked(r) PROVE LedgerExact'
  BY <1>2, LedgerNoCharge DEF SetLocked, NoCharge
<1>3. ASSUME NEW w \in Workers, NEW e \in Events, Receive(w, e) PROVE LedgerExact'
  <2>1. NoCharge
    BY <1>3 DEF Receive, NoCharge, TInv, TypeOK
  <2> QED
    BY <2>1, LedgerNoCharge
<1>4. ASSUME NEW w \in Workers, Step(w) PROVE LedgerExact'
  <2>1. CASE Acquire(w) \/ EnsureRoom(w) \/ RecordOutcome(w)
    <3>1. NoCharge
      BY <2>1, GotoNoCharge DEF Acquire, EnsureRoom, RecordOutcome
    <3> QED
      BY <3>1, LedgerNoCharge
  <2>2. CASE Lookup(w) \/ Dedupe(w) \/ Reserve(w)
    <3>1. NoCharge
      BY <2>2, GotoNoCharge, ReturnNoCharge DEF Lookup, Dedupe, Reserve
    <3> QED
      BY <3>1, LedgerNoCharge
  <2>3. CASE Rollback(w) \/ Commit(w)
    <3>1. NoCharge
      BY <2>3, ReturnNoCharge DEF Rollback, Commit
    <3> QED
      BY <3>1, LedgerNoCharge
  <2>4. CASE Post(w)
    <3>1. CASE Goto(w, "rollback") /\ UNCHANGED board
      BY <2>4, <3>1, GotoNoCharge, LedgerNoCharge DEF Post
    <3>2. CASE ~(Goto(w, "rollback") /\ UNCHANGED board)
      BY <2>4, <3>2, PostLedger DEF Post
    <3> QED
      BY <3>1, <3>2
  <2>5. CASE RecordSpend(w)
    BY <2>5, RecordLedger
  <2> QED
    BY <1>4, <2>1, <2>2, <2>3, <2>4, <2>5 DEF Step
<1>5. ASSUME NEW q \in Pollers, NEW p \in Pods, PollRead(q, p) PROVE LedgerExact'
  BY <1>5, LedgerNoCharge DEF PollRead, NoCharge
<1>6. ASSUME NEW q \in Pollers, NEW st \in Reported, PollAnswer(q, st)
      PROVE  LedgerExact'
  BY <1>6, LedgerNoCharge DEF PollAnswer, NoCharge
<1>7. ASSUME NEW q \in Pollers, PollError(q) PROVE LedgerExact'
  BY <1>7, LedgerNoCharge DEF PollError, NoCharge
<1> QED
  BY <1>0, <1>1, <1>2, <1>3, <1>4, <1>5, <1>6, <1>7 DEF Next
-----------------------------------------------------------------------------
(* Polls.                                                                  *)

\* Every step that changes a pod's record raises its revision.
LEMMA PollsStep ==
  TInv /\ PollsSeeRevisions /\ [Next]_vars => PollsSeeRevisions'
<1> SUFFICES ASSUME TInv, PollsSeeRevisions, [Next]_vars
             PROVE  PollsSeeRevisions'
  OBVIOUS
<1> USE DEF podVars, guardVars, effectVars, workerVars, pollVars
\* A step that leaves the polls alone and changes a pod's status, if it has
\* one, only together with its revision.
<1>a. ASSUME polled' = polled, snapStatus' = snapStatus, snapRev' = snapRev,
             \A p \in Pods : status[p] # None =>
               \/ status'[p] = status[p] /\ rev'[p] = rev[p]
               \/ status'[p] # None /\ rev'[p] = rev[p] + 1
      PROVE  PollsSeeRevisions'
  <2> SUFFICES ASSUME NEW q \in Pollers, polled[q] # None
               PROVE  /\ status'[polled[q]] # None
                      /\ snapRev[q] <= rev'[polled[q]]
                      /\ snapRev[q] = rev'[polled[q]] => snapStatus[q] = status'[polled[q]]
    BY <1>a DEF PollsSeeRevisions
  <2>1. polled[q] \in Pods /\ rev[polled[q]] \in Nat /\ snapRev[q] \in Nat
    BY DEF TInv, TypeOK
  <2> QED
    BY <1>a, <2>1 DEF PollsSeeRevisions
<1>0. CASE UNCHANGED vars
  BY <1>0, <1>a DEF vars
<1>1. ASSUME NEW p \in Pods, NEW st \in Reported, Register(p, st)
      PROVE  PollsSeeRevisions'
  BY <1>1, <1>a DEF Register, TInv, TypeOK
<1>2. ASSUME NEW r \in Rooms, SetLocked(r) PROVE PollsSeeRevisions'
  BY <1>2, <1>a DEF SetLocked
<1>3. ASSUME NEW w \in Workers, NEW e \in Events, Receive(w, e)
      PROVE  PollsSeeRevisions'
  BY <1>3, <1>a DEF Receive
<1>4. ASSUME NEW w \in Workers, Step(w) PROVE PollsSeeRevisions'
  <2>1. CASE Commit(w)
    <3>1. ev[w].pod \in Pods /\ ev[w].status \in EventStatus
      BY <2>1, EventFields DEF Commit, TInv, Exclusion
    <3>2. ev[w].status # None
      BY <3>1, ConstAssumption DEF GatewayStatus
    <3> QED
      BY <1>a, <2>1, <3>1, <3>2 DEF Commit, TInv, TypeOK
  <2>2. CASE ~Commit(w)
    <3>1. UNCHANGED <<podVars, pollVars>>
      BY <1>4, <2>2 DEF Step, Acquire, Lookup, Dedupe, Reserve, EnsureRoom,
         Post, Rollback, RecordSpend, RecordOutcome
    <3> QED
      BY <1>a, <3>1
  <2> QED
    BY <2>1, <2>2
<1>5. ASSUME NEW q \in Pollers, NEW p \in Pods, PollRead(q, p)
      PROVE  PollsSeeRevisions'
  BY <1>5 DEF PollRead, PollsSeeRevisions, TInv, TypeOK
<1>b. ASSUME NEW q \in Pollers, PollReturn(q),
             \A p \in Pods : status[p] # None =>
               \/ status'[p] = status[p] /\ rev'[p] = rev[p]
               \/ status'[p] # None /\ rev'[p] = rev[p] + 1
      PROVE  PollsSeeRevisions'
  <2> SUFFICES ASSUME NEW v \in Pollers, polled'[v] # None
               PROVE  /\ status'[polled'[v]] # None
                      /\ snapRev'[v] <= rev'[polled'[v]]
                      /\ snapRev'[v] = rev'[polled'[v]] => snapStatus'[v] = status'[polled'[v]]
    BY DEF PollsSeeRevisions
  <2>1. v # q /\ polled'[v] = polled[v] /\ snapRev'[v] = snapRev[v]
              /\ snapStatus'[v] = snapStatus[v]
    BY <1>b DEF PollReturn, TInv, TypeOK
  <2>2. polled[v] \in Pods /\ rev[polled[v]] \in Nat /\ snapRev[v] \in Nat
    BY <2>1 DEF TInv, TypeOK
  <2> QED
    BY <1>b, <2>1, <2>2 DEF PollsSeeRevisions
<1>6. ASSUME NEW q \in Pollers, NEW st \in Reported, PollAnswer(q, st)
      PROVE  PollsSeeRevisions'
  <2>1. st # None /\ polled[q] \in Pods
    BY <1>6, ConstAssumption DEF PollAnswer, TInv, TypeOK
  <2> QED
    BY <1>6, <1>b, <2>1 DEF PollAnswer, CommitPolled, TInv, TypeOK
<1>7. ASSUME NEW q \in Pollers, PollError(q) PROVE PollsSeeRevisions'
  BY <1>7, <1>b DEF PollError
<1> QED
  BY <1>0, <1>1, <1>2, <1>3, <1>4, <1>5, <1>6, <1>7 DEF Next

-----------------------------------------------------------------------------
(* The theorems.                                                           *)

\* The guard's bookkeeping (GuardInv) holds in every reachable state: ids are
\* reserved, posted and rolled back consistently, `last` bounds the board, a
\* terminal result is followed by a terminal record, polls see revisions.
THEOREM GuardInvariant == Spec => [](TypeOK /\ GuardInv)
<1> DEFINE IInv == TInv /\ Core /\ Ending /\ PollsSeeRevisions
<1>1. Init => IInv
  BY TypeInit, CoreInit, EndingInit DEF Init, PollsSeeRevisions
<1>2. IInv /\ [Next]_vars => IInv'
  BY TypeStep, CoreStep, EndingStep, PollsStep
<1>3. IInv => TypeOK /\ GuardInv
  BY DEF TInv, Core, Ending, GuardInv
<1> QED
  BY <1>1, <1>2, <1>3, PTL DEF Spec

\* A room never carries one event twice, whatever is retried or duplicated.
THEOREM AtMostOnce == Spec => []PostedAtMostOnce
  BY GuardInvariant, PTL DEF GuardInv

\* The step-results of a pod appear in strictly increasing producer time.
THEOREM InOrder == Spec => []PostedInOrder
  BY GuardInvariant, PTL DEF GuardInv

\* No step-result of a pod follows a terminal one.
THEOREM TerminalLast == Spec => []NothingAfterTerminal
  BY GuardInvariant, PTL DEF GuardInv

\* A pod is credited or debited once: it has an outcome exactly when a terminal
\* result of it is on the board, as soon as no callback of it is running.
THEOREM OneOutcome == Spec => []OutcomePerTerminal
<1> DEFINE IInv == TInv /\ Ending /\ OutcomesMatch
<1>1. Init => IInv
  BY TypeInit, EndingInit, OutcomesInit
<1>2. IInv /\ [Next]_vars => IInv'
  BY TypeStep, EndingStep, OutcomesStep
<1>3. IInv => OutcomePerTerminal
  <2> SUFFICES ASSUME IInv, NEW p \in Pods
               PROVE  /\ outcomes[p] <= 1
                      /\ cbLock[p] = None => (outcomes[p] = 1 <=> TerminalPosted(p))
    BY DEF OutcomePerTerminal, TerminalPosted
  <2>1. outcomes[p] = IF TerminalPosted(p) /\ ~Owed(p) THEN 1 ELSE 0
    BY DEF OutcomesMatch
  <2>2. cbLock[p] = None => ~Owed(p)
    BY ConstAssumption DEF TInv, Exclusion, Held, WorkerPC, Owed
  <2> QED
    BY <2>1, <2>2
<1> QED
  BY <1>1, <1>2, <1>3, PTL DEF Spec

\* Nothing is charged twice or forgotten: as soon as no callback of a pod is
\* running, its recorded spend is the total cost of its results on the board.
THEOREM LedgerAgrees == Spec => []LedgerMatchesBoard
<1> DEFINE IInv == TInv /\ LedgerExact
<1>1. Init => IInv
  BY TypeInit, LedgerInit
<1>2. IInv /\ [Next]_vars => IInv'
  BY TypeStep, LedgerStep
<1>3. IInv => LedgerMatchesBoard
  <2> SUFFICES ASSUME IInv, NEW p \in Pods, cbLock[p] = None
               PROVE  spent[p] = TotalCost(board, p)
    BY DEF LedgerMatchesBoard
  <2>1. \A w \in Workers : pc[w] = "budget" => ev[w].pod # p
    BY ConstAssumption DEF TInv, Exclusion, Held, WorkerPC
  <2> QED
    BY <2>1 DEF LedgerExact
<1> QED
  BY <1>1, <1>2, <1>3, PTL DEF Spec

\* If the producer gives distinct events distinct ids, the guard holds exactly
\* the posted ids of every pod no callback is running for.
THEOREM GuardExact == ASSUME UniqueIds PROVE Spec => []GuardMatchesBoard
<1>1. TypeOK /\ GuardInv => GuardMatchesBoard
  <2> SUFFICES ASSUME TypeOK, GuardInv, NEW e \in Events, cbLock[e.pod] = None
               PROVE  e.id \in seen <=> Posted(e)
    BY DEF GuardMatchesBoard
  <2>1. ASSUME e.id \in seen PROVE Posted(e)
    <3>1. e.id \in Settled
      <4> SUFFICES ASSUME NEW w \in Workers, pc[w] \in Reserving, ev[w].id = e.id
                   PROVE  FALSE
        BY <2>1 DEF Settled
      <4>1. ev[w] \in Events /\ cbLock[ev[w].pod] = w
        BY DEF GuardInv, Exclusion, Reserving, Held, WorkerPC
      <4>2. ev[w] = e
        BY <4>1, UniqueIds DEF UniqueIds
      <4> QED
        BY <4>1, <4>2, ConstAssumption
    <3>2. PICK i \in DOMAIN board : board[i].id = e.id
      BY <3>1 DEF GuardInv, SettledIsPosted
    <3>3. board[i] \in Events
      BY DEF TypeOK
    <3>4. board[i] = e
      BY <3>2, <3>3, UniqueIds DEF UniqueIds
    <3> QED
      BY <3>4 DEF Posted
  <2>2. ASSUME Posted(e) PROVE e.id \in seen
    BY <2>2 DEF Posted, GuardInv, SettledIsPosted, Settled
  <2> QED
    BY <2>1, <2>2
<1> QED
  BY <1>1, GuardInvariant, PTL

\* A poll only changes a pod that still has the status it read before asking
\* the gateway, so it never undoes a callback.
THEOREM PollsFresh == Spec => PollNeverStale
<1>1. TypeOK /\ GuardInv /\ [Next]_vars =>
        [\A q \in Pollers :
           (polled[q] # None /\ polled'[q] = None /\ rev' # rev)
              => status[polled[q]] = snapStatus[q]]_vars
  <2> SUFFICES ASSUME TypeOK, GuardInv, Next, NEW q \in Pollers,
                      polled[q] # None, polled'[q] = None, rev' # rev
               PROVE  status[polled[q]] = snapStatus[q]
    BY DEF vars, podVars
  <2>1. PICK v \in Pollers, st \in Reported : PollAnswer(v, st)
    BY DEF Next, Register, SetLocked, Receive, Step, Acquire, Lookup, Dedupe,
       Reserve, EnsureRoom, Post, Rollback, RecordSpend, RecordOutcome, Commit,
       PollRead, PollError, podVars, pollVars, workerVars
  <2>2. v = q
    BY <2>1 DEF PollAnswer, PollReturn, TypeOK
  <2>3. rev[polled[q]] = snapRev[q]
    BY <2>1, <2>2 DEF PollAnswer, CommitPolled, podVars
  <2> QED
    BY <2>3 DEF GuardInv, PollsSeeRevisions
<1> QED
  BY <1>1, GuardInvariant, PTL DEF Spec, PollNeverStale

\* If the producer gives distinct events distinct ids, a success answer, for a
\* first delivery or a duplicate, is only given for an event on the board.
THEOREM AckSound == ASSUME UniqueIds PROVE Spec => AckedIsPosted
<1>1. TypeOK /\ GuardInv /\ [Next]_vars =>
        [\A w \in Workers :
           (pc[w] # "idle" /\ pc'[w] = "idle" /\ resp'[w] \in {"ok", "dup"})
              => Posted(ev[w])]_vars
  <2> SUFFICES ASSUME TypeOK, GuardInv, Next, NEW w \in Workers,
                      pc[w] # "idle", pc'[w] = "idle", resp'[w] \in {"ok", "dup"}
               PROVE  Posted(ev[w])
    BY DEF vars, workerVars
  <2>1. Step(w)
    <3>1. PICK v \in Workers : Step(v) \/ \E e \in Events : Receive(v, e)
      BY DEF Next, Register, SetLocked, PollRead, PollAnswer, PollError, workerVars
    <3>2. v = w
      <4>1. \E l : pc' = pc \/ pc' = [pc EXCEPT ![v] = l]
        <5>1. ASSUME NEW l, Goto(v, l) PROVE \E k : pc' = pc \/ pc' = [pc EXCEPT ![v] = k]
          BY <5>1 DEF Goto
        <5>2. ASSUME NEW r, Return(v, r) PROVE \E k : pc' = pc \/ pc' = [pc EXCEPT ![v] = k]
          BY <5>2 DEF Return
        <5>3. ASSUME NEW e, Receive(v, e) PROVE \E k : pc' = pc \/ pc' = [pc EXCEPT ![v] = k]
          BY <5>3 DEF Receive
        <5>4. CASE Step(v)
          BY <5>1, <5>2, <5>4 DEF Step, Acquire, Lookup, Dedupe, Reserve, EnsureRoom,
             Post, Rollback, RecordSpend, RecordOutcome, Commit
        <5> QED
          BY <3>1, <5>3, <5>4
      <4>2. v # w => pc'[w] = pc[w]
        BY <4>1 DEF TypeOK
      <4> QED
        BY <4>2
    <3>3. ~\E e \in Events : Receive(w, e)
      BY DEF Receive
    <3> QED
      BY <3>1, <3>2, <3>3
  <2>2. \/ Commit(w)
        \/ pc[w] \in {"dedupe", "reserve"} /\ ev[w].id \in seen
    <3>1. ~(Acquire(w) \/ EnsureRoom(w) \/ Post(w) \/ RecordSpend(w) \/ RecordOutcome(w))
      BY DEF Acquire, EnsureRoom, Post, RecordSpend, RecordOutcome, Goto, TypeOK
    <3>2. ~Return(w, "refused") /\ ~Return(w, "failed")
      BY DEF Return, TypeOK
    <3>3. ~Goto(w, "dedupe") /\ ~Goto(w, "reserve") /\ ~Goto(w, "room")
      BY DEF Goto, TypeOK
    <3> QED
      BY <2>1, <3>1, <3>2, <3>3 DEF Step, Lookup, Dedupe, Reserve, Rollback
  <2>3. CASE Commit(w)
    BY <2>3 DEF Commit, GuardInv, PostingIsPosted, Posting, Posted
  <2>4. CASE pc[w] \in {"dedupe", "reserve"} /\ ev[w].id \in seen
    <3>1. ev[w] \in Events /\ cbLock[ev[w].pod] = w
      BY <2>4 DEF GuardInv, Exclusion, Held, WorkerPC
    <3>2. ev[w].id \in Settled
      <4> SUFFICES ASSUME NEW v \in Workers, pc[v] \in Reserving, ev[v].id = ev[w].id
                   PROVE  FALSE
        BY <2>4 DEF Settled
      <4>1. ev[v] \in Events /\ cbLock[ev[v].pod] = v
        BY DEF GuardInv, Exclusion, Reserving, Held, WorkerPC
      <4>2. ev[v] = ev[w]
        BY <3>1, <4>1, UniqueIds DEF UniqueIds
      <4> QED
        BY <2>4, <3>1, <4>1, <4>2 DEF Reserving
    <3>3. PICK i \in DOMAIN board : board[i].id = ev[w].id
      BY <3>2 DEF GuardInv, SettledIsPosted
    <3>4. board[i] \in Events
      BY DEF TypeOK
    <3>5. board[i] = ev[w]
      BY <3>1, <3>3, <3>4, UniqueIds DEF UniqueIds
    <3> QED
      BY <3>5 DEF Posted
  <2> QED
    BY <2>2, <2>3, <2>4
<1> QED
  BY <1>1, GuardInvariant, PTL DEF Spec, AckedIsPosted
-----------------------------------------------------------------------------
(* The end of a pod, and the callback lock.                                *)

\* A handler past the terminal check copied a record that was not terminal.
CopyWasLive ==
    \A w \in Workers : pc[w] \in {"reserve"} \cup Reserving \cup Posting
        => ~IsTerminal(existing[w])

\* A pod's callback lock is held by a handler of that pod that is past it.
HeldByRunner ==
    \A p \in Pods : cbLock[p] # None =>
        pc[cbLock[p]] \in Held /\ ev[cbLock[p]].pod = p

Runners == CopyWasLive /\ HeldByRunner

\* A handler that goes on with its lock changes neither.
LEMMA GotoRunners ==
  ASSUME TInv, Runners, NEW w \in Workers, NEW l \in Held, Goto(w, l),
         pc[w] \in Held, cbLock' = cbLock, existing' = existing,
         l \in {"reserve"} \cup Reserving \cup Posting =>
            \/ pc[w] \in {"reserve"} \cup Reserving \cup Posting
            \/ ~IsTerminal(existing[w])
  PROVE  Runners'
<1>1. CopyWasLive'
  BY DEF Goto, TInv, TypeOK, Runners, CopyWasLive
<1>2. HeldByRunner'
  BY DEF Goto, TInv, TypeOK, Runners, HeldByRunner
<1> QED
  BY <1>1, <1>2 DEF Runners

\* A handler that returns gives back the lock it held.
LEMMA ReturnRunners ==
  ASSUME TInv, Runners, NEW w \in Workers, NEW r, pc[w] \in Held, Return(w, r)
  PROVE  Runners'
<1>1. CopyWasLive'
  BY DEF Return, TInv, TypeOK, Runners, CopyWasLive, Reserving, Posting
<1>2. ev[w] \in Events /\ ev[w].pod \in Pods /\ cbLock[ev[w].pod] = w
  BY EventFields DEF TInv, Exclusion, Held, WorkerPC
<1>3. ASSUME NEW p \in Pods, cbLock'[p] # None
      PROVE  pc'[cbLock'[p]] \in Held /\ ev'[cbLock'[p]].pod = p
  <2>1. p # ev[w].pod /\ cbLock'[p] = cbLock[p]
    BY <1>2, <1>3 DEF Return, TInv, TypeOK
  <2>2. pc[cbLock[p]] \in Held /\ ev[cbLock[p]].pod = p /\ cbLock[p] \in Workers
    BY <1>3, <2>1 DEF Runners, HeldByRunner, TInv, TypeOK
  <2>3. cbLock[p] # w
    BY <2>1, <2>2
  <2> QED
    BY <2>1, <2>2, <2>3 DEF Return, TInv, TypeOK
<1> QED
  BY <1>1, <1>3 DEF Runners, HeldByRunner

\* A step that touches no handler and no lock changes neither.
LEMMA StillRunners ==
  ASSUME Runners, UNCHANGED <<cbLock, pc, ev, existing>>
  PROVE  Runners'
  BY DEF Runners, CopyWasLive, HeldByRunner

\* Every step keeps both.
LEMMA RunnersStep == TInv /\ Runners /\ [Next]_vars => Runners'
<1> SUFFICES ASSUME TInv, Runners, [Next]_vars PROVE Runners'
  OBVIOUS
<1> USE DEF Held, WorkerPC, Reserving, Posting
<1>1. ASSUME NEW w \in Workers, NEW e \in Events, Receive(w, e)
      PROVE  Runners'
  <2>1. /\ cbLock' = cbLock /\ existing' = existing /\ pc[w] = "idle"
        /\ pc'[w] \in {"idle", "lock"}
        /\ \A v \in Workers \ {w} : pc'[v] = pc[v] /\ ev'[v] = ev[v]
    BY <1>1 DEF Receive, TInv, TypeOK
  <2>2. CopyWasLive'
    BY <2>1 DEF Runners, CopyWasLive
  <2>3. ASSUME NEW p \in Pods, cbLock'[p] # None
        PROVE  pc'[cbLock'[p]] \in Held /\ ev'[cbLock'[p]].pod = p
    <3>1. /\ cbLock[p] \in Workers /\ pc[cbLock[p]] \in Held
          /\ ev[cbLock[p]].pod = p
      BY <2>1, <2>3 DEF Runners, HeldByRunner, TInv, TypeOK
    <3>2. cbLock[p] # w
      BY <2>1, <3>1
    <3> QED
      BY <2>1, <3>1, <3>2
  <2> QED
    BY <2>2, <2>3 DEF Runners, HeldByRunner
<1>2. ASSUME NEW w \in Workers, Step(w)
      PROVE  Runners'
  <2>1. CASE Acquire(w)
    <3>1. /\ cbLock[ev[w].pod] = None /\ pc[w] = "lock" /\ ev' = ev
          /\ cbLock' = [cbLock EXCEPT ![ev[w].pod] = w]
          /\ pc' = [pc EXCEPT ![w] = "lookup"] /\ existing' = existing
      BY <2>1 DEF Acquire, Goto
    <3>2. ev[w].pod \in Pods
      BY <3>1, EventFields DEF TInv, Exclusion
    <3>3. CopyWasLive'
      BY <3>1 DEF Runners, CopyWasLive, TInv, TypeOK
    <3>4. HeldByRunner'
      BY <3>1, <3>2 DEF Runners, HeldByRunner, TInv, TypeOK
    <3> QED
      BY <3>3, <3>4 DEF Runners
  <2>2. CASE Lookup(w)
    <3>1. CASE Return(w, "refused")
      BY <2>2, <3>1, ReturnRunners DEF Lookup
    <3>2. CASE ~Return(w, "refused")
      <4>1. /\ pc[w] = "lookup" /\ pc' = [pc EXCEPT ![w] = "dedupe"] /\ ev' = ev
            /\ cbLock' = cbLock
            /\ \A v \in Workers \ {w} : existing'[v] = existing[v]
        BY <2>2, <3>2 DEF Lookup, Goto, TInv, TypeOK
      <4>2. CopyWasLive'
        BY <4>1 DEF Runners, CopyWasLive, TInv, TypeOK
      <4>3. HeldByRunner'
        BY <4>1 DEF Runners, HeldByRunner, TInv, TypeOK
      <4> QED
        BY <4>2, <4>3 DEF Runners
    <3> QED
      BY <3>1, <3>2
  <2>3. CASE Dedupe(w)
    BY <2>3, ReturnRunners, GotoRunners DEF Dedupe, TransitionAllowed
  <2>4. CASE Reserve(w)
    BY <2>4, ReturnRunners, GotoRunners DEF Reserve
  <2>5. CASE EnsureRoom(w) \/ Post(w) \/ RecordSpend(w) \/ RecordOutcome(w)
    BY <2>5, GotoRunners DEF EnsureRoom, Post, RecordSpend, RecordOutcome
  <2>6. CASE Rollback(w) \/ Commit(w)
    BY <2>6, ReturnRunners DEF Rollback, Commit
  <2> QED
    BY <1>2, <2>1, <2>2, <2>3, <2>4, <2>5, <2>6 DEF Step
<1>3. CASE ~(\E w \in Workers : Step(w) \/ \E e \in Events : Receive(w, e))
  BY <1>3, StillRunners DEF Next, vars, workerVars, Register, SetLocked, PollRead,
     PollAnswer, PollError
<1> QED
  BY <1>1, <1>2, <1>3

\* Both hold in every reachable state.
THEOREM LockHolders == Spec => [](TInv /\ Runners)
<1>1. Init => Runners
  BY DEF Init, Runners, CopyWasLive, HeldByRunner, Reserving, Posting
<1> QED
  BY <1>1, TypeInit, TypeStep, RunnersStep, PTL DEF Spec

\* A registered pod's terminal record is changed only by the lifecycle commit of
\* one of its own callbacks.
LEMMA TerminalChange ==
  ASSUME TInv, Next, NEW p \in Pods, status'[p] # status[p],
         status[p] # None, IsTerminal(status[p])
  PROVE  \E w \in Workers : Commit(w) /\ ev[w].pod = p
<1>1. ASSUME NEW x \in Pods, NEW st \in Reported, Register(x, st) PROVE FALSE
  BY <1>1 DEF Register, TInv, TypeOK
<1>2. ASSUME NEW q \in Pollers, NEW st \in Reported, PollAnswer(q, st) PROVE FALSE
  BY <1>2 DEF PollAnswer, CommitPolled, podVars, TInv, TypeOK
<1>3. PICK w \in Workers : Commit(w)
  BY <1>1, <1>2 DEF Next, SetLocked, Receive, Step, Acquire, Lookup, Dedupe,
     Reserve, EnsureRoom, Post, Rollback, RecordSpend, RecordOutcome, PollRead,
     PollError, podVars
<1>4. ev[w] \in Events /\ ev[w].pod \in Pods
  BY <1>3, EventFields DEF Commit, TInv, Exclusion
<1> QED
  BY <1>3, <1>4 DEF Commit, TInv, TypeOK

\* Once a pod's terminal result is in its room and the callback that posted it
\* has returned, no callback, no poll and no late delivery changes the pod's
\* record again.
THEOREM ToldFinal == Spec => ToldIsFinal
<1>1. TypeOK /\ GuardInv /\ [Next]_vars =>
        [\A p \in Pods :
           (/\ TerminalPosted(p)
            /\ ~\E w \in Workers : /\ pc[w] \in Posting /\ ev[w].pod = p
                                    /\ IsTerminal(ev[w].status))
              => status'[p] = status[p]]_vars
  <2> SUFFICES ASSUME TypeOK, GuardInv, Next, NEW p \in Pods, TerminalPosted(p),
                      ~\E w \in Workers : /\ pc[w] \in Posting /\ ev[w].pod = p
                                          /\ IsTerminal(ev[w].status),
                      status'[p] # status[p]
               PROVE  FALSE
    BY DEF vars, podVars
  <2>1. status[p] # None /\ IsTerminal(status[p])
    BY DEF GuardInv, TerminalRecorded
  <2>2. PICK w \in Workers : Commit(w) /\ ev[w].pod = p
    BY <2>1, TerminalChange DEF TInv, GuardInv
  <2>3. pc[w] \in Posting
    BY <2>2 DEF Commit, Posting
  <2>4. PICK i \in DOMAIN board :
          /\ board[i] = ev[w]
          /\ \A j \in DOMAIN board : j > i => board[j].pod # ev[w].pod
    BY <2>3 DEF GuardInv, PostingIsPosted
  <2>5. PICK k \in DOMAIN board : board[k].pod = p /\ IsTerminal(board[k].status)
    BY DEF TerminalPosted
  <2>6. i \in Nat /\ k \in Nat
    BY <2>4, <2>5 DEF TypeOK
  <2>7. ~(k > i)
    BY <2>2, <2>4, <2>5
  <2>8. ~(k < i)
    BY <2>2, <2>4, <2>5 DEF GuardInv, NothingAfterTerminal
  <2>9. k = i
    BY <2>6, <2>7, <2>8
  <2> QED
    BY <2>2, <2>3, <2>4, <2>5, <2>9
<1> QED
  BY <1>1, GuardInvariant, PTL DEF Spec, ToldIsFinal

\* How far "no further transitions" can be broken at all: a terminal record is
\* changed only by the lifecycle commit of a callback that copied the record
\* while the pod was still live, before the terminal status was recorded.
RevivedOnlyByOldCopy ==
    [][\A p \in Pods :
         (status[p] # None /\ IsTerminal(status[p]) /\ status'[p] # status[p])
            => \E w \in Workers : /\ pc[w] = "commit" /\ ev[w].pod = p
                                  /\ ~IsTerminal(existing[w])]_vars

\* No poll and no callback that arrived after the end of a pod revives it.
THEOREM RevivalNeedsOldCopy == Spec => RevivedOnlyByOldCopy
<1>1. TInv /\ Runners /\ [Next]_vars =>
        [\A p \in Pods :
           (status[p] # None /\ IsTerminal(status[p]) /\ status'[p] # status[p])
              => \E w \in Workers : /\ pc[w] = "commit" /\ ev[w].pod = p
                                    /\ ~IsTerminal(existing[w])]_vars
  <2> SUFFICES ASSUME TInv, Runners, Next, NEW p \in Pods, status[p] # None,
                      IsTerminal(status[p]), status'[p] # status[p]
               PROVE  \E w \in Workers : /\ pc[w] = "commit" /\ ev[w].pod = p
                                         /\ ~IsTerminal(existing[w])
    BY DEF vars, podVars
  <2>1. PICK w \in Workers : Commit(w) /\ ev[w].pod = p
    BY TerminalChange
  <2>2. pc[w] = "commit"
    BY <2>1 DEF Commit
  <2>3. ~IsTerminal(existing[w])
    BY <2>2 DEF Runners, CopyWasLive, Posting
  <2> QED
    BY <2>1, <2>2, <2>3
<1> QED
  BY <1>1, LockHolders, PTL DEF Spec, RevivedOnlyByOldCopy

\* How many steps a handler is from its answer, at most.
StepsLeft ==
    [idle |-> 0, commit |-> 1, rollback |-> 1, reputation |-> 2, budget |-> 3,
     post |-> 4, room |-> 5, reserve |-> 6, dedupe |-> 7, lookup |-> 8,
     lock |-> 9]

\* A callback that waits for its pod's lock waits for a handler of that pod that
\* is past the lock, never for another waiter, and every step of a handler, the
\* failures included, brings it nearer to its answer, which gives the lock back.
LockLeadsHome ==
    /\ [](\A w \in Workers : pc[w] = "lock" =>
             \/ cbLock[ev[w].pod] = None
             \/ /\ pc[cbLock[ev[w].pod]] \in Held
                /\ ev[cbLock[ev[w].pod]].pod = ev[w].pod)
    /\ [][\A w \in Workers : pc[w] # "idle" =>
             pc'[w] = pc[w] \/ StepsLeft[pc'[w]] < StepsLeft[pc[w]]]_vars

\* A handler that goes on, or returns, moves only its own program counter.
LEMMA OnlyOwnPC ==
  ASSUME TInv, NEW w \in Workers, NEW v \in Workers, v # w,
         Step(w) \/ \E e \in Events : Receive(w, e)
  PROVE  pc'[v] = pc[v]
<1>1. ASSUME NEW l, Goto(w, l) PROVE pc'[v] = pc[v]
  BY <1>1 DEF Goto, TInv, TypeOK
<1>2. ASSUME NEW r, Return(w, r) PROVE pc'[v] = pc[v]
  BY <1>2 DEF Return, TInv, TypeOK
<1>3. ASSUME NEW e, Receive(w, e) PROVE pc'[v] = pc[v]
  BY <1>3 DEF Receive, TInv, TypeOK
<1>4. CASE Step(w)
  BY <1>1, <1>2, <1>4 DEF Step, Acquire, Lookup, Dedupe, Reserve, EnsureRoom,
     Post, Rollback, RecordSpend, RecordOutcome, Commit
<1> QED
  BY <1>3, <1>4

\* The rank of a handler that moves goes down.
LEMMA StepDown ==
  ASSUME TInv, NEW w \in Workers, Step(w)
  PROVE  StepsLeft[pc'[w]] < StepsLeft[pc[w]]
<1>1. ASSUME NEW l, Goto(w, l) PROVE pc'[w] = l
  BY <1>1 DEF Goto, TInv, TypeOK
<1>2. ASSUME NEW r, Return(w, r) PROVE pc'[w] = "idle"
  BY <1>2 DEF Return, TInv, TypeOK
<1>3. CASE Acquire(w)
  BY <1>1, <1>3 DEF Acquire, StepsLeft
<1>4. CASE Lookup(w)
  BY <1>1, <1>2, <1>4 DEF Lookup, StepsLeft
<1>5. CASE Dedupe(w)
  BY <1>1, <1>2, <1>5 DEF Dedupe, StepsLeft
<1>6. CASE Reserve(w)
  BY <1>1, <1>2, <1>6 DEF Reserve, StepsLeft
<1>7. CASE EnsureRoom(w)
  BY <1>1, <1>7 DEF EnsureRoom, StepsLeft
<1>8. CASE Post(w)
  BY <1>1, <1>8 DEF Post, StepsLeft
<1>9. CASE Rollback(w)
  BY <1>2, <1>9 DEF Rollback, StepsLeft
<1>10. CASE RecordSpend(w)
  BY <1>1, <1>10 DEF RecordSpend, StepsLeft
<1>11. CASE RecordOutcome(w)
  BY <1>1, <1>11 DEF RecordOutcome, StepsLeft
<1>12. CASE Commit(w)
  BY <1>2, <1>12 DEF Commit, StepsLeft
<1> QED
  BY <1>3, <1>4, <1>5, <1>6, <1>7, <1>8, <1>9, <1>10, <1>11, <1>12 DEF Step

\* The callback locks cannot deadlock: the safety half of EveryCallbackAnswered.
THEOREM LocksComeBack == Spec => LockLeadsHome
<1>1. TInv /\ Runners => \A w \in Workers : pc[w] = "lock" =>
        \/ cbLock[ev[w].pod] = None
        \/ /\ pc[cbLock[ev[w].pod]] \in Held
           /\ ev[cbLock[ev[w].pod]].pod = ev[w].pod
  <2> SUFFICES ASSUME TInv, Runners, NEW w \in Workers, pc[w] = "lock"
               PROVE  \/ cbLock[ev[w].pod] = None
                      \/ /\ pc[cbLock[ev[w].pod]] \in Held
                         /\ ev[cbLock[ev[w].pod]].pod = ev[w].pod
    OBVIOUS
  <2>1. ev[w].pod \in Pods
    BY EventFields DEF TInv, Exclusion
  <2> QED
    BY <2>1 DEF Runners, HeldByRunner
<1>2. TInv /\ [Next]_vars =>
        [\A w \in Workers : pc[w] # "idle" =>
           pc'[w] = pc[w] \/ StepsLeft[pc'[w]] < StepsLeft[pc[w]]]_vars
  <2> SUFFICES ASSUME TInv, Next, NEW w \in Workers, pc[w] # "idle", pc'[w] # pc[w]
               PROVE  StepsLeft[pc'[w]] < StepsLeft[pc[w]]
    BY DEF vars, workerVars
  <2>1. PICK v \in Workers : Step(v) \/ \E e \in Events : Receive(v, e)
    BY DEF Next, Register, SetLocked, PollRead, PollAnswer, PollError, workerVars
  <2>2. v = w
    BY <2>1, OnlyOwnPC
  <2>3. Step(w)
    BY <2>1, <2>2 DEF Receive
  <2> QED
    BY <2>3, StepDown
<1> QED
  BY <1>1, <1>2, LockHolders, PTL DEF Spec, LockLeadsHome
-----------------------------------------------------------------------------
(* Spawning: api_pods_spawn.                                               *)

SpawnTypes ==
    /\ pods \in Seq([id : Nat, key : Keys])
    /\ stage \in [Requests -> {"new", "arrived", "start", "record", "done"}]
    /\ started \in Nat
    /\ newId \in [Requests -> Nat]
    /\ answer \in [Requests -> Int]
    /\ promised \in [Requests -> Nat]

\* A request whose key was on record when it arrived never starts a pod, and
\* the first record of its key is still the one it was promised.
Promises ==
    \A r \in Requests :
        /\ stage[r] = "new" => promised[r] = 0
        /\ promised[r] # 0 =>
              /\ stage[r] \in {"arrived", "done"}
              /\ WithKey(KeyOf[r]) # {}
              /\ Found(KeyOf[r]).id = promised[r]
              /\ stage[r] = "done" => answer[r] = promised[r]

\* find() is well defined: the first record of a key.
LEMMA FoundFirst ==
  ASSUME SpawnTypes, NEW k, WithKey(k) # {}
  PROVE  \E i \in WithKey(k) : /\ Found(k) = pods[i] /\ i \in DOMAIN pods
                               /\ \A j \in WithKey(k) : i <= j
<1>1. WithKey(k) \in SUBSET Nat
  BY DEF WithKey, SpawnTypes
<1>2. \E i \in WithKey(k) : \A j \in WithKey(k) : i <= j
  BY <1>1, LeastNat
<1> DEFINE i == CHOOSE i \in WithKey(k) : \A j \in WithKey(k) : i <= j
<1>3. i \in WithKey(k) /\ \A j \in WithKey(k) : i <= j
  BY <1>2
<1>4. Found(k) = pods[i]
  BY DEF Found
<1> QED
  BY <1>3, <1>4 DEF WithKey

\* What is found has a natural number for its id.
LEMMA FoundType ==
  ASSUME SpawnTypes, NEW k, WithKey(k) # {}
  PROVE  Found(k).id \in Nat
<1>1. PICK i \in DOMAIN pods : Found(k) = pods[i]
  BY FoundFirst
<1> DEFINE Rec == [id : Nat, key : Keys]
<1>2. pods \in Seq(Rec)
  BY DEF SpawnTypes
<1> HIDE DEF Rec
<1>3. pods[i] \in Rec
  BY <1>1, <1>2
<1> QED
  BY <1>1, <1>3 DEF Rec

\* A record appended to the list is found only where none was found before.
LEMMA FoundStays ==
  ASSUME SpawnTypes, NEW x \in [id : Nat, key : Keys],
         pods' = Append(pods, x), SpawnTypes', NEW k, WithKey(k) # {}
  PROVE  WithKey(k)' # {} /\ Found(k)' = Found(k)
<1>0. /\ Len(pods) \in Nat /\ DOMAIN pods = 1 .. Len(pods)
      /\ DOMAIN pods' = 1 .. (Len(pods) + 1)
      /\ \A i \in DOMAIN pods : pods'[i] = pods[i]
  BY DEF SpawnTypes
<1>1. PICK i \in WithKey(k) : /\ Found(k) = pods[i] /\ i \in DOMAIN pods
                                    /\ \A j \in WithKey(k) : i <= j
  BY FoundFirst
<1>2. i \in WithKey(k)'
  BY <1>0, <1>1 DEF WithKey
<1>3. \A j \in WithKey(k)' : i <= j
  <2> SUFFICES ASSUME NEW j \in WithKey(k)' PROVE i <= j
    OBVIOUS
  <2>1. CASE j \in DOMAIN pods
    BY <1>0, <1>1, <2>1 DEF WithKey
  <2>2. CASE j \notin DOMAIN pods
    <3>1. j \in DOMAIN pods'
      BY DEF WithKey
    <3> QED
      BY <1>0, <1>1, <2>2, <3>1
  <2> QED
    BY <2>1, <2>2
<1>4. ASSUME NEW m \in WithKey(k)', \A j \in WithKey(k)' : m <= j
      PROVE  m = i
  <2>1. m <= i /\ i <= m
    BY <1>2, <1>3, <1>4
  <2>2. m \in Nat /\ i \in Nat
    BY <1>0, <1>1 DEF WithKey
  <2> QED
    BY <2>1, <2>2
<1>5. Found(k)' = pods'[i]
  <2> DEFINE c == CHOOSE m \in WithKey(k)' : \A j \in WithKey(k)' : m <= j
  <2>1. c \in WithKey(k)' /\ \A j \in WithKey(k)' : c <= j
    BY <1>2, <1>3
  <2>2. Found(k)' = pods'[c]
    BY DEF Found
  <2> HIDE DEF c
  <2> QED
    BY <1>4, <2>1, <2>2
<1> QED
  BY <1>0, <1>1, <1>2, <1>5

\* Initially nobody was promised anything.
LEMMA NothingPromised == SpawnInit => SpawnTypes /\ Promises
  BY DEF SpawnInit, SpawnTypes, Promises

\* A step that leaves the list alone finds what was found before.
LEMMA FoundSame ==
  ASSUME pods' = pods, NEW k
  PROVE  WithKey(k)' = WithKey(k) /\ Found(k)' = Found(k)
<1>1. WithKey(k)' = WithKey(k)
  BY DEF WithKey
<1> QED
  BY <1>1 DEF Found

\* Every step keeps the types.
LEMMA SpawnTypesStep ==
  ASSUME SpawnTypes, NEW r \in Requests,
         \/ Arrive(r) \/ CheckKey(r) \/ GatewayStarts(r)
         \/ GatewayFails(r) \/ LocalId(r) \/ Record(r)
  PROVE  SpawnTypes'
<1>1. CASE Arrive(r)
  <2>1. WithKey(KeyOf[r]) # {} => Found(KeyOf[r]).id \in Nat
    BY FoundType
  <2> QED
    BY <1>1, <2>1 DEF Arrive, SpawnTypes
<1>2. CASE CheckKey(r)
  <2>1. WithKey(KeyOf[r]) # {} => Found(KeyOf[r]).id \in Nat
    BY FoundType
  <2>2. WithKey(KeyOf[r]) # {} => Found(KeyOf[r]).id \in Int
    BY <2>1
  <2> QED
    BY <1>2, <2>2 DEF CheckKey, SpawnTypes
<1>3. CASE GatewayStarts(r)
  BY <1>3 DEF GatewayStarts, SpawnTypes
<1>4. CASE GatewayFails(r)
  BY <1>4 DEF GatewayFails, SpawnTypes
<1>5. CASE LocalId(r)
  BY <1>5 DEF LocalId, SpawnTypes
<1>6. CASE Record(r)
  <2>1. [id |-> newId[r], key |-> KeyOf[r]] \in [id : Nat, key : Keys]
    BY DEF SpawnTypes, Keys
  <2>2. pods' \in Seq([id : Nat, key : Keys])
    BY <1>6, <2>1 DEF Record, SpawnTypes
  <2> QED
    BY <1>6, <2>2 DEF Record, SpawnTypes
<1> QED
  BY <1>1, <1>2, <1>3, <1>4, <1>5, <1>6

\* Every step keeps the promises.
LEMMA PromisesStep ==
  ASSUME SpawnTypes, SpawnTypes', Promises, NEW r \in Requests,
         \/ Arrive(r) \/ CheckKey(r) \/ GatewayStarts(r)
         \/ GatewayFails(r) \/ LocalId(r) \/ Record(r)
  PROVE  Promises'
<1> DEFINE K(q) == KeyOf[q]
<1>0. ASSUME pods' = pods,
             \A q \in Requests : q # r => /\ promised'[q] = promised[q]
                                          /\ stage'[q] = stage[q] /\ answer'[q] = answer[q],
             stage'[r] = "new" => promised'[r] = 0,
             promised'[r] # 0 => /\ stage'[r] \in {"arrived", "done"}
                                 /\ WithKey(K(r)) # {}
                                 /\ Found(K(r)).id = promised'[r]
                                 /\ stage'[r] = "done" => answer'[r] = promised'[r]
      PROVE  Promises'
  <2>1. \A q \in Requests : /\ WithKey(K(q))' = WithKey(K(q))
                            /\ Found(K(q))' = Found(K(q))
    BY <1>0, FoundSame
  <2> QED
    BY <1>0, <2>1 DEF Promises
<1>1. CASE Arrive(r)
  <2>1. /\ pods' = pods /\ stage'[r] = "arrived"
        /\ promised'[r] = IF WithKey(K(r)) = {} THEN 0 ELSE Found(K(r)).id
        /\ \A q \in Requests : q # r => /\ promised'[q] = promised[q]
                                        /\ stage'[q] = stage[q] /\ answer'[q] = answer[q]
    BY <1>1 DEF Arrive, SpawnTypes
  <2> QED
    BY <1>0, <2>1
<1>2. CASE CheckKey(r)
  <2>1. /\ pods' = pods /\ stage[r] = "arrived" /\ promised' = promised
        /\ stage'[r] = IF WithKey(K(r)) # {} THEN "done" ELSE "start"
        /\ answer'[r] = IF WithKey(K(r)) # {} THEN Found(K(r)).id ELSE 0
        /\ \A q \in Requests : q # r => stage'[q] = stage[q] /\ answer'[q] = answer[q]
    BY <1>2 DEF CheckKey, SpawnTypes
  <2>2. promised[r] # 0 => /\ WithKey(K(r)) # {}
                           /\ Found(K(r)).id = promised[r]
    BY DEF Promises
  <2> QED
    BY <1>0, <2>1, <2>2
<1>3. CASE GatewayStarts(r) \/ GatewayFails(r) \/ LocalId(r)
  <2>1. /\ pods' = pods /\ stage[r] = "start" /\ promised' = promised
        /\ stage'[r] \in {"record", "done"}
        /\ \A q \in Requests : q # r => stage'[q] = stage[q] /\ answer'[q] = answer[q]
    BY <1>3 DEF GatewayStarts, GatewayFails, LocalId, SpawnTypes
  <2>2. promised[r] = 0
    BY <2>1 DEF Promises
  <2> QED
    BY <1>0, <2>1, <2>2
<1>4. CASE Record(r)
  <2> DEFINE x == [id |-> newId[r], key |-> KeyOf[r]]
  <2>1. /\ pods' = Append(pods, x) /\ stage[r] = "record" /\ promised' = promised
        /\ stage'[r] = "done"
        /\ \A q \in Requests : q # r => stage'[q] = stage[q] /\ answer'[q] = answer[q]
    BY <1>4 DEF Record, SpawnTypes
  <2>2. x \in [id : Nat, key : Keys]
    BY DEF SpawnTypes, Keys
  <2> HIDE DEF x
  <2>3. \A q \in Requests : WithKey(K(q)) # {} =>
            WithKey(K(q))' # {} /\ Found(K(q))' = Found(K(q))
    BY <2>1, <2>2, FoundStays
  <2>4. promised[r] = 0
    BY <2>1 DEF Promises
  <2> QED
    BY <2>1, <2>3, <2>4 DEF Promises
<1> QED
  BY <1>1, <1>2, <1>3, <1>4

\* A request that arrives when a pod is on record for its key is answered with
\* the pod recorded first, whatever other requests, retries and gateway failures
\* do meanwhile (api_pods_spawn).  Requests that arrive before there is a record
\* may be answered with pods of their own.
THEOREM KeysKeepTheirPod == SpawnSpec => []LaterRequestsAgree
<1> DEFINE IInv == SpawnTypes /\ Promises
<1>1. SpawnInit => IInv
  BY NothingPromised
<1>2. IInv /\ [SpawnNext]_spawnVars => IInv'
  <2> SUFFICES ASSUME IInv, [SpawnNext]_spawnVars PROVE IInv'
    OBVIOUS
  <2>1. CASE UNCHANGED spawnVars
    <3>1. /\ pods' = pods /\ stage' = stage /\ started' = started /\ newId' = newId
          /\ answer' = answer /\ promised' = promised
      BY <2>1 DEF spawnVars
    <3>2. SpawnTypes'
      BY <3>1 DEF SpawnTypes
    <3>3. \A q \in Requests : /\ WithKey(KeyOf[q])' = WithKey(KeyOf[q])
                              /\ Found(KeyOf[q])' = Found(KeyOf[q])
      BY <3>1, FoundSame
    <3>4. Promises'
      BY <3>1, <3>3 DEF Promises
    <3> QED
      BY <3>2, <3>4
  <2>2. CASE SpawnNext
    <3>1. PICK r \in Requests :
            \/ Arrive(r) \/ CheckKey(r) \/ GatewayStarts(r)
            \/ GatewayFails(r) \/ LocalId(r) \/ Record(r)
      BY <2>2 DEF SpawnNext
    <3>2. SpawnTypes'
      BY <3>1, SpawnTypesStep
    <3> QED
      BY <3>1, <3>2, PromisesStep
  <2> QED
    BY <2>1, <2>2
<1>3. IInv => LaterRequestsAgree
  BY DEF Promises, LaterRequestsAgree
<1> QED
  BY <1>1, <1>2, <1>3, PTL DEF SpawnSpec
=============================================================================
