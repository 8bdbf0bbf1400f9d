----------------------------- MODULE PodEvents -----------------------------
(***************************************************************************)
(* The pod control plane of agentbbs-web: signed result callbacks          *)
(* (`POST /api/pods/{id}/results`), live status polls (`GET                *)
(* /api/pods/{id}`) and moderators locking the rooms results are posted    *)
(* to.  Handlers run on a multi-threaded runtime, so every acquisition of  *)
(* one of AppState's mutexes is a step of its own.  One pod's callbacks    *)
(* are serialised by its callback lock; polls are not.                     *)
(***************************************************************************)
EXTENDS Integers, FiniteSets, Sequences

CONSTANTS
    Pods,        \* pod ids
    Rooms,       \* board slugs
    Events,      \* the signed events a producer (or anyone) may send
    Workers,     \* concurrent invocations of api_pods_result
    Pollers,     \* concurrent invocations of api_pods_get
    RoomOf,      \* pod -> spec.template.registered_room
    Reported,    \* the statuses the gateway reports in this instance
    MaxRev,      \* bound: a poll starts only below this revision
    None         \* "no entry"

\* PodStatus::is_terminal.
Terminal == {"Completed", "Failed", "Cancelled"}

\* Statuses a callback can carry (pod_result_from_event).
EventStatus == {"Executing", "Evaluating", "Escalating", "Idle", "Paused",
                "Cancelled", "AwaitingApproval"}

\* Statuses the gateway can report (map_gateway_status).
GatewayStatus == EventStatus \cup {"Spawned"}

\* An event that passed signed_pod_event::verify for the route of its own pod
\* has authentic = TRUE; known = FALSE is an event or tier word the receiver
\* does not know.  step is TRUE when the optional `step` object is present.
EventType == [id : STRING, pod : Pods, ts : Nat, status : EventStatus,
              step : BOOLEAN, cost : Nat, authentic : BOOLEAN,
              known : BOOLEAN]

ASSUME ConstAssumption ==
    /\ Events \subseteq EventType
    /\ RoomOf \in [Pods -> Rooms]
    /\ Reported \subseteq GatewayStatus
    /\ MaxRev \in Nat
    /\ None \notin Workers \cup Pods \cup GatewayStatus \cup Terminal
    /\ None \notin [ts : Nat, id : STRING]
    /\ None \notin Events

\* The producer gives distinct events distinct ids (its half of the contract).
UniqueIds == \A e, f \in Events : e.id = f.id => e = f

VARIABLES
    status,    \* PodRecord.status; None while the pod is not registered
    rev,       \* PodRecord.revision
    seen,      \* PodEventGuard.seen: ids of reserved events
    last,      \* PodEventGuard.last: pod -> [ts, id] or None
    cbLock,    \* pod -> the worker holding its callback mutex, or None
    rooms,     \* room -> "absent", "open" or "locked"
    board,     \* the step-results posted to the rooms, oldest first
    spent,     \* BudgetLedger.spent: pod -> committed cost
    outcomes,  \* ReputationBook: pod -> number of recorded outcomes
    pc,        \* worker -> where it is in api_pods_result
    ev,        \* worker -> its event
    existing,  \* worker -> status in the copy of the pod's record
    previous,  \* worker -> previous_order, for the rollback
    resp,      \* worker -> the answer to its previous request
    polled,    \* poller -> the pod it asks the gateway about, or None
    snapStatus,\* poller -> status read before the gateway request
    snapRev    \* poller -> observed_revision

podVars == <<status, rev>>
guardVars == <<seen, last>>
effectVars == <<rooms, board, spent, outcomes>>
workerVars == <<pc, ev, existing, previous, resp>>
pollVars == <<polled, snapStatus, snapRev>>
vars == <<podVars, guardVars, cbLock, effectVars, workerVars, pollVars>>

-----------------------------------------------------------------------------

Order == [ts : Nat, id : STRING]

Status == GatewayStatus \cup Terminal

WorkerPC == {"idle", "lock", "lookup", "dedupe", "reserve", "room", "post",
             "rollback", "budget", "reputation", "commit"}

Responses == {"none", "ok", "dup", "refused", "failed"}

TypeOK ==
    /\ status \in [Pods -> Status \cup {None}]
    /\ rev \in [Pods -> Nat]
    /\ seen \subseteq STRING
    /\ last \in [Pods -> Order \cup {None}]
    /\ cbLock \in [Pods -> Workers \cup {None}]
    /\ rooms \in [Rooms -> {"absent", "open", "locked"}]
    /\ board \in Seq(Events)
    /\ spent \in [Pods -> Nat]
    /\ outcomes \in [Pods -> Nat]
    /\ pc \in [Workers -> WorkerPC]
    /\ ev \in [Workers -> Events \cup {None}]
    /\ existing \in [Workers -> Status \cup {None}]
    /\ previous \in [Workers -> Order \cup {None}]
    /\ resp \in [Workers -> Responses]
    /\ polled \in [Pollers -> Pods \cup {None}]
    /\ snapStatus \in [Pollers -> Status \cup {None}]
    /\ snapRev \in [Pollers -> Nat]

Init ==
    /\ status = [p \in Pods |-> None]
    /\ rev = [p \in Pods |-> 0]
    /\ seen = {}
    /\ last = [p \in Pods |-> None]
    /\ cbLock = [p \in Pods |-> None]
    /\ rooms = [r \in Rooms |-> "absent"]
    /\ board = <<>>
    /\ spent = [p \in Pods |-> 0]
    /\ outcomes = [p \in Pods |-> 0]
    /\ pc = [w \in Workers |-> "idle"]
    /\ ev = [w \in Workers |-> None]
    /\ existing = [w \in Workers |-> None]
    /\ previous = [w \in Workers |-> None]
    /\ resp = [w \in Workers |-> "none"]
    /\ polled = [q \in Pollers |-> None]
    /\ snapStatus = [q \in Pollers |-> None]
    /\ snapRev = [q \in Pollers |-> 0]

IsTerminal(s) == s \in Terminal

\* Fault: the terminal check is missing.
TransitionAlwaysAllowed(current) == TRUE

\* authoritative_pod_transition_allowed: any producer state, while live.
TransitionAllowed(current) == ~IsTerminal(current)

\* The cost a callback commits: AWAITING_APPROVAL only holds a reservation.
CostOf(e) == IF e.step /\ e.status # "AwaitingApproval" THEN e.cost ELSE 0

Goto(w, label) ==
    /\ pc' = [pc EXCEPT ![w] = label]
    /\ UNCHANGED <<ev, resp>>

\* Fault: the callback guard outlives the handler.
ReturnHoldingLock(w, r) ==
    /\ pc' = [pc EXCEPT ![w] = "idle"]
    /\ ev' = [ev EXCEPT ![w] = None]
    /\ existing' = [existing EXCEPT ![w] = None]
    /\ previous' = [previous EXCEPT ![w] = None]
    /\ resp' = [resp EXCEPT ![w] = r]
    /\ UNCHANGED cbLock

\* The handler returns: its callback guard is dropped with its stack frame.
Return(w, r) ==
    /\ cbLock' = [cbLock EXCEPT ![ev[w].pod] = None]
    /\ pc' = [pc EXCEPT ![w] = "idle"]
    /\ ev' = [ev EXCEPT ![w] = None]
    /\ existing' = [existing EXCEPT ![w] = None]
    /\ previous' = [previous EXCEPT ![w] = None]
    /\ resp' = [resp EXCEPT ![w] = r]

-----------------------------------------------------------------------------
(* The tail of api_pods_spawn: a record for p becomes visible.             *)

Register(p, st) ==
    /\ status[p] = None
    /\ status' = [status EXCEPT ![p] = st]
    /\ UNCHANGED <<rev, guardVars, cbLock, effectVars, workerVars, pollVars>>

(* A moderator locks or unlocks a room (Bbs::set_locked).                  *)

SetLocked(r) ==
    /\ rooms[r] # "absent"
    /\ rooms' = [rooms EXCEPT ![r] = IF @ = "open" THEN "locked" ELSE "open"]
    /\ UNCHANGED <<podVars, guardVars, cbLock, board, spent, outcomes,
                   workerVars, pollVars>>

-----------------------------------------------------------------------------
(* api_pods_result.                                                        *)

\* Delivery, duplicates and retries included, and signature verification.
Receive(w, e) ==
    /\ pc[w] = "idle"
    /\ IF e.authentic
       THEN /\ pc' = [pc EXCEPT ![w] = "lock"]
            /\ ev' = [ev EXCEPT ![w] = e]
            /\ resp' = [resp EXCEPT ![w] = "none"]
       ELSE /\ resp' = [resp EXCEPT ![w] = "refused"]
            /\ UNCHANGED <<pc, ev>>
    /\ UNCHANGED <<podVars, guardVars, cbLock, effectVars, existing, previous,
                   pollVars>>

\* Fault: callbacks of one pod are not serialised.
AcquireWithoutWaiting(w) ==
    /\ pc[w] = "lock"
    /\ cbLock' = [cbLock EXCEPT ![ev[w].pod] = w]
    /\ Goto(w, "lookup")
    /\ UNCHANGED <<podVars, guardVars, effectVars, existing, previous, pollVars>>

\* callback_lock.lock().await
Acquire(w) ==
    /\ pc[w] = "lock"
    /\ cbLock[ev[w].pod] = None
    /\ cbLock' = [cbLock EXCEPT ![ev[w].pod] = w]
    /\ Goto(w, "lookup")
    /\ UNCHANGED <<podVars, guardVars, effectVars, existing, previous, pollVars>>

\* pod_result_from_event, then the copy of the pod's record (400 / 404).
Lookup(w) ==
    /\ pc[w] = "lookup"
    /\ \/ /\ ev[w].known /\ status[ev[w].pod] # None
          /\ existing' = [existing EXCEPT ![w] = status[ev[w].pod]]
          /\ Goto(w, "dedupe")
          /\ UNCHANGED <<cbLock, previous>>
       \/ /\ ~ev[w].known \/ status[ev[w].pod] = None
          /\ Return(w, "refused")
    /\ UNCHANGED <<podVars, guardVars, effectVars, pollVars>>

\* The first look at the guard, then the terminal check on the copy (409).
Dedupe(w) ==
    /\ pc[w] = "dedupe"
    /\ \/ /\ ev[w].id \in seen
          /\ Return(w, "dup")
       \/ /\ ev[w].id \notin seen
          /\ ~TransitionAllowed(existing[w])
          /\ Return(w, "refused")
       \/ /\ ev[w].id \notin seen
          /\ TransitionAllowed(existing[w])
          /\ Goto(w, "reserve")
          /\ UNCHANGED <<cbLock, existing, previous>>
    /\ UNCHANGED <<podVars, guardVars, effectVars, pollVars>>

\* Fault: a tie with another event is let through.
OlderOnly(e) == last[e.pod] # None /\ e.ts < last[e.pod].ts

\* Older than, or tied with, the last accepted event of the pod.
OutOfOrder(e) ==
    /\ last[e.pod] # None
    /\ \/ e.ts < last[e.pod].ts
       \/ e.ts = last[e.pod].ts /\ e.id # last[e.pod].id

\* Fault: the order is remembered, the id is not.
ReserveOrderOnly(w) ==
    LET e == ev[w] IN
    /\ pc[w] = "reserve"
    /\ e.id \notin seen /\ ~OutOfOrder(e)
    /\ previous' = [previous EXCEPT ![w] = last[e.pod]]
    /\ last' = [last EXCEPT ![e.pod] = [ts |-> e.ts, id |-> e.id]]
    /\ Goto(w, "room")
    /\ UNCHANGED <<seen, cbLock, existing, podVars, effectVars, pollVars>>

\* Reserve the event id: one critical section of the guard's mutex.
Reserve(w) ==
    LET e == ev[w] IN
    /\ pc[w] = "reserve"
    /\ \/ /\ e.id \in seen
          /\ Return(w, "dup")
          /\ UNCHANGED guardVars
       \/ /\ e.id \notin seen
          /\ OutOfOrder(e)
          /\ Return(w, "refused")
          /\ UNCHANGED guardVars
       \/ /\ e.id \notin seen
          /\ ~OutOfOrder(e)
          /\ previous' = [previous EXCEPT ![w] = last[e.pod]]
          /\ last' = [last EXCEPT ![e.pod] = [ts |-> e.ts, id |-> e.id]]
          /\ seen' = seen \cup {e.id}
          /\ Goto(w, "room")
          /\ UNCHANGED <<cbLock, existing>>
    /\ UNCHANGED <<podVars, effectVars, pollVars>>

\* Create the room when get_board finds none.
EnsureRoom(w) ==
    /\ pc[w] = "room"
    /\ rooms' = [rooms EXCEPT ![RoomOf[ev[w].pod]] =
                    IF @ = "absent" THEN "open" ELSE @]
    /\ Goto(w, "post")
    /\ UNCHANGED <<podVars, guardVars, cbLock, board, spent, outcomes,
                   existing, previous, pollVars>>

\* tools::post_message: refused by a locked room or by a store error.
Post(w) ==
    /\ pc[w] = "post"
    /\ \/ /\ rooms[RoomOf[ev[w].pod]] = "open"
          /\ board' = Append(board, ev[w])
          /\ Goto(w, "budget")
       \/ /\ Goto(w, "rollback")
          /\ UNCHANGED board
    /\ UNCHANGED <<podVars, guardVars, cbLock, rooms, spent, outcomes,
                   existing, previous, pollVars>>

\* Fault: the order is restored, the id stays reserved.
RollbackOrderOnly(w) ==
    /\ pc[w] = "rollback"
    /\ last' = [last EXCEPT ![ev[w].pod] = previous[w]]
    /\ Return(w, "failed")
    /\ UNCHANGED <<seen, podVars, effectVars, pollVars>>

\* The post failed: release the reservation, answer 400.
Rollback(w) ==
    /\ pc[w] = "rollback"
    /\ seen' = seen \ {ev[w].id}
    /\ last' = [last EXCEPT ![ev[w].pod] = previous[w]]
    /\ Return(w, "failed")
    /\ UNCHANGED <<podVars, effectVars, pollVars>>

\* Fault: a reservation is charged as if it were committed.
RecordReservation(w) ==
    /\ pc[w] = "budget"
    /\ spent' = [spent EXCEPT ![ev[w].pod] = @ + ev[w].cost]
    /\ Goto(w, "reputation")
    /\ UNCHANGED <<podVars, guardVars, cbLock, rooms, board, outcomes,
                   existing, previous, pollVars>>

\* state.budget.record
RecordSpend(w) ==
    /\ pc[w] = "budget"
    /\ spent' = [spent EXCEPT ![ev[w].pod] = @ + CostOf(ev[w])]
    /\ Goto(w, "reputation")
    /\ UNCHANGED <<podVars, guardVars, cbLock, rooms, board, outcomes,
                   existing, previous, pollVars>>

\* Fault: every step-result counts as an outcome.
RecordEveryOutcome(w) ==
    /\ pc[w] = "reputation"
    /\ outcomes' = [outcomes EXCEPT ![ev[w].pod] = @ + 1]
    /\ Goto(w, "commit")
    /\ UNCHANGED <<podVars, guardVars, cbLock, rooms, board, spent,
                   existing, previous, pollVars>>

\* state.reputation.record, on a terminal status only.
RecordOutcome(w) ==
    /\ pc[w] = "reputation"
    /\ outcomes' = [outcomes EXCEPT ![ev[w].pod] =
                        IF IsTerminal(ev[w].status) THEN @ + 1 ELSE @]
    /\ Goto(w, "commit")
    /\ UNCHANGED <<podVars, guardVars, cbLock, rooms, board, spent,
                   existing, previous, pollVars>>

\* The lifecycle commit: neither the revision nor the status is looked at.
Commit(w) ==
    /\ pc[w] = "commit"
    /\ status' = [status EXCEPT ![ev[w].pod] = ev[w].status]
    /\ rev' = [rev EXCEPT ![ev[w].pod] = @ + 1]
    /\ Return(w, "ok")
    /\ UNCHANGED <<guardVars, effectVars, pollVars>>

-----------------------------------------------------------------------------
(* api_pods_get with a configured gateway.                                 *)

PollRead(q, p) ==
    /\ polled[q] = None
    /\ status[p] # None
    /\ ~IsTerminal(status[p])
    /\ rev[p] < MaxRev
    /\ polled' = [polled EXCEPT ![q] = p]
    /\ snapStatus' = [snapStatus EXCEPT ![q] = status[p]]
    /\ snapRev' = [snapRev EXCEPT ![q] = rev[p]]
    /\ UNCHANGED <<podVars, guardVars, cbLock, effectVars, workerVars>>

PollReturn(q) ==
    /\ polled' = [polled EXCEPT ![q] = None]
    /\ snapStatus' = [snapStatus EXCEPT ![q] = None]
    /\ snapRev' = [snapRev EXCEPT ![q] = 0]

\* Fault: the revision is not compared.
CommitPolledBlindly(p, observed, st) ==
    IF ~IsTerminal(status[p])
    THEN /\ status' = [status EXCEPT ![p] = st]
         /\ rev' = [rev EXCEPT ![p] = @ + 1]
    ELSE UNCHANGED podVars

\* commit_polled_status: a compare-and-set on the observed revision.
CommitPolled(p, observed, st) ==
    IF rev[p] = observed /\ ~IsTerminal(status[p])
    THEN /\ status' = [status EXCEPT ![p] = st]
         /\ rev' = [rev EXCEPT ![p] = @ + 1]
    ELSE UNCHANGED podVars

PollAnswer(q, st) ==
    /\ polled[q] # None
    /\ CommitPolled(polled[q], snapRev[q], st)
    /\ PollReturn(q)
    /\ UNCHANGED <<guardVars, cbLock, effectVars, workerVars>>

\* Timeout, HTTP error, unknown status word: fall back to the record as read.
PollError(q) ==
    /\ polled[q] # None
    /\ PollReturn(q)
    /\ UNCHANGED <<podVars, guardVars, cbLock, effectVars, workerVars>>

-----------------------------------------------------------------------------

\* The steps of a handler that holds, or is about to take, the callback lock.
Step(w) ==
    \/ Acquire(w) \/ Lookup(w) \/ Dedupe(w) \/ Reserve(w) \/ EnsureRoom(w)
    \/ Post(w) \/ Rollback(w) \/ RecordSpend(w) \/ RecordOutcome(w)
    \/ Commit(w)

Next ==
    \/ \E p \in Pods, st \in Reported : Register(p, st)
    \/ \E r \in Rooms : SetLocked(r)
    \/ \E w \in Workers, e \in Events : Receive(w, e)
    \/ \E w \in Workers : Step(w)
    \/ \E q \in Pollers, p \in Pods : PollRead(q, p)
    \/ \E q \in Pollers, st \in Reported : PollAnswer(q, st)
    \/ \E q \in Pollers : PollError(q)

Spec == Init /\ [][Next]_vars

\* A running handler is scheduled, and tokio's mutex is first come first
\* served, so a waiting callback is not overtaken for ever.
FairSpec ==
    /\ Spec
    /\ \A w \in Workers : WF_vars(Step(w)) /\ SF_vars(Acquire(w))

-----------------------------------------------------------------------------
(* Properties.                                                             *)

Posted(e) == \E i \in DOMAIN board : board[i] = e

\* A room never carries the same event twice, however often it is delivered,
\* retried after a failed post, or raced by a second delivery.
PostedAtMostOnce ==
    \A i, j \in DOMAIN board : board[i].id = board[j].id => i = j

\* The step-results of one pod appear in strictly increasing producer time.
PostedInOrder ==
    \A i, j \in DOMAIN board :
        (i < j /\ board[i].pod = board[j].pod) => board[i].ts < board[j].ts

\* Nothing follows a terminal step-result of a pod.
NothingAfterTerminal ==
    \A i, j \in DOMAIN board :
        (i < j /\ board[i].pod = board[j].pod)
            => ~IsTerminal(board[i].status)

\* Between callbacks, the dedupe guard holds exactly the ids that reached the
\* board: a failed post is fully rolled back and can be retried, a successful
\* one is remembered.
GuardMatchesBoard ==
    \A e \in Events : cbLock[e.pod] = None => (e.id \in seen <=> Posted(e))

\* Between callbacks, a pod has as many reputation outcomes as terminal
\* step-results on the board, and never more than one.
OutcomePerTerminal ==
    \A p \in Pods :
        /\ outcomes[p] <= 1
        /\ cbLock[p] = None =>
             (outcomes[p] = 1 <=> \E i \in DOMAIN board :
                 board[i].pod = p /\ IsTerminal(board[i].status))

\* The total cost of the step-results of p in a board.
TotalCost(s, p) ==
    LET upto[k \in 0 .. Len(s)] ==
          IF k = 0 THEN 0
          ELSE upto[k - 1] + (IF s[k].pod = p THEN CostOf(s[k]) ELSE 0)
    IN  upto[Len(s)]

\* Between callbacks, a pod's recorded spend is the total cost of its
\* step-results on the board.
LedgerMatchesBoard ==
    \A p \in Pods : cbLock[p] = None => spent[p] = TotalCost(board, p)

\* A success answer, first time or duplicate, means the event is on the board.
AckedIsPosted ==
    [][\A w \in Workers :
         (pc[w] # "idle" /\ pc'[w] = "idle" /\ resp'[w] \in {"ok", "dup"})
            => Posted(ev[w])]_vars

\* A poll changes a pod only if the pod still is what the poll read before its
\* gateway request: no callback that landed meanwhile is undone.
PollNeverStale ==
    [][\A q \in Pollers :
         (polled[q] # None /\ polled'[q] = None /\ rev' # rev)
            => status[polled[q]] = snapStatus[q]]_vars

\* Every callback that reached its pod's lock is answered.
EveryCallbackAnswered ==
    \A w \in Workers : pc[w] = "lock" ~> pc[w] = "idle"

\* PodStatus::is_terminal: "no further transitions".
TerminalIsFinal ==
    [][\A p \in Pods : IsTerminal(status[p]) => status'[p] = status[p]]_vars
-----------------------------------------------------------------------------
(* The inductive invariant behind PostedAtMostOnce, PostedInOrder,         *)
(* NothingAfterTerminal and GuardMatchesBoard.                             *)

Held == WorkerPC \ {"idle", "lock"}
Reserving == {"room", "post", "rollback"}
Posting == {"budget", "reputation", "commit"}

\* A running handler has an event, and one past the lock is its holder.
Exclusion ==
    \A w \in Workers :
        /\ pc[w] # "idle" => ev[w] \in Events
        /\ pc[w] \in Held => cbLock[ev[w].pod] = w

\* The ids in the guard whose event no handler can still roll back.
Settled == {x \in seen : \A w \in Workers : pc[w] \in Reserving => ev[w].id # x}

\* The settled ids are the ids on the board.
SettledIsPosted ==
    /\ \A i \in DOMAIN board : board[i].id \in Settled
    /\ \A x \in Settled : \E i \in DOMAIN board : board[i].id = x

\* A reservation is in the guard, is nobody else's, and can be undone.
Reservations ==
    \A w \in Workers : pc[w] \in Reserving =>
        /\ ev[w].id \in seen
        /\ last[ev[w].pod] = [ts |-> ev[w].ts, id |-> ev[w].id]
        /\ previous[w] # None => previous[w].id \in Settled
        /\ \A v \in Workers : (pc[v] \in Reserving /\ ev[v].id = ev[w].id) => v = w

\* `last` names a settled event unless its pod has a reservation.
LastSettled ==
    \A p \in Pods : last[p] # None =>
        \/ last[p].id \in Settled
        \/ \E w \in Workers : pc[w] \in Reserving /\ ev[w].pod = p

\* Nothing on the board is newer than the pod's `last`, nor, while a handler
\* may still roll back, than what it would restore.
BoardBehindLast ==
    \A i \in DOMAIN board :
        /\ last[board[i].pod] # None
        /\ board[i].ts <= last[board[i].pod].ts
        /\ \A w \in Workers : (pc[w] \in Reserving /\ ev[w].pod = board[i].pod) =>
              /\ previous[w] # None
              /\ board[i].ts <= previous[w].ts
              /\ board[i].ts < ev[w].ts

\* A handler past its post has its event on the board, its pod's last one.
PostingIsPosted ==
    \A w \in Workers : pc[w] \in Posting =>
        \E i \in DOMAIN board :
            /\ board[i] = ev[w]
            /\ \A j \in DOMAIN board : j > i => board[j].pod # ev[w].pod

TerminalPosted(p) ==
    \E i \in DOMAIN board : board[i].pod = p /\ IsTerminal(board[i].status)

\* Once a pod's terminal result is on the board its record is terminal, or
\* about to be, and no handler of the pod gets as far as another post.
TerminalRecorded ==
    /\ \A p \in Pods : TerminalPosted(p) =>
          \/ status[p] # None /\ IsTerminal(status[p])
          \/ \E w \in Workers : pc[w] \in Posting /\ ev[w].pod = p
                                /\ IsTerminal(ev[w].status)
    /\ \A w \in Workers :
          /\ (pc[w] = "dedupe" /\ TerminalPosted(ev[w].pod)) => IsTerminal(existing[w])
          /\ pc[w] \in {"reserve"} \cup Reserving => ~TerminalPosted(ev[w].pod)

\* Every change of a pod's record also raises its revision.
PollsSeeRevisions ==
    \A q \in Pollers : polled[q] # None =>
        /\ status[polled[q]] # None
        /\ snapRev[q] <= rev[polled[q]]
        /\ snapRev[q] = rev[polled[q]] => snapStatus[q] = status[polled[q]]

GuardInv ==
    /\ Exclusion
    /\ SettledIsPosted
    /\ Reservations
    /\ LastSettled
    /\ BoardBehindLast
    /\ PostingIsPosted
    /\ TerminalRecorded
    /\ PollsSeeRevisions
    /\ PostedAtMostOnce
    /\ PostedInOrder
    /\ NothingAfterTerminal

\* What is left of "no further transitions" (TerminalIsFinal) when polls and
\* callbacks race: once a pod's terminal result is in its room and the callback
\* that posted it has returned, the pod's record never changes again.
ToldIsFinal ==
    [][\A p \in Pods :
         (/\ TerminalPosted(p)
          /\ ~\E w \in Workers : /\ pc[w] \in Posting /\ ev[w].pod = p
                                  /\ IsTerminal(ev[w].status))
            => status'[p] = status[p]]_vars
=============================================================================
