--------------------------- MODULE PlaybookProofs ---------------------------
(***************************************************************************)
(* Theorems about the gates, the runs, the threads and the completion      *)
(* records of Playbook, for any playbooks, any approvers and any number of *)
(* concurrent requests.                                                    *)
(***************************************************************************)
EXTENDS Playbook, FiniteSetTheorems, FunctionTheorems, WellFoundedInduction, TLAPS

Approved(pb, k) ==
  \E d \in decisions : /\ d.aid = Joined(PlaybookId[pb], Steps[pb][k].id)
                       /\ d.decider \in Approver /\ d.verdict = "Approve"

\* A walk stands at one of its playbook's steps, and every gate behind it was
\* approved.
Good(w) ==
  /\ w.pb \in Playbooks
  /\ w.cursor \in 0..Len(Steps[w.pb])
  /\ \A k \in 1..w.cursor : Steps[w.pb][k].gate => Approved(w.pb, k)

Walk == [pc : {"startRecord", "push"}, pb : Playbooks, cursor : Nat, status : Status]
Starting(q) == task[q].pc \in {"startRecord", "push"}

Inv ==
  /\ runs \in Seq(Entry)
  /\ \A i \in 1..Len(runs) : Good(runs[i])
  /\ task = [q \in Req |-> task[q]]
  /\ \A q \in Req : Starting(q) => Good(task[q]) /\ task[q] \in Walk

----------------------------------------------------------------------------
(* The walk *)

\* A set of naturals that is not empty has a least element.
LEMMA LeastNat ==
  ASSUME NEW T \in SUBSET Nat, T # {}
  PROVE  \E x \in T : \A y \in T : x <= y
<1> DEFINE R == {p \in Nat \X Nat : p[1] < p[2]}
<1>1. IsWellFoundedOn(R, Nat)
    BY NatLessThanWellFounded, Zenon DEF OpToRel
<1>2. ASSUME NEW x \in Nat, NEW y \in Nat, x < y
      PROVE  <<x, y>> \in R
    BY <1>2
<1> HIDE DEF R
<1>3. PICK x \in T : \A y \in T : ~ (<<y, x>> \in R)
    BY <1>1, WFMin
<1>4. ASSUME NEW y \in T
      PROVE  x <= y
  <2>1. x \in Nat /\ y \in Nat /\ ~(y < x)
      BY <1>2, <1>3
  <2> QED
      BY <2>1
<1> QED
    BY <1>4

\* What a playbook's steps are.
LEMMA StepsType ==
  ASSUME NEW pb \in Playbooks
  PROVE  Len(Steps[pb]) \in Nat
  BY PlaybookAssumption

\* drive_run stops at a step of the playbook, not before the one it starts
\* from, and no gate refused on the way.
LEMMA DriveRunStops ==
  ASSUME NEW pb \in Playbooks, NEW c \in 0..Len(Steps[pb])
  PROVE  /\ DriveRun(pb, c).cursor \in c..Len(Steps[pb])
         /\ \A k \in c..(DriveRun(pb, c).cursor - 1) : ~Blocked(pb, k)
         /\ DriveRun(pb, c).status \in Status
<1> DEFINE n == Len(Steps[pb])
           Stop(j) == /\ j = n \/ Blocked(pb, j)
                      /\ \A k \in c..(j - 1) : ~Blocked(pb, k)
           T == {j \in c..n : j = n \/ Blocked(pb, j)}
           stop == CHOOSE j \in c..n : Stop(j)
<1>1. n \in Nat /\ c \in Nat /\ c <= n
    BY StepsType
<1> HIDE DEF n
<1>2. T \in SUBSET Nat /\ n \in T
    BY <1>1
<1>3. PICK x \in T : \A y \in T : x <= y
  <2> HIDE DEF T
  <2> QED
      BY <1>2, LeastNat
<1>4. x \in c..n /\ Stop(x)
  <2>1. x \in c..n /\ x \in Nat /\ (x = n \/ Blocked(pb, x))
      BY <1>1, <1>3
  <2>2. ASSUME NEW k \in c..(x - 1)
        PROVE  ~Blocked(pb, k)
    <3>1. k \in c..n /\ k < x
        BY <1>1, <2>1
    <3>2. k \notin T
        BY <1>1, <1>3, <2>1, <3>1
    <3> QED
        BY <3>1, <3>2
  <2> QED
      BY <2>1, <2>2
<1>5. stop \in c..n /\ Stop(stop)
  <2> HIDE DEF Stop
  <2> QED
      BY <1>4
<1>6. DriveRun(pb, c) = [cursor |-> stop,
                         status |-> IF stop = n THEN "Completed" ELSE "AwaitingApproval"]
    BY DEF DriveRun, n
<1> HIDE DEF stop
<1> QED
    BY <1>5, <1>6 DEF n, Status

\* A gate that does not refuse was approved, and was not vetoed.
LEMMA UnblockedGate ==
  ASSUME NEW pb, NEW k, Steps[pb][k + 1].gate, ~Blocked(pb, k)
  PROVE  /\ Approved(pb, k + 1)
         /\ ~ \E d \in decisions : /\ d.aid = Joined(PlaybookId[pb], Steps[pb][k + 1].id)
                                   /\ d.decider \in Approver /\ d.verdict = "Reject"
  BY DEF Blocked, IsAuthorized, GateActionId, Approved
----------------------------------------------------------------------------
(* The steps *)

\* Decisions are never withdrawn, so what was good stays good.
LEMMA GoodStays ==
  ASSUME NEW w, Good(w), decisions \subseteq decisions'
  PROVE  Good(w)'
  BY DEF Good, Approved

\* Driving a good walk on leaves a good walk.
LEMMA DriveRunGood ==
  ASSUME NEW w, Good(w), NEW v, v.pb = w.pb, v.cursor = DriveRun(w.pb, w.cursor).cursor
  PROVE  Good(v)
<1> DEFINE pb == w.pb
           c == w.cursor
           s == DriveRun(pb, c).cursor
<1>1. pb \in Playbooks /\ c \in 0..Len(Steps[pb]) /\ Len(Steps[pb]) \in Nat
    BY StepsType DEF Good
<1>2. s \in c..Len(Steps[pb]) /\ \A k \in c..(s - 1) : ~Blocked(pb, k)
    BY <1>1, DriveRunStops
<1> HIDE DEF s
<1>3. ASSUME NEW k \in 1..s, Steps[pb][k].gate
      PROVE  Approved(pb, k)
  <2>1. CASE k <= c
      BY <1>1, <1>3, <2>1 DEF Good
  <2>2. CASE k > c
    <3>1. k - 1 \in c..(s - 1) /\ (k - 1) + 1 = k
        BY <1>1, <1>2, <2>2
    <3> QED
        BY <1>2, <1>3, <3>1, UnblockedGate
  <2> QED
      BY <1>1, <1>2, <2>1, <2>2
<1>4. v.pb = pb /\ v.cursor = s
    BY DEF s
<1> QED
    BY <1>1, <1>2, <1>3, <1>4 DEF Good

\* post_run_progress writes one run back, at the place its walk has reached.
LEMMA ProgressRuns ==
  ASSUME Inv, NEW i \in 1..(Len(runs) + 1), NEW e \in Entry, PostRunProgress(i, e)
  PROVE  /\ runs' \in Seq(Entry)
         /\ Len(runs') = IF i \in 1..Len(runs) THEN Len(runs) ELSE Len(runs) + 1
         /\ runs'[i].pb = e.pb /\ runs'[i].cursor = e.cursor /\ runs'[i].status = e.status
         /\ \A j \in 1..Len(runs) : j # i => runs'[j] = runs[j]
<1>1. PICK ok \in BOOLEAN, F \in SUBSET ((e.posted + 1)..e.cursor) :
        runs' = [j \in 1..Len(runs) \cup {i} |-> IF j = i THEN Progressed(e, ok, F) ELSE runs[j]]
    BY DEF PostRunProgress
<1>2. /\ Progressed(e, ok, F) \in Entry
      /\ Progressed(e, ok, F).pb = e.pb /\ Progressed(e, ok, F).cursor = e.cursor
      /\ Progressed(e, ok, F).status = e.status
    BY DEF Progressed, Entry
<1>3. runs \in Seq(Entry) /\ Len(runs) \in Nat /\ \A j \in 1..Len(runs) : runs[j] \in Entry
    BY DEF Inv
<1> DEFINE n == IF i \in 1..Len(runs) THEN Len(runs) ELSE Len(runs) + 1
<1>4. n \in Nat /\ 1..Len(runs) \cup {i} = 1..n
    BY <1>3
<1> HIDE DEF n
<1>5. runs' \in [1..n -> Entry]
    BY <1>1, <1>2, <1>3, <1>4
<1>6. runs' \in Seq(Entry) /\ Len(runs') = n
    BY <1>4, <1>5
<1> QED
    BY <1>1, <1>2, <1>6 DEF n

\* What an update of one request leaves of the others.
LEMMA TaskUpdate ==
  ASSUME Inv, NEW q \in Req, NEW r, task' = [task EXCEPT ![q] = r],
         decisions' = decisions,
         r.pc \in {"startRecord", "push"} => Good(r) /\ r \in Walk
  PROVE  /\ task' = [p \in Req |-> task'[p]]
         /\ \A p \in Req : Starting(p)' => Good(task[p])' /\ task'[p] \in Walk
<1>1. task'[q] = r /\ \A p \in Req \ {q} : task'[p] = task[p]
    BY DEF Inv
<1>2. task' = [p \in Req |-> task'[p]]
    BY DEF Inv
<1>3. ASSUME NEW p \in Req, Starting(p)'
      PROVE  Good(task[p])' /\ task'[p] \in Walk
  <2>1. PICK w : w = task'[p]
      OBVIOUS
  <2>2. Good(w) /\ w \in Walk
      BY <1>1, <1>3, <2>1 DEF Inv, Starting
  <2>3. Good(w)'
      BY <2>2, GoodStays
  <2>4. Good(task[p])'
      BY <2>1, <2>3, ZenonT(60) DEF Good, Approved
  <2> QED
      BY <2>1, <2>2, <2>4
<1> QED
    BY <1>2, <1>3

\* What post_run_progress leaves of the runs, when the walk it posts is good.
LEMMA RunsGood ==
  ASSUME Inv, NEW i \in 1..(Len(runs) + 1), NEW e \in Entry, PostRunProgress(i, e),
         Good(e), decisions' = decisions
  PROVE  runs' \in Seq(Entry) /\ (\A j \in 1..Len(runs) : Good(runs[j]))'
<1>1. /\ runs' \in Seq(Entry)
      /\ Len(runs') = IF i \in 1..Len(runs) THEN Len(runs) ELSE Len(runs) + 1
      /\ runs'[i].pb = e.pb /\ runs'[i].cursor = e.cursor
      /\ \A j \in 1..Len(runs) : j # i => runs'[j] = runs[j]
    BY ProgressRuns
<1>2. ASSUME NEW j \in 1..Len(runs')
      PROVE  Good(runs[j])'
  <2>1. PICK w : w = runs'[j]
      OBVIOUS
  <2>2. Good(w)
    <3>1. CASE j = i
        BY <1>1, <2>1, <3>1, ZenonT(60) DEF Good, Approved
    <3>2. CASE j # i
      <4>1. Len(runs) \in Nat
          BY DEF Inv
      <4>2. j \in 1..Len(runs)
          BY <1>1, <3>2, <4>1
      <4> QED
          BY <1>1, <2>1, <3>2, <4>2 DEF Inv
    <3> QED
        BY <3>1, <3>2
  <2>3. Good(w)'
      BY <2>2, GoodStays
  <2> QED
      BY <2>1, <2>3 DEF Good, Approved
<1> QED
    BY <1>1, <1>2

\* The entry api_run_advance writes back: the same playbook, driven on.
LEMMA AdvanceEntry ==
  ASSUME Inv, NEW i \in 1..Len(runs), NEW w,
         w = IF runs[i].status = "Completed" THEN runs[i]
             ELSE DriveRun(runs[i].pb, runs[i].cursor)
  PROVE  /\ [runs[i] EXCEPT !.cursor = w.cursor, !.status = w.status] \in Entry
         /\ [runs[i] EXCEPT !.cursor = w.cursor, !.status = w.status].pb = runs[i].pb
         /\ [runs[i] EXCEPT !.cursor = w.cursor, !.status = w.status].cursor = w.cursor
         /\ Good([runs[i] EXCEPT !.cursor = w.cursor, !.status = w.status])
<1> DEFINE e == runs[i]
           v == [e EXCEPT !.cursor = w.cursor, !.status = w.status]
<1>1. e \in Entry /\ Good(e)
    BY DEF Inv
<1>2. w.cursor \in Nat /\ w.status \in Status
  <2>1. CASE e.status = "Completed"
      BY <1>1, <2>1 DEF Entry
  <2>2. CASE e.status # "Completed"
    <3>1. e.pb \in Playbooks /\ e.cursor \in 0..Len(Steps[e.pb]) /\ Len(Steps[e.pb]) \in Nat
        BY <1>1, StepsType DEF Good
    <3>2. /\ DriveRun(e.pb, e.cursor).cursor \in e.cursor..Len(Steps[e.pb])
          /\ DriveRun(e.pb, e.cursor).status \in Status
        BY <3>1, DriveRunStops
    <3> QED
        BY <2>2, <3>1, <3>2
  <2> QED
      BY <2>1, <2>2
<1> HIDE DEF e
<1>3. v \in Entry /\ v.pb = e.pb /\ v.cursor = w.cursor
    BY <1>1, <1>2 DEF Entry
<1> HIDE DEF v
<1>4. Good(v)
  <2>1. CASE e.status = "Completed"
    <3>1. w = e
        BY <2>1 DEF e
    <3> QED
        BY <1>1, <1>3, <3>1 DEF Good, Approved
  <2>2. CASE e.status # "Completed"
    <3>1. w = DriveRun(e.pb, e.cursor)
        BY <2>2 DEF e
    <3> QED
        BY <1>1, <1>3, <3>1, DriveRunGood
  <2> QED
      BY <2>1, <2>2
<1> QED
    BY <1>3, <1>4 DEF v, e

----------------------------------------------------------------------------
(* The invariant *)

\* At first there are no runs and no request has begun.
LEMMA InvInit == Init => Inv
  BY DEF Init, Inv, Starting, Idle

\* Every section of every handler keeps the invariant.
LEMMA InvStep == Inv /\ [Next]_vars => Inv'
<1> SUFFICES ASSUME Inv, [Next]_vars PROVE Inv'
    OBVIOUS
<1> DEFINE Runs == /\ runs \in Seq(Entry)
                   /\ \A i \in 1..Len(runs) : Good(runs[i])
           Tasks == /\ task = [q \in Req |-> task[q]]
                    /\ \A q \in Req : Starting(q) => Good(task[q]) /\ task[q] \in Walk
<1>0. Inv' <=> Runs' /\ Tasks'
    BY DEF Inv
<1>1. ASSUME runs' = runs, decisions \subseteq decisions'
      PROVE  Runs'
  <2>1. ASSUME NEW i \in 1..Len(runs)
        PROVE  Good(runs[i])'
    <3>1. PICK w : w = runs[i]
        OBVIOUS
    <3>2. Good(w)'
        BY <1>1, <3>1, GoodStays DEF Inv
    <3> QED
        BY <1>1, <3>1, <3>2 DEF Good, Approved
  <2> QED
      BY <1>1, <2>1 DEF Inv
<1>2. ASSUME task' = task, decisions \subseteq decisions'
      PROVE  Tasks'
  <2>1. ASSUME NEW q \in Req, Starting(q)
        PROVE  Good(task[q])'
    <3>1. PICK w : w = task[q]
        OBVIOUS
    <3>2. Good(w)'
        BY <1>2, <2>1, <3>1, GoodStays DEF Inv
    <3> QED
        BY <1>2, <3>1, <3>2 DEF Good, Approved
  <2> QED
      BY <1>2, <2>1 DEF Inv, Starting
<1>3. ASSUME NEW h \in Human, NEW aid, NEW v, Decide(h, aid, v)
      PROVE  Inv'
    BY <1>0, <1>1, <1>2, <1>3 DEF Decide
<1>4. ASSUME NEW q \in Req, NEW pb \in Playbooks, Start(q, pb)
      PROVE  Inv'
  <2> DEFINE w == DriveRun(pb, 0)
             r == [pc |-> IF w.status = "Completed" THEN "startRecord" ELSE "push",
                   pb |-> pb, cursor |-> w.cursor, status |-> w.status]
  <2>1. Len(Steps[pb]) \in Nat
      BY StepsType
  <2>2. w.cursor \in Nat /\ w.status \in Status
      BY <2>1, DriveRunStops
  <2>3. Good([pb |-> pb, cursor |-> 0])
      BY <2>1 DEF Good
  <2>4. r.pb = pb /\ r.cursor = w.cursor
      OBVIOUS
  <2>5. r \in Walk
      BY <2>2 DEF Walk
  <2>6. /\ task' = [task EXCEPT ![q] = r]
        /\ decisions' = decisions /\ runs' = runs
      BY <1>4 DEF Start
  <2> HIDE DEF r
  <2>7. Good(r)
      BY <2>3, <2>4, DriveRunGood
  <2>8. Tasks'
      BY <2>5, <2>6, <2>7, TaskUpdate
  <2> QED
      BY <1>0, <1>1, <2>6, <2>8
<1>5. ASSUME NEW q \in Req, StartRecord(q)
      PROVE  Inv'
  <2> DEFINE r == [task[q] EXCEPT !.pc = "push"]
  <2>1. /\ task' = [task EXCEPT ![q] = r]
        /\ decisions' = decisions /\ runs' = runs
      BY <1>5 DEF StartRecord
  <2>2. Good(task[q]) /\ task[q] \in Walk
      BY <1>5 DEF Inv, StartRecord, Starting
  <2>3. r \in Walk /\ r.pb = task[q].pb /\ r.cursor = task[q].cursor
      BY <2>2 DEF Walk
  <2> HIDE DEF r
  <2>4. Good(r)
      BY <2>2, <2>3 DEF Good, Approved
  <2>5. Tasks'
      BY <2>1, <2>3, <2>4, TaskUpdate
  <2> QED
      BY <1>0, <1>1, <2>1, <2>5
<1>6. ASSUME NEW q \in Req, Push(q)
      PROVE  Inv'
  <2> DEFINE e == [pb |-> task[q].pb, cursor |-> task[q].cursor, status |-> task[q].status,
                   milestone |-> FALSE, posted |-> 0]
             i == Len(runs) + 1
             r == [pc |-> "done"]
  <2>1. /\ task' = [task EXCEPT ![q] = r]
        /\ decisions' = decisions /\ PostRunProgress(i, e)
      BY <1>6 DEF Push
  <2>2. Good(task[q]) /\ task[q] \in Walk
      BY <1>6 DEF Inv, Push, Starting
  <2>3. e \in Entry /\ e.pb = task[q].pb /\ e.cursor = task[q].cursor
      BY <2>2 DEF Walk, Entry
  <2>4. i \in 1..(Len(runs) + 1)
      BY DEF Inv
  <2>5. ~(r.pc \in {"startRecord", "push"})
      OBVIOUS
  <2> HIDE DEF e, i, r
  <2>6. Good(e)
      BY <2>2, <2>3 DEF Good, Approved
  <2>7. Tasks'
      BY <2>1, <2>5, TaskUpdate
  <2>8. Runs'
      BY <2>1, <2>3, <2>4, <2>6, RunsGood
  <2> QED
      BY <1>0, <2>7, <2>8
<1>7. ASSUME NEW q \in Req, NEW i \in 1..Len(runs), Advance(q, i)
      PROVE  Inv'
  <2> DEFINE w == IF runs[i].status = "Completed" THEN runs[i]
                  ELSE DriveRun(runs[i].pb, runs[i].cursor)
             e == [runs[i] EXCEPT !.cursor = w.cursor, !.status = w.status]
             r == IF CompletedNow(runs[i].status, w.status)
                  THEN [pc |-> "record", pb |-> runs[i].pb] ELSE [pc |-> "done"]
  <2>1. /\ task' = [task EXCEPT ![q] = r]
        /\ decisions' = decisions /\ PostRunProgress(i, e)
      BY <1>7 DEF Advance
  <2>2. ~(r.pc \in {"startRecord", "push"})
      OBVIOUS
  <2>3. e \in Entry /\ Good(e)
    <3> HIDE DEF w
    <3> QED
        BY AdvanceEntry DEF w
  <2>4. i \in 1..(Len(runs) + 1)
      BY DEF Inv
  <2> HIDE DEF e, r
  <2>5. Tasks'
      BY <2>1, <2>2, TaskUpdate
  <2>6. Runs'
      BY <2>1, <2>3, <2>4, RunsGood
  <2> QED
      BY <1>0, <2>5, <2>6
<1>8. ASSUME NEW q \in Req, Record(q)
      PROVE  Inv'
  <2> DEFINE r == [pc |-> "done"]
  <2>1. /\ task' = [task EXCEPT ![q] = r]
        /\ decisions' = decisions /\ runs' = runs
      BY <1>8 DEF Record
  <2>2. ~(r.pc \in {"startRecord", "push"})
      OBVIOUS
  <2> HIDE DEF r
  <2>3. Tasks'
      BY <2>1, <2>2, TaskUpdate
  <2> QED
      BY <1>0, <1>1, <2>1, <2>3
<1>9. CASE UNCHANGED vars
    BY <1>0, <1>1, <1>2, <1>9 DEF vars
<1> QED
    BY <1>3, <1>4, <1>5, <1>6, <1>7, <1>8, <1>9 DEF Next, Handler

\* The invariant holds in every reachable state: each run stands at one of its
\* playbook's steps with every gate behind it approved, from the moment
\* api_playbook_run drives it to the last advance.
THEOREM RunsInOrder == Spec => []Inv
<1> QED
    BY InvInit, InvStep, PTL DEF Spec

\* No run is past a gate whose action id was not approved (gate_action_id,
\* is_authorized), whatever the playbooks, the ids they are posted under, the
\* approvers and the number of requests in flight.  Definitions posted under one
\* id share their approvals.
THEOREM GatesHold == Spec => []NoGateWithoutApproval
<1>1. Inv => NoGateWithoutApproval
  <2> SUFFICES ASSUME Inv,
                      NEW w \in {runs[i] : i \in 1..Len(runs)} \cup Started,
                      NEW k \in Passed(w)
               PROVE  Approved(w.pb, k)
      BY DEF NoGateWithoutApproval, Approved
  <2>1. Good(w)
      BY DEF Inv, Started, Starting
  <2> QED
      BY <2>1 DEF Good, Passed
<1> QED
    BY <1>1, RunsInOrder, PTL

\* What VetoIsFinal says of a step, for run i and the gate before step k.
LEMMA VetoStep ==
  ASSUME Inv, Next, NEW i \in 1..Len(runs), NEW k \in 1..Len(Steps[runs[i].pb]),
         Steps[runs[i].pb][k].gate, runs[i].cursor < k,
         \E d \in decisions : /\ d.aid = Joined(PlaybookId[runs[i].pb], Steps[runs[i].pb][k].id)
                              /\ d.decider \in Approver /\ d.verdict = "Reject"
  PROVE  runs'[i].cursor < k
<1>1. CASE runs' = runs
    BY <1>1
<1>2. ASSUME NEW q \in Req, Push(q)
      PROVE  runs'[i].cursor < k
  <2>1. PICK ok, e : runs' = [j \in 1..Len(runs) \cup {Len(runs) + 1} |->
                               IF j = Len(runs) + 1 THEN ok ELSE runs[j]]
      BY <1>2 DEF Push, PostRunProgress
  <2>2. Len(runs) \in Nat
      BY DEF Inv
  <2> QED
      BY <2>1, <2>2
<1>3. ASSUME NEW q \in Req, NEW n \in 1..Len(runs), Advance(q, n)
      PROVE  runs'[i].cursor < k
  <2> DEFINE w == IF runs[n].status = "Completed" THEN runs[n]
                  ELSE DriveRun(runs[n].pb, runs[n].cursor)
             e == [runs[n] EXCEPT !.cursor = w.cursor, !.status = w.status]
  <2>1. PostRunProgress(n, e)
      BY <1>3 DEF Advance
  <2>2. e \in Entry /\ e.cursor = w.cursor
    <3>1. runs[n] \in Entry
        BY DEF Inv
    <3>2. e \in Entry /\ Good(e)
      <4> HIDE DEF w
      <4> QED
          BY AdvanceEntry DEF w
    <3> HIDE DEF w
    <3> QED
        BY <3>1, <3>2 DEF Entry
  <2>3. n \in 1..(Len(runs) + 1)
      BY DEF Inv
  <2> HIDE DEF e
  <2>4. runs'[n].cursor = w.cursor /\ \A j \in 1..Len(runs) : j # n => runs'[j] = runs[j]
      BY <2>1, <2>2, <2>3, ProgressRuns
  <2>5. CASE i # n
      BY <2>4, <2>5
  <2>6. CASE i = n /\ runs[n].status = "Completed"
      BY <2>4, <2>6
  <2>7. CASE i = n /\ runs[n].status # "Completed"
    <3> DEFINE pb == runs[i].pb
               c == runs[i].cursor
               s == DriveRun(pb, c).cursor
    <3>1. pb \in Playbooks /\ c \in 0..Len(Steps[pb]) /\ Len(Steps[pb]) \in Nat
        BY StepsType DEF Inv, Good
    <3>2. s \in c..Len(Steps[pb]) /\ \A j \in c..(s - 1) : ~Blocked(pb, j)
        BY <3>1, DriveRunStops
    <3>3. runs'[i].cursor = s
        BY <2>4, <2>7
    <3> HIDE DEF s
    <3>4. ASSUME ~(s < k)
          PROVE  FALSE
      <4>1. k - 1 \in c..(s - 1) /\ (k - 1) + 1 = k
          BY <3>1, <3>2, <3>4
      <4> QED
          BY <3>2, <4>1, UnblockedGate
    <3> QED
        BY <3>3, <3>4
  <2> QED
      BY <2>5, <2>6, <2>7
<1> QED
    BY <1>1, <1>2, <1>3
       DEF Next, Handler, Decide, Start, StartRecord, Record

\* A veto is final for every run that stands before its gate.
THEOREM VetoHolds == Spec => VetoIsFinal
<1> DEFINE A == \A i \in 1..Len(runs) : \A k \in 1..Len(Steps[runs[i].pb]) :
       /\ Steps[runs[i].pb][k].gate /\ runs[i].cursor < k
       /\ \E d \in decisions : /\ d.aid = Joined(PlaybookId[runs[i].pb], Steps[runs[i].pb][k].id)
                               /\ d.decider \in Approver /\ d.verdict = "Reject"
       => runs'[i].cursor < k
<1>1. Inv /\ [Next]_vars => [A]_vars
    BY VetoStep
<1>2. VetoIsFinal <=> [][A]_vars
    BY DEF VetoIsFinal
<1> HIDE DEF A
<1> QED
    BY <1>1, <1>2, RunsInOrder, PTL DEF Spec

\* A run's walk goes one way: it is not forgotten, keeps its playbook, never
\* steps back, and once completed it stays where it is.
RunsOnlyAdvance ==
  [][\A i \in 1..Len(runs) :
       /\ i \in 1..Len(runs') /\ runs'[i].pb = runs[i].pb
       /\ runs[i].cursor <= runs'[i].cursor
       /\ runs[i].status = "Completed" =>
            runs'[i].status = "Completed" /\ runs'[i].cursor = runs[i].cursor]_vars

\* What RunsOnlyAdvance says of a step, for run i.
LEMMA AdvanceStep ==
  ASSUME Inv, Next, NEW i \in 1..Len(runs)
  PROVE  /\ i \in 1..Len(runs') /\ runs'[i].pb = runs[i].pb
         /\ runs[i].cursor <= runs'[i].cursor
         /\ runs[i].status = "Completed" =>
              runs'[i].status = "Completed" /\ runs'[i].cursor = runs[i].cursor
<1> DEFINE Goal == /\ i \in 1..Len(runs') /\ runs'[i].pb = runs[i].pb
                   /\ runs[i].cursor <= runs'[i].cursor
                   /\ runs[i].status = "Completed" =>
                        runs'[i].status = "Completed" /\ runs'[i].cursor = runs[i].cursor
<1>a. Len(runs) \in Nat /\ runs[i] \in Entry /\ Good(runs[i])
    BY DEF Inv
<1>0. /\ Len(runs) \in Nat /\ runs[i] \in Entry /\ runs[i].cursor \in Nat /\ Good(runs[i])
    BY <1>a DEF Entry
<1>1. ASSUME runs' = runs PROVE Goal
    BY <1>0, <1>1
<1>2. ASSUME NEW q \in Req, Push(q) PROVE Goal
  <2> DEFINE e == [pb |-> task[q].pb, cursor |-> task[q].cursor, status |-> task[q].status,
                   milestone |-> FALSE, posted |-> 0]
  <2>1. PostRunProgress(Len(runs) + 1, e)
      BY <1>2 DEF Push
  <2>2. e \in Entry
      BY <1>2 DEF Push, Inv, Starting, Walk, Entry
  <2>3. Len(runs) + 1 \in 1..(Len(runs) + 1) /\ Len(runs) + 1 \notin 1..Len(runs)
        /\ i # Len(runs) + 1
      BY <1>0
  <2> HIDE DEF e
  <2>4. Len(runs') = Len(runs) + 1 /\ runs'[i] = runs[i]
      BY <2>1, <2>2, <2>3, ProgressRuns
  <2> QED
      BY <1>0, <2>4
<1>3. ASSUME NEW q \in Req, NEW n \in 1..Len(runs), Advance(q, n) PROVE Goal
  <2> DEFINE w == IF runs[n].status = "Completed" THEN runs[n]
                  ELSE DriveRun(runs[n].pb, runs[n].cursor)
             e == [runs[n] EXCEPT !.cursor = w.cursor, !.status = w.status]
  <2>1. PostRunProgress(n, e)
      BY <1>3 DEF Advance
  <2>2. e \in Entry /\ e.pb = runs[n].pb /\ e.cursor = w.cursor /\ e.status = w.status
    <3>1. runs[n] \in Entry
        BY DEF Inv
    <3>2. e \in Entry
      <4> HIDE DEF w
      <4> QED
          BY AdvanceEntry DEF w
    <3> HIDE DEF w
    <3> QED
        BY <3>1, <3>2 DEF Entry
  <2>3. n \in 1..(Len(runs) + 1)
      BY <1>0
  <2> HIDE DEF e
  <2>4. /\ runs'[n].pb = runs[n].pb /\ runs'[n].cursor = w.cursor /\ runs'[n].status = w.status
        /\ Len(runs') = Len(runs)
        /\ \A j \in 1..Len(runs) : j # n => runs'[j] = runs[j]
      BY <2>1, <2>2, <2>3, ProgressRuns
  <2>5. CASE i # n
      BY <1>0, <2>4, <2>5
  <2>6. CASE i = n /\ runs[n].status = "Completed"
      BY <1>0, <2>4, <2>6
  <2>7. CASE i = n /\ runs[n].status # "Completed"
    <3>1. w.cursor \in runs[i].cursor..Len(Steps[runs[i].pb]) /\ Len(Steps[runs[i].pb]) \in Nat
        BY <1>0, <2>7, DriveRunStops, StepsType DEF Good
    <3> HIDE DEF w
    <3>2. runs[i].cursor <= w.cursor
        BY <1>0, <3>1
    <3> QED
        BY <2>4, <2>7, <3>2
  <2> QED
      BY <2>5, <2>6, <2>7
<1> HIDE DEF Goal
<1>4. Goal
    BY <1>1, <1>2, <1>3 DEF Next, Handler, Decide, Start, StartRecord, Record
<1> QED
    BY <1>4 DEF Goal

\* No advance, however it races with others, rewinds or reopens a run.
THEOREM RunsAdvance == Spec => RunsOnlyAdvance
<1>1. Inv /\ [Next]_vars =>
        [\A i \in 1..Len(runs) :
           /\ i \in 1..Len(runs') /\ runs'[i].pb = runs[i].pb
           /\ runs[i].cursor <= runs'[i].cursor
           /\ runs[i].status = "Completed" =>
                runs'[i].status = "Completed" /\ runs'[i].cursor = runs[i].cursor]_vars
    BY AdvanceStep
<1> QED
    BY <1>1, RunsInOrder, PTL DEF Spec, RunsOnlyAdvance
----------------------------------------------------------------------------
(* Completion records *)

\* What the record count rests on besides Inv: a start reaches its record only
\* with a completed walk, and the handlers in between are finitely many.
Recording ==
  /\ records \in [Playbooks -> Nat]
  /\ \A q \in Req : /\ task[q].pc = "startRecord" => task[q].status = "Completed"
                    /\ task[q].pc = "record" => task[q].pb \in Playbooks
  /\ \A p \in Playbooks : IsFiniteSet(Owing(p)) /\ IsFiniteSet(Ahead(p))
  /\ RecordsMatchRuns

\* One element more.
LEMMA AddOne ==
  ASSUME NEW S, IsFiniteSet(S), NEW x, x \notin S
  PROVE  /\ IsFiniteSet(S \cup {x}) /\ Cardinality(S) \in Nat
         /\ Cardinality(S \cup {x}) = Cardinality(S) + 1
  BY FS_AddElement, FS_CardinalityType

\* One element less.
LEMMA RemoveOne ==
  ASSUME NEW S, IsFiniteSet(S), NEW x \in S
  PROVE  /\ IsFiniteSet(S \ {x}) /\ Cardinality(S) \in Nat
         /\ Cardinality(S \ {x}) = Cardinality(S) - 1
  BY FS_RemoveElement, FS_CardinalityType

\* What an update of one request does to the handlers in between.
LEMMA Between ==
  ASSUME Inv, NEW q \in Req, NEW r, task' = [task EXCEPT ![q] = r], NEW p
  PROVE  /\ r.pc = "record" /\ r.pb = p => Owing(p)' = Owing(p) \cup {q}
         /\ ~(r.pc = "record" /\ r.pb = p) => Owing(p)' = Owing(p) \ {q}
         /\ r.pc = "push" /\ r.pb = p /\ r.status = "Completed"
              => Ahead(p)' = Ahead(p) \cup {q}
         /\ ~(r.pc = "push" /\ r.pb = p /\ r.status = "Completed")
              => Ahead(p)' = Ahead(p) \ {q}
<1>1. task'[q] = r /\ \A x \in Req \ {q} : task'[x] = task[x]
    BY DEF Inv
<1> QED
    BY <1>1 DEF Owing, Ahead

\* The completed runs of a playbook are finitely many.
LEMMA CompletedFinite ==
  ASSUME Inv, NEW p
  PROVE  IsFiniteSet(Completed(p)) /\ Cardinality(Completed(p)) \in Nat
<1>1. Len(runs) \in Nat
    BY DEF Inv
<1>2. IsFiniteSet(1..Len(runs))
    BY <1>1, FS_Interval
<1>3. Completed(p) \subseteq 1..Len(runs)
    BY DEF Completed
<1> QED
    BY <1>2, <1>3, FS_Subset, FS_CardinalityType

\* post_run_progress adds its run to the completed ones when its walk is over.
LEMMA CompletedRuns ==
  ASSUME Inv, NEW i \in 1..(Len(runs) + 1), NEW e \in Entry, PostRunProgress(i, e), NEW p,
         i \in 1..Len(runs) => /\ runs[i].pb = e.pb
                               /\ runs[i].status = "Completed" => e.status = "Completed"
  PROVE  Completed(p)' = IF e.pb = p /\ e.status = "Completed"
                         THEN Completed(p) \cup {i} ELSE Completed(p)
<1>1. /\ Len(runs') = IF i \in 1..Len(runs) THEN Len(runs) ELSE Len(runs) + 1
      /\ runs'[i].pb = e.pb /\ runs'[i].status = e.status
      /\ \A j \in 1..Len(runs) : j # i => runs'[j] = runs[j]
    BY ProgressRuns
<1>2. Len(runs) \in Nat
    BY DEF Inv
<1>3. 1..Len(runs') = 1..Len(runs) \cup {i}
    BY <1>1, <1>2
<1> QED
    BY <1>1, <1>3 DEF Completed

\* An update of one request keeps the sets in between finite, and what is
\* known of the others.
LEMMA RequestTyped ==
  ASSUME Inv, Recording, NEW q \in Req, NEW r, task' = [task EXCEPT ![q] = r],
         r.pc = "startRecord" => r.status = "Completed",
         r.pc = "record" => r.pb \in Playbooks
  PROVE  /\ \A x \in Req : /\ task'[x].pc = "startRecord" => task'[x].status = "Completed"
                           /\ task'[x].pc = "record" => task'[x].pb \in Playbooks
         /\ \A p \in Playbooks : IsFiniteSet(Owing(p))' /\ IsFiniteSet(Ahead(p))'
<1>1. task'[q] = r /\ \A x \in Req \ {q} : task'[x] = task[x]
    BY DEF Inv
<1>2. ASSUME NEW p \in Playbooks
      PROVE  IsFiniteSet(Owing(p)') /\ IsFiniteSet(Ahead(p)')
  <2>1. IsFiniteSet(Owing(p)) /\ IsFiniteSet(Ahead(p))
      BY DEF Recording
  <2>2. /\ IsFiniteSet(Owing(p) \cup {q}) /\ IsFiniteSet(Owing(p) \ {q})
        /\ IsFiniteSet(Ahead(p) \cup {q}) /\ IsFiniteSet(Ahead(p) \ {q})
      BY <2>1, FS_AddElement, FS_RemoveElement
  <2> QED
      BY <2>2, Between
<1> QED
    BY <1>1, <1>2 DEF Recording

\* No record is owed at first.
LEMMA RecordingInit == Init => Recording
<1> SUFFICES ASSUME Init PROVE Recording
    OBVIOUS
<1>1. ASSUME NEW p \in Playbooks
      PROVE  /\ Owing(p) = {} /\ Ahead(p) = {} /\ Completed(p) = {} /\ records[p] = 0
    BY DEF Init, Idle, Owing, Ahead, Completed
<1>2. records \in [Playbooks -> Nat]
    BY DEF Init
<1>3. \A q \in Req : task[q].pc = "idle"
    BY DEF Init, Idle
<1> QED
    BY <1>1, <1>2, <1>3, FS_EmptySet DEF Recording, RecordsMatchRuns

\* Every section of every handler keeps the count.
LEMMA RecordingStep == Inv /\ Inv' /\ Recording /\ [Next]_vars => Recording'
<1> SUFFICES ASSUME Inv, Inv', Recording, [Next]_vars PROVE Recording'
    OBVIOUS
<1> DEFINE Balance(p) == records[p] + Cardinality(Owing(p))
                           = Cardinality(Completed(p)) + Cardinality(Ahead(p))
<1>0. ASSUME NEW p \in Playbooks
      PROVE  /\ records[p] \in Nat /\ Balance(p)
             /\ IsFiniteSet(Owing(p)) /\ IsFiniteSet(Ahead(p)) /\ IsFiniteSet(Completed(p))
             /\ Cardinality(Owing(p)) \in Nat /\ Cardinality(Ahead(p)) \in Nat
             /\ Cardinality(Completed(p)) \in Nat
    BY CompletedFinite, FS_CardinalityType DEF Recording, RecordsMatchRuns
<1>1. ASSUME runs' = runs, task' = task, records' = records
      PROVE  Recording'
    BY <1>1 DEF Recording, RecordsMatchRuns, Owing, Ahead, Completed
<1>2. ASSUME NEW q \in Req, NEW pb \in Playbooks, Start(q, pb)
      PROVE  Recording'
  <2> DEFINE w == DriveRun(pb, 0)
             r == [pc |-> IF w.status = "Completed" THEN "startRecord" ELSE "push",
                   pb |-> pb, cursor |-> w.cursor, status |-> w.status]
  <2>1. task' = [task EXCEPT ![q] = r] /\ runs' = runs /\ records' = records
      BY <1>2 DEF Start
  <2>2. /\ r.pc = "startRecord" => r.status = "Completed"
        /\ r.pc # "record"
        /\ ~(r.pc = "push" /\ r.status = "Completed")
    <3> HIDE DEF w
    <3> QED
        OBVIOUS
  <2> HIDE DEF r
  <2>3. ASSUME NEW p \in Playbooks
        PROVE  Balance(p)'
    <3>1. q \notin Owing(p) /\ q \notin Ahead(p)
        BY <1>2 DEF Start, Idle, Owing, Ahead
    <3>2. Owing(p)' = Owing(p) /\ Ahead(p)' = Ahead(p)
      <4>1. Owing(p)' = Owing(p) \ {q} /\ Ahead(p)' = Ahead(p) \ {q}
          BY <2>1, <2>2, Between
      <4> QED
          BY <3>1, <4>1
    <3>3. Completed(p)' = Completed(p) /\ records'[p] = records[p]
        BY <2>1 DEF Completed
    <3> QED
        BY <1>0, <3>2, <3>3
  <2> QED
      BY <2>1, <2>2, <2>3, RequestTyped DEF Recording, RecordsMatchRuns
<1>3. ASSUME NEW q \in Req, StartRecord(q)
      PROVE  Recording'
  <2> DEFINE r == [task[q] EXCEPT !.pc = "push"]
             b == task[q].pb
  <2>1. /\ task' = [task EXCEPT ![q] = r] /\ runs' = runs
        /\ records' = [records EXCEPT ![b] = @ + 1]
      BY <1>3 DEF StartRecord
  <2>2. task[q] \in Walk /\ task[q].status = "Completed" /\ task[q].pc = "startRecord"
      BY <1>3 DEF Inv, Recording, StartRecord, Starting
  <2>3. b \in Playbooks /\ r.pc = "push" /\ r.pb = b /\ r.status = "Completed"
      BY <2>2 DEF Walk
  <2> HIDE DEF r, b
  <2>4. records' \in [Playbooks -> Nat]
      BY <2>1, <2>3 DEF Recording
  <2>5. ASSUME NEW p \in Playbooks
        PROVE  Balance(p)'
    <3>1. q \notin Owing(p) /\ q \notin Ahead(p)
        BY <2>2 DEF Owing, Ahead
    <3>2. /\ Owing(p)' = Owing(p)
          /\ Ahead(p)' = IF b = p THEN Ahead(p) \cup {q} ELSE Ahead(p)
      <4>1. /\ Owing(p)' = Owing(p) \ {q}
            /\ Ahead(p)' = IF b = p THEN Ahead(p) \cup {q} ELSE Ahead(p) \ {q}
        <5>1. task'[q] = r /\ \A x \in Req \ {q} : task'[x] = task[x]
            BY <2>1 DEF Inv
        <5> QED
            BY <2>3, <5>1 DEF Owing, Ahead
      <4> QED
          BY <3>1, <4>1
    <3>3. /\ Completed(p)' = Completed(p)
          /\ records'[p] = IF b = p THEN records[p] + 1 ELSE records[p]
        BY <2>1, <2>3 DEF Completed, Recording
    <3>4. Cardinality(Ahead(p) \cup {q}) = Cardinality(Ahead(p)) + 1
        BY <1>0, <3>1, AddOne
    <3> QED
        BY <1>0, <3>2, <3>3, <3>4
  <2> QED
      BY <2>1, <2>3, <2>4, <2>5, RequestTyped DEF Recording, RecordsMatchRuns
<1>4. ASSUME NEW q \in Req, Push(q)
      PROVE  Recording'
  <2> DEFINE e == [pb |-> task[q].pb, cursor |-> task[q].cursor, status |-> task[q].status,
                   milestone |-> FALSE, posted |-> 0]
             i == Len(runs) + 1
             r == [pc |-> "done"]
  <2>1. /\ task' = [task EXCEPT ![q] = r] /\ records' = records
        /\ PostRunProgress(i, e)
      BY <1>4 DEF Push
  <2>2. task[q] \in Walk /\ task[q].pc = "push"
      BY <1>4 DEF Inv, Push, Starting
  <2>3. e \in Entry /\ e.pb = task[q].pb /\ e.status = task[q].status
      BY <2>2 DEF Walk, Entry
  <2>4. i \in 1..(Len(runs) + 1) /\ i \notin 1..Len(runs)
      BY DEF Inv
  <2>5. r.pc = "done"
      OBVIOUS
  <2> HIDE DEF e, i, r
  <2>6. ASSUME NEW p \in Playbooks
        PROVE  Balance(p)'
    <3> DEFINE here == e.pb = p /\ e.status = "Completed"
    <3>1. q \notin Owing(p) /\ (q \in Ahead(p) <=> here)
        BY <2>2, <2>3 DEF Owing, Ahead
    <3>2. Owing(p)' = Owing(p) /\ Ahead(p)' = Ahead(p) \ {q}
      <4>1. Owing(p)' = Owing(p) \ {q} /\ Ahead(p)' = Ahead(p) \ {q}
          BY <2>1, <2>5, Between
      <4> QED
          BY <3>1, <4>1
    <3>3. Completed(p)' = IF here THEN Completed(p) \cup {i} ELSE Completed(p)
        BY <2>1, <2>3, <2>4, CompletedRuns
    <3>4. i \notin Completed(p)
        BY <2>4 DEF Completed
    <3>5. Cardinality(Completed(p) \cup {i}) = Cardinality(Completed(p)) + 1
        BY <1>0, <3>4, AddOne
    <3>6. CASE here
      <4>1. Cardinality(Ahead(p) \ {q}) = Cardinality(Ahead(p)) - 1
          BY <1>0, <3>1, <3>6, RemoveOne
      <4> QED
          BY <1>0, <2>1, <3>2, <3>3, <3>5, <3>6, <4>1
    <3>7. CASE ~here
      <4>1. Ahead(p) \ {q} = Ahead(p)
          BY <3>1, <3>7
      <4> QED
          BY <1>0, <2>1, <3>2, <3>3, <3>7, <4>1
    <3> QED
        BY <3>6, <3>7
  <2> QED
      BY <2>1, <2>5, <2>6, RequestTyped DEF Recording, RecordsMatchRuns
<1>5. ASSUME NEW q \in Req, NEW i \in 1..Len(runs), Advance(q, i)
      PROVE  Recording'
  <2> DEFINE w == IF runs[i].status = "Completed" THEN runs[i]
                  ELSE DriveRun(runs[i].pb, runs[i].cursor)
             e == [runs[i] EXCEPT !.cursor = w.cursor, !.status = w.status]
             now == CompletedNow(runs[i].status, w.status)
             r == IF now THEN [pc |-> "record", pb |-> runs[i].pb] ELSE [pc |-> "done"]
  <2>1. /\ task' = [task EXCEPT ![q] = r] /\ records' = records
        /\ PostRunProgress(i, e)
      BY <1>5 DEF Advance
  <2>2. /\ now => r.pc = "record" /\ r.pb = runs[i].pb
        /\ ~now => r.pc = "done"
    <3> HIDE DEF now
    <3> QED
        OBVIOUS
  <2>3. e \in Entry /\ e.pb = runs[i].pb /\ e.status = w.status
    <3>1. runs[i] \in Entry
        BY DEF Inv
    <3>2. e \in Entry
      <4> HIDE DEF w
      <4> QED
          BY AdvanceEntry DEF w
    <3> HIDE DEF w
    <3> QED
        BY <3>1, <3>2 DEF Entry
  <2>4. /\ runs[i].status = "Completed" => e.status = "Completed"
        /\ now <=> runs[i].status # "Completed" /\ e.status = "Completed"
    <3> HIDE DEF e
    <3> QED
        BY <2>3 DEF CompletedNow
  <2>5. i \in 1..(Len(runs) + 1) /\ runs[i].pb \in Playbooks
      BY DEF Inv, Good
  <2> HIDE DEF e, r, now
  <2>6. ASSUME NEW p \in Playbooks
        PROVE  Balance(p)'
    <3>1. q \notin Owing(p) /\ q \notin Ahead(p)
        BY <1>5 DEF Advance, Idle, Owing, Ahead
    <3>2. /\ Owing(p)' = IF now /\ e.pb = p THEN Owing(p) \cup {q} ELSE Owing(p)
          /\ Ahead(p)' = Ahead(p)
      <4>1. /\ Owing(p)' = IF now /\ e.pb = p THEN Owing(p) \cup {q} ELSE Owing(p) \ {q}
            /\ Ahead(p)' = Ahead(p) \ {q}
        <5>1. r.pc # "push" /\ (r.pc = "record" /\ r.pb = p <=> now /\ e.pb = p)
            BY <2>2, <2>3
        <5>2. task'[q] = r /\ \A x \in Req \ {q} : task'[x] = task[x]
            BY <2>1 DEF Inv
        <5> QED
            BY <5>1, <5>2 DEF Owing, Ahead
      <4> QED
          BY <3>1, <4>1
    <3>3. Completed(p)' = IF e.pb = p /\ e.status = "Completed"
                          THEN Completed(p) \cup {i} ELSE Completed(p)
        BY <2>1, <2>3, <2>4, <2>5, CompletedRuns
    <3>4. i \in Completed(p) <=> e.pb = p /\ runs[i].status = "Completed"
        BY <2>3 DEF Completed
    <3>5. CASE now /\ e.pb = p
      <4>1. Completed(p)' = Completed(p) \cup {i} /\ i \notin Completed(p)
          BY <2>4, <3>3, <3>4, <3>5
      <4>2. /\ Cardinality(Completed(p) \cup {i}) = Cardinality(Completed(p)) + 1
            /\ Cardinality(Owing(p) \cup {q}) = Cardinality(Owing(p)) + 1
          BY <1>0, <3>1, <4>1, AddOne
      <4> QED
          BY <1>0, <2>1, <3>2, <3>5, <4>1, <4>2
    <3>6. CASE ~(now /\ e.pb = p)
      <4>1. Completed(p)' = Completed(p)
          BY <2>4, <3>3, <3>4, <3>6
      <4> QED
          BY <1>0, <2>1, <3>2, <3>6, <4>1
    <3> QED
        BY <3>5, <3>6
  <2> QED
      BY <2>1, <2>2, <2>5, <2>6, RequestTyped DEF Recording, RecordsMatchRuns
<1>6. ASSUME NEW q \in Req, Record(q)
      PROVE  Recording'
  <2> DEFINE r == [pc |-> "done"]
             b == task[q].pb
  <2>1. /\ task' = [task EXCEPT ![q] = r] /\ runs' = runs
        /\ records' = [records EXCEPT ![b] = @ + 1]
      BY <1>6 DEF Record
  <2>2. b \in Playbooks /\ task[q].pc = "record"
      BY <1>6 DEF Record, Recording
  <2>3. r.pc = "done"
      OBVIOUS
  <2>4. records' \in [Playbooks -> Nat]
      BY <2>1, <2>2 DEF Recording
  <2>5. ASSUME NEW p \in Playbooks
        PROVE  Balance(p)'
    <3>1. q \notin Ahead(p) /\ (q \in Owing(p) <=> b = p)
        BY <2>2 DEF Owing, Ahead
    <3> HIDE DEF r, b
    <3>2. Owing(p)' = Owing(p) \ {q} /\ Ahead(p)' = Ahead(p)
      <4>1. Owing(p)' = Owing(p) \ {q} /\ Ahead(p)' = Ahead(p) \ {q}
          BY <2>1, <2>3, Between
      <4> QED
          BY <3>1, <4>1
    <3>3. /\ Completed(p)' = Completed(p)
          /\ records'[p] = IF b = p THEN records[p] + 1 ELSE records[p]
        BY <2>1, <2>2 DEF Completed, Recording
    <3>4. CASE b = p
      <4>1. Cardinality(Owing(p) \ {q}) = Cardinality(Owing(p)) - 1
          BY <1>0, <3>1, <3>4, RemoveOne
      <4> QED
          BY <1>0, <3>2, <3>3, <3>4, <4>1
    <3>5. CASE b # p
      <4>1. Owing(p) \ {q} = Owing(p)
          BY <3>1, <3>5
      <4> QED
          BY <1>0, <3>2, <3>3, <3>5, <4>1
    <3> QED
        BY <3>4, <3>5
  <2> HIDE DEF r, b
  <2> QED
      BY <2>1, <2>3, <2>4, <2>5, RequestTyped DEF Recording, RecordsMatchRuns
<1>7. CASE UNCHANGED vars
    BY <1>1, <1>7 DEF vars
<1> QED
    BY <1>1, <1>2, <1>3, <1>4, <1>5, <1>6, <1>7 DEF Next, Handler, Decide

\* The decision log holds one record for every completed run, counting the
\* handlers in between, for any number of requests racing over any runs.
THEOREM OneRecord == Spec => []RecordsMatchRuns
<1>1. Recording => RecordsMatchRuns
    BY DEF Recording
<1> QED
    BY <1>1, RecordingInit, RecordingStep, RunsInOrder, PTL DEF Spec

\* When no handler is between a completion and its record, the log holds exactly
\* one record for every completed run.
QuietLogIsExact ==
  \A p \in Playbooks :
    (\A q \in Req : task[q].pc \notin {"record", "push"})
       => records[p] = Cardinality(Completed(p))

\* So what CompletionIsRecorded waits for is there as soon as the handlers under
\* way are through: nothing else can keep the log behind.
THEOREM QuietLog == Spec => []QuietLogIsExact
<1>1. Recording /\ Inv => QuietLogIsExact
  <2> SUFFICES ASSUME Recording, Inv, NEW p \in Playbooks,
                      \A q \in Req : task[q].pc \notin {"record", "push"}
               PROVE  records[p] = Cardinality(Completed(p))
      BY DEF QuietLogIsExact
  <2>1. Owing(p) = {} /\ Ahead(p) = {}
      BY DEF Owing, Ahead
  <2>2. Cardinality(Owing(p)) = 0 /\ Cardinality(Ahead(p)) = 0
      BY <2>1, FS_EmptySet
  <2>3. records[p] \in Nat /\ Cardinality(Completed(p)) \in Nat
      BY CompletedFinite DEF Recording
  <2> QED
      BY <2>2, <2>3 DEF Recording, RecordsMatchRuns
<1> QED
    BY <1>1, RecordingInit, RecordingStep, RunsInOrder, PTL DEF Spec

----------------------------------------------------------------------------
(* The progress thread *)

Post == [run : Nat, step : Nat]

\* What is on board b and in the lost posts l of run i: nothing as long as its
\* milestone is missing, then every step up to c.
PostsOf(b, i) == {n \in 1..Len(b) : b[n].run = i}
Tells(b, l, i, milestone, c) ==
  /\ ~milestone => c = 0 /\ PostsOf(b, i) = {} /\ \A k \in Nat : <<i, k>> \notin l
  /\ milestone => /\ \A k \in Nat : <<i, k>> \in l => k \in 1..c
                  /\ \A m, n \in PostsOf(b, i) : m < n => b[m].step < b[n].step
                  /\ \A n \in PostsOf(b, i) : b[n].step \in 0..c /\ <<i, b[n].step>> \notin l
                  /\ \A k \in 0..c : <<i, k>> \notin l => \E n \in PostsOf(b, i) : b[n].step = k

Story ==
  /\ board \in Seq(Post)
  /\ \A n \in 1..Len(board) : board[n].run \in 1..Len(runs)
  /\ lost \subseteq (1..Len(runs)) \X Nat
  /\ \A i \in 1..Len(runs) : /\ runs[i].milestone => runs[i].posted = runs[i].cursor
                             /\ Tells(board, lost, i, runs[i].milestone, runs[i].posted)

\* Posts added to a board, of one run.
Extends(b2, b, i, q, c) ==
  /\ Len(b) \in Nat /\ Len(b2) = Len(b) + c
  /\ \A n \in 1..Len(b) : b2[n] = b[n]
  /\ \A n \in 1..c : b2[Len(b) + n].run = i /\ b2[Len(b) + n].step = q[n]

\* A set of positions is enumerated without a gap and in order.
LEMMA Enumerated ==
  ASSUME NEW K \in SUBSET Nat, IsFiniteSet(K), NEW q \in InOrder(K)
  PROVE  /\ Cardinality(K) \in Nat /\ DOMAIN q = 1..Cardinality(K)
         /\ \A i \in DOMAIN q : q[i] \in K
         /\ \A i, j \in DOMAIN q : i < j => q[i] < q[j]
         /\ \A k \in K : \E i \in DOMAIN q : q[i] = k
<1> DEFINE c == Cardinality(K)
<1>1. c \in Nat
    BY FS_CardinalityType
<1>2. q \in [1..c -> K] /\ \A i, j \in 1..c : i < j => q[i] < q[j]
    BY DEF InOrder
<1>3. IsFiniteSet(1..c) /\ Cardinality(1..c) = c
    BY <1>1, FS_Interval
<1> HIDE DEF c
<1>4. ASSUME NEW i \in 1..c, NEW j \in 1..c, q[i] = q[j]
      PROVE  i = j
  <2>1. q[i] \in Nat /\ q[j] \in Nat
      BY <1>2
  <2>2. ~(i < j) /\ ~(j < i)
      BY <1>2, <1>4, <2>1
  <2> QED
      BY <1>1, <2>2
<1>5. q \in Injection(1..c, K)
    BY <1>2, <1>4, Fun_IsInj
<1>6. q \in Surjection(1..c, K)
    BY <1>3, <1>5, FS_Injection DEF c
<1>7. \A k \in K : \E i \in 1..c : q[i] = k
    BY <1>6 DEF Surjection
<1> QED
    BY <1>1, <1>2, <1>7 DEF c

\* Posts added to the board leave the posts before them in their places.
LEMMA Posted ==
  ASSUME NEW b \in Seq(Post), NEW c \in Nat, NEW new \in [1..c -> Post]
  PROVE  /\ b \o new \in Seq(Post) /\ Len(b) \in Nat /\ Len(b \o new) = Len(b) + c
         /\ \A n \in 1..Len(b) : (b \o new)[n] = b[n]
         /\ \A n \in 1..c : (b \o new)[Len(b) + n] = new[n]
<1>1. new \in Seq(Post) /\ Len(new) = c
    OBVIOUS
<1> QED
    BY <1>1

\* The steps told are a finite set of step numbers.
LEMMA ToldFinite ==
  ASSUME NEW e \in Entry, NEW ok, NEW F
  PROVE  Told(e, ok, F) \in SUBSET Nat /\ IsFiniteSet(Told(e, ok, F))
<1>1. e.posted \in Nat /\ e.cursor \in Nat
    BY DEF Entry
<1>2. Told(e, ok, F) \subseteq 0..e.cursor
    BY <1>1 DEF Told
<1>3. IsFiniteSet(0..e.cursor)
    BY <1>1, FS_Interval
<1>4. IsFiniteSet(Told(e, ok, F))
    BY <1>2, <1>3, FS_Subset
<1>5. 0..e.cursor \subseteq Nat
    BY <1>1
<1> QED
    BY <1>2, <1>4, <1>5

\* What post_run_progress adds to the board.
LEMMA ProgressBoard ==
  ASSUME Story, NEW i \in Nat, NEW K \in SUBSET Nat, IsFiniteSet(K), NEW q \in InOrder(K),
         board' = board \o [n \in DOMAIN q |-> [run |-> i, step |-> q[n]]]
  PROVE  /\ Cardinality(K) \in Nat /\ board' \in Seq(Post)
         /\ Extends(board', board, i, q, Cardinality(K))
<1> DEFINE c == Cardinality(K)
<1>1. /\ c \in Nat /\ DOMAIN q = 1..c
      /\ \A n \in 1..c : q[n] \in K
    BY Enumerated
<1> HIDE DEF c
<1> DEFINE new == [n \in 1..c |-> [run |-> i, step |-> q[n]]]
<1>2. new \in [1..c -> Post] /\ board' = board \o new
    BY <1>1 DEF Post
<1>3. \A n \in 1..c : new[n].run = i /\ new[n].step = q[n]
    OBVIOUS
<1>4. PICK f : f = new
    OBVIOUS
<1> HIDE DEF new
<1>5. PICK b : b = board
    OBVIOUS
<1>6. b \in Seq(Post) /\ f \in [1..c -> Post] /\ board' = b \o f
    BY <1>2, <1>4, <1>5 DEF Story
<1>7. /\ b \o f \in Seq(Post) /\ Len(b) \in Nat /\ Len(b \o f) = Len(b) + c
      /\ \A n \in 1..Len(b) : (b \o f)[n] = b[n]
      /\ \A n \in 1..c : (b \o f)[Len(b) + n] = f[n]
    BY ONLY <1>1, <1>6, Posted
<1>8. \A n \in 1..c : (b \o f)[Len(b) + n].run = i /\ (b \o f)[Len(b) + n].step = q[n]
    BY <1>3, <1>4, <1>7
<1>9. Extends(b \o f, b, i, q, c)
    BY <1>7, <1>8, Zenon DEF Extends
<1> QED
    BY <1>1, <1>5, <1>6, <1>7, <1>9 DEF c

\* Where the posts of each run are after c posts of run i were added.
Grown(b2, b, i, c) ==
  /\ \A j : j # i => /\ PostsOf(b2, j) = PostsOf(b, j)
                     /\ \A n \in PostsOf(b, j) : b2[n] = b[n]
  /\ \A n \in PostsOf(b, i) : n \in PostsOf(b2, i) /\ n \in 1..Len(b) /\ b2[n] = b[n]
  /\ \A m \in 1..c : Len(b) + m \in PostsOf(b2, i)
  /\ \A n \in PostsOf(b2, i) : n \in PostsOf(b, i) \/ \E m \in 1..c : n = Len(b) + m

\* Posts added to a board leave every other thread and the older posts alone.
LEMMA ExtendsPosts ==
  ASSUME NEW b, NEW b2, NEW i, NEW q, NEW c \in Nat, Extends(b2, b, i, q, c)
  PROVE  Grown(b2, b, i, c)
<1> DEFINE L == Len(b)
<1>1. /\ L \in Nat /\ Len(b2) = L + c
      /\ \A n \in 1..L : b2[n] = b[n]
      /\ \A n \in 1..c : b2[L + n].run = i
    BY DEF Extends
<1>2. \A j, n : n \in PostsOf(b, j) <=> n \in 1..L /\ b[n].run = j
    BY DEF PostsOf
<1>3. \A j, n : n \in PostsOf(b2, j) <=> n \in 1..(L + c) /\ b2[n].run = j
    BY <1>1 DEF PostsOf
<1> HIDE DEF L
<1>4. ASSUME NEW n \in 1..(L + c)
      PROVE  n \in 1..L \/ \E m \in 1..c : n = L + m
  <2>1. CASE n <= L
      BY <1>1, <2>1
  <2>2. CASE n > L
    <3>1. n - L \in 1..c /\ n = L + (n - L)
        BY <1>1, <2>2
    <3> QED
        BY <3>1
  <2> QED
      BY <1>1, <2>1, <2>2
<1>5. \A n \in 1..L : n \in 1..(L + c)
    BY <1>1
<1>6. \A m \in 1..c : L + m \in 1..(L + c)
    BY <1>1
<1>7. ASSUME NEW j, j # i
      PROVE  PostsOf(b2, j) = PostsOf(b, j)
  <2>1. ASSUME NEW n \in PostsOf(b2, j)
        PROVE  n \in PostsOf(b, j)
    <3>1. n \in 1..(L + c) /\ b2[n].run = j
        BY <1>3
    <3>2. n \in 1..L
        BY <1>1, <1>4, <1>7, <3>1
    <3> QED
        BY <1>1, <1>2, <3>1, <3>2
  <2>2. ASSUME NEW n \in PostsOf(b, j)
        PROVE  n \in PostsOf(b2, j)
      BY <1>1, <1>2, <1>3, <1>5
  <2> QED
      BY <2>1, <2>2
<1>8. /\ \A n \in PostsOf(b, i) : n \in PostsOf(b2, i)
      /\ \A m \in 1..c : L + m \in PostsOf(b2, i)
    BY <1>1, <1>2, <1>3, <1>5, <1>6
<1>9. \A n \in PostsOf(b2, i) : n \in PostsOf(b, i) \/ \E m \in 1..c : n = L + m
    BY <1>1, <1>2, <1>3, <1>4
<1>10. \A j : \A n \in PostsOf(b, j) : n \in 1..L /\ b2[n] = b[n]
    BY <1>1, <1>2
<1> QED
    BY <1>7, <1>8, <1>9, <1>10, Zenon DEF L, Grown

\* Another run's thread is not touched.
LEMMA TellsOther ==
  ASSUME NEW b, NEW b2, NEW l, NEW l2, NEW i, NEW q, NEW c \in Nat, Extends(b2, b, i, q, c),
         NEW j, j # i, \A k \in Nat : <<j, k>> \in l2 <=> <<j, k>> \in l,
         NEW milestone, NEW d \in Nat, Tells(b, l, j, milestone, d)
  PROVE  Tells(b2, l2, j, milestone, d)
<1>1. PostsOf(b2, j) = PostsOf(b, j) /\ \A n \in PostsOf(b, j) : b2[n] = b[n]
  <2>1. Grown(b2, b, i, c)
      BY ExtendsPosts
  <2> QED
      BY <2>1, Zenon DEF Grown
<1>2. \A k \in 0..d : k \in Nat
    OBVIOUS
<1> QED
    BY <1>1, <1>2 DEF Tells

\* Every element of K is met, in order.
Enumerates(q, c, K) ==
  /\ \A n \in 1..c : q[n] \in K
  /\ \A m, n \in 1..c : m < n => q[m] < q[n]
  /\ \A k \in K : \E n \in 1..c : q[n] = k

\* The posts of the steps in F were lost.
Loses(l2, l, i, F) == \A k \in Nat : <<i, k>> \in l2 <=> <<i, k>> \in l \/ k \in F

\* A thread that told what its run counts, to which the missing milestone and
\* the further steps are added but for the failed ones, F.
LEMMA TellsMore ==
  ASSUME NEW b, NEW b2, NEW l, NEW l2, NEW i, NEW q, NEW c \in Nat, Extends(b2, b, i, q, c),
         NEW e \in Entry, e.posted <= e.cursor, Tells(b, l, i, e.milestone, e.posted),
         NEW F \in SUBSET ((e.posted + 1)..e.cursor), Loses(l2, l, i, F),
         Enumerates(q, c, Told(e, TRUE, F))
  PROVE  Tells(b2, l2, i, TRUE, e.cursor)
<1> DEFINE milestone == e.milestone
           d == e.posted
           d2 == e.cursor
           K == Told(e, TRUE, F)
<1>a. milestone \in BOOLEAN /\ d \in Nat /\ d2 \in Nat /\ d <= d2
    BY DEF Entry
<1>b. \A k : k \in K <=> \/ ~milestone /\ k = 0
                         \/ k \in (d + 1)..d2 /\ k \notin F
    BY DEF Told
<1>c. /\ \A n \in 1..c : q[n] \in K
      /\ \A m, n \in 1..c : m < n => q[m] < q[n]
      /\ \A k \in K : \E n \in 1..c : q[n] = k
    BY DEF Enumerates
<1>d. \A k \in Nat : <<i, k>> \in l2 <=> <<i, k>> \in l \/ k \in F
    BY DEF Loses
<1>e. Tells(b, l, i, milestone, d) /\ F \subseteq (d + 1)..d2
    OBVIOUS
<1> HIDE DEF milestone, d, d2, K
<1> DEFINE L == Len(b)
           P == PostsOf(b, i)
           P2 == PostsOf(b2, i)
<1>1. L \in Nat /\ \A n \in 1..c : b2[L + n].step = q[n]
    BY DEF Extends
<1>2. /\ \A n \in P : n \in P2 /\ n \in 1..L /\ b2[n] = b[n]
      /\ \A m \in 1..c : L + m \in P2
      /\ \A n \in P2 : n \in P \/ \E m \in 1..c : n = L + m
  <2>1. Grown(b2, b, i, c)
      BY ExtendsPosts
  <2> QED
      BY <2>1, Zenon DEF Grown
<1> USE <1>a, <1>b, <1>c, <1>d, <1>e
<1>3. ASSUME NEW k \in Nat, <<i, k>> \in l
      PROVE  milestone /\ k \in 1..d
    BY <1>3 DEF Tells
<1>4. ASSUME NEW n \in P
      PROVE  milestone /\ b[n].step \in 0..d /\ <<i, b[n].step>> \notin l
    BY DEF Tells
<1>5. /\ milestone => \A m, n \in P : m < n => b[m].step < b[n].step
      /\ milestone => \A k \in 0..d : <<i, k>> \notin l => \E n \in P : b[n].step = k
      /\ ~milestone => d = 0
    BY DEF Tells
<1> HIDE DEF L, P, P2
<1>6. \A k \in Nat : <<i, k>> \in l2 => k \in 1..d2
    BY <1>3
<1>7. ASSUME NEW m \in P2, NEW n \in P2, m < n
      PROVE  b2[m].step < b2[n].step
  <2>1. CASE m \in P /\ n \in P
      BY <1>2, <1>4, <1>5, <1>7, <2>1
  <2>2. ASSUME m \in P, NEW y \in 1..c, n = L + y
        PROVE  b2[m].step < b2[n].step
    <3>1. b2[m].step \in 0..d /\ milestone
        BY <1>2, <1>4, <2>2
    <3>2. b2[n].step = q[y] /\ q[y] \in K
        BY <1>1, <2>2
    <3>3. q[y] \in (d + 1)..d2
        BY <3>1, <3>2
    <3> QED
        BY <3>1, <3>2, <3>3
  <2>3. ASSUME NEW x \in 1..c, NEW y \in 1..c, m = L + x, n = L + y
        PROVE  b2[m].step < b2[n].step
    <3>1. x < y
        BY <1>1, <1>7, <2>3
    <3> QED
        BY <1>1, <2>3, <3>1
  <2>4. ASSUME NEW x \in 1..c, m = L + x, n \in P
        PROVE  FALSE
    <3>1. n \in 1..L
        BY <1>2, <2>4
    <3> QED
        BY <1>1, <1>7, <2>4, <3>1
  <2> QED
      BY <1>2, <2>1, <2>2, <2>3, <2>4
<1>8. ASSUME NEW n \in P2
      PROVE  b2[n].step \in 0..d2 /\ <<i, b2[n].step>> \notin l2
  <2>1. CASE n \in P
    <3>1. PICK k \in 0..d : b2[n].step = k /\ <<i, k>> \notin l
        BY <1>2, <1>4, <2>1
    <3>2. k \in Nat /\ k \in 0..d2 /\ k \notin F
        BY <3>1
    <3> QED
        BY <3>1, <3>2
  <2>2. ASSUME NEW m \in 1..c, n = L + m
        PROVE  b2[n].step \in 0..d2 /\ <<i, b2[n].step>> \notin l2
    <3>1. PICK k \in K : b2[n].step = k
        BY <1>1, <2>2
    <3>2. k \in Nat /\ k \in 0..d2 /\ k \notin F
        BY <3>1
    <3>3. <<i, k>> \notin l
      <4>1. CASE ~milestone
          BY <1>3, <3>2, <4>1
      <4>2. CASE milestone
        <5>1. k \in (d + 1)..d2
            BY <4>2
        <5>2. k \notin 1..d
            BY <5>1
        <5> QED
            BY <1>3, <3>2, <5>2
      <4> QED
          BY <4>1, <4>2
    <3> QED
        BY <3>1, <3>2, <3>3
  <2> QED
      BY <1>2, <2>1, <2>2
<1>9. ASSUME NEW k \in 0..d2, <<i, k>> \notin l2
      PROVE  \E n \in P2 : b2[n].step = k
  <2>0. k \in Nat /\ <<i, k>> \notin l /\ k \notin F
      BY <1>9
  <2>1. CASE k \in K
    <3>1. PICK n \in 1..c : q[n] = k
        BY <2>1
    <3> QED
        BY <1>1, <1>2, <3>1
  <2>2. CASE k \notin K
    <3>1. k \notin (d + 1)..d2 /\ (milestone \/ k # 0)
        BY <2>0, <2>2
    <3>2. milestone /\ k \in 0..d
        BY <1>5, <3>1
    <3>3. PICK n \in P : b[n].step = k
        BY <1>5, <2>0, <3>2
    <3> QED
        BY <1>2, <3>3
  <2> QED
      BY <2>1, <2>2
<1>10. Tells(b2, l2, i, TRUE, d2)
    BY <1>6, <1>7, <1>8, <1>9 DEF Tells, P2
<1> QED
    BY <1>10 DEF d2

\* post_run_progress keeps every thread in step with its run.
LEMMA ProgressStory ==
  ASSUME Inv, Story, NEW i \in 1..(Len(runs) + 1), NEW e \in Entry, PostRunProgress(i, e),
         e.posted <= e.cursor, Tells(board, lost, i, e.milestone, e.posted)
  PROVE  Story'
<1>1. PICK ok \in BOOLEAN, F \in SUBSET ((e.posted + 1)..e.cursor) :
        /\ e.milestone => ok
        /\ ~ok => F = {}
        /\ lost' = lost \cup {<<i, n>> : n \in F}
        /\ \E new \in NewPosts(i, e, ok, F) : board' = board \o new
        /\ runs' = [j \in 1..Len(runs) \cup {i} |-> IF j = i THEN Progressed(e, ok, F) ELSE runs[j]]
    BY DEF PostRunProgress
<1> DEFINE K == Told(e, ok, F)
           c == Cardinality(K)
<1>2. PICK q \in InOrder(K) : board' = board \o [n \in DOMAIN q |-> [run |-> i, step |-> q[n]]]
    BY <1>1 DEF NewPosts
<1>3. e.posted \in Nat /\ e.cursor \in Nat /\ e.milestone \in BOOLEAN
    BY DEF Entry
<1>4. i \in Nat /\ Len(runs) \in Nat
    BY DEF Inv
<1>5. /\ Len(runs') = IF i \in 1..Len(runs) THEN Len(runs) ELSE Len(runs) + 1
      /\ runs'[i].cursor = e.cursor
      /\ \A j \in 1..Len(runs) : j # i => runs'[j] = runs[j]
    BY ProgressRuns
<1>6. i \in 1..Len(runs') /\ 1..Len(runs) \subseteq 1..Len(runs')
      /\ \A j \in 1..Len(runs') : j # i => j \in 1..Len(runs)
    BY <1>4, <1>5
<1>7. /\ runs'[i].milestone = (e.milestone \/ ok)
      /\ runs'[i].posted = IF e.milestone \/ ok THEN e.cursor ELSE e.posted
  <2>1. runs'[i] = Progressed(e, ok, F)
      BY <1>1
  <2> QED
      BY <2>1 DEF Progressed, Entry
<1>8. K \in SUBSET Nat /\ IsFiniteSet(K)
    BY ToldFinite
<1> HIDE DEF K
<1>9. c \in Nat /\ board' \in Seq(Post) /\ Extends(board', board, i, q, c)
    BY <1>2, <1>4, <1>8, ProgressBoard
<1>10. /\ \A n \in 1..c : q[n] \in K
       /\ \A m, n \in 1..c : m < n => q[m] < q[n]
       /\ \A k \in K : \E n \in 1..c : q[n] = k
    BY <1>8, Enumerated
<1> HIDE DEF c
<1>11. /\ Len(board) \in Nat /\ Len(board') = Len(board) + c
       /\ \A n \in 1..Len(board) : board'[n] = board[n]
       /\ \A n \in 1..c : board'[Len(board) + n].run = i
    BY <1>9 DEF Extends
<1>12. ASSUME NEW n \in 1..Len(board')
       PROVE  board'[n].run \in 1..Len(runs')
  <2>1. CASE n \in 1..Len(board)
      BY <1>6, <1>9, <1>11, <2>1 DEF Story
  <2>2. CASE n \notin 1..Len(board)
    <3>1. n - Len(board) \in 1..c /\ Len(board) + (n - Len(board)) = n
        BY <1>9, <1>11, <2>2
    <3>2. PICK m \in 1..c : n = Len(board) + m
        BY <3>1
    <3>3. board'[n].run = i
        BY <1>9, <1>11, <3>2
    <3> QED
        BY <1>6, <3>3
  <2> QED
      BY <2>1, <2>2
<1>13. lost' \subseteq (1..Len(runs')) \X Nat
  <2>1. \A n \in F : <<i, n>> \in (1..Len(runs')) \X Nat
      BY <1>3, <1>6
  <2>2. \A x \in lost : x \in (1..Len(runs')) \X Nat
      BY <1>6 DEF Story
  <2> QED
      BY <1>1, <2>1, <2>2, Zenon
<1>14. /\ \A k \in Nat : <<i, k>> \in lost' <=> <<i, k>> \in lost \/ k \in F
       /\ \A j : j # i => \A k \in Nat : <<j, k>> \in lost' <=> <<j, k>> \in lost
    BY <1>1
<1>15. PICK b2, l2 : b2 = board' /\ l2 = lost'
    OBVIOUS
<1>16. Extends(b2, board, i, q, c)
    BY <1>9, <1>15
<1>17. ASSUME NEW j \in 1..Len(runs'), j # i
       PROVE  /\ runs'[j].milestone => runs'[j].posted = runs'[j].cursor
              /\ Tells(b2, l2, j, runs'[j].milestone, runs'[j].posted)
  <2>1. j \in 1..Len(runs) /\ runs'[j] = runs[j]
      BY <1>5, <1>6, <1>17
  <2>2. /\ runs[j].milestone => runs[j].posted = runs[j].cursor
        /\ Tells(board, lost, j, runs[j].milestone, runs[j].posted)
      BY <2>1 DEF Story
  <2>3. runs[j].posted \in Nat
    <3>1. runs[j] \in Entry
        BY <2>1 DEF Inv
    <3> QED
        BY <3>1 DEF Entry
  <2>4. \A k \in Nat : <<j, k>> \in l2 <=> <<j, k>> \in lost
      BY <1>14, <1>15, <1>17
  <2>5. Tells(b2, l2, j, runs[j].milestone, runs[j].posted)
      BY ONLY <1>9, <1>16, <1>17, <2>2, <2>3, <2>4, TellsOther
  <2> QED
      BY <2>1, <2>2, <2>5
<1>18. CASE ok
  <2>1. Enumerates(q, c, Told(e, TRUE, F))
      BY <1>10, <1>18 DEF Enumerates, K
  <2>2. Loses(l2, lost, i, F)
      BY <1>14, <1>15 DEF Loses
  <2>3. Tells(b2, l2, i, TRUE, e.cursor)
      BY ONLY e \in Entry, <1>9, <1>16, <2>1, <2>2, e.posted <= e.cursor,
              Tells(board, lost, i, e.milestone, e.posted),
              F \in SUBSET ((e.posted + 1)..e.cursor), TellsMore
  <2>4. runs'[i].milestone = TRUE /\ runs'[i].posted = e.cursor
      BY <1>3, <1>7, <1>18
  <2>5. /\ runs'[i].posted = runs'[i].cursor
        /\ Tells(b2, l2, i, runs'[i].milestone, runs'[i].posted)
      BY <1>5, <2>3, <2>4
  <2>6. \A j \in 1..Len(runs') : /\ runs'[j].milestone => runs'[j].posted = runs'[j].cursor
                                 /\ Tells(b2, l2, j, runs'[j].milestone, runs'[j].posted)
      BY <1>17, <2>5
  <2> QED
      BY <1>9, <1>12, <1>13, <1>15, <2>6 DEF Story
<1>19. CASE ~ok
  <2>1. ~e.milestone /\ K = {}
      BY <1>1, <1>19 DEF Told, K
  <2>2. c = 0
      BY <1>9, <1>10, <2>1
  <2>3. e.posted = 0 /\ PostsOf(board, i) = {} /\ \A k \in Nat : <<i, k>> \notin lost
      BY <2>1 DEF Tells
  <2>4. PostsOf(b2, i) = {}
    <3>1. Len(b2) = Len(board) /\ \A n \in 1..Len(board) : b2[n] = board[n]
        BY <1>11, <1>15, <2>2
    <3> QED
        BY <2>3, <3>1 DEF PostsOf
  <2>5. \A k \in Nat : <<i, k>> \notin l2
      BY <1>1, <1>15, <1>19, <2>3
  <2>6. runs'[i].milestone = FALSE /\ runs'[i].posted = 0
      BY <1>3, <1>7, <1>19, <2>1, <2>3
  <2>7. /\ runs'[i].milestone => runs'[i].posted = runs'[i].cursor
        /\ Tells(b2, l2, i, runs'[i].milestone, runs'[i].posted)
      BY <2>4, <2>5, <2>6 DEF Tells
  <2>8. \A j \in 1..Len(runs') : /\ runs'[j].milestone => runs'[j].posted = runs'[j].cursor
                                 /\ Tells(b2, l2, j, runs'[j].milestone, runs'[j].posted)
      BY <1>17, <2>7
  <2> QED
      BY <1>9, <1>12, <1>13, <1>15, <2>8 DEF Story
<1> QED
    BY <1>18, <1>19

\* Nothing is told at first.
LEMMA StoryInit == Init => Story
  BY DEF Init, Story

\* Every section of every handler keeps the threads in step.
LEMMA StoryStep == Inv /\ Story /\ [Next]_vars => Story'
<1> SUFFICES ASSUME Inv, Story, [Next]_vars PROVE Story'
    OBVIOUS
<1>1. CASE UNCHANGED <<runs, board, lost>>
    BY <1>1 DEF Story
<1>2. ASSUME NEW q \in Req, Push(q)
      PROVE  Story'
  <2> DEFINE e == [pb |-> task[q].pb, cursor |-> task[q].cursor, status |-> task[q].status,
                   milestone |-> FALSE, posted |-> 0]
             i == Len(runs) + 1
  <2>1. PostRunProgress(i, e)
      BY <1>2 DEF Push
  <2>2. task[q] \in Walk
      BY <1>2 DEF Inv, Push, Starting
  <2>3. e \in Entry /\ e.posted = 0 /\ e.milestone = FALSE /\ e.cursor \in Nat
      BY <2>2 DEF Walk, Entry
  <2>4. i \in 1..(Len(runs) + 1) /\ i \notin 1..Len(runs)
      BY DEF Inv
  <2> HIDE DEF e, i
  <2>5. PostsOf(board, i) = {} /\ \A k \in Nat : <<i, k>> \notin lost
      BY <2>4 DEF Story, PostsOf
  <2>6. Tells(board, lost, i, e.milestone, e.posted) /\ e.posted <= e.cursor
      BY <2>3, <2>5 DEF Tells
  <2> QED
      BY <2>1, <2>3, <2>4, <2>6, ProgressStory
<1>3. ASSUME NEW q \in Req, NEW i \in 1..Len(runs), Advance(q, i)
      PROVE  Story'
  <2> DEFINE w == IF runs[i].status = "Completed" THEN runs[i]
                  ELSE DriveRun(runs[i].pb, runs[i].cursor)
             e == [runs[i] EXCEPT !.cursor = w.cursor, !.status = w.status]
  <2>1. PostRunProgress(i, e)
      BY <1>3 DEF Advance
  <2>2. i \in 1..(Len(runs) + 1) /\ runs[i] \in Entry
      BY DEF Inv
  <2>3. w.cursor \in Nat /\ runs[i].cursor <= w.cursor
    <3>1. CASE runs[i].status = "Completed"
        BY <2>2, <3>1 DEF Entry
    <3>2. CASE runs[i].status # "Completed"
      <4> DEFINE pb == runs[i].pb
                 n == runs[i].cursor
      <4>1. pb \in Playbooks /\ n \in 0..Len(Steps[pb]) /\ Len(Steps[pb]) \in Nat
          BY StepsType DEF Inv, Good
      <4>2. DriveRun(pb, n).cursor \in n..Len(Steps[pb])
          BY <4>1, DriveRunStops
      <4> QED
          BY <3>2, <4>1, <4>2
    <3> QED
        BY <3>1, <3>2
  <2>4. e \in Entry
    <3> HIDE DEF w
    <3> QED
        BY AdvanceEntry DEF w
  <2> HIDE DEF w
  <2>5. e.posted = runs[i].posted /\ e.milestone = runs[i].milestone /\ e.cursor = w.cursor
      BY <2>2 DEF Entry
  <2> HIDE DEF e
  <2>6. Tells(board, lost, i, e.milestone, e.posted)
      BY <2>5 DEF Story
  <2>7. e.posted <= e.cursor
    <3>1. /\ runs[i].milestone => runs[i].posted = runs[i].cursor
          /\ ~runs[i].milestone => runs[i].posted = 0
        BY DEF Story, Tells
    <3>2. runs[i].cursor \in Nat /\ runs[i].milestone \in BOOLEAN
        BY <2>2 DEF Entry
    <3> QED
        BY <2>3, <2>5, <3>1, <3>2
  <2> QED
      BY <2>1, <2>2, <2>4, <2>6, <2>7, ProgressStory
<1> QED
    BY <1>1, <1>2, <1>3 DEF Next, Handler, Decide, Start, StartRecord, Record, vars

\* Every run's progress thread tells the run: one milestone, then its completed
\* steps once and in order, but for the posts that failed.
THEOREM ThreadsTell == Spec => []ThreadTellsTheRun
<1>1. Inv /\ Story => ThreadTellsTheRun
  <2> SUFFICES ASSUME Inv, Story, NEW i \in 1..Len(runs)
               PROVE  IF runs[i].milestone
                      THEN /\ \A m, n \in Thread(i) : m < n => board[m].step < board[n].step
                           /\ {board[n].step : n \in Thread(i)} = (0..runs[i].cursor)
                                \ {k \in 1..runs[i].cursor : <<i, k>> \in lost}
                      ELSE Thread(i) = {}
      BY DEF ThreadTellsTheRun
  <2>1. Thread(i) = PostsOf(board, i)
      BY DEF Thread, PostsOf
  <2>2. /\ runs[i].milestone => runs[i].posted = runs[i].cursor
        /\ Tells(board, lost, i, runs[i].milestone, runs[i].posted)
        /\ runs[i].cursor \in Nat
    <3>1. runs[i] \in Entry
        BY DEF Inv
    <3>2. runs[i].cursor \in Nat
        BY <3>1 DEF Entry
    <3> QED
        BY <3>2 DEF Story
  <2>3. CASE ~runs[i].milestone
      BY <2>1, <2>2, <2>3 DEF Tells
  <2>4. CASE runs[i].milestone
    <3> DEFINE c == runs[i].cursor
    <3>1. /\ \A m, n \in Thread(i) : m < n => board[m].step < board[n].step
          /\ \A k \in Nat : <<i, k>> \in lost => k \in 1..c
          /\ \A n \in Thread(i) : board[n].step \in 0..c /\ <<i, board[n].step>> \notin lost
          /\ \A k \in 0..c : <<i, k>> \notin lost => \E n \in Thread(i) : board[n].step = k
        BY <2>1, <2>2, <2>4 DEF Tells
    <3> HIDE DEF c
    <3>2. \A k \in 0..c : k \in Nat
        BY <2>2 DEF c
    <3>3. {board[n].step : n \in Thread(i)} = {k \in 0..c : <<i, k>> \notin lost}
        BY <3>1
    <3>4. {k \in 0..c : <<i, k>> \notin lost} = (0..c) \ {k \in 1..c : <<i, k>> \in lost}
        BY <3>1, <3>2
    <3> QED
        BY <2>4, <3>1, <3>3, <3>4 DEF c
  <2> QED
      BY <2>3, <2>4
<1> QED
    BY <1>1, StoryInit, StoryStep, RunsInOrder, PTL DEF Spec
=============================================================================
