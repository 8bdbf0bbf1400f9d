------------------------------ MODULE Playbook ------------------------------
(***************************************************************************)
(* Playbook runs and their approval gates: api_playbook_run,               *)
(* api_run_advance, api_approvals_decide and post_run_progress of          *)
(* crates/agentbbs-web/src/lib.rs over PlaybookRun (agentbbs-core          *)
(* playbook.rs) and ApprovalGate (approval.rs).                            *)
(*                                                                         *)
(* Requests run concurrently.  A start drives its run under the gate lock, *)
(* adds the completion record under the decisions lock and publishes the   *)
(* run under the runs lock; an advance does its work under gate and runs   *)
(* together and adds the record after releasing both.  Each such section   *)
(* is an action.  Any post to the progress thread may fail: the code goes  *)
(* on.                                                                     *)
(*                                                                         *)
(* The playbook_id is a field of the request that validate() does not      *)
(* compare with the content, so several definitions may be posted under    *)
(* one id.  Ids of playbooks and steps are strings, kept as the sequence   *)
(* of their parts between colons; formatting "playbook:{id}:{step}" joins  *)
(* them.                                                                   *)
(***************************************************************************)
EXTENDS Integers, Sequences, FiniteSets, Iteration

CONSTANTS Playbooks,     \* the definitions clients post
          PlaybookId,    \* definition -> the playbook_id it is posted under
          Steps,         \* definition -> sequence of [id, gate]
          Human,         \* who signs decisions
          Approver,      \* AGENTBBS_APPROVER_IDS
          Req            \* the requests of a behaviour: bounds starts and advances

StepId == UNION {{Steps[p][k].id : k \in 1..Len(Steps[p])} : p \in Playbooks}

\* format!("playbook:{id}:{step}"), without the common prefix.
Joined(id, step) == id \o step

\* The actions a decision can be signed over.
ActionId ==
  UNION {{Joined(PlaybookId[p], Steps[p][k].id) : k \in 1..Len(Steps[p])} : p \in Playbooks}

ASSUME PlaybookAssumption ==
  \A p \in Playbooks :
     /\ Steps[p] \in Seq([id : StepId, gate : BOOLEAN])
     /\ Len(Steps[p]) > 0
     /\ \A j, k \in 1..Len(Steps[p]) : Steps[p][j].id = Steps[p][k].id => j = k

VARIABLES
  decisions,   \* ApprovalGate.decisions
  runs,        \* AppState.runs: [pb, cursor, status, milestone, posted]
  task,        \* the request handlers past their first section
  records,     \* completion records in the decision log, counted by playbook
  board,       \* the progress thread's board: [run, step]; step 0 is the milestone
  lost         \* ghost: <<run, step>> whose post failed

vars == <<decisions, runs, task, records, board, lost>>

Verdict == {"Approve", "Reject"}
Status == {"AwaitingApproval", "Completed"}
Entry == [pb : Playbooks, cursor : Nat, status : Status, milestone : BOOLEAN, posted : Nat]
Idle == [pc |-> "idle"]

TypeOK ==
  /\ decisions \subseteq [aid : ActionId, decider : Human, verdict : Verdict]
  /\ runs \in Seq(Entry)
  /\ \A q \in Req : task[q] = Idle \/ task[q].pc \in {"startRecord", "push", "record", "done"}
  /\ records \in [Playbooks -> Nat]
  /\ \A n \in 1..Len(board) : board[n].run \in 1..Len(runs)

Init ==
  /\ decisions = {} /\ runs = <<>> /\ task = [q \in Req |-> Idle]
  /\ records = [p \in Playbooks |-> 0] /\ board = <<>> /\ lost = {}

----------------------------------------------------------------------------
(* The gate and the walk *)

\* Fault: the id is not the one of the run's own playbook.
GateActionIdFaulty(pb, k) ==
  Joined(PlaybookId[CHOOSE p \in Playbooks : TRUE], Steps[pb][k].id)
GateActionId(pb, k) == Joined(PlaybookId[pb], Steps[pb][k].id)

\* Fault: one approval is enough.
IsAuthorizedFaulty(aid) ==
  \E d \in decisions : d.aid = aid /\ d.decider \in Approver /\ d.verdict = "Approve"
IsAuthorized(aid) ==
  LET relevant == {d \in decisions : d.aid = aid /\ d.decider \in Approver} IN
  /\ \A d \in relevant : d.verdict # "Reject"
  /\ \E d \in relevant : d.verdict = "Approve"

\* drive_run from step c: advance until a gate refuses or the steps end.
Blocked(pb, k) == Steps[pb][k + 1].gate /\ ~IsAuthorized(GateActionId(pb, k + 1))
DriveRun(pb, c) ==
  LET stop == CHOOSE j \in c..Len(Steps[pb]) :
                /\ j = Len(Steps[pb]) \/ Blocked(pb, j)
                /\ \A k \in c..(j - 1) : ~Blocked(pb, k)
  IN [cursor |-> stop,
      status |-> IF stop = Len(Steps[pb]) THEN "Completed" ELSE "AwaitingApproval"]

----------------------------------------------------------------------------
(* post_run_progress on run i, whose entry is e.  Of the posts it attempts  *)
(* the milestone fails when ok is FALSE and the steps in F fail.            *)

\* Fault: only the steps posted are counted.
ProgressedFaulty(e, ok, F) ==
  [e EXCEPT !.milestone = @ \/ ok,
            !.posted = IF e.milestone \/ ok THEN e.cursor - Cardinality(F) ELSE @]
Progressed(e, ok, F) ==
  [e EXCEPT !.milestone = @ \/ ok, !.posted = IF e.milestone \/ ok THEN e.cursor ELSE @]

\* The posts that get through, in the order they are made: the milestone, then
\* the steps from the first one not yet counted.
Told(e, ok, F) ==
  IF ok THEN (IF e.milestone THEN {} ELSE {0}) \cup (((e.posted + 1)..e.cursor) \ F) ELSE {}
NewPosts(i, e, ok, F) ==
  {[n \in DOMAIN q |-> [run |-> i, step |-> q[n]]] : q \in InOrder(Told(e, ok, F))}

PostRunProgress(i, e) ==
  \E ok \in BOOLEAN, F \in SUBSET ((e.posted + 1)..e.cursor) :
    /\ e.milestone => ok
    /\ ~ok => F = {}
    /\ lost' = lost \cup {<<i, n>> : n \in F}
    /\ \E new \in NewPosts(i, e, ok, F) : board' = board \o new
    /\ runs' = [j \in 1..Len(runs) \cup {i} |-> IF j = i THEN Progressed(e, ok, F) ELSE runs[j]]

----------------------------------------------------------------------------
(* Requests *)

\* api_approvals_decide, with a valid signature; the decider must be configured.
Decide(h, aid, v) ==
  /\ h \in Approver
  /\ decisions' = decisions \cup {[aid |-> aid, decider |-> h, verdict |-> v]}
  /\ UNCHANGED <<runs, task, records, board, lost>>

\* api_playbook_run under the gate lock.
Start(q, pb) ==
  /\ task[q] = Idle
  /\ LET w == DriveRun(pb, 0) IN
     task' = [task EXCEPT ![q] = [pc |-> IF w.status = "Completed" THEN "startRecord" ELSE "push",
                                  pb |-> pb, cursor |-> w.cursor, status |-> w.status]]
  /\ UNCHANGED <<decisions, runs, records, board, lost>>

\* record_run_completion of a start.
StartRecord(q) ==
  /\ task[q].pc = "startRecord"
  /\ records' = [records EXCEPT ![task[q].pb] = @ + 1]
  /\ task' = [task EXCEPT ![q].pc = "push"]
  /\ UNCHANGED <<decisions, runs, board, lost>>

\* The start publishes its run, with its progress, under the runs lock.
Push(q) ==
  /\ task[q].pc = "push"
  /\ PostRunProgress(Len(runs) + 1,
       [pb |-> task[q].pb, cursor |-> task[q].cursor, status |-> task[q].status,
        milestone |-> FALSE, posted |-> 0])
  /\ task' = [task EXCEPT ![q] = [pc |-> "done"]]
  /\ UNCHANGED <<decisions, records>>

\* Fault: the record is written whenever the run is found complete.
CompletedNowFaulty(was, now) == now = "Completed"
\* Fault: the status before the drive is read after it.
CompletedNowLate(was, now) == now # "Completed" /\ now = "Completed"
CompletedNow(was, now) == was # "Completed" /\ now = "Completed"

\* api_run_advance under the gate and runs locks.  An unknown run is a 404.
Advance(q, i) ==
  /\ task[q] = Idle /\ i \in 1..Len(runs)
  /\ LET e == runs[i]
         w == IF e.status = "Completed" THEN e ELSE DriveRun(e.pb, e.cursor)
     IN /\ PostRunProgress(i, [e EXCEPT !.cursor = w.cursor, !.status = w.status])
        /\ task' = [task EXCEPT ![q] = IF CompletedNow(e.status, w.status)
                                       THEN [pc |-> "record", pb |-> e.pb] ELSE [pc |-> "done"]]
  /\ UNCHANGED <<decisions, records>>

\* record_run_completion of an advance, after both locks are released.
Record(q) ==
  /\ task[q].pc = "record"
  /\ records' = [records EXCEPT ![task[q].pb] = @ + 1]
  /\ task' = [task EXCEPT ![q] = [pc |-> "done"]]
  /\ UNCHANGED <<decisions, runs, board, lost>>

Handler(q) == StartRecord(q) \/ Push(q) \/ Record(q)

Next ==
  \/ \E h \in Human, p \in Playbooks, v \in Verdict :
       \E k \in 1..Len(Steps[p]) :
         Steps[p][k].gate /\ Decide(h, Joined(PlaybookId[p], Steps[p][k].id), v)
  \/ \E q \in Req :
       \/ \E p \in Playbooks : Start(q, p)
       \/ \E i \in 1..Len(runs) : Advance(q, i)
       \/ Handler(q)

Spec == Init /\ [][Next]_vars

\* A handler that has begun runs to its end: it awaits nothing and takes locks
\* that are always released.  Nothing is assumed of clients and approvers.
FairSpec == Spec /\ \A q \in Req : WF_vars(Handler(q))

----------------------------------------------------------------------------
(* Properties *)

Passed(w) == {k \in 1..w.cursor : Steps[w.pb][k].gate}
Started == {task[q] : q \in {r \in Req : task[r].pc \in {"startRecord", "push"}}}

\* No run, published or about to be, is past an approval gate whose action id,
\* the id its playbook was posted under and the step (playbook.rs:241), no
\* configured approver approved (approval.rs:196), although playbooks share step
\* names and requests race with decisions.  The approval holds for every run and
\* every playbook posted under that id.
NoGateWithoutApproval ==
  \A w \in {runs[i] : i \in 1..Len(runs)} \cup Started : \A k \in Passed(w) :
    \E d \in decisions :
      /\ d.aid = Joined(PlaybookId[w.pb], Steps[w.pb][k].id)
      /\ d.decider \in Approver /\ d.verdict = "Approve"

\* A veto wins for good (approval.rs:206): once the action id of a gate has been
\* vetoed, no run that stands before that gate ever passes it, whatever was
\* approved before or is approved later.
VetoIsFinal ==
  [][\A i \in 1..Len(runs) : \A k \in 1..Len(Steps[runs[i].pb]) :
       /\ Steps[runs[i].pb][k].gate /\ runs[i].cursor < k
       /\ \E d \in decisions : /\ d.aid = Joined(PlaybookId[runs[i].pb], Steps[runs[i].pb][k].id)
                               /\ d.decider \in Approver /\ d.verdict = "Reject"
       => runs'[i].cursor < k]_vars

\* The posts of run i's progress thread, by their places on the board.
Thread(i) == {n \in 1..Len(board) : board[n].run = i}

\* The progress thread of a run tells its story (lib.rs:2391): one milestone,
\* then each completed step once and in order, with no gap but the posts that
\* failed, whichever requests drove the run and however late the milestone got
\* through.
ThreadTellsTheRun ==
  \A i \in 1..Len(runs) :
    IF runs[i].milestone
    THEN /\ \A m, n \in Thread(i) : m < n => board[m].step < board[n].step
         /\ {board[n].step : n \in Thread(i)}
              = (0..runs[i].cursor) \ {k \in 1..runs[i].cursor : <<i, k>> \in lost}
    ELSE Thread(i) = {}

Completed(p) == {i \in 1..Len(runs) : runs[i].pb = p /\ runs[i].status = "Completed"}
Owing(p) == {q \in Req : task[q].pc = "record" /\ task[q].pb = p}
Ahead(p) == {q \in Req : task[q].pc = "push" /\ task[q].pb = p /\ task[q].status = "Completed"}

\* The decision log holds exactly one completion record for every completed
\* run (lib.rs:2532), counting the handlers between the two: racing advances of
\* one run do not write it twice, and none is skipped.
RecordsMatchRuns ==
  \A p \in Playbooks :
    records[p] + Cardinality(Owing(p)) = Cardinality(Completed(p)) + Cardinality(Ahead(p))

\* Every completion is on record in the end: again and again the log catches
\* up with the completed runs.
CompletionIsRecorded ==
  \A p \in Playbooks : []<>(records[p] >= Cardinality(Completed(p)))
=============================================================================
