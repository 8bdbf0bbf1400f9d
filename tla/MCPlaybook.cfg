SPECIFICATION FairSpec
CONSTANTS
  Playbooks <- MCPlaybooks
  PlaybookId <- MCPlaybookId
  Steps <- MCSteps
  Human = {h1, h2}
  Approver = {h1}
  Req = {q1, q2, q3}
INVARIANTS NoGateWithoutApproval ThreadTellsTheRun RecordsMatchRuns
PROPERTIES VetoIsFinal CompletionIsRecorded
CHECK_DEADLOCK FALSE
