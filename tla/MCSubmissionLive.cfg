\* A sender that restarts, fair steps, bounded faults: do entries settle?
CONSTANTS
  p1 = p1
  p2 = p2
  o1 = o1
  o2 = o2
  n1 = n1
  n2 = n2
  Txs = {1}
  Rivals = {9}
  Objects <- OneObject
  Pins <- FirstPinsNone
  Nodes <- OneNode
  MaxEpoch = 2
  NodesPrune = FALSE
  Procs <- OneProcess
  Foreign = {}
  Calls <- Restarting
  RetriedAfter = {"submit", "submitVia", "reconcile", "reconcileDigest", "sweep", "sweepResend"}
  SubmitAgain = FALSE
  Expiration = "validDuring"
  ExpiryEvidence = "epochThenMiss"
  HistoryReported = TRUE
  ResubmitAttempts = 2
  LockConflictRechecks = 1
  FaultKinds = {"crash", "read", "journal", "settled"}
  MaxFaults = 2
SPECIFICATION FairSpec
PROPERTIES SettlesForGood EveryCallAnswers
CHECK_DEADLOCK FALSE
