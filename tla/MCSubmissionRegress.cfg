\* Two processes settle one entry: a late Unknown lands on a settled one.
CONSTANTS
  p1 = p1
  p2 = p2
  o1 = o1
  o2 = o2
  n1 = n1
  n2 = n2
  Txs = {1}
  Rivals = {9}
  Objects <- OneObject
  Pins <- OnePinned
  Nodes <- OneNode
  MaxEpoch = 2
  NodesPrune = FALSE
  Procs <- TwoProcesses
  Foreign = {}
  Calls <- SenderAndReconciler
  RetriedAfter = {"submit", "submitVia", "reconcile", "reconcileDigest", "sweep", "sweepResend"}
  SubmitAgain = FALSE
  Expiration = "validDuring"
  ExpiryEvidence = "epochThenMiss"
  HistoryReported = TRUE
  ResubmitAttempts = 2
  LockConflictRechecks = 1
  FaultKinds = {"crash", "read", "journal"}
  MaxFaults = 2
SPECIFICATION Spec
PROPERTIES SettledStays
CHECK_DEADLOCK FALSE
