\* A node that prunes, and a second process that is on another chain.
CONSTANTS
  p1 = p1
  p2 = p2
  o1 = o1
  o2 = o2
  n1 = n1
  n2 = n2
  Txs = {1}
  Rivals = {9}
  Objects <- OneObject
  Pins <- OnePinned
  Nodes <- OneNode
  MaxEpoch = 2
  NodesPrune = TRUE
  Procs <- TwoProcesses
  Foreign <- OtherProcess
  Calls <- SenderAndReconciler
  RetriedAfter = {"submit", "submitVia", "reconcile", "reconcileDigest", "sweep", "sweepResend"}
  SubmitAgain = FALSE
  Expiration = "validDuring"
  ExpiryEvidence = "epochThenMiss"
  HistoryReported = TRUE
  ResubmitAttempts = 2
  LockConflictRechecks = 1
  FaultKinds = {"crash", "read", "journal"}
  MaxFaults = 1
SPECIFICATION Spec
INVARIANTS NobodyIsMisled
CHECK_DEADLOCK FALSE
