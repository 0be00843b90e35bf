\* A sender and a reconciler; reads balanced over two nodes that lag apart.
CONSTANTS
  p1 = p1
  p2 = p2
  o1 = o1
  o2 = o2
  n1 = n1
  n2 = n2
  Txs = {1}
  Rivals = {9}
  Objects <- TwoObjects
  Pins <- BothPinned
  Nodes <- TwoNodes
  MaxEpoch = 0
  NodesPrune = FALSE
  Procs <- TwoProcesses
  Foreign = {}
  Calls <- SenderAndReconciler
  RetriedAfter = {"submit", "submitVia", "reconcile", "reconcileDigest", "sweep", "sweepResend"}
  SubmitAgain = FALSE
  Expiration = "none"
  ExpiryEvidence = "never"
  HistoryReported = TRUE
  ResubmitAttempts = 2
  LockConflictRechecks = 1
  FaultKinds = {"crash", "settled"}
  MaxFaults = 1
SPECIFICATION Spec
INVARIANTS NobodyIsMisled
CHECK_DEADLOCK FALSE
