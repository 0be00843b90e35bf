\* One process retries an intent: crashes, re-sends, faults, rivals, epochs.
CONSTANTS
  p1 = p1
  p2 = p2
  o1 = o1
  o2 = o2
  n1 = n1
  n2 = n2
  Txs = {1, 2}
  Rivals = {9}
  Objects <- OneObject
  Pins <- OnePinned
  Nodes <- OneNode
  MaxEpoch = 4
  NodesPrune = FALSE
  Procs <- OneProcess
  Foreign = {}
  Calls <- Restarting
  RetriedAfter = {"submit", "submitVia", "reconcile", "reconcileDigest", "sweep", "sweepResend"}
  SubmitAgain = FALSE
  Expiration = "validDuring"
  ExpiryEvidence = "epochThenMiss"
  HistoryReported = TRUE
  ResubmitAttempts = 2
  LockConflictRechecks = 1
  FaultKinds = {"crash", "read", "journal"}
  MaxFaults = 1
SPECIFICATION Spec
INVARIANTS TypeOK NobodyIsMisled AtMostOnce SentIsJournalled
PROPERTIES SettledStays ImplementsIntent
CHECK_DEADLOCK FALSE
