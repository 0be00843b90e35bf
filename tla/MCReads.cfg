\* One listing, or one single read, or calls of SuiCore; see MCReads.
CONSTANTS
  Slot = {1, 2}
  Thrown <- SomeThrown
  MAX_READ_ATTEMPTS = 2
  bounded = TRUE
  readRetry = "default"
  MaxLedger = 4
  ScanLimit = 3
  LEDGER_PAGE_SIZE = 2
  Listings <- SomeListings
  MaxFaults = 2
  Spelling = {"0xa", "0x00a", "0xb", "0xc"}
  keyOf <- SomeKeys
  Batches <- SomeBatches
  CHUNK = 2
  CHUNK_CONCURRENCY = 2
  ChainId = {"here", "elsewhere"}
  KNOWN_CHAIN_ID = "here"
  NoChain = "none"
  LayerRetries = 1
  MaxHeld = 3
SPECIFICATION Spec
INVARIANTS TypeOK SendsOnce AbsenceIsTheNodes RetriedWhileItMayPass
  NothingSkipped StreamIsTheListing QuietTailNotStranded AnswersAreTheNodes
PROPERTIES BoundedReadsEnd TailCatchesUp
CHECK_DEADLOCK FALSE
