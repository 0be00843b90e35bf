\* One run of Tx.run, one fold, one transaction's receipts, one test or one failure
\* told of; see MCWrites.
CONSTANTS
  Account = {"account", "sponsor"}
  Address = {"account", "sponsor", "key"}
  MaxEpoch = 2
  MaxBalance = 2
  AliasSets = {{"key"}}
  MAX_GAS_BUDGET = 1
  NodeBudget = 1
  MaxResolves = 2
  MemberBound <- SomeBounds
  Threshold = 2
  MaxRuns = 2
  MaxMoved = 1
  Coin = {1, 2, 3, 4, 5}
  SuiCoin = {1, 2, 3, 4}
  MaxValue = 3
  PerTransaction = 3
  MAX_GAS_PAYMENT_COINS = 2
  BaseUnits = 1
  CoinUnits = 1
  Thing = {"o", "c", "d"}
  Cap = {"c", "d"}
  Package = {"p", "q"}
  Generic = "o"
  MaxCommands = 3
  MaxTouched = 2
  Caller = {1, 2}
  Bytes = {"bytes", "others"}
  Scripts <- SomeScripts
  FakeId = {"0x1", "0x01", "0x2", "0x6"}
  idOf <- SomeIds
  Clock = "0x6"
  Fields <- SomeFields
  NoChild = "none"
  Holder = {"alice", "bob"}
  TypeArg = {"0x2::sui::SUI", "0x02::sui::SUI"}
  coinOf <- SomeTypes
  MaxSimulates = 2
  MaxLog = 5
  Error = {"e1", "e2"}
  NoError = "noError"
  Shapes <- SomeShapes
  StackSize = 9
SPECIFICATION Spec
INVARIANTS TypeOK PlannedIsPaid SentToBeAccepted SignedAsShown WindowWithinProofs
  ReceiptIsTrue ServesAsWritten TellingEnds ToldInFull
CHECK_DEADLOCK FALSE
