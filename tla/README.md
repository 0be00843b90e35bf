# Specifications of sui-effect

TLA+ models of `@unconfirmed/sui-effect`, an Effect library that builds, signs,
sends and recovers Sui transactions. Paths below are relative to the repository
(`src/services/Tx.ts` is the submission lifecycle, `DESIGN.md` its rationale).
The code is the reference: where a comment and the code differ, the model
follows the code and the difference is listed under *Where the documentation
and the code differ*.

## The system

| Component | State it keeps | Operations | Hard behaviour |
|---|---|---|---|
| **Durable journal** (`services/JournalKeyValueStore.ts`, `domain/journal-entry.ts`) | two keys per digest in a `KeyValueStore`: `entry:<digest>` and the marker `settled:<digest>` | `put`, `get`, `listUnresolved`, `pruneSettled`, `layerKeyValueStore` (lists when built) | several processes over one store with no compare-and-set; every store call may fail, every process may die between two |
| **Submission lifecycle** (`services/Tx.ts`, `services/Journal.ts`) | the journal entry of each digest; the locals of each call | `submit`, `submitVia`, `resubmit`, `reconcile`, `reconcileAll` | lost sends, timeouts, refusals, lock conflicts; evidence read in several steps from nodes that lag or prune; crashes between send and record |
| **Network** (external) | epoch, objects and their versions, executed transactions, each node's view | execution, epoch change, node indexing and pruning | asynchronous to every read |
| **Sender locks** (`Tx.run`, `lockedRun`, `withSenderLock`) | a reference-counted semaphore per address, a registry of lock-free runs in flight | take, hold or release, register, drain | lock order, scope lifetimes, interruption |
| **Build** (`Tx.build`, `defaultExpiration`) | the draft, which the resolver changes in place | `build`, with its expiration, payment, resolve, simulation, refusals | a resolve retried over what it left; a stale epoch; bounds |
| **Tx.run around it** (`Tx.run`, `sign`, `cosign`, `attach`, `verifySponsored`; `MultiSigSigner.ts`, `ZkLoginSigner.ts`, `AddressAlias.ts`, `Verify.ts`, `Sponsored.ts`) | the signatures so far | the same, step by step or in one call | what was read (epoch, alias set, balance) moves before the send |
| **Tails and pagination** (`services/Sui.ts`) | a cursor | `pagesOf`, `tailOf`, `listAffectedDigests`, the pages | head read before page, pruned cursors, streams that break |
| **Object reads** (`services/Sui.ts`) | none that survives a call | `getObjects` in chunks, single and past-version reads, streams of what an owner holds | answers paired by position, failures taken for absence |
| **Read tier** (`services/SuiCore.ts`) | the attempt | per-attempt timeout, retry policy, error classification | retry bounds, retryable or not, a second copy of the SDK |
| **Coin folding** (`services/Fold.ts`, `Tx.foldCoins`) | a projected balance | plan, run batch by batch | boundaries of the estimate |
| **Receipts** (`domain/executed.ts`, `domain/bcs.ts`, `submitVia`'s reading of a reply) | none | accessors over effects and events, full or reduced | what is absent from an answer must not read as something that happened |
| **Error rendering** (`domain/errors.ts`) | two sets of values being rendered | `describe`, `toJson` | somebody else's getters and `toString`s, re-entry |
| **Testing layer** (`testing.ts`) | scripted objects, balances, answers | puts, reads, scripted answers | answers taken by concurrent calls |
| **Metrics, entry points, codecs of fields** | none | | none of their own |

How they interact: `Tx.run` takes the sender lock, builds, signs and calls
`submit`. `submit` and its relatives call the journal (`put`, `get`,
`listUnresolved`) and the node (`executeTransaction`, `getTransaction`,
`getObject`, `getCurrentSystemState`, `getServiceInfo`). Every call of the node
goes through the read tier, which retries reads and never sends. Two processes
interact only through the journal they share and through the chain.

What makes each component correct:

* journal: no unresolved entry is hidden from a listing; a listing and a
  service start miss nothing that was owed; a prune deletes only what it read;
* lifecycle: what the journal says happened has happened; a caller told "not
  applied" is right for ever; an intent retried on that word executes at most
  once; bytes on the wire can be found again; everything settles;
* locks: no two runs build over the same coin, no deadlock, no leaked permit;
* build and run: what is sent is what validators accept unless the world moved
  after it was read; nobody signs what was not shown to execute; a window closes
  before the proofs that sign it do;
* reads: only the node says that something does not exist; a batch gives each id
  its own answer; what may pass is asked again, a bounded number of times;
* tails: no match is skipped, none given out twice, and a quiet tail is not
  stranded; folding: no batch runs that was planned to pay and cannot;
* receipts: each accessor tells what happened, and a reduced answer invents
  nothing; rendering a failure reads nobody's message twice at once, ends unless
  a foreign `toString` keeps coming back, and tells its outcome and its cause.

## The modules

| Module | What it is | Status |
|---|---|---|
| `JournalStore` | the durable journal, one step per `KeyValueStore` call | modelled, checked, proved |
| `JournalStoreProofs` | its invariants and action properties for all constants | proved |
| `Chain` | the network as the lifecycle relies on it (external) | modelled |
| `Submission` | the lifecycle in several processes over `Chain` and one journal | modelled, checked, proved |
| `SubmissionProofs` | `TypeOK` and `SentIsJournalled` for all constants; `NobodyIsMisled`, `AtMostOnce`, `SettledStays` and the refinement of `Intent`, under named conditions | proved |
| `SenderLock` | `Tx.run`'s locks: two registries of reference-counted semaphores | modelled, checked, proved |
| `SenderLockProofs` | `TypeOK`, `EntriesLiveWhileUsed`, `BuildersExclusive`, `ReservationIsQuiet`, `SomeoneMoves` for all constants | proved |
| `Intent` | abstract specification: what a caller with one intent is promised | refinement checked and proved |
| `IntentProofs` | what `Intent` guarantees | proved |
| `ReadTier` | one call of the SDK under the read tier: mapping, timeout, retries | modelled, checked, proved |
| `ReadProofs` | of `ReadTier`: `SendsOnce`, `AbsenceIsTheNodes`, `RetriedWhileItMayPass`; of `SuiReads`: these and `AnswersAreTheNodes`; for all constants | proved |
| `LedgerNode` | a node's ledger and the frames of a listing (external) | modelled |
| `Tail` | the finite listings and the tails, over `ReadTier` and `LedgerNode` | modelled, checked, proved |
| `TailProofs` | `NothingSkipped`, `StreamIsTheListing`, `QuietTailNotStranded` for all constants | proved |
| `SuiReads` | batches, single reads, past versions and owned streams, over `ReadTier` | modelled, checked, proved |
| `Validators` | epoch, balances, alias sets and what validators refuse (external) | modelled |
| `Build` | `Tx.build` over `Validators` | modelled, checked, proved |
| `Run` | `Tx.run`, or its steps by hand, over `Build` | modelled, checked, proved |
| `RunProofs` | `RunTypeOK`, `SignedAsShown`, `WindowWithinProofs`, `SentToBeAccepted` for all constants | proved |
| `Fold` | `planFold` and `foldCoins` | modelled, checked, proved |
| `Receipts` | `Executed`, its reduction by a relay, `submitVia`'s replies, decoded events | modelled, checked, proved |
| `Scripted` | the scripted client of `sui-effect/testing` | partly modelled, checked, proved |
| `Failures` | `SuiError.describe` and `toJson` | modelled, checked, proved |
| `WriteProofs` | `FoldTypeOK` and `PlannedIsPaid`, `TellingEnds` and `ToldInFull`, `ServesAsWritten`, `ReceiptIsTrue` for all constants | proved |
| `MCJournalStore`, `MCSubmission`, `MCSenderLock`, `MCReads`, `MCWrites` | instances for TLC | |

### JournalStore

`entry[d]` is the value of `entry:<d>` (its tag and its stamp), `marked` the set
of digests whose `settled:<d>` exists. A client runs one operation at a time;
`phase[c][d]` is the next store call it makes for digest `d`. It is per digest
because `readUnmarked` and `pruneSettled` fan out with `READ_CONCURRENCY`.

| Action | Code |
|---|---|
| `PutBegin`, `clearMarkerHas`, `clearMarkerRemove`, `PutSet` | `put`: clear, set, clear again for an unresolved entry; set and `settleMarker` for a terminal one |
| `settleMarkerSet`, `settleMarkerReread`, `settleMarkerRemove` | `settleMarker`: mark, read again, take the marker back unless confirmed (a failed re-read does not confirm) |
| `healFails` | `heal` swallows a failed marker write or removal; the listing goes on |
| `ListBegin`, `OpenBegin`, `readUnmarked` | `listKeys` once, then one read per unmarked key |
| `PruneBegin`, `pruneRead`, `pruneRemoveMarker`, `pruneRemoveEntry`, `pruneOrphan` | `pruneSettled`: all reads, then marker before entry, then orphan markers |
| `Finish`, `Abandon` | the operation ends; or it is interrupted, its process dies, or a store call fails |

`stale`, `owed` and `rewritten` are history variables: who abandoned the call
that would have unhidden an entry, what a listing in progress must return, what
was put since a prune read it. No action's guard reads them.

### Chain

Transactions pin object versions and carry a window of epochs. `Execute` lets
validators run bytes on the wire once, inside the window, while every pinned
object is live at the pinned version. `RivalRuns` is any other transaction of
the owner. A node answers from a past state (`view`), which `CatchUp` brings up
to date and `Prune` thins out. A node's epoch and its transaction index move
together; a node whose index lags its epoch would break the expiry rule, and the
documentation of `reconcile` excludes it.

### Submission

`st[p]` holds the program counter and locals of the call process `p` is in.
Between two steps lies one await: a read, a send or a journal call.

| Action | Code |
|---|---|
| `Build` | `build` and `sign`, reduced to the window and the pinned versions |
| `Submit`, `Resubmit`, `Reconcile`, `ReconcileAll` | the exported functions are called |
| `journalSigned`, `journalSignedFails` | the `Signed` write before the first send |
| `executeTransaction`, `relay` | one attempt of `send`; the one `send` of `submitVia` |
| `answered`, `retried`, `refused`, `lockConflict`, `unanswered` | what `send` and `submitVia` do with each kind of answer |
| `consult`, `consultFails`, `resend`, `resendFails` | `resubmit` reads the journal; `resend` checks chain and window |
| `chainMismatch`, `lookup`, `windowClosed`, `inputState`, `consumedVersionOf`, `noEvidence`, `weigh`, `readFails` | `recover`: lookup, closed, lookup, closed, lookup, inputs, history, verdict |
| `recordIfHeld`, `recordIfHeldFails` | `reconcile` records only over an unresolved entry |
| `journalSettled`, `journalSettledFails` | `record`, and the writes after an execute answer; a failure is logged |
| `Return` | the call answers; a sweep re-sends (`reconcileAll({ resubmit })`) or takes its next entry |
| `Crash` | the process dies or the call is interrupted |

`handed` and `released` belong to the caller: what it submitted, and what a call
of `RetriedAfter` told it was not applied (`SuiError.outcome`). The caller signs
transaction *n + 1* only when *n* is released: the retry idiom of `DESIGN.md`
section 6. The journal is a map with atomic `put` and `get`; its durable form is
`JournalStore`. `awaitVisible` only waits and is left out.

### SenderLock

`registry` holds `SENDER_LOCKS` and `IN_FLIGHT`: the entry object each address
has. `refs` and `taken` say who holds a reference to an entry and permits of its
semaphore; the code's count `refs` is the size of that set. A holder is a run
together with what it holds: a lock, a registration as in flight, or the
permits of a drain.

| Action | Code |
|---|---|
| `run` | `Tx.run` is called; its recipe and config decide `locked`, `drains`, `inFlightOn` |
| `senderLocked` | one reference, then one permit, account by account (`acquireNext` of `permitsOf` and the semaphore) |
| `drainInFlight`, `drainTake`, `drainGive` | a `tx.gas` run takes every permit of its payer's in-flight entry and gives them back |
| `build`, `buildFails` | the build ends; whether the bytes pin something is either |
| `registerInFlight` | in the outer scope, with the locks still held |
| `releaseLocks` | the lock scopes close, the innermost first |
| `finish` | signing, `onSigned`, submission, with the locks or without |
| `end` | the scopes still open close; `Interrupt` leads there from anywhere |

Addresses are `Spelled`; `normalizeSuiAddress` maps them to accounts.
`withSenderLock` by itself is a run that locks its sender and keeps the lock.
The semaphore is the effect library's: any waiter whose permits are free goes
on, so nothing here depends on its queue being fair. `ReservationIsQuiet` speaks
of payers the `tx.gas` run has locked: a recipe that pays from a balance drains
its payer without that payer's lock, and a `Tx.sponsored` run does not take its
gas owner's lock (the residuals `DESIGN.md` section 6 names).

### Intent

`started`, `applied` and `closed` transactions of one intent. `Submission`
implements it with `started` = signed, `applied` = executed, `closed` =
`released` (`ImplementsIntent`).

### ReadTier

`request[s]` is a call in flight: its method, its attempt, what the node said
and what the caller is told. Methods fall in classes by how the code calls them
(timed, retried) and how it narrows their failures (`Tags`).

| Action | Code |
|---|---|
| `Ask` | `call`: the first attempt |
| `Answers`, `Throws` | the SDK's promise resolves, or rejects with any of `Thrown`: its own classes or those of a second copy, with their causes, statuses, an argument error, a harness defect |
| `TimesOut` | `attempt`'s timeout, retryable |
| `Again` | the retry policy: `isRetryableRead`, `MAX_READ_ATTEMPTS`, or a custom schedule |
| `Release` | the caller takes the answer, or is interrupted |

`mapSdkError`, `transportCauseOf`, `classifyTransportCause` and `narrowed` are
operators, applied to what was thrown.

### LedgerNode and Tail

A ledger is a sequence of positions, each matching the filter or not; the node
appends and prunes. A listing answers with frames, each with the watermark it
covers, and may look at `ScanLimit` positions only. It closes with an end frame
or without one (`Closings`): the code takes a stream without one for all there
is, unless a look-ahead item came (`Sui.ts:406`). A node that leaves it out is
assumed to stop at no scan limit, and a stream that is cut short to fail its
call; were it otherwise the code would pass over what the stream did not reach. `tail` is the loop of
`tailOf` or `pagesOf`: its cursor, the head read before the page, the frames
kept so far, the transactions being read.

| Action | Code |
|---|---|
| `open` | a stream is called; `assertPaginableFilter` may refuse it |
| `askListing`, `headRead`, `pageRead` | `eventsPage`, `sdkTransactionsPage`, the frames of `listAffectedDigests`; `eventsHead`, `transactionsHead` |
| `askListed`, `readListed`, `listedRead` | `affectedPage` reads each digest it was given, order kept, pruned ones dropped |
| `attemptFails`, `again`, `outOfRange`, `readFailed` | a late attempt, or one that failed for now (`UNAVAILABLE`) or for good (`UNIMPLEMENTED`); the read policy; the node has pruned past the cursor; `persistently`, or the stream's failure |
| `undecoded` | an event or a transaction of the answer does not decode: the stream fails at once |

`tail.error` keeps the status the stream failed with. The properties about
stranded tails speak of a refused cursor (`OUT_OF_RANGE`): a tail may fail of any
status that cannot pass, and of an answer that does not decode, which a retry
would not mend.

### SuiReads

One read of a program at a time, with as many calls in flight as it makes.
`told` is history: what the node said of each object during this read.

| Action | Code |
|---|---|
| `getObjects`, `askChunk`, `chunkRead`, `chunkFailed`, `batchRead` | the unique ids in chunks, `CHUNK_CONCURRENCY` at once; an answer that does not line up fails; `getObjectsStrict` |
| `ask`, `objectRead`, `answerRead`, `readFails` | the reads of one answer: what each decodes, catches as `None` or lets fail |
| `askNode`, `readObjectAtVersion`, `versionNotFound`, `readServiceInfo` | reads of the client behind the core, if it can |
| `layerAgain` | `layerNoDepsWith` reads the chain identifier until it has it |
| `openStream`, `askPage`, `pageRead1` | owned objects, dynamic fields, balances, coins; `moves` is the owner meanwhile |
| `transportFails` | the transport throws, an attempt is cut off, the schedule goes on |

### Build and Run, over Validators

`tx` is the draft, reduced to what resolvers, refusals and validators read:
sender, gas owner, whether inputs are unresolved or owned, how `tx.gas` is used,
price, budget, payment, withdrawals, expiration. The SDK's resolver is external:
it works on the draft in place and, when it fails in a way that may pass, leaves
any part of its work (`Halfway`).

| Action | Code |
|---|---|
| `buildIt`, `expire`, `expireFails`, `pin` | `build` up to its first read; the default window and `sessionOpen`; the payment pinned by policy |
| `resolved`, `resolveFails`, `resolveAgain` | one attempt of `tx.build` under the read policy; `resolverError` |
| `simulated`, `checked`, `balanceRead` | the checking simulation; the ceiling and the refusals over the bytes; the balance check |
| `begin`, `requireAliases` | `Tx.run`'s checks of its parties, one alias read per alias key |
| `builds`, `building`, `buildEnds` | `buildIt` with the earlier of the two session bounds; its failures renamed |
| `frontHalf`, `approve`, `sign`, `cosign`, `onSigned`, `submit` | simulate and preflight, the approver, the signatures, the send |
| `attach` | a wallet's signature on a sponsor's bytes, verified; `verifySponsored` precedes it |
| `runAgain` | the same `Transaction` object, as the failed run left it |
| `Moves` | an epoch turns, a balance is spent, an alias set is edited, the commands begin to abort |

`RunInit` is any draft, configuration, network and ask (`Asking`), but for three
things. A recipe's own window lasts two epochs at most and its draft reserves no
balance yet: the code reads neither, so what it sends of them is not its promise.
And step by step the cosigner signs with the key of its own account: nobody but
`Tx.run` looks an alias up. `MCWrites` takes some of these states.

### Fold

`planFold` reads the purse and plans in one step (it reads coins, then the
balance; what others spend between is `othersSpend`); `runsBatch`, `stops` and
`folded` are `foldCoins` over the plan; `foldAgain` a second call after a failure.

### Receipts

The commands of a transaction (create, move, wrap, unwrap, delete, publish,
upgrade, emit, abort) are external and leave `before`, `now`, `governs` and the
events; what a node reports of them is `Effects`. `reads` makes an `Executed` of
it, from a node or from a test's script; `relayed` is `Executed.fromPartial` of an
envelope that leaves fields out; `replied` is what `submitVia` makes of any
reply. The accessors are operators over `receipt`, under the names they have in
the code.

### Scripted

`log` is history: what the test put and what it was answered, in order.
`Holdings` puts objects, balances and the clock; `Answering` replaces scripts
and lets callers ask, hang, be cut off and ask again.

### Failures

A call is a stack of frames, because reading a message runs a getter that may
call `describe` or `toJson` again. `READING` and `SERIALIZING` are the code's
two sets. `Shapes` are the kinds of value: of the taxonomy, Effect's
`ConfigError`, a library's tagged error with an outcome, or nobody's, over each
possible cause, each thing a message may do and each thing a value is called by:
a library's tag, an Error's `name` (taken as data), any other value's `toString`.
Each of them may be empty: the code's lines for `describe("")` and `describe([])`
are, and so are those here.

`stringOf` runs a foreign `toString` with no set to ask: one that describes its
own value comes back to itself until the engine's stack is full, when the call
throws and `Object.prototype.toString` answers. `StackSize` is that limit,
assumed to take what the guarded calls need (`3 * Cardinality(Error) + 2`).
`TellingEnds` says of every value that it is read and serialized once at a time;
that calls nest only so deep, and that what was told is told alike again, only
where no `toString` calls back, because the depth at which a call overflows, and
so what it answers, depends on how deep it was made.

## What the runs check

Deadlock is not checked: operations, calls and faults are bounded, so every
behaviour ends. `NobodyIsMisled` is `JournalTruthful /\ ReleasedNeverRan`.

| Run | Checks | Bounds |
|---|---|---|
| `MCJournalStore` | `TypeOK`, `NoHiddenUnresolved`, `ListingComplete`, `OpenedOverNothingOwed`, `PruneDeletesOnlyRead`, `HiddenIsTransient` | 2 contexts, 2 digests, 1 operation each, any initial store, `FairSpec` |
| `MCSubmissionRetry` | `TypeOK`, `NobodyIsMisled`, `AtMostOnce`, `SentIsJournalled`, `SettledStays`, `ImplementsIntent` | 1 process that restarts, 2 transactions, 1 rival, 5 epochs, 1 fault |
| `MCSubmissionPair` | `NobodyIsMisled` | a sender and a reconciler, 2 nodes that lag apart, 2 pinned objects, no expiry evidence, 1 fault (a crash, or a record that fails) |
| `MCSubmissionNodes` | `NobodyIsMisled` | a pruning node that reports its history, a second process on another chain, 3 epochs, 1 fault |
| `MCSenderLock` | `TypeOK`, `BuildersExclusive`, `ReservationIsQuiet`, `EntriesLiveWhileUsed`, `SomeoneMoves` | 3 runs, 1 call each, 2 accounts, 3 spellings, 4 recipes; symmetric runs |
| `MCSubmissionLive` | `SettlesForGood`, `EveryCallAnswers` | 1 process, 2 faults of any kind, `FairSpec` |
| `MCReads` | `TypeOK`, `SendsOnce`, `AbsenceIsTheNodes`, `RetriedWhileItMayPass`, `NothingSkipped`, `StreamIsTheListing`, `QuietTailNotStranded`, `AnswersAreTheNodes`; `BoundedReadsEnd`, `TailCatchesUp` | one activity at a time: a call, a listing or a read; 2 slots, 2 attempts, every method; 4 positions, pages of 2, scans of 3, 2 faults, 7 listings; 4 spellings of 3 objects in chunks of 2; 3 things held; fair |
| `MCWrites` | `TypeOK`, `PlannedIsPaid`, `SentToBeAccepted`, `SignedAsShown`, `WindowWithinProofs`, `ReceiptIsTrue`, `ServesAsWritten`, `TellingEnds`, `ToldInFull` | one of: a run (2 epochs, balances to 2, 2 resolves, one thing moves, run twice), a fold (4 SUI coins and another, values to 3, 3 per transaction), a receipt (3 objects of which 2 caps, 2 packages, 3 commands touching 2 objects), a test (4 spellings, 3 scripts, 2 callers), a failure (2 values of any shape, a stack of 9 calls) |

`MCReads` and `MCWrites` each put several components side by side that share
nothing but the read tier or nothing at all; `doing` says which is under way and
the others rest. `StreamIsTheListing` is `InOrderOnce /\ EndedWhole`,
`AnswersAreTheNodes` and `ReceiptIsTrue` are conjunctions of named parts
likewise.

Why the bounds suffice. The journal's races are between two writers of one
digest, or a writer and a listing or prune; two contexts on two digests, over
any store an earlier process can have left, contain each of them with a failure
in any place, and the theorems remove the bounds. In the lifecycle a wrong
verdict needs one transaction, one rival and an epoch past the window: a
`validDuring` window covers two epochs, so `MaxEpoch` 2 lets it close and 4 lets
two windows close one after the other. `MCSubmissionPair` leaves epochs out: a
second object and a second node are what the consumer rule depends on. (Two
nodes together with expiry evidence are the limit the documentation of
`reconcile` names, a load balancer over nodes of different heights.) Two attempts
(`ResubmitAttempts` 2) are what tells a first refusal from a later one. One
fault puts a crash, a failed read or a failed journal call anywhere; the runs
with two let a second hit the recovery. `MCSubmissionRetry` has no faults of
the kind `settled` (see below) and its callers retry on every function except
`resubmit` (see below). For the locks, three runs are what it takes to put one
inside, one waiting and one arriving; two accounts make the smallest pair to
take in two orders, and a second spelling sorts on the other side of the first
account's. Four entries are one per account and registry, all that are ever in
use at once.

In `MCReads` a match is skipped or given out twice at the seam of two pages: four
positions make two pages and a head, three positions a scan that ends without an
item, two faults one failed listing after another or a listing and a read of its.
Four spellings of three objects in chunks of two make two chunks, one of them
with a repeated object. In `MCWrites` a window has to close once (two epochs), a
balance to be exactly short or enough (0 to 2 over a budget of 1 and a
withdrawal of 1), a resolve to be retried once. The asks come in families: who
signs, over a draft that is paid for; what pays, with the parties there are; what
is run again. A fold needs a first batch that pays, one that cannot and one that
is paid from what the first deposited. A stack of 9 is the least that the assumption
allows for two values: every call of theirs that is guarded fits, and whatever
comes back overflows. Three commands are what it takes to
publish, then move two caps. Caps, and coins of SUI, are alike to the code (the
plan sorts the coins by their worth), so of the initial states that differ only
in which is which one is taken.

Fairness. `ReadTier`: the client's timers fire; a node may be silent for ever.
`Tail`: a listing between its first call and its end goes on (fibers run, the
node answers or fails, of which there are finitely many faults); the ledger need
not grow, and need not be pruned. `Build`, `Run`, `Fold`, `Receipts`, `Scripted`
and `Failures` are checked for safety only. `JournalStore`: each store call a context is about to make is
eventually made (a fiber is scheduled, the store answers or fails); starting
and abandoning operations is not fair. `Submission`: fibers run (`Work`), epochs
change, nodes index what happened, and some process keeps calling
`reconcileAll`, which is what the documentation tells a service to do at every
start; without that call nothing in the code would settle an entry. Sends,
executions and faults are not fair: `SettlesForGood` holds although a send is
never delivered.

### Where the documentation and the code differ

Each of these runs states what a document says and ends in a counterexample.

* `MCJournalDoc` / `HiddenOnlyByDeadSettler`. `DESIGN.md` section 8 and the
  comment of `make` name one window in which a marker can stay over an
  unresolved entry: a settler that dies before its re-read. A *writer* that dies
  between its entry write and its second clear is another: a terminal `put`
  which ran wholly after the first clear and before the entry write leaves its
  marker. `NoHiddenUnresolved` allows both and holds.
* `MCSubmissionRefused` / `NotAppliedNeverWill`. The comment of `JournalEntry`
  calls `NotApplied` "proven never to have applied and never will". `submit`
  takes an `INVALID_ARGUMENT` on its own first attempt for the fate of the
  bytes; a sweep of another process that re-sends the same bytes can still have
  them executed. (A refusal can depend on state: a balance that was short at the
  time.)
* `MCSubmissionJournalError` / `JournalErrorBeforeFirstSend`. `README.md` gives
  `JournalError` as `not_applied`, "the journal write before the first send".
  From `resubmit` it may follow an earlier send of the same bytes, which
  executed. This is why the runs let callers retry after every function but
  `resubmit`.
* `MCSubmissionRegress` / `SettledStays`. `record` writes without looking, so a
  sweep that found nothing writes `Unknown` over an entry another process
  settled meanwhile. With one process (`MCSubmissionRetry`) settled entries
  stay.

The following disagreements were met while modelling; the model follows the code
and its properties leave them out, without a run of their own.

* `DESIGN.md` (line 56) lists `waitForTransaction` with what `readRetry` does not
  apply to; the code sends it through `readUnbounded` (`SuiCore.ts:1217`) and
  retries it. `RetriedWhileItMayPass` requires a retry of every other read, and of
  this one only that it is not asked more often than the policy allows.
* `expectPublished` (`executed.ts:373`) names another `UpgradeCap` than the
  package's when the package's own is deleted or wrapped in the same transaction
  and exactly one other was mutated, which its comment does not say.
* `Executed.fromPartial`'s comment says an absent `outputState` is taken for
  `ObjectWrite`, or `DoesNotExist` for a `Deleted`; `partialChange`
  (`executed.ts:1019`) fills in `Unknown`. An envelope that reports a failure
  makes an `Executed` whose status has `success: false`; one whose status leaves
  `success` out passes for a success in `submitVia`, which only refuses `false`.
* `select`'s comment (`executed.ts:174`) has an accumulator write in none of the
  lists, and `created` of objects only. Of a reduced envelope that leaves
  `outputState` out, `mutated` may list an address balance and `created` a package
  or an object that ended inside another: without the state nobody can tell.
  `ReducedInventsNothing` allows these and nothing else.
* A fold batch of more coins than a gas payment may name is planned on the worth
  of all of them (`Fold.ts:185`), though only the first 256 pay.
* `toJson` (`errors.ts:1110`) loses the declared outcome when a message throws;
  its comment says the outcome is always there.
* The scripted client finds no dynamic field scripted under a parent id that is
  not normalized, by any spelling (`testing.ts:528`, `535`); `ReadAsPut` says so, and
  that those under the normalized id are found by every spelling. It serves the
  Clock at `0x6` although it lists an object a test has put there.
* `SubmitConfig.gasPayment: "requireAddressBalance"` does not hold for a
  `Transaction` that an earlier build has given a payment (`Tx.ts:1096`): it is
  then the recipe's own. `SentToBeAccepted` is unaffected.

One more limit, not a documented promise: when the write that records a refusal
fails (it is logged), the entry stays `Signed`, and a later
`reconcileAll({ resubmit: true })` re-sends bytes the caller has already been
told to replace. `MCSubmissionRetry` therefore leaves out the fault `settled`;
`MCSubmissionPair` and `MCSubmissionLive` keep it, without a re-send of refused
bytes by another process, respectively for liveness.

## What is proved

`tlapm` proves these for every value of the constants that satisfies the named
assumptions of the modules (sets of naturals for digests and stamps, tags that
are tags, at least one attempt, a page and a scan of at least one position,
thrown values of the kinds `Throwable` names; of a read, a slot for each chunk
under way and an SDK that can throw what `readObjectAtVersion` throws itself
(`SdkThrows`); coins that are numbered and worth natural numbers; of a failure,
finitely many values (`ErrorsAreCounted`) and a stack that takes the
guarded calls (`StackSizeAssumption`); of a test, spellings that normalize,
finitely many of them, and scripts that are lists; caps that are objects and
packages that are not) and, where a theorem says `ASSUME`, of its hypotheses. `MaxFaults`, `MaxEpoch`, `MaxLedger` and the other bounds of
the runs are constants like any other: the theorems hold for all of them.

* `JournalStoreProofs`: `TypeCorrect`, `HiddenEntriesAreAttended`
  (`NoHiddenUnresolved`), `ListingsAreComplete` (`ListingComplete`),
  `OpensOverNothingOwed`, `PrunesOnlyRead`. `NoHiddenUnresolved` is not
  inductive alone: a process is a danger to an entry, or its rescue, by the
  phase it is in, so the invariant says for each operation which phases it can
  be in and what it has put or read by then; the listing's needs that what is
  still owed and not yet found is still to be read.
* `SubmissionProofs`, first: `TypeCorrect` and `SentBytesAreJournalled`
  (`SentIsJournalled`), both from `Sound` = `Typed /\ Journalled`. `TypeOK` is
  not inductive: a process about to record needs an answer the journal has a
  tag for, one about to send an attempt left, a busy one a transaction;
  `Promises` says so by program counter. `Journalled` adds that a process with
  a send under way has its entry, which no later write removes.
* `SubmissionProofs`, then: `TrustedNobodyIsMisled` (`NobodyIsMisled`), `TrustedAtMostOnce`
  (`AtMostOnce`), `TrustedImplementsIntent` (`ImplementsIntent`),
  `AloneSettledStays` (`SettledStays`). See below.
* `SenderLockProofs`: `TypeCorrect`, `EntriesAreLive`, `MutualExclusion`,
  `ReservationsAreQuiet`, `NoCircle`. Two runs exclude each other only if they
  wait on one semaphore, so the invariant `Sound` ties every reference to the
  entry its address has in the registry (`Linked`), every entry to a reference
  (`Used`) and to one address (`Distinct`), and gives a lock one permit
  (`OnePermit`); `InsideHolds` says that a run between its locks holds them all.
  Each action makes at most one call of one semaphore (`StepIsChange`), so the
  invariant is proved per kind of call and not per action. `Orderly` says where
  a run's references are at each place of the code (`Placed`, `Draining`,
  `Registered`), that locks are taken in the order of their accounts
  (`Ascending`) and which policies lock at all (`Willing`). `Quiet` carries a
  drain through: once drained, a payer's in-flight registry admits nobody who
  needs the lock its drainer holds. `NoCircle`: of the runs that wait for a lock
  take one whose awaited account is the greatest; the lock's holder waits for
  none below it, and whoever waits for a drain or a registration waits for a run
  that is past its own. There must be a greatest account: the theorem assumes
  `Account \subseteq 0..Last`, and addresses have a fixed width.
* `ReadProofs`, of `ReadSpec`: `TypeCorrect`, `SendsAreSentOnce`, `AbsenceIsSaid`,
  `ReadsAreRetried`. Calls in flight do not touch each other, so
  the invariant is one of a single call (`Good`). It adds that a call waiting for
  its next attempt is a retried read with an attempt left, without which
  neither bound is inductive, and that what was thrown and what is told agree
  (`Faithful`), which `AbsencesAreTheNodes` proves of the mapping itself.
* `ReadProofs`, of `ReadsSpec`: `ReadsAnswerTruly` (`AnswersAreTheNodes`) and
  `ReadsUseTheTier`, the three properties of the tier for the calls of these
  reads. See below.
* `TailProofs`: `NothingIsSkipped` (`NothingSkipped`), `StreamsAreTheListing`
  (`StreamIsTheListing`), `QuietTailsAreNotStranded`, of `TailSpec`. See below.
* `RunProofs`: `RunIsTyped` (`RunTypeOK`), `NothingIsSignedUnseen`
  (`SignedAsShown`), `WindowsEndFirst` (`WindowWithinProofs`), `SentIsAccepted`
  (`SentToBeAccepted`), of `RunSpec`. See below.
* `WriteProofs`: `FoldIsTyped` (`FoldTypeOK`) and `PlansArePaid` (`PlannedIsPaid`)
  of `FoldSpec`; `TellingNeverLoops` (`TellingEnds`) and `FailuresAreToldInFull`
  (`ToldInFull`) of `FailuresSpec`; `TestsAreServed` (`ServesAsWritten`) of
  `ScriptedSpec`; `ReceiptsAreTrue` (`ReceiptIsTrue`) of `ReceiptsSpec`. See below.
* `IntentProofs`: nothing closed is ever applied, and at most one transaction of
  the intent is (`IntentAppliedOnce`), because two applied transactions would
  need the earlier one closed before the later one was signed.

### The lifecycle (`SubmissionProofs`)

The code cannot keep its promises in every deployment, and its documentation
does not say that it can. `Trusted` names the deployments in which it does; TLC
has a counterexample to `NobodyIsMisled` for each condition dropped alone:

| Condition | Without it |
|---|---|
| `OneSender`: one process has calls that send | another process has the bytes executed that this one was refused |
| `SentOnce`: `submit` is not called twice with the same bytes | the second `submit` takes its own refusal for the fate of bytes the first has on the wire |
| `ReadsAgree`: one node answers, or expiry is no evidence | a node that lags misses what ran, another one's epoch closes the window |
| `MissesMean`: a node that prunes reports where its history begins | a pruned transaction is a miss |
| `ResubmitNotRetried`: a `JournalError` of `resubmit` is not taken for `not_applied` | the bytes are on the wire from the first send |
| `RefusalsLast`: no sweep re-sends, or there is one process and its refusals are recorded | the sweep sends what the caller was told to forget |

`MCSubmissionRetry`, `MCSubmissionPair` and `MCSubmissionNodes` satisfy `Trusted`;
the runs that end in a counterexample do not. `SettledStays` needs only one
process (`Alone`) and `SentOnce`, whatever the nodes do.

The invariant is `Honest`: the chain and the nodes keep the network's promises
(`ChainSane`, `NodesSane`: what lapsed or lost an input stays so, a view is a
past state), what is recorded was handed over (`Recorded`), and each process
stands by a `Word` that says by program counter what it has established so far:
which lookup missed, at which epoch, which input it saw consumed, and that
whoever aims at a send is in a call that sends. Under `Trusted` it adds
`ToldTruly`: what was released or recorded as not applied is dead, or is off the
wire with nobody about to put it there. Every step moves the chain only forward
(`Forward`), which keeps everything that was established; the rest is one lemma
for each action. `AtMostOnce` and the refinement follow: the caller signs only
after what it signed before is dead, so signing is `Start`, executing is `Apply`,
and the answer is `Close`; every other step is a stutter (`IntentStep`).

### The tails (`TailProofs`)

First the data. `Kept` and `pageAfter` are recursive functions; what they compute
is proved by induction over an interval (`Induction`, `Recursion`: from the least
element of the set where it fails, with a set in place of a predicate). `PageOK`
says what a page is: the matches ahead of the cursor in order, every one of them
up to its end cursor, and all there are when nothing follows. `PageLists` proves
it of the page made of any listing's frames: look-ahead item, scan limit and end
alike.

Then the loop. `IInv` is `Requests /\ Placed`. `Requests` says which calls are in
flight in each state of the loop, and that one which failed for good was
refused its cursor only if that was pruned, and keeps the status it failed with:
a stream that ended for another reason has another one.
`Placed` says where the cursor is between the start, what was given out and the
head that was read (`Walk`, `Cursor`), and that the page whose transactions are
being read still covers what is ahead of the cursor (`Reading`, `Covers`),
although the node appends and prunes meanwhile: what is new lies beyond the head,
what is pruned is forgiven.

### The write side (`RunProofs`)

`RunSpec` is `Run` from any state of `RunInit`: every set of accounts and signing
keys, every bound of a proof, budget, alias set, threshold, number of resolve
attempts and of runs of one `Transaction` object, while the world moves. `NoOne`
must be no address, the bounds natural numbers, and a key is its number in the
multisig.

The invariant `IInv` has five parts, each of which holds up to what `moved` says
has changed since it was read. `Typed`; `Agreed`: from before the build on, the
parties could be made, alias keys were on their accounts' lists, the draft is the
sender's and its gas the named owner's, and no proof of theirs ends before
`build.bound`; `Timely`: the window is of two epochs at most, open, and closes
with the bound; `Paid`: a reservation and an empty payment are worth what the
payer had, what counts as shown was shown with the withdrawals it has; `Signing`:
who has signed at each place of the call, and that every signature is `Good`
while its proof lasts. None of the three properties is inductive: a signature
made after the build has to be good for what the build decided long before, and a
draft that is run again, or a resolve tried again, carries what an earlier one
left. `Follows` says what the resolver may have left: the parties and withdrawals
as they were, the payment as it was or one the balance was good for. The members
of a multisig can be put in order because any injective sequence of numbers can
(`Sorted`, by the least element of what cannot), and the earliest bound exists
(`Earliest`).

### The reads (`ReadProofs`)

`ReadsInv` says of the requests in flight that each is `Good`, as the tier has it,
and belongs to the read under way: to the one call of a single read or to a chunk
that was asked for (`OfTheRead`); and that a failure it has ended with is one the
node told of. `AnswersAreTheNodes` alone is not inductive: a batch answers long
after its chunks did. `BatchKept` says that every chunk asked for has an answer for
each of its ids or is still being asked, and every answer kept is the node's;
`unique` is shown to keep a spelling of each object (`Firsts`), and `chunksOf` to
cut the list into chunks that leave out none (`Chunks`). So when nothing is in flight
any more every id has its answer, and one object has one. `StreamKept` says where a
stream is: what it gave out is in order and up to its cursor, with everything
held throughout, although things come and go on either side.

### The write side: folds, failures, tests, receipts (`WriteProofs`)

*Folds.* A plan projects the balance over its batches: `Projects` is a function
with one value before each batch, which every batch of SUI changes by what its
coins are worth less its budget. The plan is made group by group, each of which
adds a batch at the end (`OneMoreBatch`) or is skipped, of coins no earlier group
holds (`Apart`), so it is `Planned`; that the sort lists each coin once and the
groups share none is `SortedCoins` and `GroupsOfCoins`. `IInv` then says that, so
long as nobody else spends, the purse has the coins of the batches to come and the
balance is at least what was projected before the next one: a batch may cost less
than its budget, never more. What a batch left to the resolver costs is not
bounded by the plan, which is why those come last (`InTurn`).

*Failures.* A call marks the value it reads in one of the code's two sets, and each
set has a value only once (`Marked`); a call that waits without a mark waits for a
line, which marks (`Nested`). So, where no `toString` calls back (`Quiet`), every call but the
top two has a mark of its own or the call above it is a line that has: three kinds
for each value, whence `CallsAreFew` has the bound `3 * Cardinality(Error) + 2` on the
depth, and calls find room on the stack (`CallsFindRoom`). That what is told is told
alike the next time compares two executions: every step is a function of the moment before
it (`StepIsAfter`), so two courses from the same call agree (`RunsAgree`), and
`Remembered` says that what was returned ended a course. `OfCause` follows the line
of a cause from where it is said to where the line of its failure is made, on
a stack that is never full so soon (`Deep`).

*Tests.* The properties read the log of what the test put, the client reads its
maps. `SInv` says each map entry is the last log entry about it (`LastPut`, `LastSet`,
`LastDeposited`, `LastServed`), whatever the spellings, that a script's counter is the
number of answers since it was put in force (`ScriptInForce`), and that every
earlier answer was `InItsTurn`, which an `Append` cannot undo.

*Receipts.* `RInv` says where everything is between two commands (`Placed`), which
cap governs which package (`Governed`), and that what the caller has in hand is the
node's changes, each as `partialChange` leaves it (`Handed`). The rest is about the
accessors: what a change says of each id (`ChangeIs`), in full or reduced, and that
`ofType` lists the events of a type in order, each once (`OfTypeListed`).

### Only model-checked

The type invariants of `MCReads` and `MCWrites` as wholes: they are conjunctions
of which `ReadTypeOK`, `RunTypeOK` and `FoldTypeOK` are theorems; the types of
`Tail` and `SuiReads` are part of the inductive invariants (`Walk`, `ReadsTyped`),
without the bounds of the runs. Out of
the prover's reach and left to TLC: liveness under fairness (`HiddenIsTransient`,
`SettlesForGood`, `EveryCallAnswers`, `BoundedReadsEnd`, `TailCatchesUp`) and anything
with `ENABLED`. The theorems of a component are about its own specification
(`ReadSpec`, `TailSpec`, `ReadsSpec`, `RunSpec`, `FoldSpec`, `FailuresSpec`,
`ScriptedSpec`, `ReceiptsSpec`); `MCReads` and `MCWrites` run them next to others, one
at a time. The conditions of `Trusted` are hypotheses; that each is needed is
TLC's word.

## Not modelled

* Time. The timestamp half of the expiry rule (`SubmitConfig.validFor`, refused
  by today's nodes), the lengths of timeouts and back-offs: a timer may fire at
  any moment it is running.
* Which objects a run pins: `Submission` has the pinned versions, `SenderLock`
  the contention over gas coins; in `Build` and `Run` a coin payment is always
  good. What becomes of bytes once sent is `Submission`'s.
* A validity window the recipe sets itself may be closed or too wide: the code
  does not read it, and `SentToBeAccepted` says nothing of it. Neither does the
  code ask whether an account still lists its own key.
* `foldCoins` over a plan the caller hands in, which it checks for its owner and
  then runs like its own; batches whose gas is left to the resolver.
* The signature schemes, key parsing and the proofs of zkLogin (calls of the
  SDK); `SignerKeys.ts`; verification of personal messages, which takes the path
  of transactions.
* Field codecs and `schemas.ts`'s Move values; the wording of errors; causes
  encoded by a schema's own codec; a taxonomy value whose own fields are getters.
* `SuiGraphQL.ts` (a tag for the SDK's client), metrics and spans, the entry
  points, the examples and `scripts/llms.ts`: they decide nothing.
* A node that answers for a foreign digest is the ambiguous answer `unanswered`
  and, in a recovery, `readFails`.
* `LedgerNode` is one node: over a load balancer of nodes of different heights
  `tailOf` skips what the comment at `Sui.ts:201` says it may.

## Plan

The components are modelled and each safety and action property that a run checks
is a theorem, the two joint type invariants apart. What would come next:

1. Liveness by hand: rank functions for `SettlesForGood` and `TailCatchesUp`, whose
   steps the provers could take even if the fairness stays with TLC.
2. The timestamp half of expiry (`validFor`), once nodes accept it: a clock per node
   beside its epoch, and `expiryClosed` over both.
3. The payment a reused `Transaction` keeps (`Tx.ts:1096`) and the listing by
   affected address without a timeout (`Sui.ts:1624`): the two hazards without a
   property, each of which needs the code to say first what it promises.
