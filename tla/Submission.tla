----------------------------- MODULE Submission -----------------------------
(***************************************************************************)
(* The submission lifecycle of services/Tx.ts: submit, submitVia, resubmit,*)
(* reconcile and reconcileAll in several processes over one journal.       *)
(*                                                                         *)
(* Txs are the transactions one caller signs for one intent, in order: it  *)
(* signs the next one only when the library has told it that the last was  *)
(* not applied (the retry idiom of DESIGN.md section 6).                   *)
(*                                                                         *)
(* A step ends where the code awaits: one read of a node, one send, one    *)
(* journal call.  The journal is a map with atomic put and get; what its   *)
(* durable form does between its store calls is module JournalStore.       *)
(***************************************************************************)
EXTENDS Chain

CONSTANTS
  Procs,            \* processes (fibers) using the library
  Foreign,          \* those whose Sui layer is on another chain
  Calls,            \* the functions each process calls
  RetriedAfter,     \* the functions whose failure the caller retries on
  SubmitAgain,      \* whether a caller hands the same bytes to submit twice
  Expiration,       \* SubmitConfig.expiration
  ExpiryEvidence,   \* SubmitConfig.expiryEvidence
  HistoryReported,  \* whether the transport reports lowestAvailableCheckpoint
  ResubmitAttempts, \* SubmitConfig.resubmitAttempts
  LockConflictRechecks, \* LOCK_CONFLICT_RECHECKS
  FaultKinds,       \* what can fail: see FaultKind
  MaxFaults         \* bound: how many of those happen

Operations == {"submit", "submitVia", "resubmit", "reconcile",
               "reconcileDigest", "sweep", "sweepResend"}

(* A process dies, a read of a node fails, a journal call before the answer *)
(* fails, the journal write that records the answer fails.                  *)
FaultKind == {"crash", "read", "journal", "settled"}

ASSUME ForeignAreProcs == Foreign \subseteq Procs
ASSUME CallsAreOperations == Calls \in [Procs -> SUBSET Operations]
ASSUME ExpirationIsOne == Expiration \in {"validDuring", "epoch", "none"}
ASSUME ExpiryEvidenceIsOne == ExpiryEvidence \in {"epochThenMiss", "never"}
ASSUME CountsAreNatural ==
  /\ ResubmitAttempts \in Nat \ {0}
  /\ LockConflictRechecks \in Nat
  /\ MaxFaults \in Nat

ASSUME FaultsAreFaults == FaultKinds \subseteq FaultKind

VARIABLES
  journal,  \* the journal's entry tag for each digest
  st,       \* each process: its program counter and the locals of its call
  handed,   \* transactions handed to submit or submitVia
  released, \* transactions the caller was told were not applied
  faults    \* faults so far, against MaxFaults

network == <<chain, wire, bytes, nodes>>
vars == <<epoch, wire, bytes, ran, failed, ranAt, took, object, lamport,
          view, dropped, covers, journal, st, handed, released, faults>>

-----------------------------------------------------------------------------
(* Journal entries and answers.  NotApplied is named by its evidence.       *)

UnresolvedTags == {"Signed", "Unknown"}

NotAppliedEvidence == {"expired", "inputConsumed", "refused"}

JournalTag == {"Absent"} \cup UnresolvedTags \cup {"Executed", "Failed"}
              \cup NotAppliedEvidence

Answer == {"none", "Executed", "Failed", "Unknown", "JournalError"}
          \cup NotAppliedEvidence

(* SuiError.outcome of what a call ends with.  A refused submit fails with  *)
(* the TransportError it is, which the taxonomy calls not applied too.      *)
outcome(answer) ==
  CASE answer \in {"Executed", "Failed"} -> "applied"
    [] answer = "Unknown" -> "unknown"
    [] OTHER -> "not_applied"

Receipt(t) == IF t \in failed THEN "Failed" ELSE "Executed"

Idle == [pc |-> "idle", op |-> "none", tx |-> NoTx, queue |-> {},
         resent |-> FALSE, attempts |-> 0, reached |-> FALSE, rechecks |-> 0,
         expired |-> FALSE, todo |-> {}, asked |-> {}, by |-> NoTx,
         consumed |-> FALSE, answer |-> "none"]

Reading == {"recover", "closed1", "lookup2", "closed2", "lookup3", "inputs",
            "effects", "lookup4", "weigh"}

Pc == Reading \cup {"idle", "journal", "execute", "answer", "relay", "reply",
                    "settled", "held", "return", "consult", "window"}

Local == [pc : Pc, op : Operations \cup {"none"}, tx : Txs \cup {NoTx},
          queue : SUBSET Txs, resent : BOOLEAN, attempts : 0..ResubmitAttempts,
          reached : BOOLEAN, rechecks : 0..LockConflictRechecks,
          expired : BOOLEAN, todo : SUBSET Objects, asked : SUBSET Objects,
          by : Digest \cup {NoTx}, consumed : BOOLEAN, answer : Answer]

TypeOK ==
  /\ ChainTypeOK
  /\ journal \in [Txs -> JournalTag]
  /\ st \in [Procs -> Local]
  /\ handed \subseteq Txs
  /\ released \subseteq Txs
  /\ faults \in 0..MaxFaults

Init ==
  /\ ChainInit
  /\ journal = [t \in Txs |-> "Absent"]
  /\ st = [p \in Procs |-> Idle]
  /\ handed = {}
  /\ released = {}
  /\ faults = 0

-----------------------------------------------------------------------------
(* Moving a process.                                                        *)

Move(p, r) == st' = [st EXCEPT ![p] = r]

(* Only the process moves: no journal write, no send.                       *)
Only(p, r) == Move(p, r) /\ UNCHANGED <<network, journal, handed, released>>

NoFault == UNCHANGED faults

Fault(kind) ==
  /\ kind \in FaultKinds
  /\ faults < MaxFaults
  /\ faults' = faults + 1

(* A round of recover starts: what the last one read, and what the sends    *)
(* before it answered, is forgotten.                                        *)
Recover(r) == [Idle EXCEPT !.pc = "recover", !.op = r.op, !.tx = r.tx,
                           !.queue = r.queue, !.resent = r.resent,
                           !.rechecks = r.rechecks]

(* The call has its answer, and still has to record it (or not) and return. *)
Ends(r, pc, answer) ==
  [Idle EXCEPT !.pc = pc, !.op = r.op, !.tx = r.tx, !.queue = r.queue,
               !.resent = r.resent, !.answer = answer]

Inputs(r) == [r EXCEPT !.pc = "inputs", !.todo = Pins[r.tx]]

(* A reconcile round ends.  settle runs another while the answer is unknown *)
(* and rechecks are left, then records; reconcile records if held.          *)
Conclude(r, answer) ==
  IF answer = "Unknown" /\ r.rechecks > 0
    THEN Recover([r EXCEPT !.rechecks = @ - 1])
    ELSE Ends(r, IF r.op \in {"reconcile", "reconcileDigest"}
                   THEN "held" ELSE "settled", answer)

-----------------------------------------------------------------------------
(* What the caller does.                                                    *)

Window(e) ==
  CASE Expiration = "validDuring" -> [from |-> e, until |-> e + 1]
    [] Expiration = "epoch" -> [from |-> 0, until |-> e]
    [] OTHER -> [from |-> 0, until |-> MaxEpoch]

(* build and sign: input resolution pins what a node shows, and the default *)
(* expiration bounds the window from the epoch it shows.  Bound: only       *)
(* windows that can still close by MaxEpoch.                                *)
Build(t) ==
  /\ bytes[t] = Unsigned
  /\ \A before \in Txs : before < t => before \in released
  /\ \E n \in Nodes :
       /\ \A o \in Pins[t] : view[n].object[o].live
       /\ Expiration = "none" \/ Window(view[n].epoch).until < MaxEpoch
       /\ bytes' = [bytes EXCEPT ![t] =
                      [from |-> Window(view[n].epoch).from,
                       until |-> Window(view[n].epoch).until,
                       pinned |-> [o \in Objects |-> view[n].object[o].version]]]
  /\ NoFault
  /\ UNCHANGED <<chain, wire, nodes, journal, st, handed, released>>

Begin(p, name, r) ==
  /\ st[p].pc = "idle"
  /\ name \in Calls[p]
  /\ Move(p, [r EXCEPT !.op = name])
  /\ NoFault
  /\ UNCHANGED <<network, journal, released>>

Submit(p, t) ==
  /\ bytes[t] # Unsigned
  /\ t \notin handed \/ (SubmitAgain /\ t \notin released)
  /\ \E name \in {"submit", "submitVia"} :
       Begin(p, name, [Idle EXCEPT !.pc = "journal", !.tx = t])
  /\ handed' = handed \cup {t}

Resubmit(p, t) ==
  /\ t \in handed \ released
  /\ Begin(p, "resubmit", [Idle EXCEPT !.pc = "consult", !.tx = t])
  /\ UNCHANGED handed

Reconcile(p, t) ==
  /\ t \in handed
  /\ \E name \in {"reconcile", "reconcileDigest"} :
       Begin(p, name, [Idle EXCEPT !.pc = "recover", !.tx = t])
  /\ UNCHANGED handed

(* reconcileAll settles the entries of a sweep one after the other.         *)
NextEntry(r) ==
  IF r.queue = {} THEN {Idle}
  ELSE {[Idle EXCEPT !.pc = "recover", !.op = r.op, !.tx = t,
                     !.queue = r.queue \ {t}] : t \in r.queue}

ReconcileAll(p) ==
  /\ \E name \in {"sweep", "sweepResend"} :
       \E r \in NextEntry([Idle EXCEPT !.op = name, !.queue =
                  {t \in Txs : journal[t] \in UnresolvedTags}]) :
         r # Idle /\ Begin(p, name, r)
  /\ UNCHANGED handed

-----------------------------------------------------------------------------
(* send and submitVia                                                       *)

(* Mutant: the Signed write does not happen before the first send.          *)
journalSignedLate(p) ==
  /\ st[p].pc = "journal"
  /\ Only(p, [st[p] EXCEPT !.pc =
                IF st[p].op = "submitVia" THEN "relay" ELSE "execute"])
  /\ NoFault

journalSigned(p) ==
  /\ st[p].pc = "journal"
  /\ journal' = [journal EXCEPT ![st[p].tx] = "Signed"]
  /\ Move(p, [st[p] EXCEPT !.pc =
                IF st[p].op = "submitVia" THEN "relay" ELSE "execute"])
  /\ NoFault
  /\ UNCHANGED <<network, handed, released>>

(* Nothing is sent when the write fails.                                    *)
journalSignedFails(p) ==
  /\ st[p].pc = "journal"
  /\ Fault("journal")
  /\ Only(p, Ends(st[p], "return", "JournalError"))

(* One send of the bytes: they may reach the network or be lost.            *)
Send(p, from, to) ==
  /\ st[p].pc = from
  /\ \E reached \in BOOLEAN :
       /\ reached => p \notin Foreign
       /\ wire' = IF reached THEN wire \cup {st[p].tx} ELSE wire
       /\ Move(p, [st[p] EXCEPT !.pc = to, !.attempts = @ + 1,
                                !.reached = reached])
  /\ NoFault
  /\ UNCHANGED <<chain, bytes, nodes, journal, handed, released>>

(* Mutant: the attempt is not counted.                                      *)
executeTransactionUncounted(p) ==
  /\ st[p].pc = "execute"
  /\ \E reached \in BOOLEAN :
       /\ reached => p \notin Foreign
       /\ wire' = IF reached THEN wire \cup {st[p].tx} ELSE wire
       /\ Move(p, [st[p] EXCEPT !.pc = "answer", !.reached = reached])
  /\ NoFault
  /\ UNCHANGED <<chain, bytes, nodes, journal, handed, released>>

executeTransaction(p) == Send(p, "execute", "answer")

relay(p) == Send(p, "relay", "reply")

(* The answer (the reply) carries a receipt for this digest.                *)
answered(p) ==
  /\ st[p].pc \in {"answer", "reply"}
  /\ st[p].reached
  /\ st[p].tx \in ran
  /\ Only(p, Ends(st[p], "settled", Receipt(st[p].tx)))
  /\ NoFault

(* Mutant: one attempt too many.                                            *)
retriedPastLimit(p) ==
  /\ st[p].pc = "answer"
  /\ st[p].attempts <= ResubmitAttempts
  /\ Only(p, [st[p] EXCEPT !.pc = "execute"])
  /\ NoFault

(* A timeout or a retryable failure: the identical bytes again.             *)
retried(p) ==
  /\ st[p].pc = "answer"
  /\ st[p].attempts < ResubmitAttempts
  /\ Only(p, [st[p] EXCEPT !.pc = "execute"])
  /\ NoFault

(* Mutant: a refusal after a lost send is taken for a first refusal.        *)
refusedAnyAttempt(p) ==
  /\ \/ st[p].pc = "answer"
     \/ st[p].pc = "reply"
  /\ ~st[p].reached
  /\ Only(p, IF ~st[p].resent \/ st[p].pc = "reply"
               THEN Ends(st[p], "settled", "refused")
               ELSE Recover(st[p]))
  /\ NoFault

(* INVALID_ARGUMENT, or a relay's declared "not_applied": this send did not *)
(* go through.  A first send of submit, and any submitVia, ends here; after *)
(* an earlier attempt or an earlier call the refusal reconciles.            *)
refused(p) ==
  /\ \/ st[p].pc = "answer"
     \/ st[p].pc = "reply"
  /\ ~st[p].reached
  /\ Only(p, IF (~st[p].resent /\ st[p].attempts = 1) \/ st[p].pc = "reply"
               THEN Ends(st[p], "settled", "refused")
               ELSE Recover(st[p]))
  /\ NoFault

(* Another transaction holds a lock on a pinned object.                     *)
lockConflict(p) ==
  /\ st[p].pc = "answer"
  /\ Pins[st[p].tx] # {}
  /\ Only(p, Recover([st[p] EXCEPT !.rechecks = LockConflictRechecks]))
  /\ NoFault

(* Retries exhausted, an unreadable answer, an answer for another digest, a *)
(* reply without a receipt: ask the chain.                                  *)
unanswered(p) ==
  /\ st[p].pc \in {"answer", "reply"}
  /\ Only(p, Recover(st[p]))
  /\ NoFault

-----------------------------------------------------------------------------
(* resubmit and resend                                                      *)

consult(p) ==
  /\ st[p].pc = "consult"
  /\ LET held == journal[st[p].tx] IN
     Only(p, CASE held \in {"Executed", "Failed"} ->
                    Recover([st[p] EXCEPT !.op = "reconcile"])
               [] held \in NotAppliedEvidence ->
                    Ends(st[p], "return", held)
               [] OTHER -> [st[p] EXCEPT !.pc = "window"])
  /\ NoFault

consultFails(p) ==
  /\ st[p].pc = "consult"
  /\ Fault("journal")
  /\ Only(p, Ends(st[p], "return", "JournalError"))

(* What a process sees of the chain its Sui layer is on.                    *)
Finds(p, n, t) == p \notin Foreign /\ t \in Served(n)

EpochAt(p, n) == IF p \in Foreign THEN MaxEpoch ELSE view[n].epoch

ObjectAt(p, n, o) ==
  IF p \in Foreign THEN [version |-> 0, by |-> NoTx, live |-> FALSE]
                   ELSE view[n].object[o]

expiryClosed(p, n) == EpochAt(p, n) > bytes[st[p].tx].until

(* resend: bytes of another chain or past their window are reconciled.      *)
resend(p) ==
  /\ st[p].pc = "window"
  /\ \E n \in Nodes :
       Only(p, IF p \in Foreign \/ expiryClosed(p, n)
                 THEN Recover(st[p])
                 ELSE [st[p] EXCEPT !.pc = "journal", !.resent = TRUE,
                                    !.attempts = 0])
  /\ NoFault

(* An epoch that cannot be read is no reason not to send.                   *)
resendFails(p) ==
  /\ st[p].pc = "window"
  /\ p \notin Foreign
  /\ Fault("read")
  /\ Only(p, [st[p] EXCEPT !.pc = "journal", !.resent = TRUE, !.attempts = 0])

-----------------------------------------------------------------------------
(* recover                                                                  *)

HasBytes(p) == st[p].op # "reconcileDigest"

(* Bytes built for another chain: nothing this node says is evidence.       *)
chainMismatch(p) ==
  /\ st[p].pc = "recover"
  /\ HasBytes(p) /\ p \in Foreign
  /\ Only(p, Conclude(st[p], "Unknown"))
  /\ NoFault

(* What a miss at each lookup leads to.                                     *)
Miss(p) ==
  CASE st[p].pc = "recover" ->
         IF ~HasBytes(p) THEN Conclude(st[p], "Unknown")
         ELSE IF ExpiryEvidence = "epochThenMiss"
           THEN [st[p] EXCEPT !.pc = "closed1"] ELSE Inputs(st[p])
    [] st[p].pc = "lookup2" -> [st[p] EXCEPT !.pc = "closed2"]
    [] st[p].pc = "lookup3" -> Inputs([st[p] EXCEPT !.expired = TRUE])
    [] OTHER -> Conclude(st[p], "Unknown")

(* Mutant: the chain guard is left out.                                     *)
lookupAnyChain(p) ==
  /\ st[p].pc \in {"recover", "lookup2", "lookup3", "lookup4"}
  /\ \E n \in Nodes :
       Only(p, IF Finds(p, n, st[p].tx)
                 THEN Conclude(st[p], Receipt(st[p].tx)) ELSE Miss(p))
  /\ NoFault

lookup(p) ==
  /\ st[p].pc \in {"recover", "lookup2", "lookup3", "lookup4"}
  /\ st[p].pc = "recover" => (~HasBytes(p) \/ p \notin Foreign)
  /\ \E n \in Nodes :
       Only(p, IF Finds(p, n, st[p].tx)
                 THEN Conclude(st[p], Receipt(st[p].tx)) ELSE Miss(p))
  /\ NoFault

(* Mutant: the miss before the window was seen closed is good enough.       *)
windowClosedAfterMiss(p) ==
  /\ st[p].pc \in {"closed1", "closed2"}
  /\ \E n \in Nodes :
       Only(p, IF ~expiryClosed(p, n) THEN Inputs(st[p])
               ELSE Inputs([st[p] EXCEPT !.expired = TRUE]))
  /\ NoFault

windowClosed(p) ==
  /\ st[p].pc \in {"closed1", "closed2"}
  /\ \E n \in Nodes :
       Only(p, IF ~expiryClosed(p, n) THEN Inputs(st[p])
               ELSE [st[p] EXCEPT !.pc = IF st[p].pc = "closed1"
                                           THEN "lookup2" ELSE "lookup3"])
  /\ NoFault

(* inputEvidence: each pinned reference that moved on is followed to the    *)
(* transaction that last mutated it; one that did not move, is gone or is   *)
(* not explained says nothing.                                              *)
inputState(p) ==
  /\ st[p].pc = "inputs"
  /\ \E o \in st[p].todo, n \in Nodes :
       LET seen == ObjectAt(p, n, o)
           rest == [st[p] EXCEPT !.todo = @ \ {o}]
       IN Only(p,
            IF ~seen.live \/ seen.version <= bytes[st[p].tx].pinned[o]
              THEN rest
            ELSE IF seen.by = st[p].tx THEN [rest EXCEPT !.pc = "lookup4", !.todo = {}]
            ELSE [rest EXCEPT !.pc = "effects", !.asked = {o}, !.by = seen.by])
  /\ NoFault

(* Mutant: an input that merely advanced is taken for consumed.             *)
consumedVersionAdvanced(p) ==
  /\ st[p].pc = "effects"
  /\ \E n \in Nodes :
       LET spent == \A o \in st[p].asked :
                      Finds(p, n, st[p].by)
                        /\ took[st[p].by][o] >= bytes[st[p].tx].pinned[o]
       IN Only(p, [st[p] EXCEPT !.pc = IF spent THEN "weigh" ELSE "inputs",
                                !.consumed = spent, !.asked = {}, !.by = NoTx,
                                !.todo = IF spent THEN {} ELSE @])
  /\ NoFault

(* consumedVersionOf: ConsumedByOther only when that transaction's effects  *)
(* took exactly the pinned version.                                         *)
consumedVersionOf(p) ==
  /\ st[p].pc = "effects"
  /\ \E n \in Nodes :
       LET spent == \A o \in st[p].asked :
                      Finds(p, n, st[p].by)
                        /\ took[st[p].by][o] = bytes[st[p].tx].pinned[o]
       IN Only(p, [st[p] EXCEPT !.pc = IF spent THEN "weigh" ELSE "inputs",
                                !.consumed = spent, !.asked = {}, !.by = NoTx,
                                !.todo = IF spent THEN {} ELSE @])
  /\ NoFault

noEvidence(p) ==
  /\ st[p].pc = "inputs"
  /\ st[p].todo = {}
  /\ Only(p, [st[p] EXCEPT !.pc = "weigh"])
  /\ NoFault

(* historyOf: a miss counts only on a node that still holds the window, or  *)
(* that cannot say.                                                         *)
Covered(p, n) ==
  ~HistoryReported \/ covers[n] = 0 \/ covers[n] <= bytes[st[p].tx].from

(* Mutant: the node's history is not asked for.                             *)
weighWithoutHistory(p) ==
  /\ st[p].pc = "weigh"
  /\ Only(p, Conclude(st[p], IF st[p].expired THEN "expired"
                             ELSE IF st[p].consumed THEN "inputConsumed"
                             ELSE "Unknown"))
  /\ NoFault

weigh(p) ==
  /\ st[p].pc = "weigh"
  /\ \E n \in Nodes :
       Only(p, Conclude(st[p], IF st[p].expired /\ Covered(p, n) THEN "expired"
                               ELSE IF st[p].consumed THEN "inputConsumed"
                               ELSE "Unknown"))
  /\ NoFault

(* A recovery read that fails says nothing: SubmissionUnknown.              *)
readFails(p) ==
  /\ st[p].pc \in Reading
  /\ st[p].pc = "weigh" => st[p].expired
  /\ Fault("read")
  /\ Only(p, Conclude(st[p], "Unknown"))

-----------------------------------------------------------------------------
(* Recording and returning                                                  *)

(* Mutant: the journal is not asked whether it holds the entry unresolved.  *)
recordIfHeldAlways(p) ==
  /\ st[p].pc = "held"
  /\ Only(p, [st[p] EXCEPT !.pc = "settled"])
  /\ NoFault

(* recordIfHeld: only a terminal answer, only over an unresolved entry.     *)
recordIfHeld(p) ==
  /\ st[p].pc = "held"
  /\ Only(p, [st[p] EXCEPT !.pc =
                IF st[p].answer # "Unknown" /\ journal[st[p].tx] \in UnresolvedTags
                  THEN "settled" ELSE "return"])
  /\ NoFault

recordIfHeldFails(p) ==
  /\ st[p].pc = "held"
  /\ Fault("settled")
  /\ Only(p, [st[p] EXCEPT !.pc = "return"])

(* Mutant: an unknown answer is not written back (record without its last   *)
(* case), and neither is a proof that the transaction never applied.        *)
journalSettledReceiptOnly(p) ==
  /\ st[p].pc = "settled"
  /\ journal' = IF st[p].answer \in {"Executed", "Failed"}
                  THEN [journal EXCEPT ![st[p].tx] = st[p].answer] ELSE journal
  /\ Move(p, [st[p] EXCEPT !.pc = "return"])
  /\ NoFault
  /\ UNCHANGED <<network, handed, released>>

(* record, and the write that follows an execute answer.                    *)
journalSettled(p) ==
  /\ st[p].pc = "settled"
  /\ journal' = [journal EXCEPT ![st[p].tx] = st[p].answer]
  /\ Move(p, [st[p] EXCEPT !.pc = "return"])
  /\ NoFault
  /\ UNCHANGED <<network, handed, released>>

(* A write that fails is logged and the answer stands.                      *)
journalSettledFails(p) ==
  /\ st[p].pc = "settled"
  /\ Fault("settled")
  /\ Only(p, [st[p] EXCEPT !.pc = "return"])

(* The entry a sweep could not re-send is as unknown as it was.             *)
Told(r) ==
  IF r.op = "sweepResend" /\ r.answer = "JournalError" THEN "Unknown" ELSE r.answer

(* The call answers.  reconcileAll({ resubmit }) re-sends what is still     *)
(* unknown, then goes on to its next entry.                                 *)
Return(p) ==
  /\ st[p].pc = "return"
  /\ LET told == Told(st[p]) IN
     /\ released' = IF outcome(told) = "not_applied" /\ st[p].op \in RetriedAfter
                      THEN released \cup {st[p].tx} ELSE released
     /\ IF st[p].op = "sweepResend" /\ ~st[p].resent /\ told = "Unknown"
          THEN Move(p, [st[p] EXCEPT !.pc = "window", !.resent = TRUE])
          ELSE \E r \in NextEntry(st[p]) : Move(p, r)
  /\ NoFault
  /\ UNCHANGED <<network, journal, handed>>

(* The process dies, or the call is interrupted.                            *)
Crash(p) ==
  /\ st[p].pc # "idle"
  /\ Fault("crash")
  /\ Only(p, Idle)

-----------------------------------------------------------------------------

Work(p) ==
  \/ journalSigned(p) \/ executeTransaction(p) \/ relay(p)
  \/ answered(p) \/ retried(p) \/ refused(p) \/ lockConflict(p) \/ unanswered(p)
  \/ consult(p) \/ resend(p)
  \/ chainMismatch(p) \/ lookup(p) \/ windowClosed(p)
  \/ inputState(p) \/ consumedVersionOf(p) \/ noEvidence(p) \/ weigh(p)
  \/ recordIfHeld(p) \/ journalSettled(p) \/ Return(p)

Fails(p) ==
  \/ journalSignedFails(p) \/ consultFails(p) \/ resendFails(p)
  \/ readFails(p) \/ recordIfHeldFails(p) \/ journalSettledFails(p)
  \/ Crash(p)

Call(p) ==
  \/ \E t \in Txs : Submit(p, t) \/ Resubmit(p, t) \/ Reconcile(p, t)
  \/ ReconcileAll(p)

Network == ChainNext /\ UNCHANGED <<journal, st, handed, released, faults>>

Next ==
  \/ Network
  \/ \E t \in Txs : Build(t)
  \/ \E p \in Procs : Call(p) \/ Work(p) \/ Fails(p)

Spec == Init /\ [][Next]_vars

(* Fibers run, epochs change, nodes index, and somebody keeps calling       *)
(* reconcileAll (what a service does at every start).                       *)
Fairness ==
  /\ WF_vars(NextEpoch /\ UNCHANGED <<journal, st, handed, released, faults>>)
  /\ \A n \in Nodes :
       WF_vars(CatchUp(n) /\ UNCHANGED <<journal, st, handed, released, faults>>)
  /\ \A p \in Procs : WF_vars(Work(p)) /\ WF_vars(ReconcileAll(p))

FairSpec == Spec /\ Fairness

-----------------------------------------------------------------------------
(* Properties                                                               *)

(* Whatever the journal says has happened: Executed and Failed are what the *)
(* chain did, and a transaction recorded as expired, inputConsumed or       *)
(* refused has not executed -- then or at any later time.                   *)
JournalTruthful ==
  \A t \in Txs :
    /\ journal[t] = "Executed" => t \in ran \ failed
    /\ journal[t] = "Failed" => t \in failed
    /\ journal[t] \in NotAppliedEvidence => t \notin ran

(* A caller that was told "not applied", by any call, is never wrong: the   *)
(* transaction has not executed and never does.                             *)
ReleasedNeverRan == released \cap ran = {}

(* The journal and the callers are told the truth: what is recorded as      *)
(* settled has settled so, and what a caller was told to forget never runs, *)
(* through lost sends, refusals of a second attempt, lagging nodes and      *)
(* reads that fail.                                                         *)
NobodyIsMisled == JournalTruthful /\ ReleasedNeverRan

(* The retry idiom executes the caller's intent at most once, whatever the  *)
(* sends, crashes, re-sends and reconciles in between.                      *)
AtMostOnce == \A t, u \in Txs \cap ran : t = u

(* Bytes that may be on the wire have an entry: a process that dies can     *)
(* find them again.                                                         *)
SentIsJournalled == \A t \in wire : journal[t] # "Absent"

(* With bounded faults and reconcileAll called again and again, every       *)
(* entry is settled in the end and stays settled.                           *)
SettlesForGood == <>[](\A t \in Txs : journal[t] \notin UnresolvedTags)

(* Every call answers in the end: attempts, rechecks and sweeps are bounded. *)
EveryCallAnswers == \A p \in Procs : st[p].pc # "idle" ~> st[p].pc = "idle"

(* JournalEntry: Executed, Failed and NotApplied are terminal.  One process *)
(* never rewrites a settled entry, whatever it calls and however it crashes.*)
SettledStays ==
  [][\A t \in Txs : journal[t] \notin {"Absent"} \cup UnresolvedTags
                     => journal'[t] = journal[t]]_vars

(* What the caller sees is the abstract specification Intent: at most one   *)
(* of its transactions is applied, and none it was told to forget.          *)
I == INSTANCE Intent WITH started <- {t \in Txs : bytes[t] # Unsigned},
                          applied <- ran \cap Txs,
                          closed <- released

ImplementsIntent == I!Spec

(* README: JournalError, "the journal write before the first send", is      *)
(* not_applied: a transaction it is answered for has not executed.          *)
JournalErrorBeforeFirstSend ==
  \A p \in Procs : (st[p].pc = "return" /\ st[p].answer = "JournalError"
                     /\ outcome(Told(st[p])) = "not_applied") => st[p].tx \notin ran

(* JournalEntry: NotApplied, refused included, is "proven never to have     *)
(* applied and never will".                                                 *)
NotAppliedNeverWill ==
  \A t \in Txs : journal[t] \in NotAppliedEvidence => t \notin ran
=============================================================================
