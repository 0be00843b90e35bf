------------------------------ MODULE ReadTier ------------------------------
(***************************************************************************)
(* The read tier of services/SuiCore.ts: what becomes of one call of the   *)
(* SDK, from the thrown value's class (mapSdkError) to the attempt's        *)
(* timeout (attempt) and the retry policy (readPolicy).                     *)
(*                                                                         *)
(* A slot is a call in flight; callers that ask for several things at once  *)
(* use several slots.  A node that does not answer is a node that takes no  *)
(* step: nothing obliges it to answer or to throw.                          *)
(***************************************************************************)
EXTENDS Naturals, Sequences, FiniteSets

CONSTANTS
  Slot,             \* calls in flight
  Thrown,           \* what the SDK may throw: see Throwable
  MAX_READ_ATTEMPTS,
  bounded,          \* whether requestTimeout is finite
  readRetry         \* retries a custom schedule allows; NoSchedule when none is given

NoSchedule == "default"

ASSUME AttemptsPositive == MAX_READ_ATTEMPTS \in Nat \ {0}
ASSUME ScheduleIsCount == readRetry = NoSchedule \/ readRetry \in Nat

VARIABLE request

-----------------------------------------------------------------------------
(* The methods: how their failures are narrowed and how they are called.    *)

ObjectLookups == {"getObject", "getDynamicField", "getDynamicObjectField"}

TransactionLookups == {"getTransaction", "waitForTransaction"}

Sends == {"executeTransaction", "signAndExecuteTransaction"}

StateReads ==
  {"getObjects", "listOwnedObjects", "listCoins", "listDynamicFields",
   "getBalance", "listBalances", "getCoinMetadata"}

NodeReads == {"getObjectAtVersion", "getServiceInfo"}

LedgerReads == {"listTransactions", "listEvents"}

ChainReads ==
  {"getReferenceGasPrice", "getCurrentSystemState", "getProtocolConfig",
   "getChainIdentifier", "getMoveFunction", "verifyZkLoginSignature"}

NameReads ==
  {"resolveNameServiceAddress", "defaultNameServiceName", "mvr.resolvePackage",
   "mvr.resolveType", "mvr.resolve"}

PlainReads == StateReads \cup NodeReads \cup LedgerReads \cup ChainReads \cup NameReads

(* use hands the client to its caller; affectedListing is the use that      *)
(* Sui.ts wraps in the read policy.                                         *)
Uses == {"use", "affectedListing"}

Method ==
  ObjectLookups \cup TransactionLookups \cup Sends \cup PlainReads \cup Uses
    \cup {"simulateTransaction"}

(* An attempt is cut off: attempt wraps the reads, not the sends, not the   *)
(* wait for a transaction and not use.                                      *)
timed(m) == bounded /\ m \notin Sends \cup Uses \cup {"waitForTransaction"}

(* Mutant: every member takes the same path.                                *)
retriedAlways(m) == TRUE

(* readUnbounded retries the wait for a transaction as a read is retried;   *)
(* DESIGN.md:56 has readRetry not apply to it.                              *)
retried(m) == m \notin Sends \cup {"use"}

-----------------------------------------------------------------------------
(* What the SDK throws.  ours is FALSE for an error class of another copy   *)
(* of the SDK.                                                              *)

Statuses == {"UNAVAILABLE", "DEADLINE_EXCEEDED", "RESOURCE_EXHAUSTED", "INTERNAL",
             "UNKNOWN", "429", "5xx", "OUT_OF_RANGE", "NOT_FOUND",
             "UNIMPLEMENTED", "4xx", "5"}

RETRYABLE_GRPC_STATUSES ==
  {"UNAVAILABLE", "DEADLINE_EXCEEDED", "RESOURCE_EXHAUSTED", "INTERNAL", "UNKNOWN"}

(* A cause below another: one with a status (a timeout or an abort has      *)
(* DEADLINE_EXCEEDED), the TypeError of a fetch that failed, or anything.   *)
Cause == Statuses \cup {"TypeError", "other"}

Throwable ==
  [class : {"object"}, ours : BOOLEAN, reason : {"notFound", "deleted", "unknown"}]
    \cup [class : {"transaction"}, ours : BOOLEAN]
    \cup [class : {"simulation"}, ours : BOOLEAN, executionError : BOOLEAN,
          causes : Seq(Cause)]
    \cup [class : {"transport"}, cause : Cause]
    \cup [class : {"argument", "marked"}]

ASSUME ThrownIsThrowable == \A t \in Thrown : t \in Throwable

classifyTransportCause(cause) ==
  [status |-> IF cause \in Statuses THEN cause ELSE "none",
   retryable |-> cause \in RETRYABLE_GRPC_STATUSES \cup {"429", "5xx"}]

Failure(tag, retryable, status) ==
  [tag |-> tag, retryable |-> retryable, status |-> status]

TransportError(cause) ==
  LET classified == classifyTransportCause(cause)
  IN Failure("TransportError", classified.retryable, classified.status)

(* A caller's mistake or a marked value is thrown on, as a defect.          *)
transportError(thrown) ==
  CASE thrown.class = "transport" -> TransportError(thrown.cause)
    [] thrown.class \in {"argument", "marked"} -> Failure("defect", FALSE, "none")
    [] OTHER -> TransportError("other")

(* The first of four causes down the chain that says anything.              *)
transportCauseOf(causes) ==
  LET telling == {i \in 1..Len(causes) :
                    i <= 4 /\ (causes[i] \in Statuses \/ causes[i] = "TypeError")}
  IN IF telling = {} THEN {}
     ELSE LET first == causes[CHOOSE i \in telling : \A j \in telling : i <= j]
          IN {[status |-> classifyTransportCause(first).status,
               retryable |-> first = "TypeError"
                               \/ classifyTransportCause(first).retryable]}

(* Mutant: an error class of another copy of the SDK is not recognised.     *)
recognisedOurs(thrown) ==
  thrown.class \in {"object", "transaction", "simulation"} /\ thrown.ours

(* The class, or the shape of the class from another copy (objectErrorLike, *)
(* transactionErrorLike, simulationErrorLike), which always has it.         *)
recognised(thrown) == thrown.class \in {"object", "transaction", "simulation"}

mapSdkError(thrown) ==
  CASE ~recognised(thrown) -> transportError(thrown)
    [] thrown.class = "object" ->
         Failure(CASE thrown.reason = "notFound" -> "ObjectNotFound"
                   [] thrown.reason = "deleted" -> "ObjectDeleted"
                   [] OTHER -> "ObjectUnavailable", FALSE, "none")
    [] thrown.class = "transaction" -> Failure("TransactionNotFound", FALSE, "none")
    [] OTHER ->
         LET transport == IF thrown.executionError THEN {}
                          ELSE transportCauseOf(thrown.causes)
         IN IF transport = {} THEN Failure("SimulationFailed", FALSE, "none")
            ELSE LET found == CHOOSE t \in transport : TRUE
                 IN Failure("TransportError", found.retryable, found.status)

(* What a method's callers may meet: objectError, transactionError,         *)
(* simulationError, onlyTransportError, and use, which narrows nothing.     *)
Tags(m) ==
  CASE m \in ObjectLookups ->
         {"ObjectNotFound", "ObjectDeleted", "ObjectUnavailable"}
    [] m \in TransactionLookups -> {"TransactionNotFound"}
    [] m = "simulateTransaction" -> {"SimulationFailed"}
    [] m = "use" -> {"ObjectNotFound", "ObjectDeleted", "ObjectUnavailable",
                     "TransactionNotFound", "SimulationFailed"}
    [] OTHER -> {}

narrowed(m, thrown) ==
  LET error == mapSdkError(thrown)
  IN IF m \in PlainReads \cup Sends THEN transportError(thrown)
     ELSE IF error.tag \in Tags(m) \cup {"TransportError", "defect"} THEN error
     ELSE transportError(thrown)

(* Mutant: any failure of the read is an absence.                            *)
absentVersionAny(m, thrown) == m = "getObjectAtVersion" /\ thrown.class = "transport"

(* readObjectAtVersion: over gRPC, a node that does not serve the version    *)
(* has answered.                                                             *)
absentVersion(m, thrown) ==
  m = "getObjectAtVersion" /\ thrown.class = "transport"
    /\ thrown.cause \in {"NOT_FOUND", "5"}

-----------------------------------------------------------------------------
(* One call.                                                                *)

Answered == Failure("ok", FALSE, "none")

NoThrow == [class |-> "none"]

Idle == [method |-> "use", pc |-> "idle", attempt |-> 0, said |-> NoThrow,
         answer |-> Answered]

Pc == {"idle", "asked", "waiting", "done"}

Failures ==
  [tag : {"ok", "Absent", "defect", "TransportError", "ObjectNotFound", "ObjectDeleted",
          "ObjectUnavailable", "TransactionNotFound", "SimulationFailed"},
   retryable : BOOLEAN, status : Statuses \cup {"none"}]

ReadTypeOK ==
  \A s \in Slot :
    /\ request[s].method \in Method
    /\ request[s].pc \in Pc
    /\ request[s].attempt \in Nat
    /\ request[s].said \in Thrown \cup {NoThrow}
    /\ request[s].answer \in Failures

ReadInit == request = [s \in Slot |-> Idle]

Ask(s, m) ==
  /\ request[s].pc = "idle"
  /\ request' = [request EXCEPT ![s] =
       [method |-> m, pc |-> "asked", attempt |-> 1, said |-> NoThrow,
        answer |-> Answered]]

(* Mutant: any failure but a defect is asked again.                         *)
readPolicyAny(m, attempt, error) ==
  /\ retried(m)
  /\ error.tag # "defect"
  /\ IF readRetry = NoSchedule THEN attempt <= MAX_READ_ATTEMPTS - 1
     ELSE attempt <= readRetry

(* isRetryableRead, and what the schedule still allows: a custom one        *)
(* replaces the five attempts.                                              *)
readPolicy(m, attempt, error) ==
  /\ retried(m)
  /\ error.tag = "TransportError" /\ error.retryable
  /\ IF readRetry = NoSchedule THEN attempt <= MAX_READ_ATTEMPTS - 1
     ELSE attempt <= readRetry

Fails(s, error, said) ==
  LET again == readPolicy(request[s].method, request[s].attempt, error)
  IN request' = [request EXCEPT
       ![s].pc = IF again THEN "waiting" ELSE "done",
       ![s].said = IF again THEN NoThrow ELSE said,
       ![s].answer = error]

Answers(s) ==
  /\ request[s].pc = "asked"
  /\ request' = [request EXCEPT ![s].pc = "done", ![s].said = NoThrow,
                                ![s].answer = Answered]

Throws(s, thrown) ==
  /\ request[s].pc = "asked"
  /\ IF absentVersion(request[s].method, thrown)
     THEN request' = [request EXCEPT ![s].pc = "done", ![s].said = thrown,
                                     ![s].answer = Failure("Absent", FALSE, "none")]
     ELSE Fails(s, narrowed(request[s].method, thrown), thrown)

(* Mutant: an attempt after the first is not cut off.                       *)
TimesOutFirst(s) ==
  /\ request[s].pc = "asked" /\ timed(request[s].method)
  /\ request[s].attempt = 1
  /\ Fails(s, Failure("TransportError", TRUE, "DEADLINE_EXCEEDED"), NoThrow)

TimesOut(s) ==
  /\ request[s].pc = "asked" /\ timed(request[s].method)
  /\ Fails(s, Failure("TransportError", TRUE, "DEADLINE_EXCEEDED"), NoThrow)

(* The schedule's delay is over.                                            *)
Again(s) ==
  /\ request[s].pc = "waiting"
  /\ request' = [request EXCEPT ![s].pc = "asked", ![s].answer = Answered,
                                ![s].attempt = request[s].attempt + 1]

(* The caller has its answer, or is interrupted: the request is aborted.    *)
Release(s) ==
  /\ request[s].pc # "idle"
  /\ request' = [request EXCEPT ![s] = Idle]

ReadNext ==
  \E s \in Slot :
    \/ \E m \in Method : Ask(s, m)
    \/ Answers(s)
    \/ \E thrown \in Thrown : Throws(s, thrown)
    \/ TimesOut(s)
    \/ Again(s)
    \/ Release(s)

ReadSpec == ReadInit /\ [][ReadNext]_request

(* The client's timers fire; a node may be silent for ever.                 *)
ReadFairness == \A s \in Slot : WF_request(TimesOut(s) \/ Again(s))

-----------------------------------------------------------------------------
(* Properties.                                                              *)

(* A transaction is sent once per call of a sending method, whatever the     *)
(* node answers or fails to answer: only Tx.submit, which knows the digest,  *)
(* may send again.                                                           *)
SendsOnce ==
  \A s \in Slot : request[s].method \in Sends => request[s].attempt <= 1

(* A caller hears that something does not exist exactly when the SDK said so *)
(* of it, by its own error classes or by those of another copy: never for a  *)
(* transport failure, a timeout or a node that merely refused.               *)
AbsenceIsTheNodes ==
  \A s \in Slot :
    LET r == request[s]
        Said(tag) ==
          CASE tag = "ObjectNotFound" -> r.said.class = "object" /\ r.said.reason = "notFound"
            [] tag = "ObjectDeleted" -> r.said.class = "object" /\ r.said.reason = "deleted"
            [] OTHER -> r.said.class = "transaction"
    IN r.pc = "done" =>
         \A tag \in {"ObjectNotFound", "ObjectDeleted", "TransactionNotFound"} :
           r.answer.tag = tag <=> Said(tag) /\ tag \in Tags(r.method)

(* A read that failed was asked again as long as the failure might pass and  *)
(* the policy allowed; and no call is asked once more than that, nor after   *)
(* an answer that cannot change.  Whether a wait for a transaction is to be  *)
(* asked again the code and DESIGN.md disagree on, and nothing is said here. *)
RetriedWhileItMayPass ==
  \A s \in Slot :
    LET r == request[s]
        limit == IF readRetry = NoSchedule THEN MAX_READ_ATTEMPTS ELSE readRetry + 1
        mayPass == r.answer.tag = "TransportError" /\ r.answer.retryable
    IN /\ r.attempt <= limit
       /\ r.pc = "waiting" => mayPass
       /\ r.pc = "done" /\ mayPass /\ retried(r.method) /\ r.method # "waitForTransaction" =>
            r.attempt = limit

(* A read ends although the node never answers it: its attempts are cut off  *)
(* and are finitely many.  Sends, use and the wait for a transaction are not *)
(* bounded here.                                                             *)
BoundedReadsEnd ==
  \A s \in Slot :
    (request[s].pc \in {"asked", "waiting"} /\ timed(request[s].method))
      ~> (request[s].pc \in {"idle", "done"})
=============================================================================
