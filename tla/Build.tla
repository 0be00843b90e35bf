------------------------------- MODULE Build -------------------------------
(***************************************************************************)
(* Tx.build: a draft becomes bytes.  The expiration is decided, the gas     *)
(* policy pins the payment, the SDK's resolver fills in what is left (and   *)
(* may fail half way, leaving its marks on the draft for the next attempt), *)
(* a simulation shows the transaction to execute, and the bytes are checked *)
(* for what the validators would refuse or charge for nothing.              *)
(*                                                                         *)
(* tx is the SDK's Transaction object, the draft and then the bytes; build  *)
(* is the local state of the call; config and client are fixed for a call.  *)
(***************************************************************************)
EXTENDS Validators

CONSTANTS
  MAX_GAS_BUDGET,       \* SubmitConfig.maxGasBudget
  NodeBudget,           \* the gas budget a node's simulation chooses
  MaxResolves           \* attempts of the read policy

ASSUME BudgetsAreMist == MAX_GAS_BUDGET \in Nat /\ NodeBudget \in Nat \ {0}
ASSUME ResolvesAtLeastOnce == MaxResolves \in Nat \ {0}

VARIABLES
  tx,
  build,
  config        \* [expiration, gasPayment, preflight, approve, client]

buildVars == <<tx, build, config>>

Unbounded == MaxEpoch + 1   \* a signer without a maxEpoch

Drafts ==
  [sender : Account, owner : Account \cup {NoOne},
   unresolved : BOOLEAN, owned : BOOLEAN, gas : {"no", "intent", "yes"},
   price : BOOLEAN, budget : {Unset, 0} \cup 1..(MAX_GAS_BUDGET + NodeBudget),
   payment : {"unset", "empty", "coins", "reservation"}, reserved : 0..MaxBalance,
   withdraws : {NoOne, "Sender", "Sponsor"}, gasless : {"no", "hoped", "required"},
   expiration : [kind : {"unset", "none", "Epoch", "ValidDuring"},
                 from : 0..MaxEpoch, to : 0..(MaxEpoch + 1)]]

Config ==
  [expiration : {"validDuring", "epoch", "none"},
   gasPayment : {"preferAddressBalance", "requireAddressBalance"},
   preflight : BOOLEAN, approve : BOOLEAN, client : {"grpc", "core"}]

Tag == {"none", "BuildError", "SigningError", "SimulationFailed", "PolicyDenied",
        "TransportError", "JournalError", "KeyError", "E"}

NoBuild == [pc |-> "idle", bound |-> 0, attempt |-> 0, defaulted |-> FALSE,
            paymentSet |-> FALSE, explicitlyEmpty |-> FALSE, simulated |-> FALSE,
            own |-> FALSE, shown |-> FALSE, failure |-> "none"]

BuildTypeOK ==
  /\ tx \in Drafts
  /\ build.pc \in {"idle", "expiring", "pinning", "resolving", "simulating",
                   "checking", "balance", "built", "failed"}
  /\ build.bound \in 0..Unbounded /\ build.attempt \in 0..MaxResolves
  /\ {build.defaulted, build.paymentSet, build.explicitlyEmpty, build.simulated,
      build.own, build.shown} \subseteq BOOLEAN
  /\ build.failure \in Tag

Fails(tag) == build' = [build EXCEPT !.pc = "failed", !.failure = tag]

-----------------------------------------------------------------------------
(* The sender and the gas owner are set, and the expiration decided.        *)

BuildInit(draft) ==
  /\ tx = draft
  /\ build = NoBuild

buildIt(sender, gasOwner, bound) ==
  /\ tx' = [tx EXCEPT !.sender = sender,
                      !.owner = IF gasOwner = NoOne THEN @ ELSE gasOwner]
  /\ build' = [NoBuild EXCEPT !.pc = "expiring", !.bound = bound,
                              !.defaulted = tx.expiration = Unsaid]
  /\ UNCHANGED config

sessionOpen(bound) == bound >= epoch

windowOf(bound) ==
  ValidDuring(epoch, IF bound < epoch + 1 THEN bound ELSE epoch + 1)

defaultExpiration(bound) ==
  CASE config.expiration = "none" -> Unsaid
    [] config.expiration = "epoch" -> UntilEpoch(epoch)
    [] config.expiration = "validDuring" -> windowOf(bound)

(* A default reads the epoch; without one, only a bound is worth a read.    *)
readsEpoch ==
  \/ build.defaulted /\ config.expiration # "none"
  \/ build.bound # Unbounded

expire ==
  /\ build.pc = "expiring"
  /\ IF readsEpoch /\ ~sessionOpen(build.bound)
     THEN Fails("SigningError") /\ UNCHANGED tx
     ELSE /\ build' = [build EXCEPT !.pc = "pinning"]
          /\ tx' = IF build.defaulted
                   THEN [tx EXCEPT !.expiration = defaultExpiration(build.bound)]
                   ELSE tx
  /\ UNCHANGED config

(* The epoch cannot be read, or SubmitConfig.nonce gives what is no u32.    *)
expireFails ==
  /\ build.pc = "expiring"
  /\ \/ readsEpoch /\ Fails("TransportError")
     \/ /\ build.defaulted /\ config.expiration = "validDuring"
        /\ sessionOpen(build.bound)
        /\ Fails("BuildError")
  /\ UNCHANGED <<tx, config>>

usesGasCoin(t) == t.gas = "yes"

pinnedByPolicy ==
  /\ tx.payment = "unset"
  /\ config.gasPayment = "requireAddressBalance"
  /\ ~usesGasCoin(tx)

pin ==
  /\ build.pc = "pinning"
  /\ build' = [build EXCEPT !.pc = "resolving", !.attempt = 1,
                            !.paymentSet = tx.payment # "unset",
                            !.explicitlyEmpty = pinnedByPolicy \/ tx.payment = "empty"]
  /\ tx' = IF pinnedByPolicy THEN [tx EXCEPT !.payment = "empty"] ELSE tx
  /\ UNCHANGED config

-----------------------------------------------------------------------------
(* External: the resolvers of the SDK, which work on the draft in place.    *)

willResolve(t) ==
  \/ t.unresolved \/ ~t.price \/ t.budget = Unset \/ t.payment = "unset"
  \/ t.payment = "empty" /\ t.expiration = Unsaid

Simulates(t) == willResolve(t) /\ (config.client = "grpc" \/ t.budget = Unset)

Executes(t) == ~aborting /\ Covered(t)

(* An intent takes its coin from tx.gas when the balance is of no use.      *)
withInputs(t) ==
  [t EXCEPT !.unresolved = FALSE,
            !.gas = IF @ # "intent" THEN @ ELSE IF balance[t.sender] = 0 THEN "yes" ELSE "no"]

withBudget(t, b) ==
  [t EXCEPT !.price = TRUE, !.budget = IF @ = Unset THEN b ELSE @]

withPayment(t) ==
  LET payer == payerOf(t)
      covered == balance[payer] >= t.budget + WithdrawnFrom(t, payer)
  IN IF t.payment # "unset" THEN t
     ELSE IF t.gas = "yes" /\ balance[payer] > 0
          THEN [t EXCEPT !.payment = "reservation", !.reserved = balance[payer]]
          ELSE [t EXCEPT !.payment = IF t.gas = "no" /\ covered THEN "empty" ELSE "coins"]

withWindow(t) ==
  IF t.payment = "empty" /\ t.expiration = Unsaid
  THEN [t EXCEPT !.expiration = ValidDuring(epoch, epoch + 1)] ELSE t

(* Zero gas for a transfer that qualifies, which a resolver may not notice. *)
Budgets(t) == {NodeBudget} \cup (IF t.gasless = "no" THEN {} ELSE {0})

Resolution(t, b) == withWindow(withPayment(withBudget(withInputs(t), b)))

Halfway(t) ==
  LET budgeted == {withBudget(withInputs(t), b) : b \in Budgets(t)}
      priced == IF Simulates(t) /\ ~Executes(t) THEN {} ELSE budgeted
      paid == {withPayment(p) : p \in priced}
  IN {t} \cup paid \cup (IF config.client = "grpc" THEN {} ELSE {withInputs(t)} \cup priced)

-----------------------------------------------------------------------------
(* One attempt of the resolve.                                              *)

(* Whether the SDK will show this draft to execute.                         *)
sdkSimulates(t) ==
  /\ willResolve(t)
  /\ config.client = "grpc" \/ t.budget = Unset

(* Mutant: asked once, of the draft as the first attempt found it.          *)
simulatedByFirst ==
  IF build.attempt = 1 THEN sdkSimulates(tx) ELSE build.simulated

(* Asked afresh before each attempt.                                        *)
simulatedNow == sdkSimulates(tx)

resolved ==
  /\ build.pc = "resolving"
  /\ Simulates(tx) => Executes(tx)
  /\ \E b \in Budgets(tx) :
       LET done == IF willResolve(tx) THEN Resolution(tx, b) ELSE tx
       IN /\ tx' = done
          /\ IF tx.gasless = "required" /\ done.budget # 0 THEN Fails("BuildError")
             ELSE build' = [build EXCEPT
                    !.pc = IF simulatedNow THEN "checking" ELSE "simulating",
                    !.simulated = simulatedNow, !.shown = Simulates(tx)]
  /\ UNCHANGED config

(* What the failure of a resolve becomes: a refusal, by the node or by the  *)
(* SDK itself, is the build's; what is left is the network's.               *)
resolverError(status) ==
  IF status \in {"NOT_FOUND", "INVALID_ARGUMENT", "FAILED_PRECONDITION", "plainError"}
  THEN "BuildError" ELSE "TransportError"

(* The simulation of a resolver shows an abort; or the node or the SDK      *)
(* refuses; or a failure is final.                                          *)
resolveFails ==
  /\ build.pc = "resolving" /\ willResolve(tx)
  /\ \/ /\ Simulates(tx) /\ aborting
        /\ Fails("SimulationFailed")
     \/ \E status \in {"NOT_FOUND", "INVALID_ARGUMENT", "plainError", "PERMISSION_DENIED"} :
          Fails(resolverError(status))
  /\ UNCHANGED <<tx, config>>

(* Mutant: one attempt too many.                                            *)
attemptsLeftOneMore == build.attempt <= MaxResolves

attemptsLeft == build.attempt < MaxResolves

(* A failure that may pass: the whole resolve again, over what it left.     *)
resolveAgain ==
  /\ build.pc = "resolving" /\ willResolve(tx)
  /\ tx' \in Halfway(tx)
  /\ IF attemptsLeft
     THEN build' = [build EXCEPT !.attempt = @ + 1, !.simulated = simulatedNow]
     ELSE Fails("TransportError")
  /\ UNCHANGED config

-----------------------------------------------------------------------------
(* The bytes are shown to execute, and checked.                             *)

simulated ==
  /\ build.pc = "simulating"
  /\ \/ Executes(tx) /\ build' = [build EXCEPT !.pc = "checking", !.own = TRUE, !.shown = TRUE]
     \/ aborting /\ Fails("SimulationFailed")
     \/ ~Covered(tx) /\ Fails("BuildError")
     \/ Fails("TransportError")
  /\ UNCHANGED <<tx, config>>

gasCeiling == tx.budget <= MAX_GAS_BUDGET

coinsRefused ==
  /\ ~build.paymentSet /\ tx.payment = "coins"
  /\ config.gasPayment = "requireAddressBalance"

gasCoinRefused == tx.payment = "empty" /\ usesGasCoin(tx)

windowRefused ==
  /\ tx.payment = "empty" /\ ~tx.owned
  /\ tx.expiration.kind # "ValidDuring"

acceptable == ~coinsRefused /\ ~gasCoinRefused /\ ~windowRefused

checked ==
  /\ build.pc = "checking"
  /\ IF ~gasCeiling THEN Fails("PolicyDenied")
     ELSE IF ~acceptable THEN Fails("BuildError")
     ELSE build' = [build EXCEPT
            !.pc = IF build.explicitlyEmpty /\ tx.budget > 0 THEN "balance" ELSE "built"]
  /\ UNCHANGED <<tx, config>>

suiWithdrawalsFrom(t) == WithdrawnFrom(t, payerOf(t))

(* Mutant: the SUI the bytes withdraw of the same balance is forgotten.     *)
requiredBudget == tx.budget

required == tx.budget + suiWithdrawalsFrom(tx)

balanceRead ==
  /\ build.pc = "balance"
  /\ \/ /\ balance[payerOf(tx)] >= required
        /\ build' = [build EXCEPT !.pc = "built"]
     \/ balance[payerOf(tx)] < required /\ Fails("BuildError")
     \/ Fails("TransportError")
  /\ UNCHANGED <<tx, config>>

BuildNext ==
  \/ expire \/ expireFails \/ pin
  \/ resolved \/ resolveFails \/ resolveAgain
  \/ simulated \/ checked \/ balanceRead
=============================================================================
