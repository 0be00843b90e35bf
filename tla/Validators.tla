----------------------------- MODULE Validators -----------------------------
(***************************************************************************)
(* External: the network as Tx.build and Tx.run meet it.  An epoch that     *)
(* turns, address balances other programs draw on, alias sets their owners  *)
(* edit, transactions whose commands start or stop aborting; and what the   *)
(* validators refuse outright, as the comments of services/Tx.ts and        *)
(* DESIGN.md section 6 observed it.                                         *)
(***************************************************************************)
EXTENDS Integers, FiniteSets, Sequences

CONSTANTS
  Account,      \* addresses that send or pay
  Address,      \* addresses that sign, the accounts among them
  MaxEpoch,     \* bound: the epoch stops here
  MaxBalance,   \* bound: of an address balance
  AliasSets,    \* the sets an account may give its aliases
  Threshold     \* the weight a multisig asks for, each member weighing 1

ASSUME AccountsSign == Account \subseteq Address /\ AliasSets \subseteq SUBSET Address
ASSUME BoundsAreNatural == MaxEpoch \in Nat /\ MaxBalance \in Nat

VARIABLES
  epoch,
  balance,      \* SUI address balance of each account
  aliases,      \* who may sign as each account: itself alone, until it enables aliases
  aborting      \* do the transaction's commands abort, were they run now

networkVars == <<epoch, balance, aliases, aborting>>

NetworkTypeOK ==
  /\ epoch \in 0..MaxEpoch
  /\ balance \in [Account -> 0..MaxBalance]
  /\ aliases \in [Account -> AliasSets \cup {{a} : a \in Account}]
  /\ aborting \in BOOLEAN

EpochTurns ==
  /\ epoch < MaxEpoch /\ epoch' = epoch + 1
  /\ UNCHANGED <<balance, aliases, aborting>>

Spent(a) ==
  /\ \E b \in 0..(balance[a] - 1) : balance' = [balance EXCEPT ![a] = b]
  /\ UNCHANGED <<epoch, aliases, aborting>>

AliasesEdited(a) ==
  /\ \E set \in AliasSets \ {aliases[a]} : aliases' = [aliases EXCEPT ![a] = set]
  /\ UNCHANGED <<epoch, balance, aborting>>

Aborts ==
  /\ ~aborting /\ aborting' = TRUE
  /\ UNCHANGED <<epoch, balance, aliases>>

-----------------------------------------------------------------------------
(* A transaction, as a draft or as the bytes built of it.                   *)

NoOne == "nobody"

ASSUME NobodySigns == NoOne \notin Address

Unset == -1         \* a budget not set

Unsaid == [kind |-> "unset", from |-> 0, to |-> 0]   \* an expiration not set

ValidDuring(from, to) == [kind |-> "ValidDuring", from |-> from, to |-> to]

UntilEpoch(e) == [kind |-> "Epoch", from |-> 0, to |-> e]

payerOf(tx) == IF tx.owner = NoOne THEN tx.sender ELSE tx.owner

(* The SUI the transaction withdraws from an account's address balance.     *)
WithdrawnFrom(tx, a) ==
  IF \/ tx.withdraws = "Sender" /\ a = tx.sender
     \/ tx.withdraws = "Sponsor" /\ a = payerOf(tx)
  THEN 1 ELSE 0

(* What a simulation checks: the withdrawals and the commands, and neither  *)
(* the payer's balance against the budget nor what tx.gas would be.         *)
Covered(tx) == \A a \in Account : WithdrawnFrom(tx, a) <= balance[a]

GasIs(tx) == IF tx.payment = "empty" /\ tx.budget > 0 THEN tx.budget ELSE 0

(* Refused, or executed as a failure and charged, whatever the world does.  *)
WellFormed(tx) ==
  /\ tx.payment = "empty" => tx.gas # "yes"
  /\ tx.payment = "empty" /\ ~tx.owned => tx.expiration.kind = "ValidDuring"
  /\ tx.expiration.kind = "ValidDuring" => tx.expiration.to <= tx.expiration.from + 1

InWindow(tx) ==
  /\ tx.expiration.kind = "ValidDuring" => epoch >= tx.expiration.from
  /\ tx.expiration.kind \in {"ValidDuring", "Epoch"} => epoch <= tx.expiration.to

(* A reservation takes the balance as of its build.                         *)
Funded(tx) ==
  /\ tx.payment = "reservation" => tx.reserved <= balance[payerOf(tx)]
  /\ \A a \in Account :
       WithdrawnFrom(tx, a) + (IF a = payerOf(tx) THEN GasIs(tx) ELSE 0) <= balance[a]

(* A signature: by the key of an address, of bytes, with the proofs' bounds *)
(* and the members of a multisig in the order the bitmap is read in.        *)
Proven(s) ==
  /\ s.multisig => Len(s.members) >= Threshold
  /\ \A b \in s.bounds : epoch <= b
  /\ \A i, j \in DOMAIN s.members : i < j => s.members[i] < s.members[j]

SignedFor(tx, signatures) ==
  /\ \A a \in {tx.sender, payerOf(tx)} :
       \E i \in DOMAIN signatures : signatures[i].by \in aliases[a]
  /\ \A i \in DOMAIN signatures : signatures[i].of = "these" /\ Proven(signatures[i])

Accepted(tx, signatures) ==
  WellFormed(tx) /\ InWindow(tx) /\ Funded(tx) /\ SignedFor(tx, signatures)
=============================================================================
