-------------------------------- MODULE Fold --------------------------------
(***************************************************************************)
(* Tx.foldCoins: planFold reads an owner's coins and its address balance    *)
(* and decides in which transactions the coins are deposited and what pays  *)
(* for each; then one Tx.run per batch, in order, up to the first failure.  *)
(* The owner's other programs spend meanwhile, of coins and of the balance. *)
(*                                                                         *)
(* What a run does is module Run's; here it executes or fails.              *)
(***************************************************************************)
EXTENDS Integers, FiniteSets, SequencesExt

CONSTANTS
  Coin,           \* the owner's coin objects, numbered
  SuiCoin,        \* those of them that are SUI
  MaxValue,       \* bound: of a coin, and of the balance to start with
  PerTransaction, \* maxCoinsPerTransaction
  MAX_GAS_PAYMENT_COINS,
  BaseUnits,      \* foldBudgetUnits: of a transaction
  CoinUnits       \* and of each of its coins

ASSUME CoinsAreNumbered == Coin \subseteq Nat /\ IsFiniteSet(Coin) /\ SuiCoin \subseteq Coin
ASSUME UnitsAreCounts == {MaxValue, BaseUnits, CoinUnits} \subseteq Nat
ASSUME CoinLimitsPositive == {PerTransaction, MAX_GAS_PAYMENT_COINS} \subseteq Nat \ {0}

VARIABLES
  purse,    \* on the ledger: the value of each coin, Gone when there is none
  saved,    \* on the ledger: the SUI address balance
  fold,     \* the local state of foldCoins
  others    \* history: has somebody else spent of this since the plan read it

foldVars == <<purse, saved, fold, others>>

Gone == -1

Gas == {"foldedCoins", "addressBalance", "auto"}

NoFold == [pc |-> "idle", batches |-> <<>>, skipped |-> {}, at |-> 1]

FoldTypeOK ==
  /\ purse \in [Coin -> {Gone} \cup 0..MaxValue] /\ saved \in Nat
  /\ fold.pc \in {"idle", "folding", "done", "failed"}
  /\ fold.skipped \subseteq Coin /\ fold.at \in 1..(Len(fold.batches) + 1)
  /\ \A i \in DOMAIN fold.batches :
       /\ fold.batches[i].coins \in Seq(Coin) /\ fold.batches[i].gas \in Gas
       /\ Len(fold.batches[i].coins) \in 1..PerTransaction

-----------------------------------------------------------------------------
(* The plan.                                                                *)

foldBudgetUnits(n) == BaseUnits + CoinUnits * n

sumOf(coins) ==
  LET sum[n \in 0..Len(coins)] == IF n = 0 THEN 0 ELSE sum[n - 1] + purse[coins[n]]
  IN sum[Len(coins)]

(* Largest first; coins of one value in the order they are listed.          *)
sorted(coins) ==
  LET before(c, d) == purse[c] > purse[d] \/ (purse[c] = purse[d] /\ c < d)
  IN CHOOSE f \in [1..Cardinality(coins) -> coins] :
       ToSet(f) = coins /\ \A i, j \in DOMAIN f : i < j => before(f[i], f[j])

groupsOf(coins) ==
  [i \in 1..((Len(coins) + PerTransaction - 1) \div PerTransaction) |->
     SubSeq(coins, (i - 1) * PerTransaction + 1,
            IF i * PerTransaction < Len(coins) THEN i * PerTransaction ELSE Len(coins))]

Empty == [batches |-> <<>>, skipped |-> {}, projected |-> 0]

(* Mutant: what a deposit costs is not taken off the projection.            *)
withSuiGrossly(plan, group) ==
  LET amount == sumOf(group)
      estimate == foldBudgetUnits(Len(group))
      Batch(gas) == [batches |-> Append(plan.batches, [coins |-> group, gas |-> gas]),
                     skipped |-> plan.skipped, projected |-> plan.projected + amount]
  IN IF amount >= estimate THEN Batch("foldedCoins")
     ELSE IF plan.projected >= estimate THEN Batch("addressBalance")
     ELSE [plan EXCEPT !.skipped = @ \cup ToSet(group)]

(* A group of SUI pays for itself, or the balance projected so far does, or *)
(* it is skipped.                                                           *)
withSui(plan, group) ==
  LET amount == sumOf(group)
      estimate == foldBudgetUnits(Len(group))
      Batch(gas) ==
        [batches |-> Append(plan.batches, [coins |-> group, gas |-> gas]),
         skipped |-> plan.skipped, projected |-> plan.projected + amount - estimate]
  IN IF amount >= estimate THEN Batch("foldedCoins")
     ELSE IF plan.projected >= estimate THEN Batch("addressBalance")
     ELSE [plan EXCEPT !.skipped = @ \cup ToSet(group)]

withOther(plan, group) ==
  [plan EXCEPT !.batches = Append(@, [coins |-> group, gas |-> "auto"])]

(* SUI first: its deposits are what the other folds' gas comes out of.      *)
planOf(held) ==
  LET sui == groupsOf(sorted(held \cap SuiCoin))
      other == groupsOf(sorted(held \ SuiCoin))
      plan[n \in 0..(Len(sui) + Len(other))] ==
        IF n = 0 THEN [Empty EXCEPT !.projected = saved]
        ELSE IF n <= Len(sui) THEN withSui(plan[n - 1], sui[n])
        ELSE withOther(plan[n - 1], other[n - Len(sui)])
  IN plan[Len(sui) + Len(other)]

(* The reads of a plan are taken as one: what is spent between two of them   *)
(* is to the plan as what is spent after it.                                *)
planFold ==
  /\ fold.pc = "idle"
  /\ LET plan == planOf({c \in Coin : purse[c] # Gone})
     IN fold' = [NoFold EXCEPT !.pc = "folding", !.batches = plan.batches,
                               !.skipped = plan.skipped]
  /\ others' = FALSE
  /\ UNCHANGED <<purse, saved>>

-----------------------------------------------------------------------------
(* One run per batch.  A node's budget is no more than the estimate.        *)

batch == fold.batches[fold.at]

pinned == \A i \in DOMAIN batch.coins : purse[batch.coins[i]] # Gone

deposit == IF ToSet(batch.coins) \subseteq SuiCoin THEN sumOf(batch.coins) ELSE 0

(* A gas payment names so many coins; the rest are merged into the gas coin  *)
(* by the transaction itself, after its budget is taken.                    *)
payment ==
  SubSeq(batch.coins, 1, IF Len(batch.coins) < MAX_GAS_PAYMENT_COINS
                         THEN Len(batch.coins) ELSE MAX_GAS_PAYMENT_COINS)

(* The budget has to be there: in the coins that pay, or in the balance.    *)
affordable(budget) ==
  CASE batch.gas = "foldedCoins" -> sumOf(payment) >= budget
    [] batch.gas = "addressBalance" -> saved >= budget
    [] batch.gas = "auto" -> saved >= budget

runsBatch ==
  /\ fold.pc = "folding" /\ fold.at <= Len(fold.batches) /\ pinned
  /\ \E budget \in 1..foldBudgetUnits(Len(batch.coins)), spent \in 0..foldBudgetUnits(Len(batch.coins)) :
       /\ spent <= budget /\ affordable(budget)
       /\ saved' = saved + deposit - spent
  /\ purse' = [c \in Coin |-> IF c \in ToSet(batch.coins) THEN Gone ELSE purse[c]]
  /\ fold' = [fold EXCEPT !.at = @ + 1]
  /\ UNCHANGED others

(* Stops at the first batch that fails: a coin that moved, a budget that is *)
(* not there, or anything else a run fails with.                            *)
stops ==
  /\ fold.pc = "folding" /\ fold.at <= Len(fold.batches)
  /\ fold' = [fold EXCEPT !.pc = "failed"]
  /\ UNCHANGED <<purse, saved, others>>

folded ==
  /\ fold.pc = "folding" /\ fold.at > Len(fold.batches)
  /\ fold' = [fold EXCEPT !.pc = "done"]
  /\ UNCHANGED <<purse, saved, others>>

(* Called again, it plans from what is left.                                *)
foldAgain ==
  /\ fold.pc = "failed" /\ fold' = NoFold
  /\ UNCHANGED <<purse, saved, others>>

(* External: another program of the owner spends, or is paid.               *)
othersSpend ==
  /\ fold.pc \in {"idle", "folding"} /\ others' = TRUE
  /\ \/ saved > 0 /\ saved' \in 0..(saved - 1) /\ UNCHANGED purse
     \/ \E c \in Coin : purse[c] # Gone /\ purse' = [purse EXCEPT ![c] = Gone] /\ UNCHANGED saved
  /\ UNCHANGED fold

FoldInit ==
  /\ purse \in [Coin -> {Gone} \cup 0..MaxValue]
  /\ saved \in 0..MaxValue
  /\ fold = NoFold /\ others = FALSE

FoldNext ==
  planFold \/ runsBatch \/ stops \/ folded \/ foldAgain \/ othersSpend

FoldSpec == FoldInit /\ [][FoldNext]_foldVars

-----------------------------------------------------------------------------
(* A batch planned to be paid for can be paid for when its turn comes: the  *)
(* projection over the earlier batches never promises a later one more than *)
(* there will be, so long as nobody else spends of it.  And its coins are   *)
(* there: no coin is in two batches, or in one and among the skipped.  A     *)
(* batch of more coins than a gas payment names is planned on the worth of   *)
(* all of them, and is paid for whatever the node's budget only when the     *)
(* coins that pay are worth as much.                                         *)
PlannedIsPaid ==
  fold.pc = "folding" /\ fold.at <= Len(fold.batches) /\ ~others =>
    /\ pinned
    /\ batch.gas = "foldedCoins" => sumOf(batch.coins) >= foldBudgetUnits(Len(batch.coins))
    /\ batch.gas # "auto" /\ payment = batch.coins =>
         affordable(foldBudgetUnits(Len(batch.coins)))
    /\ ToSet(batch.coins) \cap fold.skipped = {}
=============================================================================
