----------------------------- MODULE WriteProofs -----------------------------
(***************************************************************************)
(* What a fold of coins, the telling of a failure, a test's client and the  *)
(* receipts of a transaction promise.                                       *)
(*                                                                         *)
(* Of Fold: for any coins of any worth, any balance, any budgets and any    *)
(* charge within them.  First the data: a plan is a prefix sum of what its  *)
(* batches bring and cost (Planned), made batch by batch (OneMoreBatch) of  *)
(* coins in descending order (SortedCoins), cut into groups (Groups).  Then *)
(* the purse: it holds at least what the projection foresees (IInv).        *)
(*                                                                         *)
(* Of Failures: for any finite number of values, whatever is the cause of   *)
(* what and whatever a message or a toString does.  A value is marked while *)
(* it is read and marked only once (Marked); so the calls are few, where no *)
(* toString calls back (CallsAreFew), and what is told is a function of     *)
(* what is asked, for each step is one of the moment before it              *)
(* (StepIsAfter, RunsAgree).  The line handed up from a cause is never lost *)
(* on the way (OfCause), for the stack is never full so soon (Deep).        *)
(*                                                                         *)
(* Of Scripted: for any fields, scripts, ids and callers.  What is kept is  *)
(* what the last entry of the test's own log says, and an answer is the one *)
(* of the script in force, counted from where that script was set (SInv).   *)
(*                                                                         *)
(* Of Receipts: for any objects, packages and commands.  Where everything   *)
(* is and which cap governs what (Placed, Governed), and that what is in    *)
(* hand was made of the node's changes, whole or reduced (Handed).          *)
(***************************************************************************)
EXTENDS Fold, Failures, Scripted, Receipts, FiniteSetTheorems, FunctionTheorems,
        SequenceTheorems, WellFoundedInduction, TLAPS

(* A set of numbers has a least one.                                        *)
LEMMA Least ==
  ASSUME NEW T, T \subseteq Nat, T # {}
  PROVE  \E x \in T : \A y \in T : x <= y
<1> DEFINE Less == {p \in Nat \X Nat : p[1] < p[2]}
<1>1. IsWellFoundedOn(Less, Nat)
  BY NatLessThanWellFounded DEF OpToRel
<1>2. \A x, y \in Nat : <<y, x>> \in Less <=> y < x
  OBVIOUS
<1> HIDE DEF Less
<1>3. PICK x \in T : \A y \in T : ~ (<<y, x>> \in Less)
  BY <1>1, WFMin
<1>4. \A y \in T : ~ (y < x)
  BY <1>2, <1>3
<1> QED
  BY <1>4

(* A set that holds 0 and, with a number, the next, holds the interval.     *)
LEMMA Induction ==
  ASSUME NEW N \in Nat, NEW T, 0 \in T, \A n \in 1..N : n - 1 \in T => n \in T
  PROVE  \A n \in 0..N : n \in T
<1> DEFINE Less == {p \in Nat \X Nat : p[1] < p[2]}
           Rest == {n \in 0..N : n \notin T}
<1>1. IsWellFoundedOn(Less, Nat)
  BY NatLessThanWellFounded DEF OpToRel
<1>2. \A x, y \in Nat : <<y, x>> \in Less <=> y < x
  OBVIOUS
<1>3. Rest \subseteq Nat
  OBVIOUS
<1> HIDE DEF Less
<1> SUFFICES ASSUME Rest # {} PROVE FALSE
  OBVIOUS
<1>4. PICK m \in Rest : \A n \in Rest : ~ (<<n, m>> \in Less)
  BY <1>1, <1>3, WFMin
<1>5. m \in 1..N /\ m \in Nat /\ m - 1 \in Nat /\ m - 1 < m /\ m - 1 \in 0..N
  OBVIOUS
<1>6. <<m - 1, m>> \in Less
  BY <1>2, <1>5
<1>7. m - 1 \notin Rest
  BY <1>4, <1>6
<1>8. m - 1 \in T
  BY <1>5, <1>7
<1>9. m \in T
  BY <1>5, <1>8
<1> QED
  BY <1>9

(* A function that starts at base and goes on by step.                      *)
Recurs(f, N, S, base, step) ==
  /\ f \in [0..N -> S] /\ f[0] = base
  /\ \A n \in 1..N : f[n] = step[<<n, f[n - 1]>>]

(* A step that is a function of the place and of what came before defines   *)
(* such a function on the interval.                                         *)
LEMMA Recursion ==
  ASSUME NEW N, N \in Nat, NEW S, NEW base, base \in S,
         NEW step, step \in [(1..N) \X S -> S]
  PROVE  \E f : Recurs(f, N, S, base, step)
<1> DEFINE Does(f, n) == Recurs(f, n, S, base, step)
           T == {n \in 0..N : \E f : Does(f, n)}
<1> USE DEF Recurs
<1>1. Does([k \in 0..0 |-> base], 0)
  OBVIOUS
<1>2. ASSUME NEW n \in 1..N, NEW f, Does(f, n - 1)
      PROVE  Does([k \in 0..n |-> IF k = n THEN step[<<n, f[n - 1]>>] ELSE f[k]], n)
  <2> DEFINE g == [k \in 0..n |-> IF k = n THEN step[<<n, f[n - 1]>>] ELSE f[k]]
  <2>1. n \in Nat /\ n >= 1 /\ n - 1 \in 0..(n - 1) /\ 0 \in 0..n /\ 0 # n
    OBVIOUS
  <2>2. f \in [0..(n - 1) -> S] /\ f[0] = base
    BY <1>2
  <2>3. \A k \in 1..(n - 1) : f[k] = step[<<k, f[k - 1]>>]
    BY <1>2
  <2>4. f[n - 1] \in S
    BY <2>1, <2>2
  <2>5. step[<<n, f[n - 1]>>] \in S
    BY <2>4
  <2>6. \A k \in 0..n : k # n => k \in 0..(n - 1)
    BY <2>1
  <2>7. g \in [0..n -> S]
    BY <2>2, <2>5, <2>6
  <2>8. \A k \in 0..n : g[k] = IF k = n THEN step[<<n, f[n - 1]>>] ELSE f[k]
    OBVIOUS
  <2> HIDE DEF g
  <2>9. g[0] = base
    BY <2>1, <2>2, <2>8
  <2>10. ASSUME NEW k \in 1..n
         PROVE  g[k] = step[<<k, g[k - 1]>>]
    <3>1. k \in 0..n /\ k - 1 \in 0..n /\ k - 1 # n
      BY <2>1
    <3>2. g[k - 1] = f[k - 1]
      BY <2>8, <3>1
    <3>3. CASE k = n
      BY <2>8, <3>1, <3>2, <3>3
    <3>4. CASE k # n
      <4>1. k \in 1..(n - 1)
        BY <2>1, <3>4
      <4> QED
        BY <2>3, <2>8, <3>1, <3>2, <3>4, <4>1
    <3> QED
      BY <3>3, <3>4
  <2> QED
    BY <2>7, <2>9, <2>10 DEF g
<1> HIDE DEF Does, Recurs
<1>3. 0 \in T
  BY <1>1
<1>4. ASSUME NEW n \in 1..N, n - 1 \in T
      PROVE  n \in T
  <2>1. PICK f : Does(f, n - 1)
    BY <1>4
  <2>2. \E g : Does(g, n)
    BY <1>2, <2>1
  <2> QED
    BY <2>2
<1> HIDE DEF T
<1>5. \A n \in 0..N : n \in T
  BY <1>3, <1>4, Induction
<1>6. N \in T
  BY <1>5
<1> QED
  BY <1>6 DEF T, Does

-----------------------------------------------------------------------------
(* Sums.                                                                    *)

(* The worth of the first n coins of a list, by what each is worth.         *)
Sums(worth, these) ==
  LET sum[n \in 0..Len(these)] == IF n = 0 THEN 0 ELSE sum[n - 1] + worth[these[n]]
  IN sum

SumOver(worth, these) == Sums(worth, these)[Len(these)]

(* What the plan adds up is the worth of the coins on the ledger.           *)
LEMMA SumIsOver == \A these : sumOf(these) = SumOver(purse, these)
BY DEF sumOf, SumOver, Sums

(* The worth of all coins of a list is known.                               *)
Worthy(worth, these) == \A n \in 1..Len(these) : worth[these[n]] \in Int

(* The sum goes up coin by coin.                                            *)
LEMMA SumSteps ==
  ASSUME NEW C, NEW these \in Seq(C), NEW worth, Worthy(worth, these)
  PROVE  /\ Sums(worth, these) \in [0..Len(these) -> Int]
         /\ Sums(worth, these)[0] = 0
         /\ \A n \in 1..Len(these) :
              Sums(worth, these)[n] = Sums(worth, these)[n - 1] + worth[these[n]]
<1> DEFINE N == Len(these)
           step == [p \in (1..N) \X Int |-> p[2] + worth[these[p[1]]]]
           Def(g) == [n \in 0..N |-> IF n = 0 THEN 0 ELSE g[n - 1] + worth[these[n]]]
           K == Sums(worth, these)
<1>1. N \in Nat /\ \A n \in 1..N : worth[these[n]] \in Int
  BY DEF Worthy
<1>2. K = CHOOSE g : g = Def(g)
  BY DEF Sums
<1> HIDE DEF N, K
<1>3. step \in [(1..N) \X Int -> Int]
  BY <1>1
<1>4. \A n \in 1..N, s \in Int : step[<<n, s>>] = s + worth[these[n]]
  OBVIOUS
<1> HIDE DEF step
<1>5. PICK f : Recurs(f, N, Int, 0, step)
  <2>1. 0 \in Int
    OBVIOUS
  <2> QED
    BY <1>1, <1>3, <2>1, Recursion
<1>6. f = Def(f)
  <2>1. \A n \in 0..N : n # 0 => n \in 1..N /\ n - 1 \in 0..N
    BY <1>1
  <2>2. f \in [0..N -> Int] /\ f[0] = 0
    BY <1>5 DEF Recurs
  <2>3. \A n \in 1..N : f[n] = f[n - 1] + worth[these[n]]
    <3> TAKE n \in 1..N
    <3>1. n \in 0..N /\ n # 0
      BY <1>1
    <3>2. f[n - 1] \in Int
      BY <2>1, <2>2, <3>1
    <3> QED
      BY <1>4, <1>5, <3>2 DEF Recurs
  <2>4. \A n \in 0..N : f[n] = IF n = 0 THEN 0 ELSE f[n - 1] + worth[these[n]]
    BY <2>1, <2>2, <2>3
  <2> QED
    BY <2>2, <2>4
<1> HIDE DEF Def
<1>7. K = Def(K)
  BY <1>2, <1>6
<1>8. /\ K[0] = 0 /\ DOMAIN K = 0..N /\ K = [n \in 0..N |-> K[n]]
      /\ \A n \in 1..N : K[n] = K[n - 1] + worth[these[n]]
  <2>1. 0 \in 0..N /\ \A n \in 1..N : n \in 0..N /\ n # 0
    BY <1>1
  <2> QED
    BY <1>7, <2>1 DEF Def
<1>9. K \in [0..N -> Int]
  <2> DEFINE T == {n \in 0..N : K[n] \in Int}
  <2>1. 0 \in T
    BY <1>1, <1>8
  <2>2. ASSUME NEW n \in 1..N, n - 1 \in T
        PROVE  n \in T
    <3>1. n \in 0..N /\ K[n - 1] \in Int /\ worth[these[n]] \in Int
      BY <1>1, <2>2
    <3>2. K[n] = K[n - 1] + worth[these[n]]
      BY <1>8
    <3>3. K[n] \in Int
      BY <3>1, <3>2
    <3> QED
      BY <3>1, <3>3
  <2> HIDE DEF T
  <2>3. \A n \in 0..N : n \in T
    BY <1>1, <2>1, <2>2, Induction
  <2> QED
    BY <1>8, <2>3 DEF T
<1> QED
  BY <1>8, <1>9 DEF K, N

(* Whatever starts at nothing and goes up alike for a while is the sum.     *)
LEMMA SumIs ==
  ASSUME NEW C, NEW these \in Seq(C), NEW worth, Worthy(worth, these),
         NEW m \in 0..Len(these), NEW f, f[0] = 0,
         \A n \in 1..m : f[n] = f[n - 1] + worth[these[n]]
  PROVE  f[m] = Sums(worth, these)[m]
<1> DEFINE K == Sums(worth, these)
           T == {n \in 0..m : f[n] = K[n]}
<1>1. /\ K[0] = 0 /\ \A n \in 1..Len(these) : K[n] = K[n - 1] + worth[these[n]]
      /\ Len(these) \in Nat /\ m \in Nat /\ m <= Len(these)
  BY SumSteps
<1> HIDE DEF K
<1>2. 0 \in T
  BY <1>1
<1>3. ASSUME NEW n \in 1..m, n - 1 \in T
      PROVE  n \in T
  BY <1>1, <1>3
<1> HIDE DEF T
<1>4. m \in T
  <2>1. \A n \in 0..m : n \in T
    BY <1>1, <1>2, <1>3, Induction
  <2> QED
    BY <1>1, <2>1
<1> QED
  BY <1>4 DEF T, K

(* The worth of a list is that of its coins: what the others are worth does *)
(* not matter.                                                              *)
LEMMA SumSame ==
  ASSUME NEW C, NEW these \in Seq(C), NEW v, NEW w, Worthy(v, these),
         \A n \in 1..Len(these) : w[these[n]] = v[these[n]]
  PROVE  SumOver(w, these) = SumOver(v, these)
<1>1. Worthy(w, these)
  BY DEF Worthy
<1> DEFINE f == Sums(w, these)
<1>2. f[0] = 0 /\ \A n \in 1..Len(these) : f[n] = f[n - 1] + v[these[n]]
  BY <1>1, SumSteps
<1>3. Len(these) \in 0..Len(these)
  OBVIOUS
<1> HIDE DEF f
<1>4. f[Len(these)] = Sums(v, these)[Len(these)]
  BY <1>2, <1>3, SumIs
<1> QED
  BY <1>4 DEF f, SumOver

(* Coins that are there are worth something together, the first of them no  *)
(* more than all.                                                           *)
LEMMA SumGrows ==
  ASSUME NEW C, NEW these \in Seq(C), NEW worth,
         \A n \in 1..Len(these) : worth[these[n]] \in Nat, NEW m \in 0..Len(these)
  PROVE  /\ SumOver(worth, these) \in Nat
         /\ SumOver(worth, SubSeq(these, 1, m)) \in Nat
         /\ SumOver(worth, SubSeq(these, 1, m)) <= SumOver(worth, these)
<1> DEFINE N == Len(these)
           K == Sums(worth, these)
           T == {n \in 0..N : K[n] \in Nat /\ (n >= m => K[m] <= K[n]) /\ (n <= m => K[n] <= K[m])}
           U == {n \in 0..N : K[n] \in Nat /\ (n >= m => K[m] <= K[n])}
           V == {n \in 0..N : K[n] \in Nat}
           first == SubSeq(these, 1, m)
<1>1. Worthy(worth, these)
  BY DEF Worthy
<1>2. /\ K \in [0..N -> Int] /\ K[0] = 0 /\ N \in Nat /\ m \in Nat /\ m <= N
      /\ \A n \in 1..N : K[n] = K[n - 1] + worth[these[n]]
  BY <1>1, SumSteps
<1>3. first \in Seq(C) /\ Len(first) = m /\ \A n \in 1..m : first[n] = these[n]
  OBVIOUS
<1> HIDE DEF N, K, first
<1>4. \A n \in 1..N : worth[these[n]] \in Nat
  BY DEF N
<1>5. \A n \in 0..N : n \in V
  <2>1. 0 \in V
    BY <1>2
  <2>2. ASSUME NEW n \in 1..N, n - 1 \in V PROVE n \in V
    <3>1. n \in 0..N /\ K[n - 1] \in Nat /\ worth[these[n]] \in Nat
      BY <1>2, <1>4, <2>2
    <3>2. K[n] \in Nat
      BY <1>2, <3>1
    <3> QED
      BY <3>1, <3>2
  <2> HIDE DEF V
  <2> QED
    BY <1>2, <2>1, <2>2, Induction
<1>6. \A n \in 0..N : K[n] \in Nat
  BY <1>5
<1>7. \A n \in 0..N : n \in U
  <2>1. 0 \in U
    BY <1>2, <1>6
  <2>2. ASSUME NEW n \in 1..N, n - 1 \in U PROVE n \in U
    <3>1. K[n] = K[n - 1] + worth[these[n]] /\ worth[these[n]] \in Nat /\ n \in 0..N /\ n - 1 \in 0..N
      BY <1>2, <1>4
    <3>2. K[n] \in Nat /\ K[n - 1] \in Nat /\ K[m] \in Nat
      BY <1>2, <1>6, <3>1
    <3>3. CASE n = m
      BY <3>1, <3>2, <3>3
    <3>4. CASE n # m
      <4>1. n >= m => n - 1 >= m
        BY <1>2, <3>4
      <4> QED
        BY <2>2, <3>1, <3>2, <4>1
    <3> QED
      BY <3>3, <3>4
  <2> HIDE DEF U
  <2> QED
    BY <1>2, <2>1, <2>2, Induction
<1>8. K[m] \in Nat /\ K[N] \in Nat /\ K[m] <= K[N]
  BY <1>2, <1>6, <1>7
<1>9. Worthy(worth, first)
  <2>1. \A n \in 1..m : n \in 1..N
    BY <1>2
  <2>2. \A n \in 1..Len(first) : worth[first[n]] \in Nat
    BY <1>3, <1>4, <2>1
  <2> QED
    BY <2>2 DEF Worthy
<1>10. ASSUME NEW n \in 1..m PROVE K[n] = K[n - 1] + worth[first[n]]
  <2>1. n \in 1..N
    BY <1>2
  <2> QED
    BY <1>2, <1>3, <2>1
<1>11. K[m] = Sums(worth, first)[m]
  <2>1. m \in 0..Len(first) /\ K[0] = 0 /\ first \in Seq(C)
    BY <1>2, <1>3
  <2> QED
    BY <1>9, <1>10, <2>1, SumIs
<1>12. SumOver(worth, first) = K[m]
  BY <1>3, <1>11 DEF SumOver
<1>13. SumOver(worth, these) = K[N]
  BY DEF SumOver, K, N
<1> QED
  BY <1>8, <1>12, <1>13 DEF first

-----------------------------------------------------------------------------
(* The order of the coins.                                                  *)

(* Worth more than the other, or as much and listed before it.              *)
Precedes(worth, c, d) == worth[c] > worth[d] \/ (worth[c] = worth[d] /\ c < d)

Ordered(worth, f, these) ==
  /\ f \in [1..Cardinality(these) -> these] /\ ToSet(f) = these
  /\ \A i, j \in DOMAIN f : i < j => Precedes(worth, f[i], f[j])

(* Of some coins one comes before all others.                               *)
LEMMA OneIsFirst ==
  ASSUME NEW lim \in Nat, NEW these, these # {}, these \subseteq Nat, NEW worth,
         \A c \in these : worth[c] \in 0..lim
  PROVE  \E c \in these : \A d \in these \ {c} : Precedes(worth, c, d)
<1> DEFINE lacks == {lim - worth[c] : c \in these}
<1>1. lacks \subseteq Nat /\ lacks # {}
  OBVIOUS
<1>2. PICK l \in lacks : \A k \in lacks : l <= k
  BY <1>1, Least
<1> DEFINE most == {c \in these : lim - worth[c] = l}
<1>3. most # {} /\ most \subseteq Nat
  OBVIOUS
<1>4. PICK c \in most : \A d \in most : c <= d
  BY <1>3, Least
<1>5. ASSUME NEW d \in these \ {c} PROVE Precedes(worth, c, d)
  <2>1. lim - worth[d] \in lacks
    OBVIOUS
  <2>2. l <= lim - worth[d] /\ worth[c] \in 0..lim /\ worth[d] \in 0..lim /\ lim - worth[c] = l
    BY <1>2, <2>1
  <2>3. c \in Nat /\ d \in Nat /\ c # d
    BY <1>3
  <2>4. CASE d \in most
    BY <1>4, <2>2, <2>3, <2>4 DEF Precedes
  <2>5. CASE d \notin most
    BY <2>2, <2>5 DEF Precedes
  <2> QED
    BY <2>4, <2>5
<1> QED
  BY <1>5

(* Coins are put before others that come after them.                        *)
LEMMA PutFirst ==
  ASSUME NEW n \in Nat, NEW T, NEW c, c \notin T, NEW f \in [1..n -> T], ToSet(f) = T, NEW worth,
         \A i, j \in 1..n : i < j => Precedes(worth, f[i], f[j]),
         \A d \in T : Precedes(worth, c, d)
  PROVE  \E g \in [1..(n + 1) -> T \cup {c}] :
           /\ ToSet(g) = T \cup {c}
           /\ \A i, j \in 1..(n + 1) : i < j => Precedes(worth, g[i], g[j])
<1> DEFINE g == [i \in 1..(n + 1) |-> IF i = 1 THEN c ELSE f[i - 1]]
<1>1. \A i \in 1..(n + 1) : i # 1 => i - 1 \in 1..n
  OBVIOUS
<1>2. /\ g \in [1..(n + 1) -> T \cup {c}] /\ g[1] = c
      /\ \A i \in 1..(n + 1) : i # 1 => g[i] = f[i - 1]
  BY <1>1
<1>3. \A i \in 1..n : g[i + 1] = f[i]
  BY <1>1
<1> HIDE DEF g
<1>4. ToSet(g) = T \cup {c}
  <2>1. ToSet(g) \subseteq T \cup {c}
    BY <1>2 DEF ToSet
  <2>2. c \in ToSet(g)
    BY <1>2 DEF ToSet
  <2>3. ASSUME NEW d \in T PROVE d \in ToSet(g)
    <3>1. PICK i \in 1..n : f[i] = d
      BY DEF ToSet
    <3>2. i + 1 \in 1..(n + 1) /\ g[i + 1] = d
      BY <1>3, <3>1
    <3> QED
      BY <1>2, <3>2 DEF ToSet
  <2> QED
    BY <2>1, <2>2, <2>3
<1>5. ASSUME NEW i \in 1..(n + 1), NEW j \in 1..(n + 1), i < j
      PROVE  Precedes(worth, g[i], g[j])
  <2>1. j - 1 \in 1..n /\ g[j] = f[j - 1] /\ f[j - 1] \in T
    BY <1>1, <1>2, <1>5
  <2>2. CASE i = 1
    BY <1>2, <2>1, <2>2
  <2>3. CASE i # 1
    BY <1>1, <1>2, <1>5, <2>1, <2>3
  <2> QED
    BY <2>2, <2>3
<1> QED
  BY <1>2, <1>4, <1>5

(* Some coins can be put in their order.                                    *)
LEMMA CanBeOrdered ==
  ASSUME NEW lim \in Nat, NEW these, IsFiniteSet(these), these \subseteq Nat, NEW worth,
         \A c \in these : worth[c] \in 0..lim
  PROVE  \E f : Ordered(worth, f, these)
<1> DEFINE N == Cardinality(these)
           T == {n \in 0..N : \A S \in SUBSET these :
                   Cardinality(S) = n => \E f : Ordered(worth, f, S)}
<1>1. N \in Nat /\ \A S \in SUBSET these : IsFiniteSet(S) /\ Cardinality(S) \in Nat
  BY FS_CardinalityType, FS_Subset
<1> HIDE DEF N
<1>2. 0 \in T
  <2>1. ASSUME NEW S \in SUBSET these, Cardinality(S) = 0
        PROVE  Ordered(worth, [i \in 1..0 |-> 0], S)
    <3>1. S = {}
      BY <1>1, <2>1, FS_EmptySet
    <3> QED
      BY <2>1, <3>1 DEF Ordered, ToSet
  <2> QED
    BY <1>1, <2>1
<1>3. ASSUME NEW n \in 1..N, n - 1 \in T
      PROVE  n \in T
  <2>0. n \in Nat /\ n \in 0..N /\ n - 1 \in Nat /\ n # 0 /\ (n - 1) + 1 = n
    BY <1>1
  <2>1. ASSUME NEW S \in SUBSET these, Cardinality(S) = n
        PROVE  \E f : Ordered(worth, f, S)
    <3>1. S # {}
      BY <2>0, <2>1, FS_EmptySet
    <3>2. PICK c \in S : \A d \in S \ {c} : Precedes(worth, c, d)
      BY <3>1, OneIsFirst
    <3> DEFINE R == S \ {c}
    <3>3. Cardinality(R) = n - 1 /\ R \in SUBSET these
      BY <1>1, <2>0, <2>1, FS_RemoveElement
    <3>4. PICK f : Ordered(worth, f, R)
      BY <1>3, <3>3
    <3>5. f \in [1..(n - 1) -> R] /\ ToSet(f) = R /\ c \notin R /\ DOMAIN f = 1..(n - 1)
      BY <3>3, <3>4 DEF Ordered
    <3>6. \A i, j \in 1..(n - 1) : i < j => Precedes(worth, f[i], f[j])
      BY <3>4, <3>5 DEF Ordered
    <3>7. \A d \in R : Precedes(worth, c, d)
      BY <3>2
    <3>8. R \cup {c} = S
      OBVIOUS
    <3> HIDE DEF R
    <3>9. PICK g \in [1..((n - 1) + 1) -> R \cup {c}] :
            /\ ToSet(g) = R \cup {c}
            /\ \A i, j \in 1..((n - 1) + 1) : i < j => Precedes(worth, g[i], g[j])
      BY <2>0, <3>5, <3>6, <3>7, PutFirst
    <3> QED
      BY <2>0, <2>1, <3>8, <3>9 DEF Ordered
  <2> QED
    BY <2>0, <2>1
<1> HIDE DEF T
<1>4. N \in T
  <2>1. \A n \in 0..N : n \in T
    BY <1>1, <1>2, <1>3, Induction
  <2> QED
    BY <1>1, <2>1
<1> QED
  BY <1>4 DEF T, N

(* So sorted puts coins that are there in their order, each once.           *)
LEMMA SortedCoins ==
  ASSUME FoldTypeOK, NEW these, these \subseteq Coin, \A c \in these : purse[c] # Gone
  PROVE  /\ sorted(these) \in Seq(these) /\ ToSet(sorted(these)) = these
         /\ \A i, j \in 1..Len(sorted(these)) : sorted(these)[i] = sorted(these)[j] => i = j
<1> DEFINE f == sorted(these)
<1>1. these \subseteq Nat /\ IsFiniteSet(these) /\ Cardinality(these) \in Nat
  BY CoinsAreNumbered, FS_CardinalityType, FS_Subset
<1>2. MaxValue \in Nat /\ \A c \in these : purse[c] \in 0..MaxValue
  BY UnitsAreCounts DEF FoldTypeOK
<1>3. \E g : Ordered(purse, g, these)
  BY <1>1, <1>2, CanBeOrdered
<1>4. Ordered(purse, f, these)
  <2> DEFINE Fits(g) == ToSet(g) = these
                          /\ \A i, j \in DOMAIN g : i < j => Precedes(purse, g[i], g[j])
             lists == [1..Cardinality(these) -> these]
  <2>1. f = CHOOSE g \in lists : Fits(g)
    BY DEF sorted, Precedes
  <2>2. \E g \in lists : Fits(g)
    BY <1>3 DEF Ordered
  <2>3. \A g : g \in lists /\ Fits(g) => Ordered(purse, g, these)
    BY DEF Ordered
  <2> HIDE DEF Fits, lists, f
  <2> QED
    BY <2>1, <2>2, <2>3
<1> HIDE DEF f
<1>5. f \in Seq(these) /\ DOMAIN f = 1..Len(f)
  BY <1>1, <1>4 DEF Ordered
<1>6. ASSUME NEW i \in 1..Len(f), NEW j \in 1..Len(f), f[i] = f[j], i # j
      PROVE  FALSE
  <2>1. f[i] \in these /\ f[j] \in these
    BY <1>5
  <2>2. purse[f[i]] \in 0..MaxValue /\ f[i] \in Nat
    BY <1>1, <1>2, <2>1
  <2>3. ~Precedes(purse, f[i], f[j]) /\ ~Precedes(purse, f[j], f[i])
    BY <1>2, <1>6, <2>2 DEF Precedes
  <2> QED
    BY <1>4, <1>5, <1>6, <2>3 DEF Ordered
<1> QED
  BY <1>4, <1>5, <1>6 DEF f, Ordered

-----------------------------------------------------------------------------
(* The groups.                                                              *)

(* The quotient of two numbers.                                             *)
LEMMA Divided ==
  ASSUME NEW a \in Nat, NEW k \in Nat \ {0}
  PROVE  /\ a \div k \in Nat /\ (a \div k) * k \in Nat
         /\ (a \div k) * k <= a /\ a < (a \div k) * k + k
<1>1. a = k * (a \div k) + (a % k)
  OBVIOUS
<1>3. a % k \in 0..(k - 1)
  OBVIOUS
<1>2. a \div k \in Int
  OBVIOUS
<1> QED
  BY <1>1, <1>2, <1>3

(* Twice as much of the same is as much of twice.                           *)
LEMMA Products ==
  ASSUME NEW k \in Nat \ {0}, NEW b \in Int, NEW c \in Int
  PROVE  /\ b * k \in Int /\ (b - 1) * k = b * k - k /\ (b + 1) * k = b * k + k
         /\ b < c => b * k + k <= c * k
         /\ b <= c => b * k <= c * k
         /\ b * k < c * k => b < c
OBVIOUS

(* A group is some of the coins, one after the other, and no more than one  *)
(* transaction takes; no two groups have a coin in common.                  *)
LEMMA Groups ==
  ASSUME NEW C, NEW these \in Seq(C),
         \A i, j \in 1..Len(these) : these[i] = these[j] => i = j
  PROVE  LET groups == groupsOf(these)
         IN  /\ groups \in Seq(Seq(C))
             /\ \A g \in 1..Len(groups) :
                  Len(groups[g]) \in 1..PerTransaction /\ ToSet(groups[g]) \subseteq ToSet(these)
             /\ \A g, h \in 1..Len(groups) :
                  g # h => ToSet(groups[g]) \cap ToSet(groups[h]) = {}
<1> DEFINE K == PerTransaction
           L == Len(these)
           n == (L + K - 1) \div K
           from(g) == (g - 1) * K + 1
           to(g) == IF g * K < L THEN g * K ELSE L
           groups == groupsOf(these)
<1>1. K \in Nat \ {0} /\ L \in Nat
  BY CoinLimitsPositive
<1>2. groups = [g \in 1..n |-> SubSeq(these, from(g), to(g))]
  BY DEF groupsOf
<1> HIDE DEF K, L, groups
<1>3. n \in Nat /\ n * K <= L + K - 1 /\ L + K - 1 < n * K + K /\ n * K \in Nat
  <2>1. L + K - 1 \in Nat
    BY <1>1
  <2> QED
    BY <1>1, <2>1, Divided
<1> HIDE DEF n
<1>4. ASSUME NEW g \in 1..n
      PROVE  /\ from(g) \in 1..L /\ to(g) \in 1..L /\ from(g) <= to(g) /\ to(g) < from(g) + K
             /\ \A h \in 1..n : g < h => to(g) < from(h)
  <2> DEFINE x == g * K
             y == n * K
             z == (g - 1) * K
  <2>1. g \in Int /\ n \in Int /\ 1 \in Int /\ g >= 1 /\ g <= n
    BY <1>3
  <2>2. g * K \in Int /\ (g - 1) * K = g * K - K /\ 1 * K <= g * K /\ 1 * K = K /\ g * K <= n * K
    BY <1>1, <2>1, Products
  <2>3. x \in Int /\ y \in Int /\ z = x - K /\ K <= x /\ x <= y /\ y <= L + K - 1
    BY <1>3, <2>2
  <2>4. from(g) = z + 1 /\ to(g) = IF x < L THEN x ELSE L
    OBVIOUS
  <2>5. ASSUME NEW h \in 1..n, g < h PROVE x + 1 <= from(h)
    <3> DEFINE v == (h - 1) * K
    <3>1. h - 1 \in Int /\ g <= h - 1
      BY <2>1, <2>5
    <3>2. g * K <= (h - 1) * K /\ (h - 1) * K \in Int
      BY <1>1, <2>1, <3>1, Products
    <3>3. from(h) = v + 1 /\ x <= v /\ v \in Int
      BY <3>2
    <3> HIDE DEF v, x, from
    <3> QED
      BY <2>3, <3>3
  <2> HIDE DEF x, y, z, from, to
  <2>6. from(g) \in 1..L /\ to(g) \in 1..L /\ from(g) <= to(g) /\ to(g) < from(g) + K /\ to(g) <= x
    BY <1>1, <2>3, <2>4
  <2>7. \A h \in 1..n : g < h => from(h) \in Int
    BY <1>1, <1>3, Products DEF from
  <2> QED
    BY <2>3, <2>5, <2>6, <2>7
<1> HIDE DEF from, to
<1>5. ASSUME NEW g \in 1..n
      PROVE  /\ SubSeq(these, from(g), to(g)) \in Seq(C)
             /\ Len(SubSeq(these, from(g), to(g))) = to(g) - from(g) + 1
             /\ \A k \in 1..(to(g) - from(g) + 1) :
                  SubSeq(these, from(g), to(g))[k] = these[from(g) + k - 1]
  BY <1>1, <1>4 DEF L
<1>6. /\ groups \in Seq(Seq(C)) /\ Len(groups) = n
      /\ \A g \in 1..n : /\ Len(groups[g]) = to(g) - from(g) + 1
                         /\ \A k \in 1..Len(groups[g]) : groups[g][k] = these[from(g) + k - 1]
  <2> DEFINE slice(g) == SubSeq(these, from(g), to(g))
  <2>1. groups = [g \in 1..n |-> slice(g)]
    BY <1>2
  <2>2. \A g \in 1..n : /\ slice(g) \in Seq(C) /\ Len(slice(g)) = to(g) - from(g) + 1
                        /\ \A k \in 1..Len(slice(g)) : slice(g)[k] = these[from(g) + k - 1]
    BY <1>5
  <2> HIDE DEF slice
  <2>3. Len(groups) = n /\ groups \in Seq(Seq(C)) /\ \A g \in 1..n : groups[g] = slice(g)
    BY <1>3, <2>1, <2>2
  <2> QED
    BY <2>2, <2>3
<1>7. ASSUME NEW g \in 1..n, NEW c \in ToSet(groups[g])
      PROVE  \E i \in 1..L : from(g) <= i /\ i <= to(g) /\ these[i] = c
  <2>1. groups[g] \in Seq(C)
    BY <1>6
  <2>2. PICK k \in 1..Len(groups[g]) : groups[g][k] = c
    BY <2>1 DEF ToSet
  <2> DEFINE i == from(g) + k - 1
  <2>3. /\ k \in 1..(to(g) - from(g) + 1) /\ groups[g][k] = these[from(g) + k - 1]
        /\ from(g) \in 1..L /\ to(g) \in 1..L
    BY <1>4, <1>6
  <2>4. i \in 1..L /\ from(g) <= i /\ i <= to(g)
    BY <1>1, <2>3
  <2>5. these[i] = c
    BY <2>2, <2>3
  <2> QED
    BY <2>4, <2>5
<1>8. ASSUME NEW g \in 1..n, NEW h \in 1..n, g < h, NEW c, c \in ToSet(groups[g]), c \in ToSet(groups[h])
      PROVE  FALSE
  <2>1. PICK i \in 1..L : from(g) <= i /\ i <= to(g) /\ these[i] = c
    BY <1>7, <1>8
  <2>2. PICK j \in 1..L : from(h) <= j /\ j <= to(h) /\ these[j] = c
    BY <1>7, <1>8
  <2>3. i = j
    BY <2>1, <2>2 DEF L
  <2> QED
    BY <1>1, <1>4, <1>8, <2>1, <2>2, <2>3
<1>9. ASSUME NEW g \in 1..n
      PROVE  Len(groups[g]) \in 1..K /\ ToSet(groups[g]) \subseteq ToSet(these)
  <2>1. Len(groups[g]) \in 1..K
    BY <1>1, <1>4, <1>6
  <2>2. ASSUME NEW c \in ToSet(groups[g]) PROVE c \in ToSet(these)
    <3>1. DOMAIN these = 1..L
      BY DEF L
    <3>2. \E i \in 1..L : these[i] = c
      BY <1>7, <2>2
    <3> QED
      BY <3>1, <3>2 DEF ToSet
  <2> QED
    BY <2>1, <2>2
<1>10. ASSUME NEW g \in 1..n, NEW h \in 1..n, g # h
       PROVE  ToSet(groups[g]) \cap ToSet(groups[h]) = {}
  <2>1. g < h \/ h < g
    BY <1>3, <1>10
  <2> QED
    BY <1>8, <2>1
<1> QED
  BY <1>6, <1>9, <1>10 DEF groups, K

-----------------------------------------------------------------------------
(* The plan.                                                                *)

Batch == [coins : Seq(Coin), gas : Gas]

Plan == [batches : Seq(Batch), skipped : SUBSET Coin, projected : Int]

Units(b) == foldBudgetUnits(Len(b.coins))

(* What is planned to be paid by its own coins or by the balance is of SUI;  *)
(* what the resolver is left to pay for comes after all of that.            *)
InTurn(batches) ==
  /\ \A i \in 1..Len(batches) :
       /\ Len(batches[i].coins) \in 1..PerTransaction
       /\ batches[i].gas # "auto" => ToSet(batches[i].coins) \subseteq SuiCoin
  /\ \A i, j \in 1..Len(batches) : i < j /\ batches[i].gas = "auto" => batches[j].gas = "auto"

(* No coin is in two of the batches, or in one and among the skipped.       *)
Apart(batches, skipped) ==
  /\ \A i, j \in 1..Len(batches) : i # j => ToSet(batches[i].coins) \cap ToSet(batches[j].coins) = {}
  /\ \A i \in 1..Len(batches) : ToSet(batches[i].coins) \cap skipped = {}

(* From the batch at on, the coins are there, those that pay for themselves  *)
(* are worth it, and a balance of at least projection[i] before each batch   *)
(* pays for the others.                                                     *)
Present(worth, batches, at) ==
  \A i \in at..Len(batches) : \A k \in 1..Len(batches[i].coins) : worth[batches[i].coins[k]] \in Nat

Projects(projection, worth, batches, at) ==
  /\ projection \in [1..(Len(batches) + 1) -> Int]
  /\ \A i \in at..Len(batches) :
       /\ batches[i].gas = "foldedCoins" => SumOver(worth, batches[i].coins) >= Units(batches[i])
       /\ batches[i].gas = "addressBalance" => projection[i] >= Units(batches[i])
       /\ batches[i].gas # "auto" =>
            projection[i + 1] = projection[i] + SumOver(worth, batches[i].coins) - Units(batches[i])

(* A plan made of some groups, by a balance of so much.                     *)
Planned(plan, balance, worth, these) ==
  /\ plan \in Plan
  /\ InTurn(plan.batches) /\ Apart(plan.batches, plan.skipped) /\ Present(worth, plan.batches, 1)
  /\ plan.skipped \subseteq these
  /\ \A i \in 1..Len(plan.batches) : ToSet(plan.batches[i].coins) \subseteq these
  /\ \E projection :
       /\ Projects(projection, worth, plan.batches, 1) /\ projection[1] = balance
       /\ (\A i \in 1..Len(plan.batches) : plan.batches[i].gas # "auto") =>
            projection[Len(plan.batches) + 1] = plan.projected

(* A batch is added at the end.                                             *)
LEMMA OneMoreBatch ==
  ASSUME NEW plan, NEW balance, NEW worth, NEW these, Planned(plan, balance, worth, these),
         NEW group \in Seq(Coin), Len(group) \in 1..PerTransaction,
         ToSet(group) \cap these = {}, \A k \in 1..Len(group) : worth[group[k]] \in Nat,
         NEW gas \in Gas, NEW projected \in Int,
         gas # "auto" => ToSet(group) \subseteq SuiCoin,
         gas # "auto" => \A i \in 1..Len(plan.batches) : plan.batches[i].gas # "auto",
         gas = "foldedCoins" => SumOver(worth, group) >= foldBudgetUnits(Len(group)),
         gas = "addressBalance" => plan.projected >= foldBudgetUnits(Len(group)),
         gas # "auto" => projected = plan.projected + SumOver(worth, group) - foldBudgetUnits(Len(group))
  PROVE  Planned([batches |-> Append(plan.batches, [coins |-> group, gas |-> gas]),
                  skipped |-> plan.skipped, projected |-> projected],
                 balance, worth, these \cup ToSet(group))
<1> DEFINE one == [coins |-> group, gas |-> gas]
           was == plan.batches
           is == Append(was, one)
           l == Len(was)
           next == [batches |-> is, skipped |-> plan.skipped, projected |-> projected]
<1>1. /\ was \in Seq(Batch) /\ plan.skipped \in SUBSET Coin /\ plan.projected \in Int
      /\ InTurn(was) /\ Apart(was, plan.skipped) /\ Present(worth, was, 1)
      /\ plan.skipped \subseteq these
      /\ \A i \in 1..l : ToSet(was[i].coins) \subseteq these
  BY DEF Planned, Plan
<1>2. one \in Batch /\ one.coins = group /\ one.gas = gas /\ Units(one) = foldBudgetUnits(Len(group))
  BY DEF Batch, Units
<1>3. PICK projection :
        /\ Projects(projection, worth, was, 1) /\ projection[1] = balance
        /\ (\A i \in 1..l : was[i].gas # "auto") => projection[l + 1] = plan.projected
  BY DEF Planned
<1> HIDE DEF was, one
<1>4. /\ is \in Seq(Batch) /\ Len(is) = l + 1 /\ is[l + 1] = one /\ l \in Nat
      /\ \A i \in 1..l : is[i] = was[i]
  BY <1>1, <1>2
<1> HIDE DEF is, l
<1>5. \A i \in 1..(l + 1) : i \in 1..l \/ i = l + 1
  BY <1>4
<1>6. InTurn(is)
  <2>1. ASSUME NEW i \in 1..(l + 1)
        PROVE  /\ Len(is[i].coins) \in 1..PerTransaction
               /\ is[i].gas # "auto" => ToSet(is[i].coins) \subseteq SuiCoin
    BY <1>1, <1>2, <1>4, <1>5 DEF InTurn, l
  <2>2. ASSUME NEW i \in 1..(l + 1), NEW j \in 1..(l + 1), i < j, is[i].gas = "auto"
        PROVE  is[j].gas = "auto"
    <3>1. i \in 1..l /\ was[i].gas = "auto"
      BY <1>4, <1>5, <2>2
    <3>2. CASE j \in 1..l
      BY <1>1, <1>4, <2>2, <3>1, <3>2 DEF InTurn, l
    <3>3. CASE j = l + 1
      BY <1>2, <1>4, <3>1, <3>3 DEF was, l
    <3> QED
      BY <1>5, <3>2, <3>3
  <2> QED
    BY <1>4, <2>1, <2>2 DEF InTurn
<1>7. Apart(is, plan.skipped)
  <2>1. \A i \in 1..l : ToSet(is[i].coins) \cap ToSet(group) = {} /\ is[i].coins = was[i].coins
    BY <1>1, <1>4
  <2>2. is[l + 1].coins = group /\ ToSet(group) \cap plan.skipped = {}
    BY <1>1, <1>2, <1>4
  <2>3. ASSUME NEW i \in 1..(l + 1), NEW j \in 1..(l + 1), i # j
        PROVE  ToSet(is[i].coins) \cap ToSet(is[j].coins) = {}
    <3>1. CASE i = l + 1
      BY <1>5, <2>1, <2>2, <2>3, <3>1
    <3>2. CASE j = l + 1
      BY <1>5, <2>1, <2>2, <2>3, <3>2
    <3>3. CASE i \in 1..l /\ j \in 1..l
      BY <1>1, <2>1, <2>3, <3>3 DEF Apart, l
    <3> QED
      BY <1>5, <3>1, <3>2, <3>3
  <2>4. ASSUME NEW i \in 1..(l + 1)
        PROVE  ToSet(is[i].coins) \cap plan.skipped = {}
    BY <1>1, <1>5, <2>1, <2>2 DEF Apart, l
  <2> QED
    BY <1>4, <2>3, <2>4 DEF Apart
<1>8. Present(worth, is, 1)
  <2>1. ASSUME NEW i \in 1..(l + 1), NEW k \in 1..Len(is[i].coins)
        PROVE  worth[is[i].coins[k]] \in Nat
    <3>1. CASE i \in 1..l
      BY <1>1, <1>4, <3>1 DEF Present, l
    <3>2. CASE i = l + 1
      BY <1>2, <1>4, <3>2
    <3> QED
      BY <1>5, <3>1, <3>2
  <2> QED
    BY <1>4, <2>1 DEF Present
<1>9. ASSUME NEW i \in 1..(l + 1)
      PROVE  ToSet(is[i].coins) \subseteq these \cup ToSet(group)
  BY <1>1, <1>2, <1>4, <1>5
<1>10. \E p : /\ Projects(p, worth, is, 1) /\ p[1] = balance
              /\ (\A i \in 1..(l + 1) : is[i].gas # "auto") => p[(l + 1) + 1] = projected
  <2> DEFINE p == [i \in 1..((l + 1) + 1) |-> IF i = (l + 1) + 1 THEN projected ELSE projection[i]]
  <2>1. projection \in [1..(l + 1) -> Int]
    BY <1>3 DEF Projects, l
  <2>2. /\ \A i \in 1..(l + 1) : p[i] = projection[i] /\ i \in 1..((l + 1) + 1)
        /\ p[(l + 1) + 1] = projected
        /\ p \in [1..((l + 1) + 1) -> Int] /\ 1 \in 1..(l + 1)
    <3>1. \A i \in 1..((l + 1) + 1) : i \in 1..(l + 1) \/ i = (l + 1) + 1
      BY <1>4
    <3>2. \A i \in 1..(l + 1) : i # (l + 1) + 1 /\ i \in 1..((l + 1) + 1)
      BY <1>4
    <3>3. (l + 1) + 1 \in 1..((l + 1) + 1) /\ 1 \in 1..(l + 1)
      BY <1>4
    <3> QED
      BY <2>1, <3>1, <3>2, <3>3
  <2> HIDE DEF p
  <2>3. ASSUME NEW i \in 1..(l + 1)
        PROVE  /\ is[i].gas = "foldedCoins" => SumOver(worth, is[i].coins) >= Units(is[i])
               /\ is[i].gas = "addressBalance" => p[i] >= Units(is[i])
               /\ is[i].gas # "auto" =>
                    p[i + 1] = p[i] + SumOver(worth, is[i].coins) - Units(is[i])
    <3>1. CASE i \in 1..l
      <4>1. i + 1 \in 1..(l + 1) /\ is[i] = was[i]
        BY <1>4, <3>1
      <4> QED
        BY <1>3, <2>2, <3>1, <4>1 DEF Projects, l
    <3>2. CASE i = l + 1
      <4>1. is[i] = one /\ p[i] = projection[l + 1] /\ p[i + 1] = projected
        BY <1>4, <2>2, <3>2
      <4>2. gas # "auto" => projection[l + 1] = plan.projected
        BY <1>3 DEF was, l
      <4> QED
        BY <1>2, <4>1, <4>2
    <3> QED
      BY <1>5, <3>1, <3>2
  <2>4. Projects(p, worth, is, 1)
    BY <1>4, <2>2, <2>3 DEF Projects
  <2> QED
    BY <1>3, <2>2, <2>4
<1>11. /\ next \in Plan /\ next.batches = is /\ next.skipped = plan.skipped
       /\ next.projected = projected
  BY <1>1, <1>4 DEF Plan
<1>12. Planned(next, balance, worth, these \cup ToSet(group))
  <2> HIDE DEF next
  <2> QED
    BY <1>1, <1>4, <1>6, <1>7, <1>8, <1>9, <1>10, <1>11 DEF Planned
<1> QED
  BY <1>12 DEF is, one, was

(* A group of SUI is added to the plan, or skipped.                         *)
LEMMA WithSui ==
  ASSUME NEW plan, NEW balance, NEW these, Planned(plan, balance, purse, these),
         NEW group \in Seq(Coin), Len(group) \in 1..PerTransaction, ToSet(group) \subseteq SuiCoin,
         ToSet(group) \cap these = {}, \A k \in 1..Len(group) : purse[group[k]] \in Nat,
         \A i \in 1..Len(plan.batches) : plan.batches[i].gas # "auto"
  PROVE  /\ Planned(withSui(plan, group), balance, purse, these \cup ToSet(group))
         /\ \A i \in 1..Len(withSui(plan, group).batches) :
              withSui(plan, group).batches[i].gas # "auto"
<1> DEFINE amount == SumOver(purse, group)
           estimate == foldBudgetUnits(Len(group))
           made(gas) == [batches |-> Append(plan.batches, [coins |-> group, gas |-> gas]),
                         skipped |-> plan.skipped, projected |-> plan.projected + amount - estimate]
           left == [plan EXCEPT !.skipped = @ \cup ToSet(group)]
           next == withSui(plan, group)
           NoAuto(batches) == \A i \in 1..Len(batches) : batches[i].gas # "auto"
<1>1. next = IF amount >= estimate THEN made("foldedCoins")
             ELSE IF plan.projected >= estimate THEN made("addressBalance") ELSE left
  BY SumIsOver DEF withSui
<1>2. /\ amount \in Nat /\ estimate \in Nat /\ plan \in Plan /\ plan.projected \in Int
      /\ plan.batches \in Seq(Batch)
  <2>1. amount \in Nat
    <3>1. Len(group) \in 0..Len(group)
      OBVIOUS
    <3> QED
      BY <3>1, SumGrows
  <2>2. plan \in Plan
    BY DEF Planned
  <2>3. estimate \in Nat
    BY UnitsAreCounts DEF foldBudgetUnits
  <2> QED
    BY <2>1, <2>2, <2>3 DEF Plan
<1> HIDE DEF amount, estimate
<1>3. ASSUME NEW gas \in {"foldedCoins", "addressBalance"},
             gas = "foldedCoins" => amount >= estimate,
             gas = "addressBalance" => plan.projected >= estimate
      PROVE  Planned(made(gas), balance, purse, these \cup ToSet(group)) /\ NoAuto(made(gas).batches)
  <2>1. gas \in Gas /\ gas # "auto"
    BY DEF Gas
  <2> DEFINE projected == plan.projected + amount - estimate
  <2>2. projected \in Int
    BY <1>2
  <2>3. Planned(made(gas), balance, purse, these \cup ToSet(group))
    <3> HIDE DEF projected
    <3>1. projected = plan.projected + SumOver(purse, group) - foldBudgetUnits(Len(group))
      BY DEF projected, amount, estimate
    <3>2. gas = "foldedCoins" => SumOver(purse, group) >= foldBudgetUnits(Len(group))
      BY <1>3 DEF amount, estimate
    <3>3. gas = "addressBalance" => plan.projected >= foldBudgetUnits(Len(group))
      BY <1>3 DEF estimate
    <3>4. Planned([batches |-> Append(plan.batches, [coins |-> group, gas |-> gas]),
                   skipped |-> plan.skipped, projected |-> projected],
                  balance, purse, these \cup ToSet(group))
      BY <2>1, <2>2, <3>1, <3>2, <3>3, OneMoreBatch
    <3> QED
      BY <3>4 DEF projected
  <2>4. NoAuto(made(gas).batches)
    <3> DEFINE one == [coins |-> group, gas |-> gas]
    <3>1. one.gas = gas /\ one \in Batch
      BY <2>1 DEF Batch
    <3> HIDE DEF one
    <3>2. NoAuto(Append(plan.batches, one))
      BY <1>2, <2>1, <3>1
    <3> QED
      BY <3>2 DEF one
  <2> QED
    BY <2>3, <2>4
<1>4. Planned(left, balance, purse, these \cup ToSet(group)) /\ NoAuto(left.batches)
  <2>1. ToSet(group) \subseteq Coin
    BY DEF ToSet
  <2>2. /\ left.batches = plan.batches /\ left.projected = plan.projected
        /\ left.skipped = plan.skipped \cup ToSet(group) /\ left \in Plan
    BY <1>2, <2>1 DEF Plan
  <2> HIDE DEF left
  <2>3. Apart(plan.batches, plan.skipped \cup ToSet(group))
    BY DEF Planned, Apart
  <2>4. plan.skipped \cup ToSet(group) \subseteq these \cup ToSet(group)
    BY DEF Planned
  <2> QED
    BY <2>2, <2>3, <2>4 DEF Planned
<1> HIDE DEF made, left, next, NoAuto
<1>5. Planned(next, balance, purse, these \cup ToSet(group)) /\ NoAuto(next.batches)
  <2>1. CASE amount >= estimate
    BY <1>1, <1>3, <2>1
  <2>2. CASE ~(amount >= estimate) /\ plan.projected >= estimate
    BY <1>1, <1>3, <2>2
  <2>3. CASE ~(amount >= estimate) /\ ~(plan.projected >= estimate)
    BY <1>1, <1>4, <2>3
  <2> QED
    BY <2>1, <2>2, <2>3
<1> QED
  BY <1>5 DEF next, NoAuto

(* A group of other coins is added to the plan.                             *)
LEMMA WithOther ==
  ASSUME NEW plan, NEW balance, NEW these, Planned(plan, balance, purse, these),
         NEW group \in Seq(Coin), Len(group) \in 1..PerTransaction,
         ToSet(group) \cap these = {}, \A k \in 1..Len(group) : purse[group[k]] \in Nat
  PROVE  Planned(withOther(plan, group), balance, purse, these \cup ToSet(group))
<1>1. plan \in Plan /\ plan.projected \in Int
  BY DEF Planned, Plan
<1> DEFINE one == [coins |-> group, gas |-> "auto"]
<1>2. withOther(plan, group) = [batches |-> Append(plan.batches, one), skipped |-> plan.skipped,
                                projected |-> plan.projected]
  <2> HIDE DEF one
  <2>1. withOther(plan, group) = [plan EXCEPT !.batches = Append(@, one)]
    BY DEF withOther, one
  <2> QED
    BY <1>1, <2>1 DEF Plan
<1>3. "auto" \in Gas
  BY DEF Gas
<1>4. Planned([batches |-> Append(plan.batches, one), skipped |-> plan.skipped,
               projected |-> plan.projected], balance, purse, these \cup ToSet(group))
  BY <1>1, <1>3, OneMoreBatch
<1> QED
  BY <1>2, <1>4

(* Either gives a plan for a plan.                                          *)
LEMMA PlansGivePlans ==
  ASSUME NEW plan \in Plan, NEW group \in Seq(Coin), \A k \in 1..Len(group) : purse[group[k]] \in Nat
  PROVE  withSui(plan, group) \in Plan /\ withOther(plan, group) \in Plan
<1> DEFINE amount == SumOver(purse, group)
           estimate == foldBudgetUnits(Len(group))
           one(gas) == [coins |-> group, gas |-> gas]
           made(gas) == [batches |-> Append(plan.batches, one(gas)),
                         skipped |-> plan.skipped, projected |-> plan.projected + amount - estimate]
           left == [plan EXCEPT !.skipped = @ \cup ToSet(group)]
           with == [plan EXCEPT !.batches = Append(@, one("auto"))]
<1>1. withSui(plan, group) = IF amount >= estimate THEN made("foldedCoins")
                             ELSE IF plan.projected >= estimate THEN made("addressBalance") ELSE left
  BY SumIsOver DEF withSui
<1>2. amount \in Int /\ estimate \in Int
  <2>1. Len(group) \in 0..Len(group)
    OBVIOUS
  <2>2. amount \in Nat
    BY <2>1, SumGrows
  <2> QED
    BY <2>2, UnitsAreCounts DEF foldBudgetUnits
<1> HIDE DEF amount, estimate
<1>3. /\ plan.batches \in Seq(Batch) /\ plan.projected \in Int /\ plan.skipped \in SUBSET Coin
      /\ ToSet(group) \subseteq Coin
  BY DEF Plan, ToSet
<1>4. \A gas \in Gas : one(gas) \in Batch
  BY DEF Batch
<1> HIDE DEF one
<1>5. ASSUME NEW gas \in Gas PROVE made(gas) \in Plan
  <2>1. Append(plan.batches, one(gas)) \in Seq(Batch)
    BY <1>3, <1>4
  <2>2. plan.projected + amount - estimate \in Int
    BY <1>2, <1>3
  <2> QED
    BY <1>3, <2>1, <2>2 DEF Plan
<1>6. left \in Plan
  BY <1>3 DEF Plan
<1>7. with \in Plan
  <2>1. Append(plan.batches, one("auto")) \in Seq(Batch)
    BY <1>3, <1>4 DEF Gas
  <2> QED
    BY <2>1 DEF Plan
<1>8. withOther(plan, group) = with
  BY DEF withOther, one
<1>9. {"foldedCoins", "addressBalance"} \subseteq Gas
  BY DEF Gas
<1> HIDE DEF made, left, with
<1> QED
  BY <1>1, <1>5, <1>6, <1>7, <1>8, <1>9

(* The coins there are fall into groups, those of SUI first.                *)
Grouped(group, n, m) ==
  /\ m \in 0..n
  /\ \A i \in 1..n :
       /\ group[i] \in Seq(Coin) /\ Len(group[i]) \in 1..PerTransaction
       /\ i <= m => ToSet(group[i]) \subseteq SuiCoin
       /\ \A k \in 1..Len(group[i]) : purse[group[i][k]] \in Nat
  /\ \A i, j \in 1..n : i # j => ToSet(group[i]) \cap ToSet(group[j]) = {}

(* The groups of some coins.                                                *)
LEMMA GroupsOfCoins ==
  ASSUME FoldTypeOK, NEW these, these \subseteq Coin, \A c \in these : purse[c] # Gone
  PROVE  LET groups == groupsOf(sorted(these))
         IN  /\ groups \in Seq(Seq(Coin))
             /\ \A i \in 1..Len(groups) :
                  /\ Len(groups[i]) \in 1..PerTransaction /\ ToSet(groups[i]) \subseteq these
                  /\ \A k \in 1..Len(groups[i]) : purse[groups[i][k]] \in Nat
             /\ \A i, j \in 1..Len(groups) : i # j => ToSet(groups[i]) \cap ToSet(groups[j]) = {}
<1> DEFINE groups == groupsOf(sorted(these))
<1>1. /\ sorted(these) \in Seq(these) /\ ToSet(sorted(these)) = these
      /\ \A i, j \in 1..Len(sorted(these)) : sorted(these)[i] = sorted(these)[j] => i = j
  BY SortedCoins
<1>2. /\ groups \in Seq(Seq(these))
      /\ \A g \in 1..Len(groups) :
           Len(groups[g]) \in 1..PerTransaction /\ ToSet(groups[g]) \subseteq these
      /\ \A g, h \in 1..Len(groups) : g # h => ToSet(groups[g]) \cap ToSet(groups[h]) = {}
  BY <1>1, Groups
<1> HIDE DEF groups
<1>3. \A g \in 1..Len(groups) : groups[g] \in Seq(these)
  BY <1>2
<1>4. \A c \in these : purse[c] \in Nat
  BY UnitsAreCounts DEF FoldTypeOK
<1>5. \A g \in 1..Len(groups) : groups[g] \in Seq(Coin)
  BY <1>3
<1>6. groups \in Seq(Seq(Coin))
  BY <1>2, <1>5
<1>7. \A i \in 1..Len(groups) : \A k \in 1..Len(groups[i]) : purse[groups[i][k]] \in Nat
  BY <1>3, <1>4
<1> QED
  BY <1>2, <1>6, <1>7 DEF groups

(* So what is planned is a plan, of all the coins there are.                *)
LEMMA PlanIsPlanned ==
  ASSUME FoldTypeOK
  PROVE  \E these : Planned(planOf({c \in Coin : purse[c] # Gone}), saved, purse, these)
<1> DEFINE held == {c \in Coin : purse[c] # Gone}
           sui == groupsOf(sorted(held \cap SuiCoin))
           other == groupsOf(sorted(held \ SuiCoin))
           M == Len(sui)
           N == Len(sui) + Len(other)
           start == [Empty EXCEPT !.projected = saved]
           Def(g) == [n \in 0..N |-> IF n = 0 THEN start
                                     ELSE IF n <= M THEN withSui(g[n - 1], sui[n])
                                     ELSE withOther(g[n - 1], other[n - M])]
           K == CHOOSE g : g = Def(g)
<1>1. planOf(held) = K[N]
  BY DEF planOf
<1>2. /\ sui \in Seq(Seq(Coin))
      /\ \A i \in 1..Len(sui) :
           /\ Len(sui[i]) \in 1..PerTransaction /\ ToSet(sui[i]) \subseteq held \cap SuiCoin
           /\ \A k \in 1..Len(sui[i]) : purse[sui[i][k]] \in Nat
      /\ \A i, j \in 1..Len(sui) : i # j => ToSet(sui[i]) \cap ToSet(sui[j]) = {}
  BY GroupsOfCoins
<1>3. /\ other \in Seq(Seq(Coin))
      /\ \A i \in 1..Len(other) :
           /\ Len(other[i]) \in 1..PerTransaction /\ ToSet(other[i]) \subseteq held \ SuiCoin
           /\ \A k \in 1..Len(other[i]) : purse[other[i][k]] \in Nat
      /\ \A i, j \in 1..Len(other) : i # j => ToSet(other[i]) \cap ToSet(other[j]) = {}
  BY GroupsOfCoins
<1> HIDE DEF sui, other
<1>4. M \in Nat /\ N \in Nat /\ M <= N /\ \A i \in (M + 1)..N : i - M \in 1..Len(other)
  BY <1>2, <1>3
<1> DEFINE group == [n \in 1..N |-> IF n <= M THEN sui[n] ELSE other[n - M]]
<1>5. /\ \A n \in 1..N : n <= M => n \in 1..M /\ group[n] = sui[n]
      /\ \A n \in 1..N : ~(n <= M) => n \in (M + 1)..N /\ group[n] = other[n - M]
  BY <1>4
<1> HIDE DEF group, N
<1>6. Grouped(group, N, M)
  <2>1. ASSUME NEW i \in 1..N
        PROVE  /\ group[i] \in Seq(Coin) /\ Len(group[i]) \in 1..PerTransaction
               /\ i <= M => ToSet(group[i]) \subseteq held \cap SuiCoin
               /\ ~(i <= M) => ToSet(group[i]) \subseteq held \ SuiCoin
               /\ \A k \in 1..Len(group[i]) : purse[group[i][k]] \in Nat
    <3>1. CASE i <= M
      <4>1. i \in 1..Len(sui) /\ group[i] = sui[i]
        BY <1>5, <3>1
      <4> QED
        BY <1>2, <3>1, <4>1
    <3>2. CASE ~(i <= M)
      <4>1. i - M \in 1..Len(other) /\ group[i] = other[i - M]
        BY <1>4, <1>5, <3>2
      <4> QED
        BY <1>3, <3>2, <4>1
    <3> QED
      BY <3>1, <3>2
  <2>2. ASSUME NEW i \in 1..N, NEW j \in 1..N, i # j
        PROVE  ToSet(group[i]) \cap ToSet(group[j]) = {}
    <3>1. CASE i <= M /\ j <= M
      BY <1>2, <1>5, <2>2, <3>1
    <3>2. CASE ~(i <= M) /\ ~(j <= M)
      <4>1. /\ i - M \in 1..Len(other) /\ group[i] = other[i - M]
            /\ j - M \in 1..Len(other) /\ group[j] = other[j - M]
        BY <1>4, <1>5, <3>2
      <4>2. i - M # j - M
        BY <1>4, <2>2
      <4> QED
        BY <1>3, <4>1, <4>2
    <3>3. CASE i <= M /\ ~(j <= M)
      BY <2>1, <3>3
    <3>4. CASE ~(i <= M) /\ j <= M
      BY <2>1, <3>4
    <3> QED
      BY <3>1, <3>2, <3>3, <3>4
  <2>3. M \in 0..N
    BY <1>4
  <2>4. \A i \in 1..N : i <= M => ToSet(group[i]) \subseteq SuiCoin
    BY <2>1
  <2> HIDE DEF M
  <2> QED
    BY <2>1, <2>2, <2>3, <2>4 DEF Grouped
<1>7. start = [batches |-> <<>>, skipped |-> {}, projected |-> saved] /\ saved \in Int
  <2>1. saved \in Int
    BY DEF FoldTypeOK
  <2>2. start = [batches |-> <<>>, skipped |-> {}, projected |-> saved]
    <3>1. PICK none : none = <<>>
      OBVIOUS
    <3>2. Empty = [batches |-> none, skipped |-> {}, projected |-> 0]
      BY <3>1 DEF Empty
    <3>3. start = [batches |-> none, skipped |-> {}, projected |-> saved]
      BY <3>2
    <3> QED
      BY <3>1, <3>3
  <2> QED
    BY <2>1, <2>2
<1> HIDE DEF start, held, M
<1>8. start \in Plan
  BY <1>7 DEF Plan
<1>9. K = Def(K)
  <2> DEFINE step == [p \in (1..N) \X Plan |-> IF p[1] <= M THEN withSui(p[2], group[p[1]])
                                              ELSE withOther(p[2], group[p[1]])]
             next(n, p) == IF n <= M THEN withSui(p, group[n]) ELSE withOther(p, group[n])
  <2>1. \A n \in 1..N, p \in Plan : step[<<n, p>>] = next(n, p)
    OBVIOUS
  <2>2. ASSUME NEW n \in 1..N, NEW p \in Plan PROVE next(n, p) \in Plan
    <3>1. group[n] \in Seq(Coin) /\ \A k \in 1..Len(group[n]) : purse[group[n][k]] \in Nat
      BY <1>6 DEF Grouped
    <3> QED
      BY <3>1, PlansGivePlans
  <2>3. step \in [(1..N) \X Plan -> Plan]
    <3> HIDE DEF next
    <3>1. step = [p \in (1..N) \X Plan |-> next(p[1], p[2])]
      BY DEF next
    <3>2. \A p \in (1..N) \X Plan : next(p[1], p[2]) \in Plan
      BY <2>2
    <3> HIDE DEF step
    <3> QED
      BY <3>1, <3>2
  <2> HIDE DEF step, next
  <2>4. PICK f : Recurs(f, N, Plan, start, step)
    BY <1>4, <1>8, <2>3, Recursion
  <2>5. f \in [0..N -> Plan] /\ f[0] = start
    BY <2>4 DEF Recurs
  <2>6. ASSUME NEW n \in 1..N
        PROVE  f[n] = IF n <= M THEN withSui(f[n - 1], sui[n]) ELSE withOther(f[n - 1], other[n - M])
    <3>1. n - 1 \in 0..N
      BY <1>4
    <3>2. f[n - 1] \in Plan
      BY <2>5, <3>1
    <3>3. f[n] = next(n, f[n - 1])
      BY <2>1, <2>4, <3>2 DEF Recurs
    <3> QED
      BY <1>5, <3>3 DEF next
  <2>7. f = Def(f)
    <3>1. \A n \in 0..N : n # 0 => n \in 1..N
      BY <1>4
    <3>2. \A n \in 0..N : f[n] = IF n = 0 THEN start
                                 ELSE IF n <= M THEN withSui(f[n - 1], sui[n])
                                 ELSE withOther(f[n - 1], other[n - M])
      BY <2>5, <2>6, <3>1
    <3> QED
      BY <2>5, <3>2
  <2> HIDE DEF Def
  <2> QED
    BY <2>7
<1> HIDE DEF K
<1>10. K[0] = start
  BY <1>4, <1>9
<1>11. ASSUME NEW n \in 1..N
       PROVE  K[n] = IF n <= M THEN withSui(K[n - 1], group[n]) ELSE withOther(K[n - 1], group[n])
  <2>1. n \in 0..N /\ n # 0
    BY <1>4
  <2>2. K[n] = IF n <= M THEN withSui(K[n - 1], sui[n]) ELSE withOther(K[n - 1], other[n - M])
    BY <1>9, <2>1
  <2> QED
    BY <1>5, <2>2
<1> HIDE DEF Def
<1> DEFINE Upto(n) == UNION {ToSet(group[i]) : i \in 1..n}
           NoAuto(n) == \A i \in 1..Len(K[n].batches) : K[n].batches[i].gas # "auto"
           T == {n \in 0..N : Planned(K[n], saved, purse, Upto(n)) /\ (n <= M => NoAuto(n))}
<1>12. 0 \in T
  <2>1. /\ K[0].batches = <<>> /\ K[0].skipped = {} /\ K[0].projected = saved /\ K[0] \in Plan
    BY <1>7, <1>8, <1>10
  <2>2. Len(K[0].batches) = 0
    BY <2>1
  <2>3. /\ InTurn(K[0].batches) /\ Apart(K[0].batches, K[0].skipped) /\ Present(purse, K[0].batches, 1)
    BY <2>2 DEF InTurn, Apart, Present
  <2>4. Projects([i \in 1..(0 + 1) |-> saved], purse, K[0].batches, 1)
    BY <1>7, <2>2 DEF Projects
  <2>5. \E p : /\ Projects(p, purse, K[0].batches, 1) /\ p[1] = saved
               /\ p[Len(K[0].batches) + 1] = K[0].projected
    <3> DEFINE p == [i \in 1..(0 + 1) |-> saved]
    <3>1. p[1] = saved /\ p[Len(K[0].batches) + 1] = K[0].projected
      BY <2>1, <2>2
    <3> HIDE DEF p
    <3> QED
      BY <2>4, <3>1 DEF p
  <2>6. Planned(K[0], saved, purse, Upto(0)) /\ NoAuto(0)
    BY <2>1, <2>2, <2>3, <2>5 DEF Planned
  <2> QED
    BY <1>4, <2>6
<1>13. ASSUME NEW n \in 1..N, n - 1 \in T
       PROVE  n \in T
  <2>0. n \in Nat /\ n - 1 \in 0..N /\ n \in 0..N /\ n \in 1..n /\ (n <= M => n - 1 <= M)
    BY <1>4
  <2>1. Upto(n) = Upto(n - 1) \cup ToSet(group[n])
    <3>1. (\A i \in 1..n : i \in 1..(n - 1) \/ i = n) /\ (\A i \in 1..(n - 1) : i \in 1..n)
      BY <2>0
    <3> QED
      BY <2>0, <3>1
  <2>2. ToSet(group[n]) \cap Upto(n - 1) = {}
    <3>1. \A i \in 1..(n - 1) : i \in 1..N /\ i # n
      BY <1>4, <2>0
    <3>2. \A i \in 1..(n - 1) : ToSet(group[i]) \cap ToSet(group[n]) = {}
      BY <1>6, <3>1 DEF Grouped
    <3> QED
      BY <3>2
  <2>3. /\ group[n] \in Seq(Coin) /\ Len(group[n]) \in 1..PerTransaction
        /\ n <= M => ToSet(group[n]) \subseteq SuiCoin
        /\ \A k \in 1..Len(group[n]) : purse[group[n][k]] \in Nat
    BY <1>6 DEF Grouped
  <2>4. Planned(K[n - 1], saved, purse, Upto(n - 1)) /\ (n - 1 <= M => NoAuto(n - 1))
    BY <1>13
  <2> HIDE DEF Upto
  <2>5. CASE n <= M
    <3>1. \A i \in 1..Len(K[n - 1].batches) : K[n - 1].batches[i].gas # "auto"
      BY <2>0, <2>4, <2>5
    <3>2. /\ Planned(withSui(K[n - 1], group[n]), saved, purse, Upto(n - 1) \cup ToSet(group[n]))
          /\ \A i \in 1..Len(withSui(K[n - 1], group[n]).batches) :
               withSui(K[n - 1], group[n]).batches[i].gas # "auto"
      BY <2>2, <2>3, <2>4, <2>5, <3>1, WithSui
    <3>3. K[n] = withSui(K[n - 1], group[n])
      BY <1>11, <2>5
    <3> QED
      BY <2>0, <2>1, <3>2, <3>3
  <2>6. CASE ~(n <= M)
    <3>1. Planned(withOther(K[n - 1], group[n]), saved, purse, Upto(n - 1) \cup ToSet(group[n]))
      BY <2>2, <2>3, <2>4, WithOther
    <3>2. K[n] = withOther(K[n - 1], group[n])
      BY <1>11, <2>6
    <3> QED
      BY <2>0, <2>1, <2>6, <3>1, <3>2
  <2> QED
    BY <2>5, <2>6
<1> HIDE DEF T
<1>14. N \in T
  <2>1. \A n \in 0..N : n \in T
    BY <1>4, <1>12, <1>13, Induction
  <2> QED
    BY <1>4, <2>1
<1> QED
  BY <1>1, <1>14 DEF T, held

-----------------------------------------------------------------------------
(* The fold.                                                                *)

(* The batches keep their shape, whoever spends.  So long as nobody else    *)
(* has, what is still to run is there, and the balance is at least what was *)
(* projected for it.                                                        *)
IInv ==
  /\ purse \in [Coin -> {Gone} \cup 0..MaxValue] /\ saved \in Nat
  /\ fold.pc \in {"idle", "folding", "done", "failed"}
  /\ fold = [pc |-> fold.pc, batches |-> fold.batches, skipped |-> fold.skipped, at |-> fold.at]
  /\ fold.batches \in Seq(Batch) /\ fold.skipped \in SUBSET Coin
  /\ fold.at \in 1..(Len(fold.batches) + 1)
  /\ InTurn(fold.batches) /\ Apart(fold.batches, fold.skipped)
  /\ fold.pc = "folding" /\ ~others =>
       /\ Present(purse, fold.batches, fold.at)
       /\ \E projection :
            /\ Projects(projection, purse, fold.batches, fold.at)
            /\ fold.at <= Len(fold.batches) /\ fold.batches[fold.at].gas # "auto" =>
                 projection[fold.at] <= saved

(* Nothing is planned.                                                      *)
LEMMA NothingPlanned ==
  /\ NoFold.batches = <<>> /\ Len(NoFold.batches) = 0 /\ NoFold.batches \in Seq(Batch)
  /\ NoFold.skipped = {} /\ NoFold.at = 1 /\ NoFold.pc = "idle"
  /\ InTurn(NoFold.batches) /\ Apart(NoFold.batches, NoFold.skipped)
  /\ NoFold = [pc |-> NoFold.pc, batches |-> NoFold.batches, skipped |-> NoFold.skipped,
               at |-> NoFold.at]
<1>1. /\ NoFold.batches = <<>> /\ Len(NoFold.batches) = 0 /\ NoFold.batches \in Seq(Batch)
      /\ NoFold.skipped = {} /\ NoFold.at = 1 /\ NoFold.pc = "idle"
  BY DEF NoFold
<1>2. NoFold = [pc |-> NoFold.pc, batches |-> NoFold.batches, skipped |-> NoFold.skipped,
                at |-> NoFold.at]
  BY DEF NoFold
<1> QED
  BY <1>1, <1>2 DEF InTurn, Apart

(* The invariant gives the types.                                           *)
LEMMA IInvTyped == IInv => FoldTypeOK
<1> SUFFICES ASSUME IInv PROVE FoldTypeOK
  OBVIOUS
<1>1. ASSUME NEW i \in DOMAIN fold.batches
      PROVE  /\ fold.batches[i].coins \in Seq(Coin) /\ fold.batches[i].gas \in Gas
             /\ Len(fold.batches[i].coins) \in 1..PerTransaction
  <2>1. fold.batches \in Seq(Batch) /\ i \in 1..Len(fold.batches)
    BY DEF IInv
  <2>2. fold.batches[i] \in Batch
    BY <2>1
  <2> QED
    BY <2>1, <2>2 DEF IInv, InTurn, Batch
<1> QED
  BY <1>1 DEF IInv, FoldTypeOK

(* Nothing has been planned when the owner starts.                          *)
LEMMA IInvInit == FoldInit => IInv
<1> SUFFICES ASSUME FoldInit PROVE IInv
  OBVIOUS
<1>1. fold = NoFold /\ saved \in Nat /\ purse \in [Coin -> {Gone} \cup 0..MaxValue]
  BY UnitsAreCounts DEF FoldInit
<1> QED
  BY <1>1, NothingPlanned DEF IInv

(* The plan is made.                                                        *)
LEMMA PlanFold ==
  ASSUME IInv, planFold
  PROVE  IInv'
<1> DEFINE plan == planOf({c \in Coin : purse[c] # Gone})
<1>1. /\ fold' = [NoFold EXCEPT !.pc = "folding", !.batches = plan.batches, !.skipped = plan.skipped]
      /\ purse' = purse /\ saved' = saved
  BY DEF planFold
<1>2. PICK these : Planned(plan, saved, purse, these)
  BY IInvTyped, PlanIsPlanned
<1> HIDE DEF plan
<1>3. PICK batches, skipped : batches = plan.batches /\ skipped = plan.skipped
  OBVIOUS
<1>4. fold' = [pc |-> "folding", batches |-> batches, skipped |-> skipped, at |-> 1]
  BY <1>1, <1>3 DEF NoFold
<1>5. /\ batches \in Seq(Batch) /\ skipped \in SUBSET Coin
      /\ InTurn(batches) /\ Apart(batches, skipped) /\ Present(purse, batches, 1)
  BY <1>2, <1>3 DEF Planned, Plan
<1>6. PICK projection : Projects(projection, purse, batches, 1) /\ projection[1] = saved
  BY <1>2, <1>3 DEF Planned
<1>7. saved \in Nat /\ purse \in [Coin -> {Gone} \cup 0..MaxValue] /\ projection[1] <= saved
  BY <1>6 DEF IInv
<1>8. /\ fold'.pc = "folding" /\ fold'.batches = batches /\ fold'.skipped = skipped /\ fold'.at = 1
      /\ 1 \in 1..(Len(batches) + 1)
  BY <1>4, <1>5
<1> QED
  BY <1>1, <1>4, <1>5, <1>6, <1>7, <1>8 DEF IInv

(* A batch that runs leaves the later ones as they were, and at least what  *)
(* was projected for them.                                                  *)
LEMMA RunsBatch ==
  ASSUME IInv, runsBatch
  PROVE  IInv'
<1>1. PICK batches, at, skipped :
        batches = fold.batches /\ at = fold.at /\ skipped = fold.skipped
  OBVIOUS
<1>2. /\ fold.pc = "folding" /\ at <= Len(batches) /\ pinned /\ at \in 1..(Len(batches) + 1)
      /\ batches \in Seq(Batch) /\ InTurn(batches) /\ Apart(batches, skipped)
      /\ fold' = [fold EXCEPT !.at = @ + 1] /\ others' = others /\ skipped \in SUBSET Coin
      /\ purse \in [Coin -> {Gone} \cup 0..MaxValue] /\ saved \in Nat
      /\ fold = [pc |-> "folding", batches |-> batches, skipped |-> skipped, at |-> at]
  BY <1>1 DEF runsBatch, IInv
<1>3. fold' = [pc |-> "folding", batches |-> batches, skipped |-> skipped, at |-> at + 1]
  BY <1>1, <1>2
<1>4. at \in 1..Len(batches) /\ Len(batches) \in Nat /\ at + 1 \in 1..(Len(batches) + 1)
  BY <1>2
<1>5. PICK one \in Batch : one = batches[at]
  BY <1>2, <1>4
<1>6. batch = one /\ one.coins \in Seq(Coin) /\ one.gas \in Gas
  BY <1>1, <1>5 DEF batch, Batch
<1>7. PICK list \in Seq(Coin) : list = one.coins
  BY <1>6
<1> DEFINE next == [c \in Coin |-> IF c \in ToSet(list) THEN Gone ELSE purse[c]]
<1>8. purse' = next
  BY <1>6, <1>7 DEF runsBatch
<1>9. next \in [Coin -> {Gone} \cup 0..MaxValue]
  BY <1>2
<1>10. \A k \in 1..Len(list) : purse[list[k]] \in Nat
  <2>1. \A k \in DOMAIN list : purse[list[k]] # Gone
    BY <1>2, <1>6, <1>7 DEF pinned
  <2>2. DOMAIN list = 1..Len(list) /\ \A k \in 1..Len(list) : list[k] \in Coin
    OBVIOUS
  <2> QED
    BY <1>2, <2>1, <2>2, UnitsAreCounts
<1>11. PICK budget \in 1..foldBudgetUnits(Len(list)), spent \in 0..foldBudgetUnits(Len(list)) :
         spent <= budget /\ affordable(budget) /\ saved' = saved + deposit - spent
  BY <1>6, <1>7 DEF runsBatch
<1> DEFINE worth == SumOver(purse, list)
           paid == SumOver(purse, payment)
           estimate == foldBudgetUnits(Len(list))
<1>12. worth \in Nat /\ paid \in Nat /\ paid <= worth /\ estimate \in Nat
  <2>1. PICK m \in 0..Len(list) : payment = SubSeq(list, 1, m)
    <3> DEFINE m == IF Len(list) < MAX_GAS_PAYMENT_COINS THEN Len(list) ELSE MAX_GAS_PAYMENT_COINS
    <3>1. m \in 0..Len(list)
      BY CoinLimitsPositive
    <3>2. payment = SubSeq(list, 1, m)
      BY <1>6, <1>7 DEF payment
    <3> QED
      BY <3>1, <3>2
  <2>2. estimate \in Nat
    BY UnitsAreCounts DEF foldBudgetUnits
  <2> QED
    BY <1>10, <2>1, <2>2, SumGrows
<1>13. /\ deposit = IF ToSet(list) \subseteq SuiCoin THEN worth ELSE 0
       /\ one.gas # "auto" => ToSet(list) \subseteq SuiCoin
  <2>1. deposit = IF ToSet(list) \subseteq SuiCoin THEN worth ELSE 0
    BY <1>6, <1>7, SumIsOver DEF deposit
  <2> QED
    BY <1>2, <1>4, <1>5, <1>7, <2>1 DEF InTurn
<1>14. /\ one.gas = "foldedCoins" => paid >= budget
       /\ one.gas # "foldedCoins" => saved >= budget
  BY <1>6, <1>11, SumIsOver DEF affordable, Gas
<1>15. /\ budget \in Nat /\ spent \in Nat /\ spent <= budget /\ spent <= estimate
       /\ deposit \in Nat
  BY <1>11, <1>12, <1>13
<1> HIDE DEF worth, paid, estimate, next
<1>16. saved' \in Nat
  BY <1>2, <1>6, <1>11, <1>12, <1>13, <1>14, <1>15 DEF Gas
<1>17. ASSUME ~others
       PROVE  /\ Present(next, batches, at + 1)
              /\ \E p : /\ Projects(p, next, batches, at + 1)
                        /\ at + 1 <= Len(batches) /\ batches[at + 1].gas # "auto" =>
                             p[at + 1] <= saved'
  <2>1. Present(purse, batches, at)
    BY <1>1, <1>2, <1>17 DEF IInv
  <2>2. PICK p : Projects(p, purse, batches, at) /\ (one.gas # "auto" => p[at] <= saved)
    <3>1. \E p : /\ Projects(p, purse, batches, at)
                 /\ at <= Len(batches) /\ batches[at].gas # "auto" => p[at] <= saved
      BY <1>1, <1>2, <1>17 DEF IInv
    <3> QED
      BY <1>4, <1>5, <3>1
  <2>3. ASSUME NEW i \in (at + 1)..Len(batches)
        PROVE  /\ i \in 1..Len(batches) /\ i \in at..Len(batches) /\ batches[i].coins \in Seq(Coin)
               /\ \A k \in 1..Len(batches[i].coins) :
                    /\ next[batches[i].coins[k]] = purse[batches[i].coins[k]]
                    /\ purse[batches[i].coins[k]] \in Nat
               /\ SumOver(next, batches[i].coins) = SumOver(purse, batches[i].coins)
    <3>1. i \in 1..Len(batches) /\ i \in at..Len(batches) /\ i # at
      BY <1>4
    <3>2. batches[i] \in Batch
      BY <1>2, <3>1
    <3>3. PICK mine \in Seq(Coin) : mine = batches[i].coins
      BY <3>2 DEF Batch
    <3>4. ToSet(mine) \cap ToSet(list) = {}
      BY <1>2, <1>4, <1>5, <1>7, <3>1, <3>3 DEF Apart
    <3>5. \A k \in 1..Len(mine) : mine[k] \in Coin /\ mine[k] \in ToSet(mine)
      BY DEF ToSet
    <3>6. \A k \in 1..Len(mine) : next[mine[k]] = purse[mine[k]] /\ purse[mine[k]] \in Nat
      BY <2>1, <3>1, <3>3, <3>4, <3>5 DEF next, Present
    <3>7. Worthy(purse, mine)
      BY <3>6 DEF Worthy
    <3>8. SumOver(next, mine) = SumOver(purse, mine)
      BY <3>6, <3>7, SumSame
    <3> QED
      BY <3>1, <3>3, <3>6, <3>8
  <2>4. Present(next, batches, at + 1)
    BY <2>3 DEF Present
  <2>5. Projects(p, next, batches, at + 1)
    BY <2>2, <2>3 DEF Projects
  <2>6. CASE one.gas # "auto"
    <3>1. p[at + 1] = p[at] + worth - estimate /\ p[at] \in Int /\ p[at] <= saved
      BY <1>4, <1>5, <1>7, <2>2, <2>6 DEF Projects, Units, worth, estimate
    <3>2. saved' = saved + worth - spent
      BY <1>11, <1>13, <2>6
    <3>3. p[at + 1] <= saved'
      BY <1>2, <1>12, <1>15, <3>1, <3>2
    <3> QED
      BY <2>4, <2>5, <3>3
  <2>7. CASE one.gas = "auto"
    <3>1. at + 1 <= Len(batches) => batches[at + 1].gas = "auto"
      BY <1>2, <1>4, <1>5, <2>7 DEF InTurn
    <3> QED
      BY <2>4, <2>5, <3>1
  <2> QED
    BY <2>6, <2>7
<1>18. /\ fold'.pc = "folding" /\ fold'.batches = batches /\ fold'.skipped = skipped
       /\ fold'.at = at + 1
  BY <1>3
<1>19. purse' \in [Coin -> {Gone} \cup 0..MaxValue]
  BY <1>8, <1>9
<1> QED
  BY <1>2, <1>3, <1>4, <1>8, <1>16, <1>17, <1>18, <1>19 DEF IInv

(* Others spend: what was projected is void, the batches stay as they are.  *)
LEMMA OthersSpend ==
  ASSUME IInv, othersSpend
  PROVE  IInv'
<1>1. others' = TRUE /\ fold' = fold
  BY DEF othersSpend
<1>2. saved' \in Nat
  BY DEF othersSpend, IInv
<1>3. purse' \in [Coin -> {Gone} \cup 0..MaxValue]
  BY DEF othersSpend, IInv
<1> QED
  BY <1>1, <1>2, <1>3 DEF IInv

(* The fold stops, or is over, or is called again.                          *)
LEMMA Ends ==
  ASSUME IInv, stops \/ folded \/ foldAgain
  PROVE  IInv'
<1>1. UNCHANGED <<purse, saved, others>>
  BY DEF stops, folded, foldAgain
<1>2. CASE foldAgain
  <2>1. fold' = NoFold
    BY <1>2 DEF foldAgain
  <2> QED
    BY <1>1, <2>1, NothingPlanned DEF IInv
<1>3. CASE stops \/ folded
  <2>1. PICK pc \in {"done", "failed"} : fold' = [fold EXCEPT !.pc = pc]
    BY <1>3 DEF stops, folded
  <2>2. fold' = [pc |-> pc, batches |-> fold.batches, skipped |-> fold.skipped, at |-> fold.at]
    BY <2>1 DEF IInv
  <2>3. /\ fold'.pc = pc /\ fold'.batches = fold.batches /\ fold'.skipped = fold.skipped
        /\ fold'.at = fold.at
    BY <2>2
  <2> QED
    BY <1>1, <2>2, <2>3 DEF IInv
<1> QED
  BY <1>2, <1>3

(* The invariant holds always.                                              *)
LEMMA IInvAlways == FoldSpec => []IInv
<1>1. IInv /\ [FoldNext]_foldVars => IInv'
  <2> SUFFICES ASSUME IInv, [FoldNext]_foldVars
               PROVE  IInv'
    OBVIOUS
  <2>1. CASE UNCHANGED foldVars
    <3>1. UNCHANGED <<purse, saved, fold, others>>
      BY <2>1 DEF foldVars
    <3> QED
      BY <3>1 DEF IInv
  <2>2. CASE FoldNext
    BY <2>2, PlanFold, RunsBatch, OthersSpend, Ends DEF FoldNext
  <2> QED
    BY <2>1, <2>2
<1>2. QED
  BY <1>1, IInvInit, PTL DEF FoldSpec

(* A plan's batches are groups of coins no larger than one transaction      *)
(* takes, and the balance is never drawn below nothing.                     *)
THEOREM FoldIsTyped == FoldSpec => []FoldTypeOK
BY IInvAlways, IInvTyped, PTL

(* A batch planned to be paid for can be paid for when its turn comes, and   *)
(* its coins are there, so long as nobody else spends: of any coins of any   *)
(* worth, for any budgets, any charge within them and any number of folds.  *)
THEOREM PlansArePaid == FoldSpec => []PlannedIsPaid
<1>1. IInv => PlannedIsPaid
  <2> SUFFICES ASSUME IInv, fold.pc = "folding", fold.at <= Len(fold.batches), ~others
               PROVE  /\ pinned
                      /\ batch.gas = "foldedCoins" =>
                           sumOf(batch.coins) >= foldBudgetUnits(Len(batch.coins))
                      /\ batch.gas # "auto" /\ payment = batch.coins =>
                           affordable(foldBudgetUnits(Len(batch.coins)))
                      /\ ToSet(batch.coins) \cap fold.skipped = {}
    BY DEF PlannedIsPaid
  <2>1. fold.at \in 1..Len(fold.batches) /\ fold.batches \in Seq(Batch)
    BY DEF IInv
  <2>2. batch \in Batch /\ batch = fold.batches[fold.at]
    BY <2>1 DEF batch
  <2>3. batch.coins \in Seq(Coin) /\ batch.gas \in Gas /\ DOMAIN batch.coins = 1..Len(batch.coins)
    BY <2>2 DEF Batch
  <2>4. pinned
    <3>1. \A k \in 1..Len(batch.coins) : purse[batch.coins[k]] \in Nat
      BY <2>1, <2>2 DEF IInv, Present
    <3> QED
      BY <2>3, <3>1 DEF pinned, Gone
  <2>5. PICK projection :
          /\ Projects(projection, purse, fold.batches, fold.at)
          /\ batch.gas # "auto" => projection[fold.at] <= saved
    BY <2>1, <2>2 DEF IInv
  <2>6. batch.gas = "foldedCoins" => sumOf(batch.coins) >= foldBudgetUnits(Len(batch.coins))
    BY <2>1, <2>2, <2>5, SumIsOver DEF Projects, Units
  <2>7. ASSUME batch.gas # "auto", payment = batch.coins
        PROVE  affordable(foldBudgetUnits(Len(batch.coins)))
    <3>1. CASE batch.gas = "foldedCoins"
      BY <2>6, <2>7, <3>1 DEF affordable
    <3>2. CASE batch.gas = "addressBalance"
      <4> DEFINE estimate == foldBudgetUnits(Len(batch.coins))
      <4>1. estimate \in Nat
        BY <2>3, UnitsAreCounts DEF foldBudgetUnits
      <4>2. projection[fold.at] >= estimate /\ projection[fold.at] \in Int /\ projection[fold.at] <= saved
        BY <2>1, <2>2, <2>5, <3>2 DEF Projects, Units
      <4>3. saved \in Nat
        BY DEF IInv
      <4> HIDE DEF estimate
      <4>4. saved >= estimate
        BY <4>1, <4>2, <4>3
      <4> QED
        BY <3>2, <4>4 DEF affordable, estimate
    <3> QED
      BY <2>3, <2>7, <3>1, <3>2 DEF Gas
  <2>8. ToSet(batch.coins) \cap fold.skipped = {}
    BY <2>1, <2>2 DEF IInv, Apart
  <2> QED
    BY <2>4, <2>6, <2>7, <2>8
<1>2. QED
  BY <1>1, IInvAlways, PTL
-----------------------------------------------------------------------------
(* A failure told of.                                                        *)

Item == [of : Error, as : {"sentence", "tag"}]

Told == [line : Seq(Item), outcome : {"unknown", "none", "thrown", "pending"}]

Call == [fn : {"describe", "causeLine", "stringOf", "toJson"}, of : Error,
         pc : {"called", "reads", "waits"}, marks : {"none", "READING", "SERIALIZING"},
         fellBack : BOOLEAN]

(* What reads its own value has marked it; so has what waits, unless it is a *)
(* describe that waits for the line of another value or for its own toString.*)
(* Only a log entry falls back.                                              *)
WellMade(shape, f) ==
  /\ f \in Call
  /\ f.pc = "called" => f.marks = "none"
  /\ f.marks = "READING" => f.fn # "toJson"
  /\ f.marks = "SERIALIZING" => f.fn = "toJson"
  /\ f.pc = "reads" => f.marks # "none"
  /\ f.pc = "waits" /\ f.marks = "none" => f.fn \in {"describe", "stringOf"}
  /\ f.fn = "describe" /\ f.marks # "none" => shape[f.of].whose = "config"
  /\ f.fn = "stringOf" =>
       /\ f.pc = "waits" /\ f.marks = "none"
       /\ shape[f.of].whose = "nobody" /\ ~shape[f.of].whole
       /\ shape[f.of].name.does \in {"describe", "toJson"}
  /\ f.fellBack => f.fn = "toJson" /\ f.pc = "waits"
  /\ f.fn = "causeLine" /\ f.pc = "waits" /\ shape[f.of].whose \in {"library", "nobody"} =>
       shape[f.of].message.does # "says"

Typed ==
  /\ heap \in [Error -> Shape]
  /\ READING \subseteq Error /\ SERIALIZING \subseteq Error
  /\ returned \in Told
  /\ asked \in {<<>>} \cup {"describe", "toJson"} \X Error
  /\ stack \in Seq(Call)
  /\ \A i \in 1..Len(stack) : WellMade(heap, stack[i])

(* All but the top wait; and what waits unmarked waits for a line, unless it *)
(* waits for its own toString.                                               *)
Nested ==
  \A i \in 1..Len(stack) : i # Len(stack) =>
    /\ stack[i].pc = "waits"
    /\ stack[i].marks = "none" /\ stack[i].fn # "stringOf" => stack[i + 1].fn = "causeLine"

Marked ==
  /\ READING = {stack[i].of : i \in MarkedBy("READING")}
  /\ SERIALIZING = {stack[i].of : i \in MarkedBy("SERIALIZING")}
  /\ \A marks \in {"READING", "SERIALIZING"} :
       \A i, j \in MarkedBy(marks) : stack[i].of = stack[j].of => i = j

(* Only a call that finds the stack full throws, and only to the one that    *)
(* made it, or to who asked that one for a log entry; so an entry falls back *)
(* because its message throws, or because it is that deep.                   *)
Deep ==
  /\ returned = Thrown => Len(stack) >= StackSize - 1
  /\ returned = Thrown /\ stack # <<>> /\ top.fellBack => Len(stack) >= StackSize
  /\ \A i \in 1..Len(stack) : stack[i].fellBack =>
       /\ heap[stack[i].of].message.does = "throws" \/ i >= StackSize - 1
       /\ i # Len(stack) => stack[i + 1].fn # "toJson"

(* What the three ways to change the stack leave of it.                      *)
LEMMA Popped ==
  ASSUME NEW s \in Seq(Call), s # <<>>
  PROVE  /\ Len(s) \in Nat \ {0} /\ s[Len(s)] \in Call
         /\ Front(s) \in Seq(Call) /\ Len(Front(s)) = Len(s) - 1
         /\ \A i \in 1..(Len(s) - 1) : Front(s)[i] = s[i]
<1>1. Len(s) \in Nat \ {0} /\ s[Len(s)] \in Call
  OBVIOUS
<1>2. PICK n \in Nat : n = Len(s) - 1
  BY <1>1
<1>3. \A i \in 1..n : s[i] \in Call
  BY <1>2
<1> DEFINE r == SubSeq(s, 1, n)
<1>4. /\ r \in Seq(Call) /\ Len(r) = (IF 1 <= n THEN n - 1 + 1 ELSE 0)
      /\ \A i \in 1..(n - 1 + 1) : r[i] = s[1 + i - 1]
  BY <1>3, SubSeqProperties
<1> HIDE DEF r
<1>5. n - 1 + 1 = n /\ \A i \in 1..n : 1 + i - 1 = i
  OBVIOUS
<1>6. Len(r) = n /\ \A i \in 1..n : r[i] = s[i]
  BY <1>4, <1>5
<1> QED
  BY <1>1, <1>2, <1>4, <1>6 DEF Front, r

(* A stack whose top is put in another's place.                             *)
LEMMA Replaced ==
  ASSUME NEW s \in Seq(Call), s # <<>>, NEW f \in Call
  PROVE  LET t == Front(s) \o <<f>>
         IN /\ t \in Seq(Call) /\ Len(t) = Len(s) /\ t[Len(s)] = f /\ t # <<>>
            /\ \A i \in 1..(Len(s) - 1) : t[i] = s[i]
<1> DEFINE r == Front(s)
<1>1. r \in Seq(Call) /\ Len(r) = Len(s) - 1 /\ Len(s) \in Nat \ {0}
      /\ \A i \in 1..(Len(s) - 1) : r[i] = s[i]
  BY Popped
<1> HIDE DEF r
<1>2. <<f>> \in Seq(Call) /\ Len(<<f>>) = 1 /\ <<f>>[1] = f
  OBVIOUS
<1>3. r \o <<f>> \in Seq(Call) /\ Len(r \o <<f>>) = Len(s)
  BY <1>1, <1>2
<1>4. (r \o <<f>>)[Len(s)] = f
  BY <1>1, <1>2
<1>5. \A i \in 1..(Len(s) - 1) : (r \o <<f>>)[i] = s[i]
  BY <1>1, <1>2
<1> QED
  BY <1>1, <1>3, <1>4, <1>5 DEF r

(* A call on top of one that goes on as another.                            *)
LEMMA Pushed ==
  ASSUME NEW s \in Seq(Call), s # <<>>, NEW f \in Call, NEW g \in Call
  PROVE  LET t == Front(s) \o <<f, g>>
         IN /\ t \in Seq(Call) /\ Len(t) = Len(s) + 1 /\ t[Len(s)] = f /\ t[Len(s) + 1] = g
            /\ \A i \in 1..(Len(s) - 1) : t[i] = s[i]
<1> DEFINE r == Front(s)
<1>1. r \in Seq(Call) /\ Len(r) = Len(s) - 1 /\ Len(s) \in Nat \ {0}
      /\ \A i \in 1..(Len(s) - 1) : r[i] = s[i]
  BY Popped
<1> HIDE DEF r
<1>2. <<f, g>> \in Seq(Call) /\ Len(<<f, g>>) = 2 /\ <<f, g>>[1] = f /\ <<f, g>>[2] = g
  OBVIOUS
<1>3. r \o <<f, g>> \in Seq(Call) /\ Len(r \o <<f, g>>) = Len(s) + 1
  BY <1>1, <1>2
<1>4. (r \o <<f, g>>)[Len(s)] = f /\ (r \o <<f, g>>)[Len(s) + 1] = g
  BY <1>1, <1>2
<1>5. \A i \in 1..(Len(s) - 1) : (r \o <<f, g>>)[i] = s[i]
  BY <1>1, <1>2
<1> QED
  BY <1>1, <1>3, <1>4, <1>5 DEF r

(* Every step but the asking ends the top call, opens one above it, finds no *)
(* room for that, or marks its value, unless that is marked.                 *)
Ended ==
  \E line \in Seq(Item), outcome \in {"unknown", "none", "thrown"} :
    /\ Returns(line, outcome)
    /\ outcome = "thrown" =>
         top.fn = "toJson" /\ top.fellBack /\ Len(stack) >= StackSize /\ line = Nothing

Asks(frame, fn) ==
  /\ frame.fn = top.fn \/ (top.fn = "describe" /\ frame.fn = "stringOf")
  /\ frame.of = top.of /\ frame.marks = top.marks
  /\ WellMade(heap, [frame EXCEPT !.pc = "waits"])
  /\ frame.marks = "none" /\ frame.fn # "stringOf" => fn = "causeLine"
  /\ frame.fellBack =>
       /\ heap[frame.of].message.does = "throws" \/ Len(stack) >= StackSize - 1
       /\ fn = "describe"

Opened ==
  /\ Len(stack) < StackSize
  /\ \E frame \in Call, fn \in {"describe", "causeLine", "toJson"}, e \in Error :
       Pushes(frame, fn, e) /\ Asks(frame, fn)

Crowded ==
  /\ ~ (Len(stack) < StackSize)
  /\ \E frame \in Call, fn \in {"describe", "causeLine", "toJson"} :
       Overflows(frame) /\ Asks(frame, fn)

Marking ==
  \E marks \in {"READING", "SERIALIZING"} :
    /\ Marks(marks)
    /\ top.marks = "none"
    /\ marks = "READING" => top.of \notin READING
    /\ marks = "SERIALIZING" => top.of \notin SERIALIZING
    /\ WellMade(heap, [top EXCEPT !.pc = "reads", !.marks = marks])

(* What is on top of a typed stack is a call.                               *)
LEMMA TopIs ==
  ASSUME Typed, stack # <<>>
  PROVE  /\ Len(stack) \in Nat \ {0} /\ top \in Call /\ WellMade(heap, top)
         /\ top.of \in Error /\ it \in Shape
<1>1. Len(stack) \in Nat \ {0} /\ stack[Len(stack)] \in Call
  BY Popped DEF Typed
<1>2. WellMade(heap, stack[Len(stack)])
  BY <1>1 DEF Typed
<1> QED
  BY <1>1, <1>2 DEF Typed, top, it, Call

(* A call is made, or finds no room.                                        *)
LEMMA CallsGo ==
  ASSUME NEW frame \in Call, NEW fn \in {"describe", "causeLine", "toJson"}, NEW e \in Error,
         Calls(frame, fn, e), Asks(frame, fn)
  PROVE  Opened \/ Crowded
  BY DEF Calls, Opened, Crowded

(* A sentence, a tag and nothing are lines.                                 *)
LEMMA LinesAreLines ==
  ASSUME NEW e \in Error
  PROVE  Sentence(e) \in Seq(Item) /\ Tagged(e) \in Seq(Item) /\ Nothing \in Seq(Item)
  BY DEF Sentence, Tagged, Nothing, Item

(* Each action is one of the three: first those of a cause line.            *)
LEMMA RawCauseLineGoes == Typed /\ rawCauseLine => Ended \/ Marking
<1> SUFFICES ASSUME Typed, rawCauseLine PROVE Ended \/ Marking
  OBVIOUS
<1>1. stack # <<>> /\ top.fn = "causeLine" /\ top.pc = "called"
  BY DEF rawCauseLine, At
<1>2. top \in Call /\ WellMade(heap, top) /\ it \in Shape /\ top.of \in Error
  BY <1>1, TopIs
<1>3. top.marks = "none"
  BY <1>1, <1>2 DEF WellMade
<1>4. CASE top.of \in READING
  <2>1. Returns(bare, "none")
    BY <1>4 DEF rawCauseLine
  <2>2. bare \in Seq(Item)
    BY <1>2, LinesAreLines DEF bare, tagged
  <2> QED
    BY <2>1, <2>2 DEF Ended
<1>5. CASE top.of \notin READING
  <2>1. Marks("READING")
    BY <1>5 DEF rawCauseLine
  <2>2. WellMade(heap, [top EXCEPT !.pc = "reads", !.marks = "READING"])
    BY <1>1, <1>2 DEF WellMade, Call
  <2> QED
    BY <1>3, <1>5, <2>1, <2>2 DEF Marking
<1> QED
  BY <1>4, <1>5

(* A failure of the taxonomy is told of, or its cause is asked for.         *)
LEMMA DescribeTaxonomyGoes ==
  ASSUME Typed, stack # <<>>, top.fn # "toJson", top.pc # "waits",
         top.fn = "causeLine" => top.marks = "READING", it.whose = "taxonomy", describeTaxonomy
  PROVE  Ended \/ Opened \/ Crowded
<1>1. top \in Call /\ WellMade(heap, top) /\ it \in Shape /\ top.of \in Error
  BY TopIs
<1>2. CASE ~it.whole
  BY <1>1, <1>2, LinesAreLines DEF describeTaxonomy, Ended
<1>3. CASE it.whole /\ it.cause = NoError
  BY <1>1, <1>3, LinesAreLines DEF describeTaxonomy, Ended
<1>4. CASE it.whole /\ it.cause # NoError
  <2>1. Calls(top, "causeLine", it.cause) /\ it.cause \in Error
    BY <1>1, <1>4 DEF describeTaxonomy, Shape
  <2>2. Asks(top, "causeLine")
    BY <1>1 DEF Asks, WellMade, Call, it
  <2> QED
    BY <1>1, <2>1, <2>2, CallsGo
<1> QED
  BY <1>2, <1>3, <1>4

(* So is a configuration error.                                             *)
LEMMA DescribeConfigErrorGoes ==
  ASSUME Typed, stack # <<>>, top.fn # "toJson", top.marks = "READING",
         it.whose = "config", describeConfigError
  PROVE  Ended \/ Opened \/ Crowded
<1>1. top \in Call /\ WellMade(heap, top) /\ it \in Shape /\ top.of \in Error
  BY TopIs
<1>2. CASE it.cause = NoError
  BY <1>1, <1>2, LinesAreLines DEF describeConfigError, Ended
<1>3. CASE it.cause # NoError
  <2>1. Calls(top, "causeLine", it.cause) /\ it.cause \in Error
    BY <1>1, <1>3 DEF describeConfigError, Shape
  <2>2. Asks(top, "causeLine")
    BY <1>1 DEF Asks, WellMade, Call, it
  <2> QED
    BY <1>1, <2>1, <2>2, CallsGo
<1> QED
  BY <1>2, <1>3

(* Reading a message says it, or asks for another line.                     *)
LEMMA ReadMessageGoes ==
  ASSUME Typed, stack # <<>>, top.marks = "READING", top.pc = "reads", readMessage
  PROVE  Ended \/ Opened \/ Crowded
<1>1. top \in Call /\ WellMade(heap, top) /\ it \in Shape /\ top.of \in Error
  BY TopIs
<1>2. bare \in Seq(Item) /\ unsaid \in Seq(Item)
  BY <1>1, LinesAreLines DEF bare, tagged, unsaid
<1>3. CASE it.message.does \in {"says", "nothing", "throws"}
  BY <1>1, <1>2, <1>3, LinesAreLines DEF readMessage, Ended
<1>4. CASE it.message.does \in {"describe", "toJson"}
  <2>1. Calls(top, it.message.does, it.message.to) /\ it.message.to \in Error
    BY <1>1, <1>4 DEF readMessage, Shape, Reading
  <2>2. Asks(top, it.message.does)
    BY <1>1, <1>4 DEF Asks, WellMade, Call, it
  <2> QED
    BY <1>1, <1>4, <2>1, <2>2, CallsGo
<1>5. it.message.does \in {"says", "nothing", "throws", "describe", "toJson"}
  BY <1>1 DEF Shape, Reading
<1> QED
  BY <1>3, <1>4, <1>5

(* A cause line is read of what is described or is bare.                    *)
LEMMA ReadCauseLineGoes == Typed /\ readCauseLine => Ended \/ Opened \/ Crowded
<1> SUFFICES ASSUME Typed, readCauseLine PROVE Ended \/ Opened \/ Crowded
  OBVIOUS
<1>1. stack # <<>> /\ top.fn = "causeLine" /\ top.pc = "reads"
  BY DEF readCauseLine, At
<1>2. top \in Call /\ WellMade(heap, top) /\ it \in Shape /\ top.of \in Error
  BY <1>1, TopIs
<1>3. top.marks = "READING"
  BY <1>1, <1>2 DEF WellMade, Call
<1>4. CASE it.whose = "taxonomy"
  <2>1. describeTaxonomy
    BY <1>4 DEF readCauseLine
  <2> QED
    BY <1>1, <1>3, <1>4, <2>1, DescribeTaxonomyGoes
<1>5. CASE it.whose = "config"
  <2>1. describeConfigError
    BY <1>5 DEF readCauseLine
  <2> QED
    BY <1>1, <1>3, <1>5, <2>1, DescribeConfigErrorGoes
<1>6. CASE it.whose \in {"library", "nobody"}
  <2>1. readMessage
    BY <1>6 DEF readCauseLine
  <2> QED
    BY <1>1, <1>3, <2>1, ReadMessageGoes
<1>7. it.whose \in {"taxonomy", "config", "library", "nobody"}
  BY <1>2 DEF Shape
<1> QED
  BY <1>4, <1>5, <1>6, <1>7

(* What a line becomes with its cause is a line.                            *)
LEMMA WithCauseIsALine ==
  ASSUME Typed, stack # <<>>
  PROVE  withCause \in Seq(Item)
<1>1. top.of \in Error /\ returned.line \in Seq(Item)
  BY TopIs DEF Typed, Told
<1>2. /\ Sentence(top.of) \in Seq(Item) /\ Tagged(top.of) \in Seq(Item)
      /\ bare \in Seq(Item) /\ unsaid \in Seq(Item)
  BY <1>1, LinesAreLines DEF bare, tagged, unsaid
<1>3. /\ Sentence(top.of) \o returned.line \in Seq(Item)
      /\ Tagged(top.of) \o Sentence(top.of) \in Seq(Item)
      /\ Tagged(top.of) \o returned.line \in Seq(Item)
  BY <1>1, <1>2
<1> QED
  BY <1>1, <1>2, <1>3 DEF withCause

(* A cause line ends with what it was answered.                             *)
LEMMA CauseLineEndsGoes == Typed /\ causeLineEnds => Ended
  BY WithCauseIsALine DEF causeLineEnds, At, Ended

(* Describing ends, or asks, or marks what it reads.                        *)
LEMMA DescribeGoes == Typed /\ describe => Ended \/ Opened \/ Crowded \/ Marking
<1> SUFFICES ASSUME Typed, describe PROVE Ended \/ Opened \/ Crowded \/ Marking
  OBVIOUS
<1>1. stack # <<>> /\ top.fn = "describe" /\ top.pc = "called"
  BY DEF describe, At
<1>2. top \in Call /\ WellMade(heap, top) /\ it \in Shape /\ top.of \in Error
  BY <1>1, TopIs
<1>3. top.marks = "none"
  BY <1>1, <1>2 DEF WellMade
<1>4. CASE it.whose = "taxonomy"
  <2>1. describeTaxonomy
    BY <1>4 DEF describe
  <2> QED
    BY <1>1, <1>4, <2>1, DescribeTaxonomyGoes
<1>5. CASE it.whose = "config" /\ top.of \in READING
  <2>1. Returns(Tagged(top.of), "none")
    BY <1>5 DEF describe
  <2> QED
    BY <1>2, <2>1, LinesAreLines DEF Ended
<1>6. CASE it.whose = "config" /\ top.of \notin READING
  <2>1. Marks("READING")
    BY <1>6 DEF describe
  <2>2. WellMade(heap, [top EXCEPT !.pc = "reads", !.marks = "READING"])
    BY <1>1, <1>2, <1>6 DEF WellMade, Call, it
  <2> QED
    BY <1>3, <1>6, <2>1, <2>2 DEF Marking
<1>7. CASE it.whose \in {"library", "nobody"}
  <2>1. Calls(top, "causeLine", top.of)
    BY <1>7 DEF describe
  <2>2. Asks(top, "causeLine")
    BY <1>1, <1>2 DEF Asks, WellMade, Call
  <2> QED
    BY <1>2, <2>1, <2>2, CallsGo
<1>8. it.whose \in {"taxonomy", "config", "library", "nobody"}
  BY <1>2 DEF Shape
<1> QED
  BY <1>4, <1>5, <1>6, <1>7, <1>8

(* So does describing a configuration error it has marked.                  *)
LEMMA DescribeConfigGoes ==
  ASSUME Typed, describeConfig
  PROVE  Ended \/ Opened \/ Crowded
<1>1. stack # <<>> /\ top.fn = "describe" /\ top.pc = "reads"
  BY DEF describeConfig, At
<1>2. top.marks = "READING" /\ it.whose = "config"
  BY <1>1, TopIs DEF WellMade, Call, it
<1> QED
  BY <1>1, <1>2, DescribeConfigErrorGoes DEF describeConfig

(* What a value is called by is a line, or is asked for.                    *)
LEMMA StringOfGoes ==
  ASSUME Typed, stack # <<>>, top.fn = "describe", top.pc = "waits", it.whose = "nobody", stringOf
  PROVE  Ended \/ Opened \/ Crowded
<1>1. top \in Call /\ WellMade(heap, top) /\ it \in Shape /\ top.of \in Error
  BY TopIs
<1>2. CASE ~CallsBack(top.of)
  BY <1>1, <1>2, LinesAreLines DEF stringOf, Ended
<1>3. CASE CallsBack(top.of)
  <2> DEFINE frame == [top EXCEPT !.fn = "stringOf"]
  <2>1. Calls(frame, it.name.does, it.name.to)
    BY <1>3 DEF stringOf
  <2>2. it.name.does \in {"describe", "toJson"} /\ it.name.to \in Error
    BY <1>1, <1>3 DEF CallsBack, it, Shape, Reading
  <2>3. top.marks = "none" /\ ~ top.fellBack
    BY <1>1 DEF WellMade, Call, it
  <2>4. frame \in Call /\ Asks(frame, it.name.does)
    BY <1>1, <1>3, <2>3 DEF Asks, WellMade, Call, CallsBack
  <2> QED
    BY <2>1, <2>2, <2>4, CallsGo
<1> QED
  BY <1>2, <1>3

(* So it ends with what it was answered.                                    *)
LEMMA StringOfEndsGoes == Typed /\ stringOfEnds => Ended
<1> SUFFICES ASSUME Typed, stringOfEnds PROVE Ended
  OBVIOUS
<1>1. stack # <<>>
  BY DEF stringOfEnds, At
<1>2. Tagged(top.of) \in Seq(Item) /\ returned.line \in Seq(Item)
  BY <1>1, TopIs, LinesAreLines DEF Typed, Told
<1> QED
  BY <1>2 DEF stringOfEnds, Ended

(* A description ends with what it was answered, or asks for a string.      *)
LEMMA DescribeEndsGoes == Typed /\ describeEnds => Ended \/ Opened \/ Crowded
<1> SUFFICES ASSUME Typed, describeEnds PROVE Ended \/ Opened \/ Crowded
  OBVIOUS
<1>1. stack # <<>> /\ top.fn = "describe" /\ top.pc = "waits"
  BY DEF describeEnds, At
<1>2. top.of \in Error /\ it \in Shape /\ returned.line \in Seq(Item) /\ withCause \in Seq(Item)
  BY <1>1, TopIs, WithCauseIsALine DEF Typed, Told
<1>3. tagged \in Seq(Item) /\ Nothing \in Seq(Item)
  BY <1>2, LinesAreLines DEF tagged
<1>4. tagged \o returned.line \in Seq(Item) /\ tagged \o Nothing \in Seq(Item)
  BY <1>2, <1>3
<1>5. CASE it.whose \in {"taxonomy", "config"}
  BY <1>2, <1>5 DEF describeEnds, Ended
<1>6. CASE it.whose = "library"
  <2>1. Returns(tagged \o IF returned.line = tagged THEN Nothing ELSE returned.line, "none")
    BY <1>6 DEF describeEnds
  <2>2. tagged \o (IF returned.line = tagged THEN Nothing ELSE returned.line) \in Seq(Item)
    BY <1>4
  <2> QED
    BY <2>1, <2>2 DEF Ended
<1>7. CASE it.whose = "nobody"
  BY <1>1, <1>2, <1>7, StringOfGoes DEF describeEnds, Ended
<1>8. it.whose \in {"taxonomy", "config", "library", "nobody"}
  BY <1>2 DEF Shape
<1> QED
  BY <1>5, <1>6, <1>7, <1>8

(* A log entry is marked as it is begun, or is a tag.                       *)
LEMMA ToJsonGoes == Typed /\ toJson => Ended \/ Marking
<1> SUFFICES ASSUME Typed, toJson PROVE Ended \/ Marking
  OBVIOUS
<1>1. stack # <<>> /\ top.fn = "toJson" /\ top.pc = "called"
  BY DEF toJson, At
<1>2. top \in Call /\ WellMade(heap, top) /\ it \in Shape /\ top.of \in Error
  BY <1>1, TopIs
<1>3. top.marks = "none"
  BY <1>1, <1>2 DEF WellMade
<1>4. CASE top.of \in SERIALIZING
  BY <1>2, <1>4, LinesAreLines DEF toJson, Ended, tagged
<1>5. CASE top.of \notin SERIALIZING
  <2>1. Marks("SERIALIZING")
    BY <1>5 DEF toJson
  <2>2. WellMade(heap, [top EXCEPT !.pc = "reads", !.marks = "SERIALIZING"])
    BY <1>1, <1>2 DEF WellMade, Call
  <2> QED
    BY <1>3, <1>5, <2>1, <2>2 DEF Marking
<1> QED
  BY <1>4, <1>5

(* The outcome of a log entry is one.                                       *)
LEMMA WithOutcomeIs ==
  ASSUME Typed, stack # <<>>
  PROVE  withOutcome(top) \in {"unknown", "none"}
  BY TopIs DEF withOutcome, it, Shape

(* A log entry that falls back asks for its line.                           *)
LEMMA FallbackGoes ==
  ASSUME Typed, stack # <<>>, top.fn = "toJson", top.pc # "called", fallback,
         heap[top.of].message.does = "throws" \/ Len(stack) >= StackSize - 1
  PROVE  Opened \/ Crowded
<1>1. top \in Call /\ WellMade(heap, top) /\ top.of \in Error
  BY TopIs
<1>2. top.marks = "SERIALIZING"
  BY <1>1 DEF WellMade, Call
<1> DEFINE frame == [top EXCEPT !.fellBack = TRUE]
<1>3. Calls(frame, "describe", top.of)
  BY DEF fallback
<1>4. frame \in Call /\ Asks(frame, "describe")
  BY <1>1, <1>2 DEF Asks, WellMade, Call
<1> QED
  BY <1>1, <1>3, <1>4, CallsGo

(* A log entry that is begun ends, or asks for its line.                    *)
LEMMA ToJsonOfGoes == Typed /\ toJsonOf => Ended \/ Opened \/ Crowded
<1> SUFFICES ASSUME Typed, toJsonOf PROVE Ended \/ Opened \/ Crowded
  OBVIOUS
<1>1. stack # <<>> /\ top.fn = "toJson" /\ top.pc = "reads"
  BY DEF toJsonOf, At
<1>2. top \in Call /\ WellMade(heap, top) /\ it \in Shape /\ top.of \in Error
  BY <1>1, TopIs
<1>3. top.marks = "SERIALIZING"
  BY <1>1, <1>2 DEF WellMade, Call
<1>4. \A fn : Asks(top, fn)
  BY <1>1, <1>2, <1>3 DEF Asks, WellMade, Call
<1>5. CASE it.whose # "library"
  <2>1. Calls(top, "describe", top.of)
    BY <1>5 DEF toJsonOf
  <2> QED
    BY <1>2, <1>4, <2>1, CallsGo
<1>6. CASE it.whose = "library" /\ ~it.whole
  <2>1. Calls(top, "causeLine", top.of)
    BY <1>6 DEF toJsonOf
  <2> QED
    BY <1>2, <1>4, <2>1, CallsGo
<1>7. CASE it.whose = "library" /\ it.whole /\ it.message.does = "says"
  <2>1. Returns(Sentence(top.of), withOutcome(top))
    BY <1>7 DEF toJsonOf
  <2> QED
    BY <1>1, <1>2, <2>1, LinesAreLines, WithOutcomeIs DEF Ended
<1>8. CASE it.whose = "library" /\ it.whole /\ it.message.does = "nothing"
  <2>1. Returns(Nothing, withOutcome(top))
    BY <1>8 DEF toJsonOf
  <2> QED
    BY <1>1, <1>2, <2>1, LinesAreLines, WithOutcomeIs DEF Ended
<1>9. CASE it.whose = "library" /\ it.whole /\ it.message.does = "throws"
  BY <1>1, <1>9, FallbackGoes DEF toJsonOf, it
<1>10. CASE it.whose = "library" /\ it.whole /\ it.message.does \in {"describe", "toJson"}
  <2>1. Calls(top, it.message.does, it.message.to) /\ it.message.to \in Error
    BY <1>2, <1>10 DEF toJsonOf, Shape, Reading
  <2> QED
    BY <1>2, <1>4, <1>10, <2>1, CallsGo
<1>11. it.message.does \in {"says", "nothing", "throws", "describe", "toJson"}
  BY <1>2 DEF Shape, Reading
<1> QED
  BY <1>5, <1>6, <1>7, <1>8, <1>9, <1>10, <1>11

(* A log entry ends with what it was answered, or falls back.               *)
LEMMA ToJsonEndsGoes == Typed /\ Deep /\ toJsonEnds => Ended \/ Opened \/ Crowded
<1> SUFFICES ASSUME Typed, Deep, toJsonEnds PROVE Ended \/ Opened \/ Crowded
  OBVIOUS
<1>1. stack # <<>> /\ top.fn = "toJson" /\ top.pc = "waits"
  BY DEF toJsonEnds, At
<1>2. top.of \in Error /\ returned.line \in Seq(Item) /\ tagged \in Seq(Item)
  BY <1>1, TopIs, LinesAreLines DEF Typed, Told, tagged
<1>3. withOutcome(top) \in {"unknown", "none"}
  BY <1>1, WithOutcomeIs
<1>4. CASE returned = Thrown /\ ~top.fellBack
  <2>1. fallback /\ Len(stack) >= StackSize - 1
    BY <1>4 DEF toJsonEnds, Deep
  <2> QED
    BY <1>1, <2>1, FallbackGoes
<1>5. CASE returned = Thrown /\ top.fellBack
  <2>1. Returns(Nothing, "thrown") /\ Len(stack) >= StackSize
    BY <1>1, <1>5 DEF toJsonEnds, Deep
  <2> QED
    BY <1>1, <1>2, <1>5, <2>1, LinesAreLines DEF Ended
<1>6. CASE returned # Thrown
  BY <1>2, <1>3, <1>6 DEF toJsonEnds, Ended
<1> QED
  BY <1>4, <1>5, <1>6

Goes == stack # <<>> /\ UNCHANGED <<heap, asked>> /\ (Ended \/ Opened \/ Crowded \/ Marking)

(* So every step under way ends, opens or begins.                           *)
LEMMA StepsGo ==
  ASSUME Typed, Deep, FailuresNext
  PROVE  Goes \/ \E fn \in {"describe", "toJson"}, e \in Error : tell(fn, e)
<1>1. CASE rawCauseLine
  BY <1>1, RawCauseLineGoes DEF Goes, rawCauseLine, At
<1>2. CASE readCauseLine
  BY <1>2, ReadCauseLineGoes DEF Goes, readCauseLine, At
<1>3. CASE causeLineEnds
  BY <1>3, CauseLineEndsGoes DEF Goes, causeLineEnds, At
<1>4. CASE describe
  BY <1>4, DescribeGoes DEF Goes, describe, At
<1>5. CASE describeConfig
  BY <1>5, DescribeConfigGoes DEF Goes, describeConfig, At
<1>6. CASE describeEnds
  BY <1>6, DescribeEndsGoes DEF Goes, describeEnds, At
<1>7. CASE toJson
  BY <1>7, ToJsonGoes DEF Goes, toJson, At
<1>8. CASE toJsonOf
  BY <1>8, ToJsonOfGoes DEF Goes, toJsonOf, At
<1>9. CASE toJsonEnds
  BY <1>9, ToJsonEndsGoes DEF Goes, toJsonEnds, At
<1>10. CASE stringOfEnds
  BY <1>10, StringOfEndsGoes DEF Goes, stringOfEnds, At
<1> QED
  BY <1>1, <1>2, <1>3, <1>4, <1>5, <1>6, <1>7, <1>8, <1>9, <1>10 DEF FailuresNext

-----------------------------------------------------------------------------
(* What the steps keep.                                                      *)
LEMMA EndedKeeps ==
  ASSUME Typed, Nested, Marked, stack # <<>>, Ended, UNCHANGED <<heap, asked>>
  PROVE  Typed' /\ Nested' /\ Marked'
<1> DEFINE n == Len(stack)
<1>1. PICK line \in Seq(Item), outcome \in {"unknown", "none", "thrown"} : Returns(line, outcome)
  BY DEF Ended
<1>2. /\ n \in Nat \ {0} /\ stack \in Seq(Call) /\ top = stack[n]
      /\ stack' \in Seq(Call) /\ Len(stack') = n - 1
      /\ \A i \in 1..(n - 1) : stack'[i] = stack[i]
  BY <1>1, Popped DEF Typed, Returns, top
<1>3. top \in Call
  BY TopIs
<1> HIDE DEF n
<1>4. Typed'
  <2>1. returned' \in Told
    BY <1>1 DEF Returns, Value, Told
  <2>2. READING' \subseteq Error /\ SERIALIZING' \subseteq Error
    BY <1>1 DEF Returns, unmarked, Typed
  <2>3. \A i \in 1..(n - 1) : i \in 1..n
    BY <1>2
  <2>4. \A i \in 1..Len(stack') : WellMade(heap', stack'[i])
    BY <1>2, <2>3 DEF Typed, n
  <2> QED
    BY <1>2, <2>1, <2>2, <2>4 DEF Typed
<1>5. Nested'
  <2> SUFFICES ASSUME NEW i \in 1..(n - 1), i # n - 1
               PROVE  /\ stack'[i].pc = "waits"
                      /\ stack'[i].marks = "none" /\ stack'[i].fn # "stringOf" =>
                           stack'[i + 1].fn = "causeLine"
    BY <1>2 DEF Nested
  <2>1. i \in 1..n /\ i # n /\ i + 1 \in 1..(n - 1)
    BY <1>2
  <2> QED
    BY <1>2, <2>1 DEF Nested, n
<1>6. \A marks : (MarkedBy(marks))' = MarkedBy(marks) \ {n}
  <2> TAKE marks
  <2>1. DOMAIN stack = 1..n /\ DOMAIN stack' = 1..(n - 1)
    BY <1>2 DEF n
  <2>2. \A i : i \in 1..(n - 1) <=> i \in 1..n /\ i # n
    BY <1>2
  <2> QED
    BY <1>2, <2>1, <2>2 DEF MarkedBy
<1>7. ASSUME NEW marks, NEW set, set = {stack[i].of : i \in MarkedBy(marks)},
             \A i, j \in MarkedBy(marks) : stack[i].of = stack[j].of => i = j
      PROVE  unmarked(marks, set) = {stack'[i].of : i \in (MarkedBy(marks))'}
  <2>1. \A i \in MarkedBy(marks) \ {n} : stack'[i] = stack[i]
    BY <1>2 DEF MarkedBy, n
  <2>2. n \in MarkedBy(marks) <=> top.marks = marks
    BY <1>2 DEF MarkedBy, n
  <2>3. CASE top.marks = marks
    <3>1. \A i \in MarkedBy(marks) : stack[i].of = top.of <=> i = n
      BY <1>2, <1>7, <2>2, <2>3
    <3> QED
      BY <1>6, <1>7, <2>1, <2>3, <3>1 DEF unmarked
  <2>4. CASE top.marks # marks
    <3>1. MarkedBy(marks) \ {n} = MarkedBy(marks)
      BY <2>2, <2>4
    <3> QED
      BY <1>6, <1>7, <2>1, <2>4, <3>1 DEF unmarked
  <2> QED
    BY <2>3, <2>4
<1>8. READING' = {stack'[i].of : i \in (MarkedBy("READING"))'}
  BY <1>1, <1>7 DEF Marked, Returns
<1>9. SERIALIZING' = {stack'[i].of : i \in (MarkedBy("SERIALIZING"))'}
  BY <1>1, <1>7 DEF Marked, Returns
<1>10. \A marks \in {"READING", "SERIALIZING"} :
         \A i, j \in (MarkedBy(marks))' : stack'[i].of = stack'[j].of => i = j
  <2> SUFFICES ASSUME NEW marks \in {"READING", "SERIALIZING"},
                      NEW i \in (MarkedBy(marks))', NEW j \in (MarkedBy(marks))',
                      stack'[i].of = stack'[j].of
               PROVE  i = j
    OBVIOUS
  <2>1. i \in MarkedBy(marks) /\ j \in MarkedBy(marks) /\ i \in 1..n \ {n} /\ j \in 1..n \ {n}
    BY <1>2, <1>6 DEF MarkedBy, n
  <2>2. stack'[i] = stack[i] /\ stack'[j] = stack[j]
    BY <1>2, <2>1
  <2> QED
    BY <2>1, <2>2 DEF Marked
<1>11. Marked'
  BY <1>8, <1>9, <1>10 DEF Marked
<1> QED
  BY <1>4, <1>5, <1>11

(* Nor does a call it asks for.                                             *)
LEMMA OpenedKeeps ==
  ASSUME Typed, Nested, Marked, stack # <<>>, Opened, UNCHANGED <<heap, asked>>
  PROVE  Typed' /\ Nested' /\ Marked'
<1> DEFINE n == Len(stack)
<1>1. PICK frame \in Call, fn \in {"describe", "causeLine", "toJson"}, e \in Error :
        Pushes(frame, fn, e) /\ Asks(frame, fn)
  BY DEF Opened
<1> DEFINE below == [frame EXCEPT !.pc = "waits"]
           above == Frame(fn, e)
<1>2. /\ below \in Call /\ below.pc = "waits" /\ below.marks = top.marks /\ below.of = top.of
      /\ below.marks = "none" /\ below.fn # "stringOf" => fn = "causeLine"
      /\ (below.fn = top.fn \/ (below.fn = "stringOf" /\ top.fn = "describe"))
      /\ above \in Call /\ above.pc = "called" /\ above.marks = "none" /\ above.fn = fn
      /\ WellMade(heap, above) /\ WellMade(heap, below)
  BY <1>1 DEF Asks, Call, Frame, WellMade
<1>3. stack' = Front(stack) \o <<below, above>>
  BY <1>1 DEF Pushes
<1> HIDE DEF below, above
<1>4. /\ n \in Nat \ {0} /\ stack \in Seq(Call) /\ top = stack[n]
      /\ stack' \in Seq(Call) /\ Len(stack') = n + 1 /\ stack'[n] = below /\ stack'[n + 1] = above
      /\ \A i \in 1..(n - 1) : stack'[i] = stack[i]
  BY <1>2, <1>3, Pushed, Popped DEF Typed, top
<1> HIDE DEF n
<1>5. Typed'
  <2>1. returned' \in Told
    BY <1>1, LinesAreLines DEF Pushes, Pending, Value, Told, Nothing
  <2>2. \A i \in 1..(n + 1) : i \in 1..(n - 1) \/ i = n \/ i = n + 1
    BY <1>4
  <2>3. \A i \in 1..(n - 1) : WellMade(heap, stack[i])
    BY <1>4 DEF Typed, n
  <2>4. \A i \in 1..Len(stack') : WellMade(heap', stack'[i])
    BY <1>2, <1>4, <2>2, <2>3
  <2> QED
    BY <1>1, <1>4, <2>1, <2>4 DEF Typed, Pushes
<1>6. Nested'
  <2> SUFFICES ASSUME NEW i \in 1..n
               PROVE  /\ stack'[i].pc = "waits"
                      /\ stack'[i].marks = "none" /\ stack'[i].fn # "stringOf" =>
                           stack'[i + 1].fn = "causeLine"
    BY <1>4 DEF Nested
  <2>1. CASE i = n
    BY <1>2, <1>4, <2>1
  <2>2. CASE i = n - 1
    <3>1. i \in 1..n /\ i # n /\ i + 1 = n /\ i \in 1..(n - 1)
      BY <1>4, <2>2
    <3>2. /\ stack[i].pc = "waits"
          /\ stack[i].marks = "none" /\ stack[i].fn # "stringOf" => stack[n].fn = "causeLine"
      BY <3>1 DEF Nested, n
    <3> QED
      BY <1>2, <1>4, <3>1, <3>2
  <2>3. CASE i \notin {n, n - 1}
    <3>1. i # n /\ i \in 1..(n - 1) /\ i + 1 \in 1..(n - 1)
      BY <1>4, <2>3
    <3> QED
      BY <1>4, <3>1 DEF Nested, n
  <2> QED
    BY <2>1, <2>2, <2>3
<1>7. \A marks \in {"READING", "SERIALIZING"} :
        /\ (MarkedBy(marks))' = MarkedBy(marks)
        /\ \A i \in MarkedBy(marks) : stack'[i].of = stack[i].of
  <2> TAKE marks \in {"READING", "SERIALIZING"}
  <2>1. DOMAIN stack = 1..n /\ DOMAIN stack' = 1..(n + 1)
    BY <1>4 DEF n
  <2>2. \A i : i \in 1..(n + 1) <=> i \in 1..(n - 1) \/ i = n \/ i = n + 1
    BY <1>4
  <2>3. \A i : i \in 1..n <=> i \in 1..(n - 1) \/ i = n
    BY <1>4
  <2>4. \A i \in 1..n : stack'[i].marks = stack[i].marks /\ stack'[i].of = stack[i].of
    BY <1>2, <1>4, <2>3
  <2>5. stack'[n + 1].marks # marks
    BY <1>2, <1>4
  <2>6. \A i : i \in 1..(n + 1) <=> i \in 1..n \/ i = n + 1
    BY <2>2, <2>3
  <2> QED
    BY <2>1, <2>4, <2>5, <2>6 DEF MarkedBy
<1>8. Marked'
  <2>1. READING' = {stack'[i].of : i \in (MarkedBy("READING"))'}
    <3>1. READING' = READING
      BY <1>1 DEF Pushes
    <3>2. /\ (MarkedBy("READING"))' = MarkedBy("READING")
          /\ \A i \in MarkedBy("READING") : stack'[i].of = stack[i].of
      BY <1>7
    <3> QED
      BY <3>1, <3>2 DEF Marked
  <2>2. SERIALIZING' = {stack'[i].of : i \in (MarkedBy("SERIALIZING"))'}
    <3>1. SERIALIZING' = SERIALIZING
      BY <1>1 DEF Pushes
    <3>2. /\ (MarkedBy("SERIALIZING"))' = MarkedBy("SERIALIZING")
          /\ \A i \in MarkedBy("SERIALIZING") : stack'[i].of = stack[i].of
      BY <1>7
    <3> QED
      BY <3>1, <3>2 DEF Marked
  <2>3. \A marks \in {"READING", "SERIALIZING"} :
          \A i, j \in (MarkedBy(marks))' : stack'[i].of = stack'[j].of => i = j
    BY <1>7 DEF Marked
  <2> QED
    BY <2>1, <2>2, <2>3 DEF Marked
<1> QED
  BY <1>5, <1>6, <1>8

(* Nor does a call that finds no room.                                      *)
LEMMA FullKeeps ==
  ASSUME Typed, Nested, Marked, stack # <<>>, Crowded, UNCHANGED <<heap, asked>>
  PROVE  Typed' /\ Nested' /\ Marked'
<1> DEFINE n == Len(stack)
<1>1. PICK frame \in Call, fn \in {"describe", "causeLine", "toJson"} :
        Overflows(frame) /\ Asks(frame, fn)
  BY DEF Crowded
<1> DEFINE below == [frame EXCEPT !.pc = "waits"]
<1>2. /\ below \in Call /\ below.pc = "waits" /\ below.marks = top.marks /\ below.of = top.of
      /\ (below.fn = top.fn \/ (below.fn = "stringOf" /\ top.fn = "describe"))
      /\ WellMade(heap, below)
  BY <1>1 DEF Asks, Call
<1>3. stack' = Front(stack) \o <<below>>
  BY <1>1 DEF Overflows
<1> HIDE DEF below
<1>4. /\ n \in Nat \ {0} /\ stack \in Seq(Call) /\ top = stack[n]
      /\ stack' \in Seq(Call) /\ Len(stack') = n /\ stack'[n] = below
      /\ \A i \in 1..(n - 1) : stack'[i] = stack[i]
  BY <1>2, <1>3, Replaced, Popped DEF Typed, top
<1>5. \A i : i \in 1..n <=> i \in 1..(n - 1) \/ i = n
  BY <1>4
<1> HIDE DEF n
<1>6. Typed'
  <2>1. returned' \in Told
    BY <1>1, LinesAreLines DEF Overflows, Thrown, Value, Told, Nothing
  <2>2. \A i \in 1..Len(stack') : WellMade(heap', stack'[i])
    BY <1>2, <1>4, <1>5 DEF Typed, n
  <2> QED
    BY <1>1, <1>4, <2>1, <2>2 DEF Typed, Overflows
<1>7. Nested'
  <2> SUFFICES ASSUME NEW i \in 1..n, i # n
               PROVE  /\ stack'[i].pc = "waits"
                      /\ stack'[i].marks = "none" /\ stack'[i].fn # "stringOf" =>
                           stack'[i + 1].fn = "causeLine"
    BY <1>4 DEF Nested
  <2>1. i \in 1..(n - 1) /\ i + 1 \in 1..n
    BY <1>4
  <2>2. /\ stack[i].pc = "waits"
        /\ stack[i].marks = "none" /\ stack[i].fn # "stringOf" => stack[i + 1].fn = "causeLine"
    BY DEF Nested, n
  <2>3. stack[i + 1].fn = "causeLine" => stack'[i + 1].fn = "causeLine"
    BY <1>2, <1>4, <1>5, <2>1
  <2> QED
    BY <1>4, <2>1, <2>2, <2>3
<1>8. DOMAIN stack = 1..n /\ DOMAIN stack' = 1..n
  BY <1>4 DEF n
<1>9. \A i \in 1..n : stack'[i].marks = stack[i].marks /\ stack'[i].of = stack[i].of
  BY <1>2, <1>4, <1>5
<1>10. \A marks \in {"READING", "SERIALIZING"} :
         /\ (MarkedBy(marks))' = MarkedBy(marks)
         /\ \A i \in MarkedBy(marks) : stack'[i].of = stack[i].of
  BY <1>8, <1>9 DEF MarkedBy
<1>11. READING' = READING /\ SERIALIZING' = SERIALIZING
  BY <1>1 DEF Overflows
<1>12. READING' = {stack'[i].of : i \in (MarkedBy("READING"))'}
  <2>1. /\ (MarkedBy("READING"))' = MarkedBy("READING")
        /\ \A i \in MarkedBy("READING") : stack'[i].of = stack[i].of
    BY <1>10
  <2> QED
    BY <1>11, <2>1 DEF Marked
<1>13. SERIALIZING' = {stack'[i].of : i \in (MarkedBy("SERIALIZING"))'}
  <2>1. /\ (MarkedBy("SERIALIZING"))' = MarkedBy("SERIALIZING")
        /\ \A i \in MarkedBy("SERIALIZING") : stack'[i].of = stack[i].of
    BY <1>10
  <2> QED
    BY <1>11, <2>1 DEF Marked
<1>14. \A marks \in {"READING", "SERIALIZING"} :
         \A i, j \in (MarkedBy(marks))' : stack'[i].of = stack'[j].of => i = j
  BY <1>10 DEF Marked
<1>15. Marked'
  BY <1>12, <1>13, <1>14 DEF Marked
<1> QED
  BY <1>6, <1>7, <1>15

(* Nor does marking what it is about to read.                               *)
LEMMA BegunKeeps ==
  ASSUME Typed, Nested, Marked, stack # <<>>, Marking, UNCHANGED <<heap, asked>>
  PROVE  Typed' /\ Nested' /\ Marked'
<1> DEFINE n == Len(stack)
<1>1. PICK marks \in {"READING", "SERIALIZING"} :
        /\ Marks(marks) /\ top.marks = "none"
        /\ marks = "READING" => top.of \notin READING
        /\ marks = "SERIALIZING" => top.of \notin SERIALIZING
        /\ WellMade(heap, [top EXCEPT !.pc = "reads", !.marks = marks])
  BY DEF Marking
<1>2. top \in Call /\ top.of \in Error
  BY TopIs
<1> DEFINE marked == [top EXCEPT !.pc = "reads", !.marks = marks]
<1>3. /\ marked \in Call /\ marked.marks = marks /\ marked.of = top.of /\ marked.fn = top.fn
      /\ WellMade(heap, marked)
  BY <1>1, <1>2 DEF Call
<1>4. stack' = Front(stack) \o <<marked>>
  BY <1>1 DEF Marks
<1> HIDE DEF marked
<1>5. /\ n \in Nat \ {0} /\ stack \in Seq(Call) /\ top = stack[n]
      /\ stack' \in Seq(Call) /\ Len(stack') = n /\ stack'[n] = marked
      /\ \A i \in 1..(n - 1) : stack'[i] = stack[i]
  BY <1>3, <1>4, Replaced, Popped DEF Typed, top
<1>6. \A i : i \in 1..n <=> i \in 1..(n - 1) \/ i = n
  BY <1>5
<1> HIDE DEF n
<1>7. Typed'
  <2>1. returned' \in Told
    BY <1>1 DEF Marks, Typed
  <2>2. READING' \subseteq Error /\ SERIALIZING' \subseteq Error
    BY <1>1, <1>2 DEF Marks, Typed
  <2>3. \A i \in 1..Len(stack') : WellMade(heap', stack'[i])
    BY <1>3, <1>5, <1>6 DEF Typed, n
  <2> QED
    BY <1>5, <2>1, <2>2, <2>3 DEF Typed
<1>8. Nested'
  <2> SUFFICES ASSUME NEW i \in 1..n, i # n
               PROVE  /\ stack'[i].pc = "waits"
                      /\ stack'[i].marks = "none" /\ stack'[i].fn # "stringOf" =>
                           stack'[i + 1].fn = "causeLine"
    BY <1>5 DEF Nested
  <2>1. i \in 1..(n - 1) /\ i + 1 \in 1..n
    BY <1>5
  <2>2. /\ stack[i].pc = "waits"
        /\ stack[i].marks = "none" /\ stack[i].fn # "stringOf" => stack[i + 1].fn = "causeLine"
    BY DEF Nested, n
  <2>3. stack'[i + 1].fn = stack[i + 1].fn
    BY <1>3, <1>5, <1>6, <2>1
  <2> QED
    BY <1>5, <2>1, <2>2, <2>3
<1>9. DOMAIN stack = 1..n /\ DOMAIN stack' = 1..n
  BY <1>5 DEF n
<1>10. \A i \in 1..n : stack'[i].of = stack[i].of
  BY <1>3, <1>5, <1>6
<1>11. \A i \in 1..n : stack'[i].marks = IF i = n THEN marks ELSE stack[i].marks
  BY <1>3, <1>5, <1>6
<1>12. stack[n].marks = "none" /\ stack[n].of = top.of
  BY <1>1, <1>5
<1>13. (MarkedBy(marks))' = MarkedBy(marks) \cup {n} /\ n \in 1..n
  BY <1>5, <1>9, <1>11 DEF MarkedBy
<1>14. \A other \in {"READING", "SERIALIZING"} :
         other # marks => (MarkedBy(other))' = MarkedBy(other)
  BY <1>9, <1>11, <1>12 DEF MarkedBy
<1>15. \A other : MarkedBy(other) \subseteq 1..n
  BY <1>9 DEF MarkedBy
<1>16. \A i \in MarkedBy(marks) : stack[i].of # top.of
  BY <1>1 DEF Marked
<1>17. READING' = {stack'[i].of : i \in (MarkedBy("READING"))'}
  <2>1. CASE marks = "READING"
    <3>1. READING' = READING \cup {top.of}
      BY <1>1, <2>1 DEF Marks
    <3>2. \A i \in MarkedBy("READING") : stack'[i].of = stack[i].of
      BY <1>10, <1>15
    <3>3. stack'[n].of = top.of
      BY <1>10, <1>12, <1>13
    <3> QED
      BY <1>13, <2>1, <3>1, <3>2, <3>3 DEF Marked
  <2>2. CASE marks # "READING"
    <3>1. READING' = READING
      BY <1>1, <2>2 DEF Marks
    <3>2. \A i \in MarkedBy("READING") : stack'[i].of = stack[i].of
      BY <1>10, <1>15
    <3> QED
      BY <1>14, <2>2, <3>1, <3>2 DEF Marked
  <2> QED
    BY <2>1, <2>2
<1>18. SERIALIZING' = {stack'[i].of : i \in (MarkedBy("SERIALIZING"))'}
  <2>1. CASE marks = "SERIALIZING"
    <3>1. SERIALIZING' = SERIALIZING \cup {top.of}
      BY <1>1, <2>1 DEF Marks
    <3>2. \A i \in MarkedBy("SERIALIZING") : stack'[i].of = stack[i].of
      BY <1>10, <1>15
    <3>3. stack'[n].of = top.of
      BY <1>10, <1>12, <1>13
    <3> QED
      BY <1>13, <2>1, <3>1, <3>2, <3>3 DEF Marked
  <2>2. CASE marks # "SERIALIZING"
    <3>1. SERIALIZING' = SERIALIZING
      BY <1>1, <2>2 DEF Marks
    <3>2. \A i \in MarkedBy("SERIALIZING") : stack'[i].of = stack[i].of
      BY <1>10, <1>15
    <3> QED
      BY <1>14, <2>2, <3>1, <3>2 DEF Marked
  <2> QED
    BY <2>1, <2>2
<1>19. \A other \in {"READING", "SERIALIZING"} :
         \A i, j \in (MarkedBy(other))' : stack'[i].of = stack'[j].of => i = j
  <2> SUFFICES ASSUME NEW other \in {"READING", "SERIALIZING"},
                      NEW i \in (MarkedBy(other))', NEW j \in (MarkedBy(other))',
                      stack'[i].of = stack'[j].of
               PROVE  i = j
    OBVIOUS
  <2>1. i \in 1..n /\ j \in 1..n
    BY <1>9 DEF MarkedBy
  <2>2. stack[i].of = stack[j].of
    BY <1>10, <2>1
  <2>3. CASE other # marks
    BY <1>14, <2>2, <2>3 DEF Marked
  <2>4. CASE other = marks
    <3>1. (i \in MarkedBy(marks) \/ i = n) /\ (j \in MarkedBy(marks) \/ j = n)
      BY <1>13, <2>4
    <3>2. stack[n].of = top.of
      BY <1>12
    <3> QED
      BY <1>16, <2>2, <3>1, <3>2 DEF Marked
  <2> QED
    BY <2>3, <2>4
<1> QED
  BY <1>7, <1>8, <1>17, <1>18, <1>19 DEF Marked

(* An ask begins one call on an empty stack.                                *)
LEMMA TellKeeps ==
  ASSUME Typed, Nested, Marked, NEW fn \in {"describe", "toJson"}, NEW e \in Error, tell(fn, e)
  PROVE  Typed' /\ Nested' /\ Marked' /\ Deep'
<1> DEFINE first == Frame(fn, e)
<1>1. /\ first \in Call /\ first.marks = "none" /\ WellMade(heap, first) /\ ~ first.fellBack
  BY DEF Frame, Call, WellMade
<1>2. stack' = <<first>> /\ stack = <<>> /\ heap' = heap
      /\ READING' = READING /\ SERIALIZING' = SERIALIZING
  BY DEF tell
<1> HIDE DEF first
<1>3. stack' \in Seq(Call) /\ Len(stack') = 1 /\ stack'[1] = first /\ DOMAIN stack' = 1..1
  BY <1>1, <1>2
<1>4. DOMAIN stack = {}
  BY <1>2
<1>5. \A marks \in {"READING", "SERIALIZING"} :
        MarkedBy(marks) = {} /\ (MarkedBy(marks))' = {}
  BY <1>1, <1>3, <1>4 DEF MarkedBy
<1>6. READING' = {} /\ SERIALIZING' = {}
  BY <1>2, <1>5 DEF Marked
<1>7. Marked'
  BY <1>5, <1>6 DEF Marked
<1>8. Nested'
  BY <1>3 DEF Nested
<1>9. returned' \in Told /\ asked' \in {"describe", "toJson"} \X Error
  BY LinesAreLines DEF tell, Pending, Value, Told, Nothing
<1>10. Typed'
  BY <1>1, <1>2, <1>3, <1>6, <1>9 DEF Typed
<1>11. Deep'
  BY <1>1, <1>3 DEF Deep, tell, Pending, Thrown, Value
<1> QED
  BY <1>7, <1>8, <1>10, <1>11

-----------------------------------------------------------------------------
(* Who throws.  What the steps leave of the calls that fell back.            *)
LEMMA DeepEnded ==
  ASSUME Typed, Deep, stack # <<>>, Ended, UNCHANGED <<heap, asked>>
  PROVE  Deep'
<1> DEFINE n == Len(stack)
<1>1. PICK line \in Seq(Item), outcome \in {"unknown", "none", "thrown"} :
        /\ Returns(line, outcome)
        /\ outcome = "thrown" => top.fn = "toJson" /\ n >= StackSize
  BY DEF Ended
<1>2. /\ n \in Nat \ {0} /\ StackSize \in Nat /\ top = stack[n]
      /\ stack' \in Seq(Call) /\ Len(stack') = n - 1
      /\ \A i \in 1..(n - 1) : stack'[i] = stack[i]
  BY <1>1, Popped, StackSizeAssumption DEF Typed, Returns, top
<1> HIDE DEF n
<1>3. \A i \in 1..(n - 1) : i \in 1..n /\ i # n /\ (i # n - 1 => i + 1 \in 1..(n - 1))
  BY <1>2
<1>4. ASSUME NEW i \in 1..(n - 1), stack'[i].fellBack
      PROVE  /\ heap[stack'[i].of].message.does = "throws" \/ i >= StackSize - 1
             /\ i # n - 1 => stack'[i + 1].fn # "toJson"
  <2>1. i \in 1..n /\ stack'[i] = stack[i]
    BY <1>2, <1>3
  <2>2. /\ heap[stack[i].of].message.does = "throws" \/ i >= StackSize - 1
        /\ stack[i + 1].fn # "toJson"
    BY <1>3, <1>4, <2>1 DEF Deep, n
  <2> QED
    BY <1>2, <1>3, <2>1, <2>2
<1>5. returned' = Thrown => outcome = "thrown"
  BY <1>1 DEF Returns, Thrown, Value
<1>6. returned' = Thrown => n - 1 >= StackSize - 1
  BY <1>1, <1>2, <1>5
<1>7. ASSUME returned' = Thrown, stack' # <<>>
      PROVE  ~ top'.fellBack
  <2>1. top.fn = "toJson"
    BY <1>1, <1>5, <1>7
  <2>2. n - 1 # 0
    BY <1>2, <1>7
  <2>3. n - 1 \in 1..n /\ n - 1 # n /\ n - 1 + 1 = n /\ n - 1 \in 1..(n - 1)
    BY <1>2, <2>2
  <2>4. ~ stack[n - 1].fellBack
    BY <1>2, <2>1, <2>3 DEF Deep, n
  <2> QED
    BY <1>2, <2>3, <2>4 DEF top
<1> QED
  BY <1>2, <1>4, <1>6, <1>7 DEF Deep

(* A call above it,                                                         *)
LEMMA DeepOpened ==
  ASSUME Typed, Deep, stack # <<>>, Opened, UNCHANGED <<heap, asked>>
  PROVE  Deep'
<1> DEFINE n == Len(stack)
<1>1. PICK frame \in Call, fn \in {"describe", "causeLine", "toJson"}, e \in Error :
        Pushes(frame, fn, e) /\ Asks(frame, fn)
  BY DEF Opened
<1> DEFINE below == [frame EXCEPT !.pc = "waits"]
           above == Frame(fn, e)
<1>2. /\ below \in Call /\ above \in Call /\ ~ above.fellBack /\ above.fn = fn
      /\ below.fn = "toJson" => top.fn = "toJson"
      /\ below.fellBack =>
           /\ heap[below.of].message.does = "throws" \/ n >= StackSize - 1
           /\ fn = "describe"
  BY <1>1 DEF Asks, Call, Frame
<1>3. stack' = Front(stack) \o <<below, above>> /\ returned' = Pending
  BY <1>1 DEF Pushes
<1> HIDE DEF below, above
<1>4. /\ n \in Nat \ {0} /\ StackSize \in Nat /\ top = stack[n]
      /\ Len(stack') = n + 1 /\ stack'[n] = below /\ stack'[n + 1] = above
      /\ \A i \in 1..(n - 1) : stack'[i] = stack[i]
  BY <1>2, <1>3, Pushed, Popped, StackSizeAssumption DEF Typed, top
<1> HIDE DEF n
<1>5. returned' # Thrown
  BY <1>3 DEF Pending, Thrown, Value
<1>6. ASSUME NEW i \in 1..(n + 1), stack'[i].fellBack
      PROVE  /\ heap[stack'[i].of].message.does = "throws" \/ i >= StackSize - 1
             /\ i # n + 1 => stack'[i + 1].fn # "toJson"
  <2>1. i # n + 1
    BY <1>2, <1>4, <1>6
  <2>2. CASE i = n
    BY <1>2, <1>4, <1>6, <2>2
  <2>3. CASE i # n
    <3>1. i \in 1..(n - 1) /\ i \in 1..n /\ i # n
      BY <1>4, <2>1, <2>3
    <3>2. /\ heap[stack[i].of].message.does = "throws" \/ i >= StackSize - 1
          /\ stack[i + 1].fn # "toJson"
      BY <1>4, <1>6, <3>1 DEF Deep, n
    <3>3. i + 1 = n \/ i + 1 \in 1..(n - 1)
      BY <1>4, <3>1
    <3> QED
      BY <1>2, <1>4, <3>1, <3>2, <3>3
  <2> QED
    BY <2>2, <2>3
<1> QED
  BY <1>4, <1>5, <1>6 DEF Deep

(* no room for one,                                                         *)
LEMMA DeepFull ==
  ASSUME Typed, Deep, stack # <<>>, Crowded, UNCHANGED <<heap, asked>>
  PROVE  Deep'
<1> DEFINE n == Len(stack)
<1>1. PICK frame \in Call, fn \in {"describe", "causeLine", "toJson"} :
        Overflows(frame) /\ Asks(frame, fn)
  BY DEF Crowded
<1> DEFINE below == [frame EXCEPT !.pc = "waits"]
<1>2. below \in Call /\ (below.fn = "toJson" => top.fn = "toJson")
  BY <1>1 DEF Asks, Call
<1>3. stack' = Front(stack) \o <<below>>
  BY <1>1 DEF Overflows
<1> HIDE DEF below
<1>4. /\ n \in Nat \ {0} /\ StackSize \in Nat /\ top = stack[n]
      /\ Len(stack') = n /\ stack'[n] = below /\ ~ (n < StackSize)
      /\ \A i \in 1..(n - 1) : stack'[i] = stack[i]
  BY <1>2, <1>3, Replaced, Popped, StackSizeAssumption DEF Typed, top, Crowded
<1> HIDE DEF n
<1>5. n >= StackSize /\ n >= StackSize - 1
  BY <1>4
<1>6. ASSUME NEW i \in 1..n, stack'[i].fellBack
      PROVE  /\ heap[stack'[i].of].message.does = "throws" \/ i >= StackSize - 1
             /\ i # n => stack'[i + 1].fn # "toJson"
  <2>1. CASE i = n
    BY <1>5, <2>1
  <2>2. CASE i # n
    <3>1. i \in 1..(n - 1)
      BY <1>4, <2>2
    <3>2. /\ heap[stack[i].of].message.does = "throws" \/ i >= StackSize - 1
          /\ stack[i + 1].fn # "toJson"
      BY <1>4, <1>6, <2>2, <3>1 DEF Deep, n
    <3>3. i + 1 = n \/ i + 1 \in 1..(n - 1)
      BY <1>4, <3>1
    <3> QED
      BY <1>2, <1>4, <3>1, <3>2, <3>3
  <2> QED
    BY <2>1, <2>2
<1> QED
  BY <1>4, <1>5, <1>6 DEF Deep

(* and a mark.                                                              *)
LEMMA DeepBegun ==
  ASSUME Typed, Deep, stack # <<>>, Marking, UNCHANGED <<heap, asked>>
  PROVE  Deep'
<1> DEFINE n == Len(stack)
<1>1. PICK marks \in {"READING", "SERIALIZING"} : Marks(marks)
  BY DEF Marking
<1> DEFINE marked == [top EXCEPT !.pc = "reads", !.marks = marks]
<1>2. /\ marked \in Call /\ marked.fn = top.fn /\ marked.of = top.of
      /\ marked.fellBack = top.fellBack
  BY TopIs DEF Call
<1>3. stack' = Front(stack) \o <<marked>> /\ returned' = returned
  BY <1>1 DEF Marks
<1> HIDE DEF marked
<1>4. /\ n \in Nat \ {0} /\ top = stack[n] /\ Len(stack') = n /\ stack'[n] = marked
      /\ \A i \in 1..(n - 1) : stack'[i] = stack[i]
  BY <1>2, <1>3, Replaced, Popped DEF Typed, top
<1>5. \A i \in 1..n : /\ stack'[i].fn = stack[i].fn /\ stack'[i].of = stack[i].of
                      /\ stack'[i].fellBack = stack[i].fellBack
  <2>1. \A i \in 1..n : i \in 1..(n - 1) \/ i = n
    BY <1>4
  <2> QED
    BY <1>2, <1>4, <2>1
<1>6. \A i \in 1..n : i # n => i + 1 \in 1..n
  BY <1>4
<1>7. top'.fellBack = top.fellBack
  BY <1>2, <1>4 DEF top
<1> HIDE DEF n, marked
<1>8. ASSUME NEW i \in 1..n, stack'[i].fellBack
      PROVE  /\ heap[stack'[i].of].message.does = "throws" \/ i >= StackSize - 1
             /\ i # n => stack'[i + 1].fn # "toJson"
  <2>1. /\ stack[i].fellBack /\ stack'[i].of = stack[i].of
        /\ i # n => stack'[i + 1].fn = stack[i + 1].fn
    BY <1>5, <1>6, <1>8
  <2>2. /\ heap[stack[i].of].message.does = "throws" \/ i >= StackSize - 1
        /\ i # n => stack[i + 1].fn # "toJson"
    BY <2>1 DEF Deep, n
  <2> QED
    BY <2>1, <2>2
<1>9. /\ returned' = Thrown => n >= StackSize - 1
      /\ returned' = Thrown /\ top'.fellBack => n >= StackSize
  BY <1>3, <1>7 DEF Deep, n
<1> QED
  BY <1>4, <1>8, <1>9 DEF Deep

Sound == Typed /\ Nested /\ Marked /\ Deep

(* Nothing has been asked yet.                                              *)
LEMMA SoundInit == FailuresInit => Sound
<1> SUFFICES ASSUME FailuresInit PROVE Sound
  OBVIOUS
<1>1. stack = <<>> /\ DOMAIN stack = {} /\ Len(stack) = 0 /\ stack \in Seq(Call)
      /\ READING = {} /\ SERIALIZING = {} /\ returned = Pending /\ asked = <<>>
  BY DEF FailuresInit
<1>2. heap \in [Error -> Shape]
  BY ShapesAreShapes DEF FailuresInit
<1>3. returned \in Told
  BY <1>1, LinesAreLines DEF Pending, Value, Told, Nothing
<1>4. Typed
  BY <1>1, <1>2, <1>3 DEF Typed
<1>5. Nested /\ Marked /\ Deep
  BY <1>1 DEF Nested, Marked, MarkedBy, Deep, Pending, Thrown, Value
<1> QED
  BY <1>4, <1>5 DEF Sound

(* Sound is inductive.                                                      *)
LEMMA SoundNext == Sound /\ [FailuresNext]_failureVars => Sound'
<1> SUFFICES ASSUME Sound, [FailuresNext]_failureVars PROVE Sound'
  OBVIOUS
<1>1. CASE UNCHANGED failureVars
  BY <1>1 DEF Sound, Typed, Nested, Marked, MarkedBy, Deep, top, failureVars
<1>2. CASE Goes
  BY <1>2, EndedKeeps, OpenedKeeps, FullKeeps, BegunKeeps,
     DeepEnded, DeepOpened, DeepFull, DeepBegun DEF Goes, Sound
<1>3. CASE \E fn \in {"describe", "toJson"}, e \in Error : tell(fn, e)
  BY <1>3, TellKeeps DEF Sound
<1> QED
  BY <1>1, <1>2, <1>3, StepsGo DEF Sound

-----------------------------------------------------------------------------
(* How deep the calls go.  Each call that is neither the top nor the one     *)
(* below it has a mark of its own, or the call above it is a line that has.  *)
Quiet == \A e \in Error : ~CallsBack(e)

LEMMA CallsAreFew ==
  ASSUME Sound, Quiet
  PROVE  Len(stack) <= 3 * Cardinality(Error) + 2
<1> DEFINE n == Len(stack)
<1>1. n \in Nat
  BY DEF Sound, Typed
<1>2. Cardinality(Error) \in Nat
  BY ErrorsAreCounted, FS_CardinalityType
<1>3. CASE n < 3
  BY <1>1, <1>2, <1>3
<1>4. CASE n >= 3
  <2> DEFINE S == 1..(n - 2)
             T == (1..3) \X Error
             f == [i \in S |-> IF stack[i].marks = "READING" THEN <<1, stack[i].of>>
                               ELSE IF stack[i].marks = "SERIALIZING" THEN <<2, stack[i].of>>
                               ELSE <<3, stack[i + 1].of>>]
  <2>1. ASSUME NEW i \in 1..(n - 1)
        PROVE  /\ i \in 1..n /\ stack[i] \in Call /\ stack[i].pc = "waits"
               /\ stack[i].marks = "none" => stack[i + 1].fn = "causeLine"
               /\ stack[i].fn = "causeLine" => stack[i].marks = "READING"
    <3>1. i \in 1..n /\ i # n
      BY <1>1
    <3>2. WellMade(heap, stack[i]) /\ stack[i].pc = "waits"
          /\ (stack[i].marks = "none" /\ stack[i].fn # "stringOf" =>
                 stack[i + 1].fn = "causeLine")
      BY <3>1 DEF Sound, Typed, Nested
    <3>3. stack[i].fn # "stringOf"
      BY <3>2 DEF Quiet, CallsBack, WellMade, Call
    <3> QED
      BY <3>1, <3>2, <3>3 DEF WellMade, Call
  <2>2. \A i \in S : i \in 1..(n - 1) /\ i + 1 \in 1..(n - 1)
    BY <1>1
  <2>3. \A i \in S : stack[i].of \in Error /\ stack[i + 1].of \in Error
    BY <2>1, <2>2 DEF Call
  <2>4. f \in [S -> T]
    BY <2>3
  <2>5. DOMAIN stack = 1..n
    BY DEF Sound, Typed
  <2>6. ASSUME NEW i \in 1..(n - 1), NEW j \in 1..(n - 1), stack[i].of = stack[j].of,
               NEW marks \in {"READING", "SERIALIZING"},
               stack[i].marks = marks, stack[j].marks = marks
        PROVE  i = j
    <3>1. i \in MarkedBy(marks) /\ j \in MarkedBy(marks)
      BY <2>1, <2>5, <2>6 DEF MarkedBy
    <3> QED
      BY <2>6, <3>1 DEF Sound, Marked
  <2>7. ASSUME NEW i \in S, NEW j \in S, f[i] = f[j]
        PROVE  i = j
    <3> DEFINE F(k) == IF stack[k].marks = "READING" THEN <<1, stack[k].of>>
                       ELSE IF stack[k].marks = "SERIALIZING" THEN <<2, stack[k].of>>
                       ELSE <<3, stack[k + 1].of>>
    <3>1. F(i) = F(j)
      BY <2>7
    <3>2. i \in 1..(n - 1) /\ j \in 1..(n - 1) /\ i + 1 \in 1..(n - 1) /\ j + 1 \in 1..(n - 1)
      BY <2>2
    <3>3. CASE stack[i].marks = "READING"
      <4>1. stack[j].marks = "READING" /\ stack[i].of = stack[j].of
        BY <3>1, <3>3
      <4> QED
        BY <2>6, <3>2, <3>3, <4>1
    <3>4. CASE stack[i].marks = "SERIALIZING"
      <4>1. stack[j].marks = "SERIALIZING" /\ stack[i].of = stack[j].of
        BY <3>1, <3>4
      <4> QED
        BY <2>6, <3>2, <3>4, <4>1
    <3>5. CASE stack[i].marks \notin {"READING", "SERIALIZING"}
      <4>1. stack[j].marks \notin {"READING", "SERIALIZING"} /\ stack[i + 1].of = stack[j + 1].of
        BY <3>1, <3>5
      <4>2. stack[i].marks = "none" /\ stack[j].marks = "none"
        BY <2>1, <3>2, <3>5, <4>1 DEF Call
      <4>3. stack[i + 1].fn = "causeLine" /\ stack[j + 1].fn = "causeLine"
        BY <2>1, <3>2, <4>2
      <4>4. stack[i + 1].marks = "READING" /\ stack[j + 1].marks = "READING"
        BY <2>1, <3>2, <4>3
      <4>5. i + 1 = j + 1
        BY <2>6, <3>2, <4>1, <4>4
      <4> QED
        BY <1>1, <4>5
    <3> QED
      BY <3>3, <3>4, <3>5
  <2> HIDE DEF f
  <2>8. f \in Injection(S, T)
    BY <2>4, <2>7 DEF Injection, IsInjective
  <2>9. IsFiniteSet(1..3) /\ Cardinality(1..3) = 3
    <3>1. 1 \in Int /\ 3 \in Int /\ ~ (1 > 3) /\ 3 - 1 + 1 = 3
      OBVIOUS
    <3> QED
      BY <3>1, FS_Interval
  <2>10. IsFiniteSet(T) /\ Cardinality(T) = 3 * Cardinality(Error)
    BY <2>9, ErrorsAreCounted, FS_Product
  <2>11. Cardinality(S) <= Cardinality(T)
    BY <2>8, <2>10, FS_Injection
  <2>12. Cardinality(S) = n - 2
    <3>1. n - 2 \in Int /\ 1 \in Int /\ n - 2 >= 1 /\ n - 2 - 1 + 1 = n - 2
      BY <1>1, <1>4
    <3> QED
      BY <3>1, FS_Interval
  <2> QED
    BY <1>1, <1>2, <2>10, <2>11, <2>12
<1> QED
  BY <1>1, <1>3, <1>4

(* So a call finds room, and nobody throws.                                  *)
LEMMA CallsFindRoom ==
  ASSUME Sound, Quiet
  PROVE  Len(stack) < StackSize
<1>1. Len(stack) \in Nat /\ Cardinality(Error) \in Nat
  BY ErrorsAreCounted, FS_CardinalityType DEF Sound, Typed
<1> QED
  BY <1>1, CallsAreFew, StackSizeAssumption

LEMMA NobodyThrows ==
  ASSUME Sound, Quiet, returned # Thrown, Goes
  PROVE  returned' # Thrown
<1>1. ~ (Len(stack) >= StackSize) /\ ~ Crowded
  <2>1. Len(stack) \in Nat /\ StackSize \in Nat
    BY StackSizeAssumption DEF Sound, Typed
  <2> QED
    BY <2>1, CallsFindRoom DEF Crowded
<1>2. CASE Ended
  <2>1. PICK line \in Seq(Item), outcome \in {"unknown", "none", "thrown"} :
          Returns(line, outcome) /\ outcome # "thrown"
    BY <1>1, <1>2 DEF Ended
  <2>2. returned' = Value(line, outcome)
    BY <2>1 DEF Returns
  <2> QED
    BY <2>1, <2>2 DEF Thrown, Value
<1>3. CASE Opened
  BY <1>3 DEF Opened, Pushes, Pending, Thrown, Value
<1>4. CASE Marking
  BY <1>4 DEF Marking, Marks
<1> QED
  BY <1>1, <1>2, <1>3, <1>4 DEF Goes

-----------------------------------------------------------------------------
(* The next time.  Where nothing calls back, what the calls do follows from  *)
(* what they have done: the moment after one is a function of it and of what *)
(* the values are.                                                          *)
Moment(s, r, z, v) == [stack |-> s, reading |-> r, serializing |-> z, returned |-> v]

Now == Moment(stack, READING, SERIALIZING, returned)

Topmost(m) == m.stack[Len(m.stack)]

AfterReturns(m, line, outcome) ==
  LET t == Topmost(m)
  IN Moment(Front(m.stack), IF t.marks = "READING" THEN m.reading \ {t.of} ELSE m.reading,
            IF t.marks = "SERIALIZING" THEN m.serializing \ {t.of} ELSE m.serializing,
            Value(line, outcome))

AfterCalls(m, frame, fn, e) ==
  Moment(Front(m.stack) \o <<[frame EXCEPT !.pc = "waits"], Frame(fn, e)>>,
         m.reading, m.serializing, Pending)

AfterMarks(m, marks) ==
  LET t == Topmost(m)
  IN Moment(Front(m.stack) \o <<[t EXCEPT !.pc = "reads", !.marks = marks]>>,
            m.reading \cup (IF marks = "READING" THEN {t.of} ELSE {}),
            m.serializing \cup (IF marks = "SERIALIZING" THEN {t.of} ELSE {}), m.returned)

AfterTaxonomy(shape, m) ==
  LET t == Topmost(m)
  IN IF ~shape[t.of].whole THEN AfterReturns(m, Tagged(t.of), "none")
     ELSE IF shape[t.of].cause = NoError THEN AfterReturns(m, Sentence(t.of), "none")
     ELSE AfterCalls(m, t, "causeLine", shape[t.of].cause)

AfterConfig(shape, m) ==
  LET t == Topmost(m)
  IN IF shape[t.of].cause = NoError THEN AfterReturns(m, Sentence(t.of), "none")
     ELSE AfterCalls(m, t, "causeLine", shape[t.of].cause)

TagOf(shape, m) ==
  LET t == Topmost(m)
  IN IF shape[t.of].whose = "library" /\ shape[t.of].name.does = "nothing"
     THEN Nothing ELSE Tagged(t.of)

BareOf(shape, m) ==
  IF shape[Topmost(m).of].whose = "nobody" THEN Nothing ELSE TagOf(shape, m)

UnsaidOf(shape, m) ==
  LET t == Topmost(m)
  IN IF shape[t.of].whose # "nobody" THEN TagOf(shape, m)
     ELSE IF shape[t.of].whole /\ shape[t.of].name.does # "nothing" THEN Tagged(t.of)
     ELSE Nothing

AfterMessage(shape, m) ==
  LET t == Topmost(m)
  IN CASE shape[t.of].message.does = "says" -> AfterReturns(m, Sentence(t.of), "none")
       [] shape[t.of].message.does = "nothing" -> AfterReturns(m, UnsaidOf(shape, m), "none")
       [] shape[t.of].message.does = "throws" -> AfterReturns(m, BareOf(shape, m), "none")
       [] OTHER -> AfterCalls(m, t, shape[t.of].message.does, shape[t.of].message.to)

CauseTold(shape, m) ==
  LET t == Topmost(m)
  IN CASE shape[t.of].whose = "taxonomy" -> Sentence(t.of) \o m.returned.line
       [] shape[t.of].whose = "config" ->
            Tagged(t.of) \o IF m.returned.line = Nothing THEN Sentence(t.of) ELSE m.returned.line
       [] OTHER -> IF m.returned.line = Nothing THEN UnsaidOf(shape, m) ELSE m.returned.line

AfterCauseLine(shape, m) ==
  IF Topmost(m).pc = "called"
  THEN IF Topmost(m).of \in m.reading THEN AfterReturns(m, BareOf(shape, m), "none")
       ELSE AfterMarks(m, "READING")
  ELSE IF Topmost(m).pc = "reads"
  THEN CASE shape[Topmost(m).of].whose = "taxonomy" -> AfterTaxonomy(shape, m)
         [] shape[Topmost(m).of].whose = "config" -> AfterConfig(shape, m)
         [] OTHER -> AfterMessage(shape, m)
  ELSE AfterReturns(m, CauseTold(shape, m), "none")

DescribeTold(shape, m) ==
  LET t == Topmost(m)
  IN CASE shape[t.of].whose \in {"taxonomy", "config"} -> CauseTold(shape, m)
       [] shape[t.of].whose = "library" ->
            TagOf(shape, m) \o
              IF m.returned.line = TagOf(shape, m) THEN Nothing ELSE m.returned.line
       [] shape[t.of].whose = "nobody" /\ m.returned.line # Nothing -> m.returned.line
       [] OTHER -> IF shape[t.of].name.does = "nothing" THEN Nothing ELSE Tagged(t.of)

AfterDescribe(shape, m) ==
  LET t == Topmost(m)
  IN IF t.pc = "called"
     THEN CASE shape[t.of].whose = "taxonomy" -> AfterTaxonomy(shape, m)
            [] shape[t.of].whose = "config" /\ t.of \in m.reading ->
                 AfterReturns(m, Tagged(t.of), "none")
            [] shape[t.of].whose = "config" /\ t.of \notin m.reading -> AfterMarks(m, "READING")
            [] OTHER -> AfterCalls(m, t, "causeLine", t.of)
     ELSE IF t.pc = "reads" THEN AfterConfig(shape, m)
     ELSE AfterReturns(m, DescribeTold(shape, m), "none")

OutcomeOf(shape, t) == IF t.fellBack THEN "none" ELSE shape[t.of].outcome

AfterSerializing(shape, m) ==
  LET t == Topmost(m)
  IN IF shape[t.of].whose # "library" THEN AfterCalls(m, t, "describe", t.of)
     ELSE IF ~shape[t.of].whole THEN AfterCalls(m, t, "causeLine", t.of)
     ELSE CASE shape[t.of].message.does = "says" ->
                 AfterReturns(m, Sentence(t.of), OutcomeOf(shape, t))
            [] shape[t.of].message.does = "nothing" ->
                 AfterReturns(m, Nothing, OutcomeOf(shape, t))
            [] shape[t.of].message.does = "throws" ->
                 AfterCalls(m, [t EXCEPT !.fellBack = TRUE], "describe", t.of)
            [] OTHER -> AfterCalls(m, t, shape[t.of].message.does, shape[t.of].message.to)

AfterToJson(shape, m) ==
  LET t == Topmost(m)
  IN IF t.pc = "called"
     THEN IF t.of \in m.serializing THEN AfterReturns(m, TagOf(shape, m), "none")
          ELSE AfterMarks(m, "SERIALIZING")
     ELSE IF t.pc = "reads" THEN AfterSerializing(shape, m)
     ELSE AfterReturns(m, IF /\ m.returned.line = Nothing
                             /\ shape[t.of].whose = "library" /\ ~shape[t.of].whole
                          THEN TagOf(shape, m) ELSE m.returned.line,
                       OutcomeOf(shape, t))

After(shape, m) ==
  IF Topmost(m).fn = "causeLine" THEN AfterCauseLine(shape, m)
  ELSE IF Topmost(m).fn = "describe" THEN AfterDescribe(shape, m)
  ELSE AfterToJson(shape, m)

(* The parts of the moment.                                                 *)
LEMMA NowIs ==
  /\ Now.stack = stack /\ Now.reading = READING /\ Now.serializing = SERIALIZING
  /\ Now.returned = returned /\ Topmost(Now) = top
  /\ Now' = Moment(stack', READING', SERIALIZING', returned')
  BY DEF Now, Moment, Topmost, top

(* A return is the step function's.                                         *)
LEMMA ReturnsIs ==
  ASSUME NEW line, NEW outcome, Returns(line, outcome)
  PROVE  Now' = AfterReturns(Now, line, outcome)
  BY NowIs DEF Returns, AfterReturns, unmarked

(* A call is the step function's.                                           *)
LEMMA CallsIs ==
  ASSUME NEW frame, NEW fn, NEW e, Calls(frame, fn, e), Len(stack) < StackSize
  PROVE  Now' = AfterCalls(Now, frame, fn, e)
  BY NowIs DEF Calls, Pushes, AfterCalls

(* A mark is the step function's.                                           *)
LEMMA MarksIs ==
  ASSUME NEW marks, Marks(marks)
  PROVE  Now' = AfterMarks(Now, marks)
  BY NowIs DEF Marks, AfterMarks

(* Action by action, a step is the function of heap and moment.             *)
LEMMA TaxonomyIs ==
  describeTaxonomy /\ Len(stack) < StackSize => Now' = AfterTaxonomy(heap, Now)
  BY NowIs, ReturnsIs, CallsIs DEF describeTaxonomy, AfterTaxonomy, it

(* Of a configuration error.                                                *)
LEMMA ConfigIs ==
  describeConfigError /\ Len(stack) < StackSize => Now' = AfterConfig(heap, Now)
  BY NowIs, ReturnsIs, CallsIs DEF describeConfigError, AfterConfig, it

(* The line without its cause.                                              *)
LEMMA BareIs ==
  /\ TagOf(heap, Now) = tagged
  /\ BareOf(heap, Now) = bare
  /\ UnsaidOf(heap, Now) = unsaid
<1>1. TagOf(heap, Now) = tagged
  BY NowIs DEF TagOf, tagged, it
<1> QED
  BY <1>1, NowIs DEF BareOf, bare, UnsaidOf, unsaid, it

(* Of a message.                                                            *)
LEMMA MessageIs ==
  readMessage /\ Len(stack) < StackSize => Now' = AfterMessage(heap, Now)
  BY NowIs, BareIs, ReturnsIs, CallsIs DEF readMessage, AfterMessage, it

(* The line with its cause.                                                 *)
LEMMA CauseToldIs == returned # Thrown => CauseTold(heap, Now) = withCause
  BY NowIs, BareIs DEF CauseTold, withCause, it

(* So every step under way is.                                              *)
LEMMA StepIsAfter ==
  ASSUME Sound, Quiet, returned # Thrown, FailuresNext,
         ~ \E fn \in {"describe", "toJson"}, e \in Error : tell(fn, e)
  PROVE  Now' = After(heap, Now)
<1> Len(stack) < StackSize
  BY CallsFindRoom
<1>1. CASE rawCauseLine
  <2>1. Now' = AfterCauseLine(heap, Now)
    BY <1>1, NowIs, BareIs, ReturnsIs, MarksIs DEF rawCauseLine, AfterCauseLine, At
  <2> QED
    BY <1>1, <2>1, NowIs DEF After, rawCauseLine, At
<1>2. CASE readCauseLine
  <2>1. top.pc = "reads" /\ top.fn = "causeLine"
    BY <1>2 DEF readCauseLine, At
  <2>2. Now' = CASE it.whose = "taxonomy" -> AfterTaxonomy(heap, Now)
                 [] it.whose = "config" -> AfterConfig(heap, Now)
                 [] OTHER -> AfterMessage(heap, Now)
    BY <1>2, TaxonomyIs, ConfigIs, MessageIs DEF readCauseLine
  <2>3. Now' = AfterCauseLine(heap, Now)
    BY <2>1, <2>2, NowIs DEF AfterCauseLine, it
  <2> QED
    BY <2>1, <2>3, NowIs DEF After
<1>3. CASE causeLineEnds
  <2>1. Now' = AfterCauseLine(heap, Now)
    BY <1>3, NowIs, CauseToldIs, ReturnsIs DEF causeLineEnds, AfterCauseLine, At
  <2> QED
    BY <1>3, <2>1, NowIs DEF After, causeLineEnds, At
<1>4. CASE describe
  <2>1. top.pc = "called" /\ top.fn = "describe"
    BY <1>4 DEF describe, At
  <2>2. Now' = CASE it.whose = "taxonomy" -> AfterTaxonomy(heap, Now)
                 [] it.whose = "config" /\ top.of \in READING ->
                      AfterReturns(Now, Tagged(top.of), "none")
                 [] it.whose = "config" /\ top.of \notin READING -> AfterMarks(Now, "READING")
                 [] OTHER -> AfterCalls(Now, top, "causeLine", top.of)
    BY <1>4, TaxonomyIs, ReturnsIs, MarksIs, CallsIs DEF describe
  <2>3. Now' = AfterDescribe(heap, Now)
    BY <2>1, <2>2, NowIs DEF AfterDescribe, it
  <2> QED
    BY <2>1, <2>3, NowIs DEF After
<1>5. CASE describeConfig
  <2>1. Now' = AfterDescribe(heap, Now)
    BY <1>5, NowIs, ConfigIs DEF describeConfig, AfterDescribe, At
  <2> QED
    BY <1>5, <2>1, NowIs DEF After, describeConfig, At
<1>6. CASE describeEnds
  <2>1. /\ stack # <<>> /\ top.pc = "waits" /\ top.fn = "describe"
        /\ top.of \in Error
    BY <1>6, TopIs DEF describeEnds, At, Sound
  <2>2. ~ CallsBack(top.of)
    BY <2>1 DEF Quiet
  <2>3. Returns(DescribeTold(heap, Now), "none")
    <3>1. CASE it.whose \in {"taxonomy", "config"}
      BY <1>6, <3>1, NowIs, CauseToldIs DEF describeEnds, DescribeTold, it
    <3>2. CASE it.whose = "library"
      BY <1>6, <3>2, NowIs, BareIs DEF describeEnds, DescribeTold, it
    <3>3. CASE it.whose = "nobody" /\ returned.line # Nothing
      BY <1>6, <3>3, NowIs DEF describeEnds, DescribeTold, it
    <3>4. CASE it.whose \notin {"taxonomy", "config", "library"}
               /\ ~ (it.whose = "nobody" /\ returned.line # Nothing)
      <4>1. stringOf
        BY <1>6, <3>4 DEF describeEnds
      <4>2. Returns(IF it.name.does = "nothing" THEN Nothing ELSE Tagged(top.of), "none")
        BY <2>2, <4>1 DEF stringOf
      <4>3. DescribeTold(heap, Now) = IF it.name.does = "nothing" THEN Nothing ELSE Tagged(top.of)
        BY <3>4, NowIs DEF DescribeTold, it
      <4> QED
        BY <4>2, <4>3
    <3> QED
      BY <3>1, <3>2, <3>3, <3>4
  <2>4. Now' = AfterDescribe(heap, Now)
    BY <2>1, <2>3, NowIs, ReturnsIs DEF AfterDescribe
  <2> QED
    BY <2>1, <2>4, NowIs DEF After
<1>7. CASE toJson
  <2>1. Now' = AfterToJson(heap, Now)
    BY <1>7, NowIs, BareIs, ReturnsIs, MarksIs DEF toJson, AfterToJson, At
  <2> QED
    BY <1>7, <2>1, NowIs DEF After, toJson, At
<1>8. CASE toJsonOf
  <2>1. Now' = AfterSerializing(heap, Now)
    BY <1>8, NowIs, ReturnsIs, CallsIs
    DEF toJsonOf, fallback, AfterSerializing, OutcomeOf, withOutcome, it
  <2>2. Now' = AfterToJson(heap, Now)
    BY <1>8, <2>1, NowIs DEF toJsonOf, AfterToJson, At
  <2> QED
    BY <1>8, <2>2, NowIs DEF After, toJsonOf, At
<1>9. CASE toJsonEnds
  <2>1. Now' = AfterToJson(heap, Now)
    BY <1>9, NowIs, BareIs, ReturnsIs DEF toJsonEnds, AfterToJson, OutcomeOf, withOutcome, At, it
  <2> QED
    BY <1>9, <2>1, NowIs DEF After, toJsonEnds, At
<1>10. ~ stringOfEnds
  BY TopIs DEF stringOfEnds, At, Sound, WellMade, Quiet, CallsBack
<1> QED
  BY <1>1, <1>2, <1>3, <1>4, <1>5, <1>6, <1>7, <1>8, <1>9, <1>10 DEF FailuresNext

(* What a call has gone through, from where it starts; every moment but the  *)
(* last is before the end.                                                   *)
Start(call) == Moment(<<Frame(call[1], call[2])>>, {}, {}, Pending)

Course(shape, call, n, moments) ==
  /\ DOMAIN moments = 0..n
  /\ moments[0] = Start(call)
  /\ \A k \in 0..(n - 1) :
       moments[k].stack # <<>> /\ moments[k + 1] = After(shape, moments[k])

Ran(shape, call, m) == \E n \in Nat : \E f : Course(shape, call, n, f) /\ f[n] = m

Remembered ==
  /\ stack # <<>> => asked # <<>>
  /\ asked # <<>> => Ran(heap, asked, Now)
  /\ \A c \in DOMAIN lines :
       \E m : Ran(heap, c, m) /\ m.stack = <<>> /\ m.returned = lines[c]
  /\ stack = <<>> /\ asked # <<>> => asked \in DOMAIN lines

(* Of two courses of one call, where one is over so is the other.           *)
LEMMA CoursesAgree ==
  ASSUME NEW shape, NEW call, NEW n \in Nat, NEW m \in Nat, n <= m,
         NEW f, Course(shape, call, n, f), f[n].stack = <<>>,
         NEW g, Course(shape, call, m, g)
  PROVE  n = m /\ f[n] = g[n]
<1> DEFINE T == {k \in 0..n : f[k] = g[k]}
<1>1. 0 \in T
  BY DEF Course
<1>2. ASSUME NEW k \in 1..n, k - 1 \in T
      PROVE  k \in T
  <2>1. k - 1 \in 0..(n - 1) /\ k - 1 \in 0..(m - 1) /\ k - 1 + 1 = k /\ k \in 0..n
    OBVIOUS
  <2>2. f[k - 1] = g[k - 1]
    BY <1>2
  <2>3. f[k - 1 + 1] = After(shape, f[k - 1]) /\ g[k - 1 + 1] = After(shape, g[k - 1])
    BY <2>1 DEF Course
  <2> QED
    BY <2>1, <2>2, <2>3
<1>3. \A k \in 0..n : k \in T
  <2> HIDE DEF T
  <2> QED
    BY <1>1, <1>2, Induction
<1>4. f[n] = g[n]
  BY <1>3
<1>5. CASE n # m
  <2>1. n \in 0..(m - 1)
    BY <1>5
  <2>2. g[n].stack # <<>>
    BY <2>1 DEF Course
  <2> QED
    BY <1>4, <2>2
<1> QED
  BY <1>4, <1>5

(* Two runs of one call that are over told the same.                        *)
LEMMA RunsAgree ==
  ASSUME NEW shape, NEW call, NEW m1, Ran(shape, call, m1), m1.stack = <<>>,
         NEW m2, Ran(shape, call, m2), m2.stack = <<>>
  PROVE  m1 = m2
<1> PICK n1 \in Nat : \E f : Course(shape, call, n1, f) /\ f[n1] = m1
  BY DEF Ran
<1>1. PICK f1 : Course(shape, call, n1, f1) /\ f1[n1] = m1
  OBVIOUS
<1> PICK n2 \in Nat : \E f : Course(shape, call, n2, f) /\ f[n2] = m2
  BY DEF Ran
<1>2. PICK f2 : Course(shape, call, n2, f2) /\ f2[n2] = m2
  OBVIOUS
<1>3. CASE n1 <= n2
  BY <1>1, <1>2, <1>3, CoursesAgree
<1>4. CASE n2 <= n1
  BY <1>1, <1>2, <1>4, CoursesAgree
<1> QED
  BY <1>3, <1>4

(* A step takes a run a step further.                                       *)
LEMMA RunsGoOn ==
  ASSUME NEW shape, NEW call, NEW m, Ran(shape, call, m), m.stack # <<>>
  PROVE  Ran(shape, call, After(shape, m))
<1> PICK n \in Nat : \E f : Course(shape, call, n, f) /\ f[n] = m
  BY DEF Ran
<1>1. PICK f : Course(shape, call, n, f) /\ f[n] = m
  OBVIOUS
<1> DEFINE g == [k \in 0..(n + 1) |-> IF k = n + 1 THEN After(shape, m) ELSE f[k]]
<1>2. DOMAIN g = 0..(n + 1) /\ g[n + 1] = After(shape, m)
      /\ \A k \in 0..n : g[k] = f[k]
  OBVIOUS
<1> HIDE DEF g
<1>3. g[0] = Start(call)
  BY <1>1, <1>2 DEF Course
<1>4. ASSUME NEW k \in 0..n
      PROVE  g[k].stack # <<>> /\ g[k + 1] = After(shape, g[k])
  <2>1. CASE k = n
    BY <1>1, <1>2, <2>1
  <2>2. CASE k # n
    <3>1. k \in 0..(n - 1) /\ k + 1 \in 0..n
      BY <2>2
    <3> QED
      BY <1>1, <1>2, <3>1 DEF Course
  <2> QED
    BY <2>1, <2>2
<1>5. n + 1 \in Nat /\ n + 1 - 1 = n
  OBVIOUS
<1>6. Course(shape, call, n + 1, g)
  BY <1>2, <1>3, <1>4, <1>5 DEF Course
<1> QED
  BY <1>2, <1>5, <1>6 DEF Ran

(* Remembered is inductive.                                                 *)
LEMMA RememberedNext ==
  ASSUME Sound, Quiet, returned # Thrown, Remembered, [FailuresNext]_failureVars
  PROVE  Remembered'
<1>1. CASE UNCHANGED failureVars
  <2>1. Now' = Now
    BY <1>1 DEF Now, failureVars
  <2> QED
    BY <1>1, <2>1 DEF Remembered, failureVars
<1>2. CASE \E fn \in {"describe", "toJson"}, e \in Error : tell(fn, e)
  <2>1. PICK fn \in {"describe", "toJson"}, e \in Error : tell(fn, e)
    BY <1>2
  <2>2. /\ stack = <<>> /\ stack' = <<Frame(fn, e)>> /\ asked' = <<fn, e>>
        /\ returned' = Pending /\ READING' = READING /\ SERIALIZING' = SERIALIZING
        /\ heap' = heap /\ lines' = lines
    BY <2>1 DEF tell
  <2>3. READING = {} /\ SERIALIZING = {}
    BY <2>2 DEF Sound, Marked, MarkedBy
  <2>4. Now' = Start(asked')
    BY <2>2, <2>3 DEF Now, Start
  <2> DEFINE f == [k \in 0..0 |-> Start(asked')]
  <2>5. Course(heap', asked', 0, f) /\ f[0] = Now'
    BY <2>4 DEF Course
  <2>6. Ran(heap', asked', Now')
    BY <2>5 DEF Ran
  <2>7. stack' # <<>> /\ asked' # <<>>
    BY <2>2
  <2> QED
    BY <2>2, <2>6, <2>7 DEF Remembered
<1>3. CASE Goes /\ FailuresNext /\ ~ \E fn \in {"describe", "toJson"}, e \in Error : tell(fn, e)
  <2>1. stack # <<>> /\ heap' = heap /\ asked' = asked /\ asked # <<>>
    BY <1>3 DEF Goes, Remembered
  <2>2. Now' = After(heap, Now) /\ Now.stack # <<>>
    BY <1>3, <2>1, StepIsAfter, NowIs
  <2>3. Ran(heap, asked, Now')
    BY <2>1, <2>2, RunsGoOn DEF Remembered
  <2>4. Ran(heap', asked', Now')
    BY <2>1, <2>3
  <2>5. CASE stack' # <<>> /\ lines' = lines
    BY <2>1, <2>4, <2>5 DEF Remembered
  <2>6. CASE Ended
    <3>1. PICK line \in Seq(Item), outcome \in {"unknown", "none", "thrown"} :
            Returns(line, outcome)
      BY <2>6 DEF Ended
    <3>2. Now'.stack = stack' /\ Now'.returned = returned'
      BY DEF Now, Moment
    <3>3. Len(stack) \in Nat \ {0} /\ Len(stack') = Len(stack) - 1
      BY <2>1, <3>1, Popped DEF Returns, Sound, Typed
    <3>4. CASE Len(stack) > 1
      <4>1. stack' # <<>> /\ lines' = lines
        BY <3>1, <3>3, <3>4 DEF Returns
      <4> QED
        BY <2>5, <4>1
    <3>5. CASE Len(stack) = 1
      <4>1. stack' = <<>>
        BY <2>1, <3>1, <3>3, <3>5, Popped DEF Returns, Sound, Typed
      <4>2. CASE asked \in DOMAIN lines
        <5>1. lines' = lines
          BY <3>1, <4>2 DEF Returns
        <5> QED
          BY <2>1, <2>4, <4>1, <4>2, <5>1 DEF Remembered
      <4>3. CASE asked \notin DOMAIN lines
        <5>1. lines' = [c \in DOMAIN lines \cup {asked} |->
                          IF c = asked THEN returned' ELSE lines[c]]
          BY <3>1, <3>5, <4>3 DEF Returns
        <5>2. DOMAIN lines' = DOMAIN lines \cup {asked} /\ lines'[asked] = returned'
              /\ \A c \in DOMAIN lines : lines'[c] = lines[c]
          BY <4>3, <5>1
        <5>3. ASSUME NEW c \in DOMAIN lines'
              PROVE  \E m : Ran(heap', c, m) /\ m.stack = <<>> /\ m.returned = lines'[c]
          <6>1. CASE c = asked
            BY <2>1, <2>3, <3>2, <4>1, <5>2, <6>1
          <6>2. CASE c # asked
            BY <2>1, <5>2, <6>2 DEF Remembered
          <6> QED
            BY <6>1, <6>2
        <5> QED
          BY <2>1, <2>4, <4>1, <5>2, <5>3 DEF Remembered
      <4> QED
        BY <4>2, <4>3
    <3> QED
      BY <3>3, <3>4, <3>5
  <2>7. CASE Opened
    <3>1. PICK frame \in Call, fn \in {"describe", "causeLine", "toJson"}, e \in Error :
            Pushes(frame, fn, e)
      BY <2>7 DEF Opened
    <3>2. [frame EXCEPT !.pc = "waits"] \in Call /\ Frame(fn, e) \in Call
      BY DEF Call, Frame
    <3>3. Len(stack') = Len(stack) + 1 /\ Len(stack) \in Nat
      BY <2>1, <3>1, <3>2, Pushed, Popped DEF Pushes, Sound, Typed
    <3>4. stack' # <<>>
      BY <3>3
    <3> QED
      BY <2>5, <3>1, <3>4 DEF Pushes
  <2>8. CASE Marking
    <3>1. PICK marks \in {"READING", "SERIALIZING"} : Marks(marks)
      BY <2>8 DEF Marking
    <3>2. [top EXCEPT !.pc = "reads", !.marks = marks] \in Call
      BY <2>1, TopIs DEF Sound, Call
    <3>3. stack' # <<>>
      BY <2>1, <3>1, <3>2, Replaced DEF Marks, Sound, Typed
    <3> QED
      BY <2>5, <3>1, <3>3 DEF Marks
  <2>9. ~ Crowded
    BY CallsFindRoom DEF Crowded
  <2> QED
    BY <1>3, <2>6, <2>7, <2>8, <2>9 DEF Goes
<1> QED
  BY <1>1, <1>2, <1>3, StepsGo DEF Sound

(* All of this where nothing calls back.                                     *)
Recalled == Quiet => returned # Thrown /\ Remembered

LEMMA RecalledNext ==
  ASSUME Sound, Recalled, [FailuresNext]_failureVars
  PROVE  Recalled'
<1>1. heap' = heap
  BY StepsGo DEF Sound, Goes, tell, failureVars
<1>2. Quiet' => Quiet
  BY <1>1 DEF Quiet, CallsBack
<1> SUFFICES ASSUME Quiet PROVE returned' # Thrown /\ Remembered'
  BY <1>2 DEF Recalled
<1>3. returned # Thrown /\ Remembered
  BY DEF Recalled
<1>4. returned' # Thrown
  <2>1. CASE Goes
    BY <1>3, <2>1, NobodyThrows
  <2>2. CASE \E fn \in {"describe", "toJson"}, e \in Error : tell(fn, e)
    BY <2>2 DEF tell, Pending, Thrown, Value
  <2>3. CASE UNCHANGED failureVars
    BY <1>3, <2>3 DEF failureVars
  <2> QED
    BY <2>1, <2>2, <2>3, StepsGo DEF Sound
<1> QED
  BY <1>3, <1>4, RememberedNext

(* Nothing has been told yet.                                               *)
LEMMA RecalledInit == FailuresInit => Recalled
  BY DEF FailuresInit, Remembered, Recalled, Pending, Thrown, Value

(* The bound and what is remembered are what TellingEnds asks.              *)
LEMMA TellingAlwaysEnds == Sound /\ Recalled => TellingEnds
<1> SUFFICES ASSUME Sound, Recalled PROVE TellingEnds
  OBVIOUS
<1>1. ASSUME Quiet, stack = <<>>, asked # <<>>
      PROVE  returned = lines[asked]
  <2> Remembered
    BY <1>1 DEF Recalled
  <2>1. Ran(heap, asked, Now) /\ Now.stack = <<>> /\ Now.returned = returned
    BY <1>1, NowIs DEF Remembered
  <2>2. PICK m : Ran(heap, asked, m) /\ m.stack = <<>> /\ m.returned = lines[asked]
    BY <1>1 DEF Remembered
  <2>3. m = Now
    BY <2>1, <2>2, RunsAgree
  <2> QED
    BY <2>1, <2>2, <2>3
<1> QED
  BY <1>1, CallsAreFew DEF TellingEnds, Sound, Marked, Quiet

-----------------------------------------------------------------------------
(* What is told.                                                             *)
Tells(line, e) == ToSet(Sentence(e)) \subseteq ToSet(line)

(* A line tells of a value when it holds all of its sentence.               *)
LEMMA TellsIs ==
  ASSUME NEW e \in Error, NEW line \in Seq(Item)
  PROVE  /\ Tells(Sentence(e), e)
         /\ Tells(Sentence(e) \o line, e)
<1> DEFINE own == Sentence(e)
           both == own \o line
<1>1. ToSet(own) = {[of |-> e, as |-> "sentence"]}
  BY DEF ToSet, Sentence
<1>2. own \in Seq(Item) /\ Len(own) = 1 /\ own[1] = [of |-> e, as |-> "sentence"]
  BY DEF Sentence, Item
<1> HIDE DEF own
<1>3. 1 \in DOMAIN both /\ both[1] = own[1]
  <2>1. /\ both \in Seq(Item) /\ Len(both) = Len(own) + Len(line)
        /\ \A i \in 1..(Len(own) + Len(line)) :
             both[i] = IF i <= Len(own) THEN own[i] ELSE line[i - Len(own)]
    BY <1>2, ConcatProperties
  <2> HIDE DEF both
  <2>2. PICK n \in Nat : n = Len(line)
    OBVIOUS
  <2>3. 1 \in 1..(1 + n)
    OBVIOUS
  <2> QED
    BY <1>2, <2>1, <2>2, <2>3
<1>4. own[1] \in ToSet(both)
  BY <1>3 DEF ToSet
<1> QED
  BY <1>1, <1>2, <1>4 DEF Tells, own, both

(* So does one that ends with it, and it is neither empty nor a name.        *)
LEMMA TellsOn ==
  ASSUME NEW first \in Seq(Item), NEW line \in Seq(Item), NEW x \in Error, Tells(line, x)
  PROVE  /\ Tells(first \o line, x)
         /\ line # Nothing
         /\ \A e \in Error : line # Tagged(e)
<1> DEFINE said == [of |-> x, as |-> "sentence"]
           both == first \o line
<1>1. ToSet(Sentence(x)) = {said}
  BY DEF ToSet, Sentence
<1>2. PICK i \in 1..Len(line) : line[i] = said
  <2>1. said \in ToSet(line) /\ DOMAIN line = 1..Len(line)
    BY <1>1 DEF Tells
  <2> QED
    BY <2>1 DEF ToSet
<1> HIDE DEF said
<1>3. said \in ToSet(both)
  <2>1. /\ both \in Seq(Item) /\ Len(both) = Len(first) + Len(line)
        /\ \A j \in 1..(Len(first) + Len(line)) :
             both[j] = IF j <= Len(first) THEN first[j] ELSE line[j - Len(first)]
    BY ConcatProperties
  <2> HIDE DEF both
  <2>2. PICK n \in Nat, m \in Nat : n = Len(line) /\ m = Len(first)
    OBVIOUS
  <2>3. i + m \in 1..(m + n) /\ ~ (i + m <= m) /\ i + m - m = i
    BY <2>2
  <2>4. i + m \in DOMAIN both /\ both[i + m] = said
    BY <1>2, <2>1, <2>2, <2>3
  <2> QED
    BY <2>4 DEF ToSet
<1>4. line # Nothing
  BY <1>2 DEF Nothing
<1>5. ASSUME NEW e \in Error
      PROVE  line # Tagged(e)
  BY <1>2 DEF Tagged, said
<1> QED
  BY <1>1, <1>3, <1>4, <1>5 DEF Tells

(* Whatever is asked of an Error, the stack has room for three calls.        *)
LEMMA NobodyThrewYet ==
  ASSUME Sound, NEW e \in Error, Len(stack) <= 3
  PROVE  Len(stack) < StackSize /\ returned # Thrown
<1>1. Cardinality(Error) \in Nat /\ Cardinality(Error) # 0
  <2>1. Error # {}
    OBVIOUS
  <2> QED
    BY <2>1, ErrorsAreCounted, FS_CardinalityType, FS_EmptySet
<1>2. StackSize \in Nat /\ StackSize > 5 /\ Len(stack) \in Nat
  BY <1>1, StackSizeAssumption DEF Sound, Typed
<1>3. returned = Thrown => Len(stack) >= StackSize - 1
  BY DEF Sound, Deep
<1> QED
  BY <1>2, <1>3

(* A step that ends the top call neither opens another nor marks; and so on. *)
LEMMA StepsDiffer ==
  ASSUME Typed, stack # <<>>
  PROVE  /\ Ended => Len(stack') = Len(stack) - 1
         /\ \A frame \in Call, fn \in {"describe", "causeLine", "toJson"}, e \in Error :
              /\ Pushes(frame, fn, e) => Len(stack') = Len(stack) + 1
              /\ Calls(frame, fn, e) => Len(stack') # Len(stack) - 1
         /\ \A marks \in {"READING", "SERIALIZING"} : Marks(marks) => Len(stack') = Len(stack)
         /\ Len(stack) \in Nat
<1>1. stack \in Seq(Call) /\ Len(stack) \in Nat /\ top \in Call
  BY TopIs DEF Typed
<1>2. Ended => Len(stack') = Len(stack) - 1
  BY <1>1, Popped DEF Ended, Returns
<1>3. ASSUME NEW frame \in Call, NEW fn \in {"describe", "causeLine", "toJson"}, NEW e \in Error
      PROVE  /\ Pushes(frame, fn, e) => Len(stack') = Len(stack) + 1
             /\ Overflows(frame) => Len(stack') = Len(stack)
  <2>1. [frame EXCEPT !.pc = "waits"] \in Call /\ Frame(fn, e) \in Call
    BY DEF Call, Frame
  <2>2. Pushes(frame, fn, e) => Len(stack') = Len(stack) + 1
    BY <1>1, <2>1, Pushed DEF Pushes
  <2>3. Overflows(frame) => Len(stack') = Len(stack)
    BY <1>1, <2>1, Replaced DEF Overflows
  <2> QED
    BY <2>2, <2>3
<1>4. ASSUME NEW frame \in Call, NEW fn \in {"describe", "causeLine", "toJson"}, NEW e \in Error,
             Calls(frame, fn, e)
      PROVE  Len(stack') # Len(stack) - 1
  BY <1>1, <1>3, <1>4 DEF Calls
<1>5. ASSUME NEW marks \in {"READING", "SERIALIZING"}, Marks(marks)
      PROVE  Len(stack') = Len(stack)
  <2>1. [top EXCEPT !.pc = "reads", !.marks = marks] \in Call
    BY <1>1 DEF Call
  <2> QED
    BY <1>1, <1>5, <2>1, Replaced DEF Marks
<1> QED
  BY <1>1, <1>2, <1>3, <1>4, <1>5

(* A line is empty only of what goes by an empty tag, name or string, or by  *)
(* one that is somebody else's line.                                         *)
LEMMA WhatIsEmpty ==
  ASSUME Typed, stack # <<>>, top.fn \in {"describe", "stringOf"}, FailuresNext, Ended,
         returned'.line = Nothing
  PROVE  /\ it.whose \in {"library", "nobody"}
         /\ it.name.does = "nothing" \/ CallsBack(top.of)
<1>1. top \in Call /\ WellMade(heap, top) /\ it \in Shape /\ top.of \in Error
      /\ it = heap[top.of] /\ returned.line \in Seq(Item)
  BY TopIs DEF Typed, Told, it
<1>2. Sentence(top.of) # Nothing /\ Tagged(top.of) # Nothing
  BY DEF Sentence, Tagged, Nothing
<1>3. describe \/ describeConfig \/ describeEnds \/ stringOfEnds
  BY DEF FailuresNext, rawCauseLine, readCauseLine, causeLineEnds, toJson, toJsonOf, toJsonEnds,
         tell, At
<1>4. \A frame \in Call, fn \in {"describe", "causeLine", "toJson"}, e \in Error :
        ~ Calls(frame, fn, e)
  BY StepsDiffer
<1>5. ~ Marks("READING")
  BY StepsDiffer
<1>6. \A line, outcome : Returns(line, outcome) => line = Nothing
  BY DEF Returns, Value
<1>7. it.cause # NoError => it.cause \in Error
  BY <1>1 DEF Shape
<1>8. /\ Sentence(top.of) \o returned.line # Nothing
      /\ Tagged(top.of) \o returned.line # Nothing
      /\ Tagged(top.of) \o Sentence(top.of) # Nothing
      /\ Tagged(top.of) \o Nothing # Nothing
  <2> DEFINE w == Sentence(top.of)
             t == Tagged(top.of)
  <2> PICK v \in Seq(Item) : v = returned.line
    BY <1>1
  <2>1. w \in Seq(Item) /\ t \in Seq(Item) /\ Nothing \in Seq(Item)
        /\ Len(w) = 1 /\ Len(t) = 1 /\ Len(Nothing) = 0
    BY <1>1, LinesAreLines DEF Sentence, Tagged, Nothing
  <2> HIDE DEF w, t
  <2>2. ASSUME NEW x \in Seq(Item), NEW y \in Seq(Item), Len(x) = 1 PROVE Len(x \o y) # 0
    <3>1. Len(x \o y) = Len(x) + Len(y)
      BY ConcatProperties
    <3>2. Len(y) \in Nat
      BY LenProperties
    <3> QED
      BY <2>2, <3>1, <3>2
  <2>3. Len(w \o v) # 0 /\ Len(t \o v) # 0 /\ Len(t \o w) # 0 /\ Len(t \o Nothing) # 0
    BY <2>1, <2>2
  <2> QED
    BY <2>1, <2>3 DEF w, t
<1>9. ~ describeTaxonomy
  BY <1>1, <1>2, <1>4, <1>6, <1>7 DEF describeTaxonomy
<1>10. ~ describeConfigError
  BY <1>1, <1>2, <1>4, <1>6, <1>7 DEF describeConfigError
<1>11. it.whose \in {"taxonomy", "config"} => withCause # Nothing
  BY <1>2, <1>8 DEF withCause, bare, tagged
<1>12. CASE describe
  BY <1>1, <1>2, <1>4, <1>5, <1>6, <1>9, <1>12 DEF describe
<1>13. CASE describeConfig
  BY <1>10, <1>13 DEF describeConfig
<1>14. CASE stringOfEnds
  BY <1>1, <1>14 DEF stringOfEnds, At, WellMade, CallsBack
<1>15. CASE describeEnds
  <2>1. it.whose \notin {"taxonomy", "config"}
    BY <1>6, <1>11, <1>15 DEF describeEnds
  <2>2. it.whose \in {"library", "nobody"}
    BY <1>1, <2>1 DEF Shape
  <2>3. CASE it.whose = "library"
    <3>1. tagged \o (IF returned.line = tagged THEN Nothing ELSE returned.line) = Nothing
      BY <1>6, <1>15, <2>3 DEF describeEnds
    <3>2. tagged # Tagged(top.of)
      BY <1>8, <3>1
    <3> QED
      BY <2>2, <3>2 DEF tagged
  <2>4. CASE it.whose = "nobody"
    <3>1. returned.line # Nothing => FALSE
      BY <1>6, <1>15, <2>4 DEF describeEnds
    <3>2. stringOf
      BY <1>15, <2>4, <3>1 DEF describeEnds
    <3> QED
      BY <1>2, <1>6, <2>2, <3>2 DEF stringOf
  <2> QED
    BY <2>2, <2>3, <2>4
<1> QED
  BY <1>3, <1>12, <1>13, <1>14, <1>15

(* What has its own sentence says it when it is asked.                       *)
LEMMA OwnIsSaid ==
  ASSUME Typed, stack # <<>>, top.fn = "describe", FailuresNext, Ended, returned # Thrown,
         it.whose = "taxonomy", it.whole
  PROVE  Tells(returned'.line, top.of)
<1>1. top \in Call /\ WellMade(heap, top) /\ it \in Shape /\ top.of \in Error
      /\ it = heap[top.of] /\ returned.line \in Seq(Item)
  BY TopIs DEF Typed, Told, it
<1>2. \A frame \in Call, fn \in {"describe", "causeLine", "toJson"}, e \in Error :
        ~ Calls(frame, fn, e)
  BY StepsDiffer
<1>3. it.cause # NoError => it.cause \in Error
  BY <1>1 DEF Shape
<1>4. /\ Tells(Sentence(top.of), top.of)
      /\ Tells(Sentence(top.of) \o returned.line, top.of)
  BY <1>1, TellsIs
<1>5. \A line, outcome : Returns(line, outcome) => returned'.line = line
  BY DEF Returns, Value
<1>6. describe \/ describeConfig \/ describeEnds
  BY DEF FailuresNext, rawCauseLine, readCauseLine, causeLineEnds, toJson, toJsonOf, toJsonEnds,
         stringOfEnds, tell, At
<1>7. CASE describe
  BY <1>1, <1>2, <1>3, <1>4, <1>5, <1>7 DEF describe, describeTaxonomy
<1>8. CASE describeConfig
  BY <1>1, <1>8 DEF describeConfig, At, WellMade
<1>9. CASE describeEnds
  <2>1. Returns(Sentence(top.of) \o returned.line, "none")
    BY <1>9 DEF describeEnds, withCause
  <2> QED
    BY <1>4, <1>5, <2>1
<1> QED
  BY <1>6, <1>7, <1>8, <1>9

(* The outcome a failure declares is in its log entry.                       *)
LEMMA ToJsonDeclares ==
  ASSUME Typed, stack # <<>>, top.fn = "toJson", top.pc = "called" => top.of \notin SERIALIZING,
         FailuresNext, Ended, it.message.does # "throws", returned # Thrown, ~ top.fellBack
  PROVE  returned'.outcome = it.outcome
<1>1. top \in Call /\ WellMade(heap, top) /\ it \in Shape /\ top.of \in Error
  BY TopIs
<1>2. toJson \/ toJsonOf \/ toJsonEnds
  BY DEF FailuresNext, rawCauseLine, readCauseLine, causeLineEnds, describe, describeConfig,
         describeEnds, stringOfEnds, tell, At
<1>3. \A frame \in Call, fn \in {"describe", "causeLine", "toJson"}, e \in Error :
        ~ Calls(frame, fn, e)
  BY StepsDiffer
<1>4. ~ Marks("SERIALIZING")
  BY StepsDiffer
<1>5. \A line, outcome : Returns(line, outcome) => returned'.outcome = outcome
  BY DEF Returns, Value
<1>6. withOutcome(top) = it.outcome
  BY <1>1 DEF withOutcome, it
<1>7. it.message.to \in Error /\ it.message.does \in {"says", "nothing", "throws", "describe", "toJson"}
  BY <1>1 DEF Shape, Reading
<1>8. CASE toJson
  BY <1>4, <1>8 DEF toJson, At
<1>9. CASE toJsonOf
  BY <1>1, <1>3, <1>5, <1>6, <1>7, <1>9 DEF toJsonOf
<1>10. CASE toJsonEnds
  BY <1>5, <1>6, <1>10 DEF toJsonEnds
<1> QED
  BY <1>2, <1>8, <1>9, <1>10

(* A failure with a cause is described by asking for the line of the cause,  *)
(* one that speaks for itself by asking for its own; and then said with it.  *)
Speaks(e) == heap[e].whose \in {"library", "nobody"} /\ heap[e].message.does = "says"

Bearer(e) == IF HasCause(e) THEN heap[e].cause ELSE e

LEMMA BearerIsAsked ==
  ASSUME Typed, stack # <<>>, top.fn = "describe", HasCause(top.of) \/ Speaks(top.of),
         FailuresNext, Len(stack) < StackSize, returned # Thrown,
         top.pc = "waits" /\ returned # Pending /\ Speaks(top.of) => Tells(returned.line, top.of)
  PROVE  \/ Pushes(top, "causeLine", Bearer(top.of))
         \/ /\ top.pc = "waits" /\ returned # Pending
            /\ \E line \in Seq(Item) :
                 /\ Returns(line, "none") /\ Tells(line, top.of)
                 /\ \A x \in Error : Tells(returned.line, x) => Tells(line, x)
<1>1. top \in Call /\ WellMade(heap, top) /\ it \in Shape /\ top.of \in Error
      /\ it = heap[top.of] /\ returned.line \in Seq(Item)
  BY TopIs DEF it, Typed, Told
<1>2. describe \/ describeConfig \/ describeEnds
  BY DEF FailuresNext, rawCauseLine, readCauseLine, causeLineEnds, toJson, toJsonOf, toJsonEnds,
         stringOfEnds, tell, At
<1>3. \A fn, e : Calls(top, fn, e) => Pushes(top, fn, e)
  BY DEF Calls
<1>4. ~ describeConfig
  BY <1>1 DEF describeConfig, At, WellMade, HasCause, Speaks
<1>5. /\ Sentence(top.of) \in Seq(Item) /\ Sentence(top.of) \o returned.line \in Seq(Item)
      /\ Tagged(top.of) \in Seq(Item) /\ tagged \in Seq(Item) /\ Nothing \in Seq(Item)
  BY <1>1, LinesAreLines DEF tagged
<1>6. CASE HasCause(top.of)
  <2>1. it.whose = "taxonomy" /\ it.whole /\ it.cause # NoError /\ Bearer(top.of) = it.cause
    BY <1>1, <1>6, ErrorsAreCounted DEF HasCause, Bearer
  <2>2. CASE describe
    BY <1>3, <2>1, <2>2 DEF describe, describeTaxonomy
  <2>3. CASE describeEnds
    <3>1. Returns(Sentence(top.of) \o returned.line, "none") /\ top.pc = "waits" /\ returned # Pending
      BY <2>1, <2>3 DEF describeEnds, withCause, At
    <3>2. Tells(Sentence(top.of) \o returned.line, top.of)
      BY <1>1, TellsIs
    <3>3. \A x \in Error : Tells(returned.line, x) => Tells(Sentence(top.of) \o returned.line, x)
      BY <1>1, <1>5, TellsOn
    <3> QED
      BY <1>5, <3>1, <3>2, <3>3
  <2> QED
    BY <1>2, <1>4, <2>2, <2>3
<1>7. CASE ~ HasCause(top.of)
  <2>1. it.whose \in {"library", "nobody"} /\ Bearer(top.of) = top.of /\ Speaks(top.of)
    BY <1>1, <1>7 DEF Speaks, Bearer
  <2>2. CASE describe
    BY <1>3, <2>1, <2>2 DEF describe
  <2>3. CASE describeEnds
    <3>1. top.pc = "waits" /\ returned # Pending
      BY <2>3 DEF describeEnds, At
    <3>2. Tells(returned.line, top.of) /\ returned.line # Nothing /\ returned.line # Tagged(top.of)
      BY <1>1, <1>5, <2>1, <3>1, TellsOn
    <3>3. returned.line # tagged
      BY <3>2 DEF tagged
    <3>4. CASE it.whose = "library"
      <4>1. Returns(tagged \o returned.line, "none")
        BY <2>3, <3>3, <3>4 DEF describeEnds
      <4>2. tagged \o returned.line \in Seq(Item)
        BY <1>1, <1>5
      <4>3. \A x \in Error : Tells(returned.line, x) => Tells(tagged \o returned.line, x)
        BY <1>1, <1>5, TellsOn
      <4> QED
        BY <1>1, <3>1, <3>2, <4>1, <4>2, <4>3
    <3>5. CASE it.whose = "nobody"
      <4>1. Returns(returned.line, "none")
        BY <2>3, <3>2, <3>5 DEF describeEnds
      <4> QED
        BY <1>1, <3>1, <3>2, <4>1
    <3> QED
      BY <2>1, <3>4, <3>5
  <2> QED
    BY <1>2, <1>4, <2>2, <2>3
<1> QED
  BY <1>6, <1>7

(* Its log entry is made of its line.                                        *)
LEMMA LineIsAskedFor ==
  ASSUME Typed, stack # <<>>, top.fn = "toJson", HasCause(top.of), FailuresNext,
         Len(stack) < StackSize, returned # Thrown,
         top.pc = "called" => top.of \notin SERIALIZING
  PROVE  \/ Marks("SERIALIZING")
         \/ Pushes(top, "describe", top.of)
         \/ /\ top.pc = "waits" /\ returned # Pending
            /\ Returns(returned.line, withOutcome(top))
<1>1. toJson \/ toJsonOf \/ toJsonEnds
  BY DEF FailuresNext, rawCauseLine, readCauseLine, causeLineEnds, describe, describeConfig,
         describeEnds, stringOfEnds, tell, At
<1>2. it.whose = "taxonomy"
  BY DEF HasCause, it
<1>3. CASE toJson
  BY <1>3 DEF toJson, At
<1>4. CASE toJsonOf
  BY <1>2, <1>4 DEF toJsonOf, Calls
<1>5. CASE toJsonEnds
  BY <1>2, <1>5 DEF toJsonEnds, At
<1> QED
  BY <1>1, <1>3, <1>4, <1>5

(* A line tells of a value by its own sentence, unless it is being read.     *)
LEMMA CauseIsToldOf ==
  ASSUME Typed, stack # <<>>, top.fn = "causeLine", top.pc = "called" => top.of \notin READING,
         FailuresNext, Ended, returned # Thrown, Says(top.of)
  PROVE  Tells(returned'.line, top.of)
<1>1. top \in Call /\ WellMade(heap, top) /\ it \in Shape /\ top.of \in Error
      /\ it = heap[top.of] /\ returned.line \in Seq(Item)
  BY TopIs DEF it, Typed, Told
<1>2. rawCauseLine \/ readCauseLine \/ causeLineEnds
  BY DEF FailuresNext, describe, describeConfig, describeEnds, stringOfEnds, toJson, toJsonOf,
         toJsonEnds, tell, At
<1>3. \A fn \in {"describe", "causeLine", "toJson"}, e \in Error : ~ Calls(top, fn, e)
  BY <1>1, StepsDiffer
<1>4. ~ Marks("READING")
  BY StepsDiffer
<1>5. \A line, outcome : Returns(line, outcome) => returned'.line = line
  BY DEF Returns, Value
<1>6. /\ Tells(Sentence(top.of), top.of)
      /\ Tells(Sentence(top.of) \o returned.line, top.of)
  BY <1>1, TellsIs
<1>7. it.cause # NoError => it.cause \in Error
  BY <1>1 DEF Shape
<1>8. CASE it.whose = "taxonomy" /\ it.whole
  <2>1. CASE rawCauseLine
    BY <1>4, <2>1 DEF rawCauseLine, At
  <2>2. CASE readCauseLine
    <3>1. describeTaxonomy
      BY <1>8, <2>2 DEF readCauseLine
    <3>2. Returns(Sentence(top.of), "none")
      BY <1>3, <1>7, <1>8, <3>1 DEF describeTaxonomy
    <3> QED
      BY <1>5, <1>6, <3>2
  <2>3. CASE causeLineEnds
    <3>1. Returns(Sentence(top.of) \o returned.line, "none")
      BY <1>8, <2>3 DEF causeLineEnds, withCause
    <3> QED
      BY <1>5, <1>6, <3>1
  <2> QED
    BY <1>2, <2>1, <2>2, <2>3
<1>9. CASE it.whose \in {"library", "nobody"} /\ it.message.does = "says"
  <2>1. CASE rawCauseLine
    BY <1>4, <2>1 DEF rawCauseLine, At
  <2>2. CASE readCauseLine
    <3>1. readMessage
      BY <1>9, <2>2 DEF readCauseLine
    <3>2. Returns(Sentence(top.of), "none")
      BY <1>9, <3>1 DEF readMessage
    <3> QED
      BY <1>5, <1>6, <3>2
  <2>3. CASE causeLineEnds
    BY <1>1, <1>9, <2>3 DEF causeLineEnds, At, WellMade
  <2> QED
    BY <1>2, <2>1, <2>2, <2>3
<1> QED
  BY <1>1, <1>8, <1>9 DEF Says

(* The first call is the one asked for; of a failure with a cause, and of    *)
(* one that speaks for itself, the call that describes it is followed by the *)
(* line of its bearer, and what comes back tells of both.                    *)
Level == IF asked[1] = "describe" THEN 1 ELSE 2

Chained == HasCause(asked[2]) \/ (asked[1] = "describe" /\ Speaks(asked[2]))

TellsOfBearer(line) ==
  Says(Bearer(asked[2])) => Tells(line, Bearer(asked[2]))

First ==
  stack # <<>> =>
    /\ asked \in {"describe", "toJson"} \X Error
    /\ stack[1].fn = asked[1] \/ (asked[1] = "describe" /\ stack[1].fn = "stringOf")
    /\ stack[1].of = asked[2]

OfCause ==
  stack # <<>> /\ Chained =>
    /\ Len(stack) >= Level => stack[Level].fn = "describe" /\ stack[Level].of = asked[2]
    /\ Len(stack) > Level =>
         stack[Level + 1].fn = "causeLine" /\ stack[Level + 1].of = Bearer(asked[2])
    /\ Len(stack) = Level /\ top.pc = "waits" /\ returned # Pending =>
         TellsOfBearer(returned.line)
    /\ Len(stack) < Level /\ top.pc = "waits" /\ returned # Pending =>
         Tells(returned.line, asked[2]) /\ TellsOfBearer(returned.line)

(* A bearer is a value; one that speaks for itself is its own.               *)
LEMMA BearerIs ==
  ASSUME NEW e \in Error
  PROVE  /\ Bearer(e) \in Error
         /\ HasCause(e) => heap[e].whose = "taxonomy" /\ ~ Speaks(e)
         /\ Speaks(e) => Bearer(e) = e /\ Says(e)
  BY DEF Bearer, HasCause, Speaks, Says

(* What a step that ends the only call returns.                              *)
LEMMA LastReturns ==
  ASSUME Sound, First, FailuresNext, Ended, stack # <<>>, Len(stack) = 1, UNCHANGED <<heap, asked>>
  PROVE  /\ asked[1] = "describe" /\ returned'.line = Nothing =>
              /\ heap[asked[2]].whose \in {"library", "nobody"}
              /\ heap[asked[2]].name.does = "nothing" \/ CallsBack(asked[2])
         /\ asked[1] = "describe" /\ heap[asked[2]].whose = "taxonomy" /\ heap[asked[2]].whole =>
              Tells(returned'.line, asked[2])
         /\ asked[1] = "toJson" /\ heap[asked[2]].message.does # "throws" =>
              returned'.outcome = heap[asked[2]].outcome
<1>1. /\ top = stack[1] /\ top.of = asked[2] /\ it = heap[asked[2]] /\ asked[2] \in Error
      /\ asked[1] = "describe" => top.fn \in {"describe", "stringOf"}
      /\ asked[1] # "describe" => asked[1] = "toJson" /\ top.fn = "toJson"
      /\ WellMade(heap, top)
  BY TopIs DEF top, First, Sound, it
<1>2. top.pc = "called" => top.of \notin SERIALIZING
  <2>1. DOMAIN stack = 1..1
    BY DEF Sound, Typed
  <2>2. top.pc = "called" => MarkedBy("SERIALIZING") = {}
    BY <1>1, <2>1 DEF MarkedBy, WellMade
  <2> QED
    BY <2>2 DEF Sound, Marked
<1>3. Len(stack) < StackSize /\ returned # Thrown /\ StackSize \in Nat
  BY <1>1, NobodyThrewYet, StackSizeAssumption
<1>4. asked[1] = "describe" /\ returned'.line = Nothing =>
              /\ heap[asked[2]].whose \in {"library", "nobody"}
              /\ heap[asked[2]].name.does = "nothing" \/ CallsBack(asked[2])
  BY <1>1, WhatIsEmpty DEF Sound
<1>5. asked[1] = "describe" /\ heap[asked[2]].whose = "taxonomy" /\ heap[asked[2]].whole =>
        Tells(returned'.line, asked[2])
  <2>1. heap[asked[2]].whose = "taxonomy" => top.fn # "stringOf"
    BY <1>1 DEF WellMade
  <2> QED
    BY <1>1, <1>3, <2>1, OwnIsSaid DEF Sound
<1>6. asked[1] = "toJson" /\ heap[asked[2]].message.does # "throws" =>
        returned'.outcome = heap[asked[2]].outcome
  <2>1. ~ (1 >= StackSize - 1)
    <3>1. Cardinality(Error) \in Nat
      BY ErrorsAreCounted, FS_CardinalityType
    <3> QED
      BY <3>1, StackSizeAssumption
  <2>2. heap[asked[2]].message.does # "throws" => ~ top.fellBack
    BY <1>1, <2>1 DEF Sound, Deep
  <2> QED
    BY <1>1, <1>2, <1>3, <2>2, ToJsonDeclares DEF Sound
<1> QED
  BY <1>4, <1>5, <1>6

(* Below the line of the bearer nothing is being read.                       *)
LEMMA NothingIsRead ==
  ASSUME Sound, First, OfCause, stack # <<>>, Chained, Len(stack) = Level + 1
  PROVE  top.pc = "called" => top.of \notin READING
<1>0. PICK v \in {1, 2} : v = Level
  BY DEF Level
<1>1. /\ asked[1] \in {"describe", "toJson"} /\ asked[2] \in Error
      /\ v = 2 => stack[1].fn = "toJson"
  BY <1>0 DEF Level, First
<1>2. DOMAIN stack = 1..(v + 1) /\ top = stack[v + 1]
  BY <1>0 DEF Sound, Typed, top
<1>3. stack[v].fn = "describe" /\ stack[v].of = asked[2]
  BY <1>0 DEF OfCause
<1>4. \A i \in 1..(v + 1) : WellMade(heap, stack[i])
  BY <1>0 DEF Sound, Typed
<1>5. WellMade(heap, stack[v]) /\ WellMade(heap, stack[1]) /\ WellMade(heap, stack[v + 1])
  <2>1. v \in 1..(v + 1) /\ 1 \in 1..(v + 1) /\ v + 1 \in 1..(v + 1)
    OBVIOUS
  <2> QED
    BY <1>4, <2>1
<1>6. stack[v].marks # "READING"
  BY <1>3, <1>5 DEF WellMade, Chained, HasCause, Speaks
<1>7. v = 2 => stack[1].marks # "READING"
  BY <1>1, <1>5 DEF WellMade
<1>8. top.pc = "called" => top.marks # "READING"
  BY <1>2, <1>5 DEF WellMade
<1>9. \A i \in 1..(v + 1) : i = 1 \/ i = v \/ i = v + 1
  OBVIOUS
<1>10. top.pc = "called" => MarkedBy("READING") = {}
  BY <1>1, <1>2, <1>6, <1>7, <1>8, <1>9 DEF MarkedBy
<1> QED
  BY <1>10 DEF Sound, Marked

(* ...nor, below the first call, serialized.                                 *)
LEMMA NothingIsSerialized ==
  ASSUME Sound, stack # <<>>, Len(stack) = 1
  PROVE  top.pc = "called" => top.of \notin SERIALIZING
<1>1. DOMAIN stack = 1..1 /\ top = stack[1] /\ WellMade(heap, top)
  BY TopIs DEF Sound, Typed, top
<1>2. top.pc = "called" => MarkedBy("SERIALIZING") = {}
  BY <1>1 DEF MarkedBy, WellMade
<1> QED
  BY <1>2 DEF Sound, Marked

(* What is told of a bearer survives the end of a call,                      *)
LEMMA OfCauseEnded ==
  ASSUME Sound, First, OfCause, FailuresNext, Ended, stack # <<>>, UNCHANGED <<heap, asked>>,
         Chained
  PROVE  /\ OfCause'
         /\ stack' = <<>> => Tells(returned'.line, asked[2]) /\ TellsOfBearer(returned'.line)
<1> DEFINE e == asked[2]
           c == Bearer(e)
           n == Len(stack)
<1>1. /\ Level \in {1, 2} /\ asked[1] \in {"describe", "toJson"} /\ e \in Error /\ c \in Error
      /\ Level = 2 => asked[1] = "toJson" /\ HasCause(e)
  BY BearerIs DEF Level, First, Chained
<1>2. PICK line \in Seq(Item), outcome \in {"unknown", "none", "thrown"} : Returns(line, outcome)
  BY DEF Ended
<1>3. /\ n \in Nat \ {0} /\ top = stack[n] /\ Len(stack') = n - 1
      /\ \A i \in 1..(n - 1) : stack'[i] = stack[i]
      /\ returned'.line = line /\ returned' # Pending /\ returned.line \in Seq(Item)
  BY <1>2, Popped DEF Sound, Typed, Told, Returns, top, Value, Pending
<1>10. Level' = Level /\ Bearer(e)' = c /\ Chained' = Chained
       /\ \A l : TellsOfBearer(l)' = TellsOfBearer(l)
  BY DEF Level, Bearer, HasCause, Chained, Speaks, TellsOfBearer, Says, Tells
<1>4. CASE n > Level + 1
  <2>1. /\ Level \in 1..(n - 1) /\ Level + 1 \in 1..(n - 1) /\ n >= Level /\ n > Level
        /\ n - 1 > Level
    BY <1>1, <1>3, <1>4
  <2>2. /\ stack'[Level].fn = "describe" /\ stack'[Level].of = e
        /\ stack'[Level + 1].fn = "causeLine" /\ stack'[Level + 1].of = c
    BY <1>3, <2>1 DEF OfCause
  <2>3. stack' # <<>>
    BY <1>3, <2>1
  <2> QED
    BY <1>1, <1>3, <1>10, <2>1, <2>2, <2>3 DEF OfCause
<1>5. CASE n = Level + 1
  <2>1. top.fn = "causeLine" /\ top.of = c
    BY <1>1, <1>3, <1>5 DEF OfCause
  <2>2. top.pc = "called" => top.of \notin READING
    BY <1>5, NothingIsRead
  <2>8. returned # Thrown
    BY <1>1, <1>5, NobodyThrewYet
  <2>3. TellsOfBearer(line)
    BY <1>3, <2>1, <2>2, <2>8, CauseIsToldOf DEF TellsOfBearer, Sound
  <2>4. Level \in 1..(n - 1) /\ n >= Level /\ n - 1 = Level
    BY <1>1, <1>3, <1>5
  <2>5. stack'[Level].fn = "describe" /\ stack'[Level].of = e
    BY <1>3, <2>4 DEF OfCause
  <2>6. stack' # <<>> /\ TellsOfBearer(returned'.line)
    BY <1>1, <1>3, <2>3, <2>4
  <2>7. (TellsOfBearer(returned.line))'
    BY <2>6 DEF TellsOfBearer, Bearer, HasCause, Says, Tells
  <2> QED
    BY <1>1, <1>3, <1>10, <2>4, <2>5, <2>6, <2>7 DEF OfCause
<1>6. CASE n = Level
  <2>1. top.fn = "describe" /\ top.of = e
    BY <1>1, <1>3, <1>6 DEF OfCause
  <2>2. Len(stack) < StackSize /\ returned # Thrown
    BY <1>1, <1>6, NobodyThrewYet
  <2>3. ~ Pushes(top, "causeLine", c)
    <3>1. top \in Call
      BY TopIs DEF Sound
    <3> QED
      BY <1>1, <1>3, <3>1, StepsDiffer DEF Sound
  <2>4. top.pc = "waits" /\ returned # Pending => TellsOfBearer(returned.line)
    BY <1>6 DEF OfCause
  <2>5. top.pc = "waits" /\ returned # Pending /\ Speaks(e) => Tells(returned.line, e)
    BY <1>1, <2>4, BearerIs DEF TellsOfBearer
  <2>6. /\ top.pc = "waits" /\ returned # Pending
        /\ \E l \in Seq(Item) :
             /\ Returns(l, "none") /\ Tells(l, e)
             /\ \A x \in Error : Tells(returned.line, x) => Tells(l, x)
    <3>1. HasCause(top.of) \/ Speaks(top.of)
      BY <2>1 DEF Chained
    <3> QED
      BY <2>1, <2>2, <2>3, <2>5, <3>1, BearerIsAsked DEF Sound
  <2>7. Tells(line, e) /\ \A x \in Error : Tells(returned.line, x) => Tells(line, x)
    BY <1>3, <2>6 DEF Returns, Value
  <2>8. TellsOfBearer(line)
    BY <1>1, <2>4, <2>6, <2>7 DEF TellsOfBearer
  <2>9. (Tells(returned.line, asked[2]))' /\ (TellsOfBearer(returned.line))'
    <3>1. TellsOfBearer(returned'.line) /\ Tells(returned'.line, e)
      BY <1>3, <2>7, <2>8
    <3> QED
      BY <3>1 DEF TellsOfBearer, Bearer, HasCause, Says, Tells
  <2>10. ~ (n - 1 >= Level) /\ ~ (n - 1 > Level) /\ ~ (n - 1 = Level)
    BY <1>1, <1>3, <1>6
  <2>11. OfCause'
    BY <1>3, <1>10, <2>9, <2>10 DEF OfCause
  <2> QED
    BY <1>3, <2>7, <2>8, <2>11
<1>7. CASE n < Level
  <2>1. n = 1 /\ Level = 2
    BY <1>1, <1>3, <1>7
  <2>2. top.fn = "toJson" /\ top.of = e
    BY <1>1, <1>3, <2>1 DEF First
  <2>3. top.pc = "called" => top.of \notin SERIALIZING
    BY <2>1, NothingIsSerialized
  <2>4. ~ Marks("SERIALIZING") /\ ~ Pushes(top, "describe", top.of)
    <3>1. top \in Call
      BY TopIs DEF Sound
    <3> QED
      BY <1>1, <1>3, <2>2, <3>1, StepsDiffer DEF Sound
  <2>5. Len(stack) < StackSize /\ returned # Thrown
    BY <1>1, <2>1, NobodyThrewYet
  <2>6. /\ top.pc = "waits" /\ returned # Pending
        /\ Returns(returned.line, withOutcome(top))
    BY <1>1, <2>1, <2>2, <2>3, <2>4, <2>5, LineIsAskedFor DEF Sound
  <2>7. Tells(returned.line, e) /\ TellsOfBearer(returned.line)
    BY <1>7, <2>6 DEF OfCause
  <2>8. line = returned.line
    BY <1>3, <2>6 DEF Returns, Value
  <2>9. Len(stack') = 0
    BY <1>3, <2>1
  <2>10. stack' = <<>>
    BY <1>2, <2>9, Popped DEF Returns, Sound, Typed
  <2>11. OfCause'
    BY <2>10 DEF OfCause
  <2> QED
    BY <1>3, <2>7, <2>8, <2>11
<1>8. n > Level + 1 \/ n = Level + 1 \/ n = Level \/ n < Level
  BY <1>1, <1>3
<1>9. CASE n > Level
  <2>1. stack' # <<>>
    BY <1>1, <1>3, <1>9
  <2>2. n > Level + 1 \/ n = Level + 1
    BY <1>1, <1>3, <1>9
  <2> QED
    BY <1>4, <1>5, <2>1, <2>2
<1> QED
  BY <1>1, <1>3, <1>6, <1>7, <1>8, <1>9

(* a call it asks for,                                                      *)
LEMMA OfCauseOpened ==
  ASSUME Sound, First, OfCause, FailuresNext, Opened, stack # <<>>, UNCHANGED <<heap, asked>>
  PROVE  First' /\ OfCause' /\ stack' # <<>>
<1> DEFINE n == Len(stack)
           e == asked[2]
           c == Bearer(e)
<1>1. PICK frame \in Call, fn \in {"describe", "causeLine", "toJson"}, x \in Error :
        Pushes(frame, fn, x) /\ Asks(frame, fn)
  BY DEF Opened
<1> DEFINE below == [frame EXCEPT !.pc = "waits"]
           above == Frame(fn, x)
<1>2. /\ below \in Call /\ below.of = top.of
      /\ below.fn = top.fn \/ (top.fn = "describe" /\ below.fn = "stringOf")
      /\ above \in Call /\ above.pc = "called" /\ above.fn = fn /\ above.of = x
  BY <1>1 DEF Call, Frame, Asks
<1>3. stack' = Front(stack) \o <<below, above>> /\ returned' = Pending
  BY <1>1 DEF Pushes
<1> HIDE DEF below, above
<1>4. /\ n \in Nat \ {0} /\ top = stack[n] /\ Len(stack') = n + 1
      /\ stack'[n] = below /\ stack'[n + 1] = above
      /\ \A i \in 1..(n - 1) : stack'[i] = stack[i]
  BY <1>2, <1>3, Pushed, Popped DEF Sound, Typed, top
<1>5. \A i \in 1..n : /\ stack'[i].of = stack[i].of
                      /\ \/ stack'[i].fn = stack[i].fn
                         \/ i = n /\ top.fn = "describe" /\ stack'[i].fn = "stringOf"
  <2>1. \A i \in 1..n : i \in 1..(n - 1) \/ i = n
    BY <1>4
  <2> QED
    BY <1>2, <1>4, <2>1
<1>6. First' /\ stack' # <<>>
  <2>1. 1 \in 1..n /\ stack' # <<>> /\ (1 = n => top = stack[1])
    BY <1>4
  <2>2. /\ asked \in {"describe", "toJson"} \X Error
        /\ stack'[1].fn = asked[1] \/ (asked[1] = "describe" /\ stack'[1].fn = "stringOf")
        /\ stack'[1].of = asked[2]
    BY <1>5, <2>1 DEF First
  <2> QED
    BY <2>1, <2>2 DEF First
<1>9. Level' = Level /\ Bearer(e)' = c /\ Chained' = Chained
  BY DEF Level, Bearer, HasCause, Chained, Speaks
<1>7. ASSUME Chained
      PROVE  OfCause'
  <2>1. /\ Level \in {1, 2} /\ asked[1] \in {"describe", "toJson"} /\ e \in Error /\ c \in Error
        /\ Level = 2 => asked[1] = "toJson" /\ HasCause(e)
    BY <1>7, BearerIs DEF Level, First, Chained
  <2>3. CASE n > Level
    <3>1. Level \in 1..n /\ Level + 1 \in 1..n /\ n >= Level /\ Level # n
      BY <1>4, <2>1, <2>3
    <3>2. /\ stack[Level].fn = "describe" /\ stack[Level].of = e
          /\ stack[Level + 1].fn = "causeLine" /\ stack[Level + 1].of = c
      BY <1>7, <2>3, <3>1 DEF OfCause
    <3>3. /\ stack'[Level].fn = "describe" /\ stack'[Level].of = e
          /\ stack'[Level + 1].fn = "causeLine" /\ stack'[Level + 1].of = c
      BY <1>4, <1>5, <3>1, <3>2
    <3>4. ~ (n + 1 = Level) /\ ~ (n + 1 < Level)
      BY <1>4, <2>1, <2>3
    <3> QED
      BY <1>4, <1>9, <3>3, <3>4 DEF OfCause
  <2>4. CASE n = Level
    <3>1. Level \in 1..n /\ n >= Level /\ Level + 1 = n + 1
      BY <1>4, <2>1, <2>4
    <3>2. stack[Level].fn = "describe" /\ stack[Level].of = e
      BY <1>7, <2>1, <2>4, <3>1 DEF OfCause
    <3>3. top.fn = "describe" /\ top.of = e
      BY <1>4, <2>4, <3>2
    <3>4. Pushes(top, "causeLine", c)
      <4>1. \A line \in Seq(Item) : ~ Returns(line, "none")
        <5>1. Len(stack') = n + 1
          BY <1>4
        <5> QED
          BY <1>4, <5>1, StepsDiffer DEF Sound, Ended
      <4>2. Len(stack) < StackSize /\ returned # Thrown
        BY <2>1, <2>4, NobodyThrewYet
      <4>3. top.pc = "waits" /\ returned # Pending /\ Speaks(e) => Tells(returned.line, e)
        BY <1>7, <2>1, <2>4, BearerIs DEF OfCause, TellsOfBearer
      <4>4. HasCause(top.of) \/ Speaks(top.of)
        BY <1>7, <3>3 DEF Chained
      <4> QED
        BY <3>3, <4>1, <4>2, <4>3, <4>4, BearerIsAsked DEF Sound
    <3>5. stack'[n] = [top EXCEPT !.pc = "waits"] /\ stack'[n + 1] = Frame("causeLine", c)
      <4> DEFINE low == [top EXCEPT !.pc = "waits"]
                 high == Frame("causeLine", c)
      <4>1. low \in Call /\ high \in Call
        BY <2>1, TopIs DEF Call, Frame, Sound
      <4>2. stack' = Front(stack) \o <<low, high>>
        BY <3>4 DEF Pushes
      <4> HIDE DEF low, high
      <4>3. stack'[n] = low /\ stack'[n + 1] = high
        BY <4>1, <4>2, Pushed DEF Sound, Typed
      <4> QED
        BY <4>3 DEF low, high
    <3>6. /\ stack'[Level].fn = "describe" /\ stack'[Level].of = e
          /\ stack'[Level + 1].fn = "causeLine" /\ stack'[Level + 1].of = c
      <4>1. top \in Call
        BY TopIs DEF Sound
      <4> QED
        BY <2>4, <3>1, <3>3, <3>5, <4>1 DEF Frame, Call
    <3>7. ~ (n + 1 = Level) /\ ~ (n + 1 < Level)
      BY <1>4, <2>1, <2>4
    <3> QED
      BY <1>4, <1>9, <3>6, <3>7 DEF OfCause
  <2>5. CASE n < Level
    <3>1. n = 1 /\ Level = 2
      <4>1. PICK k \in Nat : k = n /\ k >= 1
        BY <1>4
      <4>2. \A l \in {1, 2} : k < l => k = 1 /\ l = 2
        BY <4>1
      <4> QED
        BY <2>1, <2>5, <4>1, <4>2
    <3>2. top.fn = "toJson" /\ top.of = e /\ HasCause(e)
      BY <1>4, <2>1, <3>1 DEF First
    <3>3. Pushes(top, "describe", e)
      <4>1. top.pc = "called" => top.of \notin SERIALIZING
        BY <3>1, NothingIsSerialized
      <4>2. ~ Marks("SERIALIZING")
        BY <1>4, StepsDiffer DEF Sound
      <4>3. returned.line \in Seq(Item) /\ withOutcome(top) \in {"unknown", "none"}
        BY TopIs, WithOutcomeIs DEF Sound, Typed, Told
      <4>4. \A line \in Seq(Item), outcome \in {"unknown", "none"} : ~ Returns(line, outcome)
        BY <1>4, StepsDiffer DEF Sound, Ended
      <4>5. Len(stack) < StackSize /\ returned # Thrown
        BY <2>1, <3>1, NobodyThrewYet
      <4> QED
        BY <3>2, <4>1, <4>2, <4>3, <4>4, <4>5, LineIsAskedFor DEF Sound
    <3>4. stack'[n + 1] = Frame("describe", e)
      <4> DEFINE low == [top EXCEPT !.pc = "waits"]
                 high == Frame("describe", e)
      <4>1. low \in Call /\ high \in Call
        BY <2>1, TopIs DEF Call, Frame, Sound
      <4>2. stack' = Front(stack) \o <<low, high>>
        BY <3>3 DEF Pushes
      <4> HIDE DEF low, high
      <4>3. stack'[n + 1] = high
        BY <4>1, <4>2, Pushed DEF Sound, Typed
      <4> QED
        BY <4>3 DEF high
    <3>5. n + 1 = Level /\ ~ (n + 1 > Level) /\ ~ (n + 1 < Level)
      BY <3>1
    <3>6. stack'[Level].fn = "describe" /\ stack'[Level].of = e
      BY <3>4, <3>5 DEF Frame
    <3> QED
      BY <1>3, <1>4, <1>9, <3>5, <3>6 DEF OfCause
  <2> QED
    BY <1>4, <2>1, <2>3, <2>4, <2>5
<1>8. CASE ~ Chained
  BY <1>6, <1>8, <1>9 DEF OfCause
<1> QED
  BY <1>6, <1>7, <1>8

(* one it finds no room for,                                                *)
LEMMA OfCauseFull ==
  ASSUME Sound, First, OfCause, Crowded, stack # <<>>, UNCHANGED <<heap, asked>>
  PROVE  First' /\ OfCause' /\ stack' # <<>>
<1> DEFINE n == Len(stack)
<1>1. PICK frame \in Call, fn \in {"describe", "causeLine", "toJson"} : Overflows(frame)
  BY DEF Crowded
<1> DEFINE below == [frame EXCEPT !.pc = "waits"]
<1>2. below \in Call
  BY DEF Call
<1>3. stack' = Front(stack) \o <<below>>
  BY <1>1 DEF Overflows
<1> HIDE DEF below
<1>4. /\ n \in Nat \ {0} /\ Len(stack') = n /\ stack' # <<>>
      /\ \A i \in 1..(n - 1) : stack'[i] = stack[i]
  BY <1>2, <1>3, Replaced, Popped DEF Sound, Typed
<1>5. asked[1] \in {"describe", "toJson"} /\ asked[2] \in Error
  BY DEF First
<1>6. ~ (n <= 3)
  BY <1>5, NobodyThrewYet DEF Crowded
<1>7. Level \in {1, 2} /\ Level' = Level /\ Bearer(asked[2])' = Bearer(asked[2])
      /\ Chained' = Chained
  BY DEF Level, Bearer, HasCause, Chained, Speaks
<1>8. /\ 1 \in 1..(n - 1) /\ Level \in 1..(n - 1) /\ Level + 1 \in 1..(n - 1)
      /\ n > Level /\ n >= Level /\ ~ (n = Level) /\ ~ (n < Level)
  BY <1>4, <1>6, <1>7
<1>9. First'
  BY <1>4, <1>8 DEF First
<1>10. OfCause'
  BY <1>4, <1>7, <1>8 DEF OfCause
<1> QED
  BY <1>4, <1>9, <1>10

(* and a mark.                                                              *)
LEMMA OfCauseBegun ==
  ASSUME Sound, First, OfCause, Marking, stack # <<>>, UNCHANGED <<heap, asked>>
  PROVE  First' /\ OfCause' /\ stack' # <<>>
<1> DEFINE n == Len(stack)
<1>1. PICK marks \in {"READING", "SERIALIZING"} : Marks(marks)
  BY DEF Marking
<1> DEFINE marked == [top EXCEPT !.pc = "reads", !.marks = marks]
<1>2. marked \in Call /\ marked.fn = top.fn /\ marked.of = top.of /\ marked.pc = "reads"
  BY TopIs DEF Call, Sound
<1>3. stack' = Front(stack) \o <<marked>>
  BY <1>1 DEF Marks
<1> HIDE DEF marked
<1>4. /\ n \in Nat \ {0} /\ top = stack[n] /\ Len(stack') = n /\ stack'[n] = marked
      /\ stack' # <<>> /\ \A i \in 1..(n - 1) : stack'[i] = stack[i]
  BY <1>2, <1>3, Replaced, Popped DEF Sound, Typed, top
<1>5. \A i \in 1..n : stack'[i].fn = stack[i].fn /\ stack'[i].of = stack[i].of
  <2>1. \A i \in 1..n : i \in 1..(n - 1) \/ i = n
    BY <1>4
  <2> QED
    BY <1>2, <1>4, <2>1
<1>6. First'
  <2>1. 1 \in 1..n
    BY <1>4
  <2> QED
    BY <1>5, <2>1 DEF First
<1>7. top'.pc # "waits"
  BY <1>2, <1>4 DEF top
<1>8. Level \in {1, 2} /\ Level' = Level /\ Bearer(asked[2])' = Bearer(asked[2])
      /\ Chained' = Chained
  BY DEF Level, Bearer, HasCause, Chained, Speaks
<1>9. n >= Level => Level \in 1..n
  BY <1>4, <1>8
<1>10. n > Level => Level + 1 \in 1..n
  BY <1>4, <1>8
<1>11. OfCause'
  BY <1>4, <1>5, <1>7, <1>8, <1>9, <1>10 DEF OfCause
<1> QED
  BY <1>4, <1>6, <1>11

InFull == First /\ OfCause /\ ToldInFull

(* InFull is inductive.                                                     *)
LEMMA InFullNext ==
  ASSUME Sound, InFull, [FailuresNext]_failureVars
  PROVE  InFull'
<1>1. CASE UNCHANGED failureVars
  <2>1. /\ heap' = heap /\ stack' = stack /\ asked' = asked /\ returned' = returned
        /\ top' = top
    BY <1>1 DEF top, failureVars
  <2>2. First'
    BY <2>1 DEF InFull, First
  <2>3. /\ Level' = Level /\ Bearer(asked[2])' = Bearer(asked[2]) /\ Chained' = Chained
        /\ (TellsOfBearer(returned.line))' = TellsOfBearer(returned.line)
        /\ (Tells(returned.line, asked[2]))' = Tells(returned.line, asked[2])
    BY <2>1 DEF Level, Bearer, HasCause, Chained, Speaks, TellsOfBearer, Tells, Says
  <2>4. OfCause'
    BY <2>1, <2>3 DEF InFull, OfCause
  <2>5. ToldInFull'
    BY <2>1 DEF InFull, ToldInFull, HasCause, Says, Wordless, CallsBack
  <2> QED
    BY <2>2, <2>4, <2>5 DEF InFull
<1>2. CASE \E fn \in {"describe", "toJson"}, e \in Error : tell(fn, e)
  <2>1. PICK fn \in {"describe", "toJson"}, e \in Error : tell(fn, e)
    BY <1>2
  <2>2. /\ stack' = <<Frame(fn, e)>> /\ asked' = <<fn, e>> /\ returned' = Pending
    BY <2>1 DEF tell
  <2>3. Len(stack') = 1 /\ stack'[1] = Frame(fn, e) /\ stack' # <<>>
    BY <2>2
  <2>4. stack'[1].fn = fn /\ stack'[1].of = e
    BY <2>3 DEF Frame
  <2>5. First'
    BY <2>2, <2>4 DEF First
  <2>6. Level' = IF fn = "describe" THEN 1 ELSE 2
    BY <2>2 DEF Level
  <2>7. OfCause'
    BY <2>2, <2>3, <2>4, <2>6 DEF OfCause
  <2> QED
    BY <2>3, <2>5, <2>7 DEF InFull, ToldInFull
<1>3. CASE Goes /\ FailuresNext
  <2>1. stack # <<>> /\ UNCHANGED <<heap, asked>>
    BY <1>3 DEF Goes
  <2>2. CASE Opened
    BY <1>3, <2>1, <2>2, OfCauseOpened DEF InFull, ToldInFull
  <2>3. CASE Crowded
    BY <2>1, <2>3, OfCauseFull DEF InFull, ToldInFull
  <2>4. CASE Marking
    BY <2>1, <2>4, OfCauseBegun DEF InFull, ToldInFull
  <2>5. CASE Ended
    <3>1. PICK line \in Seq(Item), outcome \in {"unknown", "none", "thrown"} :
            Returns(line, outcome)
      BY <2>5 DEF Ended
    <3>2. /\ Len(stack) \in Nat \ {0} /\ Len(stack') = Len(stack) - 1
          /\ \A i \in 1..(Len(stack) - 1) : stack'[i] = stack[i]
          /\ returned'.line \in Seq(Item)
      BY <2>1, <3>1, Popped DEF Sound, Typed, Returns, Value
    <3>3. First'
      <4>1. CASE Len(stack) > 1
        <5>1. 1 \in 1..(Len(stack) - 1)
          BY <3>2, <4>1
        <5> QED
          BY <2>1, <3>2, <5>1 DEF InFull, First
      <4>2. CASE Len(stack) = 1
        <5>1. stack' = <<>>
          BY <2>1, <3>1, <3>2, <4>2, Popped DEF Sound, Typed, Returns
        <5> QED
          BY <5>1 DEF First
      <4> QED
        BY <3>2, <4>1, <4>2
    <3>4. OfCause' /\ (stack' = <<>> /\ Chained =>
            Tells(returned'.line, asked[2]) /\ TellsOfBearer(returned'.line))
      <4>1. CASE Chained
        BY <1>3, <2>1, <2>5, <4>1, OfCauseEnded DEF InFull
      <4>2. CASE ~ Chained
        BY <2>1, <4>2 DEF OfCause, Chained, HasCause, Speaks
      <4> QED
        BY <4>1, <4>2
    <3>5. ToldInFull'
      <4> DEFINE e == asked[2]
                 l == returned'.line
      <4> SUFFICES ASSUME stack' = <<>>, asked' # <<>>
                   PROVE  /\ asked[1] = "describe" =>
                               /\ Says(e) => Tells(l, e)
                               /\ l = Nothing => Wordless(e)
                          /\ HasCause(e) =>
                               /\ Tells(l, e)
                               /\ heap[e].cause # e /\ Says(heap[e].cause) =>
                                    Tells(l, heap[e].cause)
                          /\ asked[1] = "toJson" /\ heap[e].message.does # "throws" =>
                               returned'.outcome = heap[e].outcome
        BY <2>1 DEF ToldInFull, HasCause, Tells, Says, Wordless, CallsBack
      <4>1. Len(stack) = 1 /\ e \in Error
        BY <2>1, <3>2 DEF InFull, First
      <4>2. /\ asked[1] = "describe" /\ l = Nothing =>
                 /\ heap[e].whose \in {"library", "nobody"}
                 /\ heap[e].name.does = "nothing" \/ CallsBack(e)
            /\ asked[1] = "describe" /\ heap[e].whose = "taxonomy" /\ heap[e].whole => Tells(l, e)
            /\ asked[1] = "toJson" /\ heap[e].message.does # "throws" =>
                 returned'.outcome = heap[e].outcome
        BY <1>3, <2>1, <2>5, <4>1, LastReturns DEF InFull
      <4>3. asked[1] = "describe" /\ Says(e) => Tells(l, e)
        BY <3>4, <4>2 DEF Says, Chained, Speaks
      <4>4. Tells(l, e) => l # Nothing
        <5>1. Nothing \in Seq(Item)
          BY DEF Nothing
        <5> QED
          BY <3>2, <4>1, <5>1, TellsOn
      <4>5. HasCause(e) => Tells(l, e) /\ (Says(heap[e].cause) => Tells(l, heap[e].cause))
        BY <3>4 DEF Chained, TellsOfBearer, Bearer
      <4> QED
        BY <4>2, <4>3, <4>4, <4>5 DEF Wordless
    <3> QED
      BY <3>3, <3>4, <3>5 DEF InFull
  <2> QED
    BY <1>3, <2>2, <2>3, <2>4, <2>5 DEF Goes
<1> QED
  BY <1>1, <1>2, <1>3, StepsGo DEF Sound

(* Nothing has been asked yet.                                              *)
LEMMA InFullInit == FailuresInit => InFull
  BY DEF FailuresInit, InFull, First, OfCause, ToldInFull

-----------------------------------------------------------------------------
(* Telling of a failure ends: no value is read or serialized twice at once,  *)
(* for any number of values that may be the cause of each other and describe *)
(* each other; and, where no toString calls back, the calls nest only so     *)
(* deep and what was told is told again.                                     *)
THEOREM TellingNeverLoops == FailuresSpec => []TellingEnds
<1>1. FailuresInit => Sound /\ Recalled
  BY SoundInit, RecalledInit
<1>2. Sound /\ Recalled /\ [FailuresNext]_failureVars => (Sound /\ Recalled)'
  BY SoundNext, RecalledNext
<1> QED
  BY <1>1, <1>2, TellingAlwaysEnds, PTL DEF FailuresSpec

(* A failure is told of in full: its line has its own sentence and that of   *)
(* its cause, and is empty only of a value that goes by an empty tag, name   *)
(* or string; and its log entry has the outcome it declares.                 *)
THEOREM FailuresAreToldInFull == FailuresSpec => []ToldInFull
<1>1. FailuresInit => Sound /\ InFull
  BY SoundInit, InFullInit
<1>2. Sound /\ InFull /\ [FailuresNext]_failureVars => (Sound /\ InFull)'
  BY SoundNext, InFullNext
<1>3. InFull => ToldInFull
  BY DEF InFull
<1> QED
  BY <1>1, <1>2, <1>3, PTL DEF FailuresSpec

-----------------------------------------------------------------------------
(* A test against the scripted client.                                      *)

Requested == Bytes \cup {"recipe", "none"}

LogEntry ==
  [kind : {"object"}, key : FakeId, value : FakeObject]
    \cup [kind : {"clock"}, key : {Clock}, value : Nat]
    \cup [kind : {"deposit"}, key : Holder \X TypeArg, value : Nat]
    \cup [kind : {"script"}, key : Scripting, value : Scripts]
    \cup [kind : {"answer"}, key : Scripting \X Requested, value : Outcome]

(* Where, up to a place, a log has one of those entries; and what the last   *)
(* of them in all of it says, if there is one.                              *)
Where(l, i, E) == {j \in 1..i : l[j] \in E}

LastIn(l, E) ==
  {l[i].value : i \in {k \in Where(l, Len(l), E) : \A j \in Where(l, Len(l), E) : j <= k}}

(* The latest of some places is one of them, and the only one.               *)
LEMMA LatestIs ==
  ASSUME NEW n \in Nat, NEW S, S \subseteq 1..n
  PROVE  /\ S # {} => Latest(S) \in S /\ \A j \in S : j <= Latest(S)
         /\ \A i \in S : (\A j \in S : j <= i) => Latest(S) = i
<1>1. S # {} => \E i \in S : \A j \in S : j <= i
  <2> SUFFICES ASSUME S # {} PROVE \E i \in S : \A j \in S : j <= i
    OBVIOUS
  <2> DEFINE T == {n - j : j \in S}
  <2>1. T \subseteq Nat /\ T # {}
    <3>1. \A j \in S : n - j \in Nat
      OBVIOUS
    <3>2. PICK j \in S : TRUE
      OBVIOUS
    <3> QED
      BY <3>1, <3>2
  <2>2. PICK x \in T : \A y \in T : x <= y
    BY <2>1, Least
  <2>3. PICK i \in S : x = n - i
    BY <2>2
  <2>4. \A j \in S : n - i <= n - j /\ j \in Int /\ i \in Int
    BY <2>2, <2>3
  <2> QED
    BY <2>4
<1>2. S # {} => Latest(S) \in S /\ \A j \in S : j <= Latest(S)
  BY <1>1 DEF Latest
<1>3. ASSUME NEW i \in S, \A j \in S : j <= i PROVE Latest(S) = i
  <2> DEFINE m == Latest(S)
  <2>1. m \in S /\ \A j \in S : j <= m
    BY <1>2
  <2> HIDE DEF m
  <2>2. m \in 1..n /\ i \in 1..n /\ i <= m /\ m <= i
    BY <1>3, <2>1
  <2>3. m = i
    BY <2>2
  <2> QED
    BY <2>3 DEF m
<1> QED
  BY <1>2, <1>3

(* What a log's last entry of a kind says.                                   *)
LEMMA LastIs ==
  ASSUME NEW l \in Seq(LogEntry), NEW E
  PROVE  LastIn(l, E) = IF Where(l, Len(l), E) = {} THEN {}
                        ELSE {l[Latest(Where(l, Len(l), E))].value}
<1> DEFINE W == Where(l, Len(l), E)
           L == {k \in W : \A j \in W : j <= k}
<1>1. Len(l) \in Nat /\ W \subseteq 1..Len(l)
  BY DEF Where
<1>2. CASE W = {}
  BY <1>2 DEF LastIn
<1>3. CASE W # {}
  <2>1. L = {Latest(W)}
    BY <1>1, <1>3, LatestIs
  <2> QED
    BY <1>3, <2>1 DEF LastIn
<1> QED
  BY <1>2, <1>3

(* What one more entry changes.                                              *)
LEMMA OneMoreEntry ==
  ASSUME NEW l \in Seq(LogEntry), NEW e \in LogEntry, NEW t, t = Append(l, e)
  PROVE  /\ t \in Seq(LogEntry) /\ Len(t) = Len(l) + 1 /\ t[Len(l) + 1] = e
         /\ \A i \in 1..Len(l) : t[i] = l[i]
  OBVIOUS

(* The entries of a kind in a log with one more.                            *)
LEMMA OneMoreOf ==
  ASSUME NEW l \in Seq(LogEntry), NEW e \in LogEntry, NEW E
  PROVE  /\ \A i \in 1..Len(l) : Where(Append(l, e), i, E) = Where(l, i, E)
         /\ Where(Append(l, e), Len(l) + 1, E) =
              IF e \in E THEN Where(l, Len(l), E) \cup {Len(l) + 1} ELSE Where(l, Len(l), E)
         /\ LastIn(Append(l, e), E) = IF e \in E THEN {e.value} ELSE LastIn(l, E)
<1> DEFINE t == Append(l, e)
<1>1. /\ t \in Seq(LogEntry) /\ Len(t) = Len(l) + 1 /\ t[Len(l) + 1] = e
      /\ \A i \in 1..Len(l) : t[i] = l[i]
      /\ Len(l) \in Nat
  OBVIOUS
<1> HIDE DEF t
<1>2. ASSUME NEW i \in 1..Len(l) PROVE Where(t, i, E) = Where(l, i, E)
  BY <1>1 DEF Where
<1>3. Where(t, Len(t), E) = IF e \in E THEN Where(l, Len(l), E) \cup {Len(l) + 1}
                            ELSE Where(l, Len(l), E)
  <2>1. 1..Len(t) = (1..Len(l)) \cup {Len(l) + 1}
    BY <1>1
  <2>2. \A j \in 1..Len(t) : t[j] \in E <=> (j \in 1..Len(l) /\ l[j] \in E) \/ (j = Len(l) + 1 /\ e \in E)
    BY <1>1, <2>1
  <2> QED
    BY <2>1, <2>2 DEF Where
<1>4. LastIn(t, E) = IF e \in E THEN {e.value} ELSE LastIn(l, E)
  <2> DEFINE W == Where(l, Len(l), E)
             V == Where(t, Len(t), E)
  <2>1. W \subseteq 1..Len(l) /\ V \subseteq 1..Len(t) /\ Len(t) \in Nat
    BY <1>1 DEF Where
  <2>2. LastIn(t, E) = IF V = {} THEN {} ELSE {t[Latest(V)].value}
    BY <1>1, LastIs
  <2>3. LastIn(l, E) = IF W = {} THEN {} ELSE {l[Latest(W)].value}
    BY LastIs
  <2>4. V = IF e \in E THEN W \cup {Len(l) + 1} ELSE W
    BY <1>3
  <2> HIDE DEF W, V
  <2>5. CASE e \in E
    <3>1. Len(l) + 1 \in V /\ \A j \in V : j <= Len(l) + 1
      BY <1>1, <2>1, <2>4, <2>5
    <3>2. Latest(V) = Len(l) + 1
      BY <1>1, <2>1, <3>1, LatestIs
    <3> QED
      BY <1>1, <2>2, <2>5, <3>1, <3>2
  <2>6. CASE e \notin E
    <3>1. W # {} => Latest(W) \in 1..Len(l)
      BY <1>1, <2>1, LatestIs
    <3> QED
      BY <1>1, <2>2, <2>3, <2>4, <2>6, <3>1
  <2> QED
    BY <2>5, <2>6
<1> QED
  BY <1>1, <1>2, <1>3, <1>4 DEF t

-----------------------------------------------------------------------------
(* What a log entry is about.                                               *)

PutsOf(id) == {e \in LogEntry : e.kind = "object" /\ idOf[e.key] = idOf[id]}

Clocks == {e \in LogEntry : e.kind = "clock"}

DepositsOf(h, t) ==
  {e \in LogEntry : e.kind = "deposit" /\ e.key[1] = h /\ coinOf[e.key[2]] = coinOf[t]}

ServedTo(b) ==
  {e \in LogEntry : e.kind = "answer" /\ e.key = <<"execute", b>> /\ Served(e.value)}

ScriptsOf(m) == {e \in LogEntry : e.kind = "script" /\ e.key = m}

AnswersOf(m) == {e \in LogEntry : e.kind = "answer" /\ e.key[1] = m}

(* The types, where an object is kept under the id it is normalized to.     *)
Kept ==
  /\ log \in Seq(LogEntry)
  /\ objects \in [DOMAIN objects -> FakeObject]
  /\ DOMAIN objects \subseteq {idOf[f] : f \in FakeId} \ {Clock}
  /\ clock \in Nat
  /\ deposits = [h \in Holder |-> deposits[h]]
  /\ \A h \in Holder : deposits[h] \in [DOMAIN deposits[h] -> Nat]
  /\ outcomes \in [Scripting -> [list : Scripts, next : Nat]]
  /\ answered \in [Bytes -> Outcome \cup {NoAnswer}]
  /\ callers \in [Caller -> [pc : {"idle", "died", "failing", "hanging"},
                             method : Scripting \cup {"none"}, of : Requested, attempt : Nat]]

(* What is kept is what was last put, or served.                            *)
LastPut ==
  \A id \in FakeId : idOf[id] # Clock =>
    LastIn(log, PutsOf(id)) = IF idOf[id] \in DOMAIN objects THEN {objects[idOf[id]]} ELSE {}

LastSet ==
  {clock} = IF LastIn(log, Clocks) = {} THEN {0} ELSE LastIn(log, Clocks)

LastDeposited ==
  \A h \in Holder, t \in TypeArg :
    LastIn(log, DepositsOf(h, t)) =
      IF coinOf[t] \in DOMAIN deposits[h] THEN {deposits[h][coinOf[t]]} ELSE {}

LastServed ==
  \A b \in Bytes :
    {answered[b]} = IF LastIn(log, ServedTo(b)) = {} THEN {NoAnswer} ELSE LastIn(log, ServedTo(b))

(* The script in force at a place, and the answers since.                   *)
Forced(l, i, m) == Latest(Where(l, i, ScriptsOf(m)))

Since(l, i, m) == Where(l, i, AnswersOf(m)) \ 1..Forced(l, i, m)

ScriptInForce ==
  \A m \in Scripting :
    /\ Where(log, Len(log), ScriptsOf(m)) # {}
    /\ outcomes[m].list = log[Forced(log, Len(log), m)].value
    /\ outcomes[m].next = Cardinality(Since(log, Len(log), m))

(* An answer is the one whose turn it was.                                  *)
InItsTurn(l, i) ==
  l[i].kind = "answer" =>
    LET m == l[i].key[1]
        list == l[Forced(l, i, m)].value
        n == Cardinality(Since(l, i, m))
    IN /\ Where(l, i, ScriptsOf(m)) # {}
       /\ l[i].value = list[IF n < Len(list) THEN n ELSE Len(list)]

AllInTurn == \A i \in 1..Len(log) : InItsTurn(log, i)

SInv ==
  Kept /\ LastPut /\ LastSet /\ LastDeposited /\ LastServed /\ ScriptInForce /\ AllInTurn


(* What was answered in its turn stays so; and what is no answer is.         *)
LEMMA TurnsKept ==
  ASSUME NEW l \in Seq(LogEntry), NEW e \in LogEntry, NEW t, t = Append(l, e),
         \A i \in 1..Len(l) : InItsTurn(l, i)
  PROVE  /\ \A i \in 1..Len(l) : InItsTurn(t, i)
         /\ e.kind # "answer" => \A i \in 1..Len(t) : InItsTurn(t, i)
<1>1. /\ Len(l) \in Nat /\ Len(t) = Len(l) + 1 /\ t[Len(l) + 1] = e
      /\ \A i \in 1..Len(l) : t[i] = l[i]
      /\ \A E : \A i \in 1..Len(l) : Where(t, i, E) = Where(l, i, E)
  <2>1. Len(l) \in Nat /\ Len(t) = Len(l) + 1 /\ t[Len(l) + 1] = e
    BY OneMoreEntry
  <2>2. \A i \in 1..Len(l) : t[i] = l[i]
    BY OneMoreEntry
  <2>3. \A E : \A i \in 1..Len(l) : Where(t, i, E) = Where(l, i, E)
    <3>1. \A E : \A i \in 1..Len(l) : Where(Append(l, e), i, E) = Where(l, i, E)
      BY OneMoreOf
    <3> QED
      BY <3>1
  <2> QED
    BY <2>1, <2>2, <2>3
<1>2. ASSUME NEW i \in 1..Len(l) PROVE InItsTurn(t, i)
  <2> SUFFICES ASSUME l[i].kind = "answer" PROVE InItsTurn(t, i)
    BY <1>1 DEF InItsTurn
  <2> DEFINE m == l[i].key[1]
             W == Where(l, i, ScriptsOf(m))
             list == l[Forced(l, i, m)].value
             n == Cardinality(Since(l, i, m))
  <2>1. W # {} /\ l[i].value = list[IF n < Len(list) THEN n ELSE Len(list)]
    BY DEF InItsTurn
  <2>2. W \subseteq 1..i /\ i \in Nat /\ i <= Len(l)
    BY <1>1 DEF Where
  <2>3. Latest(W) \in 1..Len(l)
    BY <1>1, <2>1, <2>2, LatestIs
  <2>4. t[i] = l[i] /\ Where(t, i, ScriptsOf(m)) = W /\ Where(t, i, AnswersOf(m)) = Where(l, i, AnswersOf(m))
    BY <1>1
  <2>5. Forced(t, i, m) = Forced(l, i, m) /\ t[Forced(t, i, m)] = l[Forced(l, i, m)]
    BY <1>1, <2>3, <2>4 DEF Forced
  <2>6. Since(t, i, m) = Since(l, i, m)
    BY <2>4, <2>5 DEF Since
  <2> QED
    BY <2>1, <2>4, <2>5, <2>6 DEF InItsTurn
<1>3. ASSUME e.kind # "answer" PROVE \A i \in 1..Len(t) : InItsTurn(t, i)
  <2> TAKE i \in 1..Len(t)
  <2>1. i \in 1..Len(l) \/ t[i] = e
    BY <1>1
  <2> QED
    BY <1>2, <1>3, <2>1 DEF InItsTurn
<1> QED
  BY <1>2, <1>3

(* An entry is about one thing.                                             *)
LEMMA EntriesAreOf ==
  ASSUME NEW e \in LogEntry
  PROVE  /\ e.kind # "object" => \A id : e \notin PutsOf(id)
         /\ e.kind # "clock" => e \notin Clocks
         /\ e.kind # "deposit" => \A h, t : e \notin DepositsOf(h, t)
         /\ e.kind # "script" => \A m : e \notin ScriptsOf(m)
         /\ e.kind # "answer" => \A b, m : e \notin ServedTo(b) /\ e \notin AnswersOf(m)
  BY DEF PutsOf, Clocks, DepositsOf, ScriptsOf, ServedTo, AnswersOf

(* A script that is not what the entry is about stays in force.              *)
LEMMA ForceKept ==
  ASSUME SInv, NEW e \in LogEntry, log' = Append(log, e), NEW m \in Scripting,
         e \notin ScriptsOf(m), e \notin AnswersOf(m), outcomes'[m] = outcomes[m]
  PROVE  /\ Where(log', Len(log'), ScriptsOf(m)) # {}
         /\ outcomes'[m].list = log'[Forced(log', Len(log'), m)].value
         /\ outcomes'[m].next = Cardinality(Since(log', Len(log'), m))
<1>1. log \in Seq(LogEntry) /\ Len(log) \in Nat
  BY DEF SInv, Kept
<1>2. /\ Len(log') = Len(log) + 1
      /\ \A i \in 1..Len(log) : log'[i] = log[i]
  BY <1>1, OneMoreEntry
<1>3. \A E : e \notin E => Where(log', Len(log'), E) = Where(log, Len(log), E)
  <2>1. \A E : e \notin E => Where(Append(log, e), Len(log) + 1, E) = Where(log, Len(log), E)
    BY <1>1, OneMoreOf
  <2> QED
    BY <1>2, <2>1
<1> DEFINE W == Where(log, Len(log), ScriptsOf(m))
<1>4. /\ Where(log', Len(log'), ScriptsOf(m)) = W
      /\ Where(log', Len(log'), AnswersOf(m)) = Where(log, Len(log), AnswersOf(m))
  BY <1>3
<1>5. W # {} /\ W \subseteq 1..Len(log)
  BY DEF SInv, ScriptInForce, Where
<1>6. Forced(log, Len(log), m) \in 1..Len(log)
  BY <1>1, <1>5, LatestIs DEF Forced
<1>7. Forced(log', Len(log'), m) = Forced(log, Len(log), m)
  BY <1>4 DEF Forced
<1>8. Since(log', Len(log'), m) = Since(log, Len(log), m)
  BY <1>4, <1>7 DEF Since
<1> QED
  BY <1>2, <1>4, <1>5, <1>6, <1>7, <1>8 DEF SInv, ScriptInForce

(* What an entry is not about is as it was last put, set and served.         *)
LEMMA OthersKeep ==
  ASSUME SInv, NEW e \in LogEntry, log' = Append(log, e)
  PROVE  /\ log' \in Seq(LogEntry)
         /\ e.kind # "object" /\ UNCHANGED objects => LastPut'
         /\ e.kind # "clock" /\ UNCHANGED clock => LastSet'
         /\ e.kind # "deposit" /\ UNCHANGED deposits => LastDeposited'
         /\ e.kind # "answer" /\ UNCHANGED answered => LastServed'
         /\ e.kind \notin {"script", "answer"} /\ UNCHANGED outcomes => ScriptInForce'
         /\ e.kind # "answer" => AllInTurn'
<1>1. log \in Seq(LogEntry) /\ Len(log) \in Nat
  BY DEF SInv, Kept
<1>2. /\ log' \in Seq(LogEntry) /\ Len(log') = Len(log) + 1 /\ log'[Len(log) + 1] = e
      /\ \A i \in 1..Len(log) : log'[i] = log[i]
  BY <1>1, OneMoreEntry
<1>3. \A E : e \notin E => /\ LastIn(log', E) = LastIn(log, E)
                           /\ Where(log', Len(log'), E) = Where(log, Len(log), E)
  <2>1. \A E : e \notin E =>
             /\ LastIn(Append(log, e), E) = LastIn(log, E)
             /\ Where(Append(log, e), Len(log) + 1, E) = Where(log, Len(log), E)
    BY <1>1, OneMoreOf
  <2> QED
    BY <1>2, <2>1
<1>4. ASSUME e.kind # "object", UNCHANGED objects PROVE LastPut'
  BY <1>3, <1>4, EntriesAreOf DEF SInv, LastPut
<1>5. ASSUME e.kind # "clock", UNCHANGED clock PROVE LastSet'
  BY <1>3, <1>5, EntriesAreOf DEF SInv, LastSet
<1>6. ASSUME e.kind # "deposit", UNCHANGED deposits PROVE LastDeposited'
  BY <1>3, <1>6, EntriesAreOf DEF SInv, LastDeposited
<1>7. ASSUME e.kind # "answer", UNCHANGED answered PROVE LastServed'
  BY <1>3, <1>7, EntriesAreOf DEF SInv, LastServed
<1>8. ASSUME e.kind \notin {"script", "answer"}, UNCHANGED outcomes PROVE ScriptInForce'
  BY <1>8, EntriesAreOf, ForceKept DEF ScriptInForce
<1>9. ASSUME e.kind # "answer" PROVE AllInTurn'
  BY <1>1, <1>2, <1>9, TurnsKept DEF SInv, AllInTurn
<1> QED
  BY <1>2, <1>4, <1>5, <1>6, <1>7, <1>8, <1>9

-----------------------------------------------------------------------------
(* One lemma for each thing a test puts.                                     *)

(* An object that is put is kept, with what it is a child of.               *)
LEMMA PutObjectKeeps ==
  ASSUME SInv, NEW id \in FakeId, NEW o \in FakeObject, idOf[id] # Clock, putObject(id, o)
  PROVE  SInv'
<1> DEFINE e == Entry("object", id, o)
           k == idOf[id]
<1>1. e \in LogEntry /\ e.kind = "object" /\ e.key = id /\ e.value = o
  BY DEF Entry, LogEntry
<1>2. /\ log' = Append(log, e) /\ UNCHANGED <<clock, deposits, outcomes, answered, callers>>
      /\ objects' = [x \in DOMAIN objects \cup {k} |-> IF x = k THEN o ELSE objects[x]]
  BY DEF putObject, Logs, Put, normalized
<1> HIDE DEF e
<1>3. /\ log' \in Seq(LogEntry) /\ LastSet' /\ LastDeposited' /\ LastServed' /\ ScriptInForce'
      /\ AllInTurn'
  BY <1>1, <1>2, OthersKeep
<1>4. Kept'
  <2>1. /\ DOMAIN objects' = DOMAIN objects \cup {k} /\ DOMAIN objects' \subseteq {idOf[f] : f \in FakeId} \ {Clock}
        /\ objects' \in [DOMAIN objects' -> FakeObject]
    BY <1>2 DEF SInv, Kept
  <2> QED
    BY <1>2, <1>3, <2>1 DEF SInv, Kept
<1>5. LastPut'
  <2> SUFFICES ASSUME NEW x \in FakeId, idOf[x] # Clock
               PROVE  LastIn(log', PutsOf(x)) =
                        IF idOf[x] \in DOMAIN objects' THEN {objects'[idOf[x]]} ELSE {}
    BY DEF LastPut
  <2>1. LastIn(log', PutsOf(x)) = IF e \in PutsOf(x) THEN {e.value} ELSE LastIn(log, PutsOf(x))
    BY <1>1, <1>2, OneMoreOf DEF SInv, Kept
  <2>2. e \in PutsOf(x) <=> idOf[x] = k
    BY <1>1 DEF PutsOf
  <2>3. LastIn(log, PutsOf(x)) = IF idOf[x] \in DOMAIN objects THEN {objects[idOf[x]]} ELSE {}
    BY DEF SInv, LastPut
  <2> QED
    BY <1>1, <1>2, <2>1, <2>2, <2>3
<1> QED
  BY <1>3, <1>4, <1>5 DEF SInv

(* So is a clock that is set,                                               *)
LEMMA SetClockKeeps ==
  ASSUME SInv, NEW time \in Nat, setClock(time)
  PROVE  SInv'
<1> DEFINE e == Entry("clock", Clock, time)
<1>1. e \in LogEntry /\ e.kind = "clock" /\ e.value = time
  BY DEF Entry, LogEntry
<1>2. /\ log' = Append(log, e) /\ UNCHANGED <<objects, deposits, outcomes, answered, callers>>
      /\ clock' = time
  BY DEF setClock, Logs
<1> HIDE DEF e
<1>3. /\ log' \in Seq(LogEntry) /\ LastPut' /\ LastDeposited' /\ LastServed' /\ ScriptInForce'
      /\ AllInTurn'
  BY <1>1, <1>2, OthersKeep
<1>4. Kept'
  BY <1>2, <1>3 DEF SInv, Kept
<1>5. LastSet'
  <2>1. e \in Clocks
    BY <1>1 DEF Clocks
  <2>2. LastIn(log', Clocks) = {time}
    BY <1>1, <1>2, <2>1, OneMoreOf DEF SInv, Kept
  <2> QED
    BY <1>2, <2>2 DEF LastSet
<1> QED
  BY <1>3, <1>4, <1>5 DEF SInv

(* a holding,                                                               *)
LEMMA SetBalanceKeeps ==
  ASSUME SInv, NEW holder \in Holder, NEW type \in TypeArg, NEW amount \in Nat,
         setAddressBalance(holder, type, amount)
  PROVE  SInv'
<1> DEFINE e == Entry("deposit", <<holder, type>>, amount)
           k == coinOf[type]
           own == [x \in DOMAIN deposits[holder] \cup {k} |-> IF x = k THEN amount ELSE deposits[holder][x]]
<1>1. /\ e \in LogEntry /\ e.kind = "deposit" /\ e.value = amount
      /\ e.key[1] = holder /\ e.key[2] = type
  BY DEF Entry, LogEntry
<1>2. /\ log' = Append(log, e) /\ UNCHANGED <<objects, clock, outcomes, answered, callers>>
      /\ deposits' = [deposits EXCEPT ![holder] = own]
  BY DEF setAddressBalance, Logs, Put
<1> HIDE DEF e
<1>3. /\ log' \in Seq(LogEntry) /\ LastPut' /\ LastSet' /\ LastServed' /\ ScriptInForce'
      /\ AllInTurn'
  BY <1>1, <1>2, OthersKeep
<1>4. /\ deposits' = [h \in Holder |-> deposits'[h]] /\ deposits'[holder] = own
      /\ \A h \in Holder \ {holder} : deposits'[h] = deposits[h]
  BY <1>2 DEF SInv, Kept
<1>5. Kept'
  <2>1. own \in [DOMAIN own -> Nat]
    BY DEF SInv, Kept
  <2>2. \A h \in Holder : deposits'[h] \in [DOMAIN deposits'[h] -> Nat]
    BY <1>4, <2>1 DEF SInv, Kept
  <2> QED
    BY <1>2, <1>3, <1>4, <2>2 DEF SInv, Kept
<1>6. LastDeposited'
  <2> SUFFICES ASSUME NEW h \in Holder, NEW t \in TypeArg
               PROVE  LastIn(log', DepositsOf(h, t)) =
                        IF coinOf[t] \in DOMAIN deposits'[h] THEN {deposits'[h][coinOf[t]]} ELSE {}
    BY DEF LastDeposited
  <2>1. LastIn(log', DepositsOf(h, t)) = IF e \in DepositsOf(h, t) THEN {e.value}
                                         ELSE LastIn(log, DepositsOf(h, t))
    BY <1>1, <1>2, OneMoreOf DEF SInv, Kept
  <2>2. e \in DepositsOf(h, t) <=> h = holder /\ coinOf[t] = k
    BY <1>1 DEF DepositsOf
  <2>3. LastIn(log, DepositsOf(h, t)) =
          IF coinOf[t] \in DOMAIN deposits[h] THEN {deposits[h][coinOf[t]]} ELSE {}
    BY DEF SInv, LastDeposited
  <2> QED
    BY <1>1, <1>4, <2>1, <2>2, <2>3
<1> QED
  BY <1>3, <1>5, <1>6 DEF SInv

(* and a script.                                                            *)
LEMMA SetOutcomesKeeps ==
  ASSUME SInv, NEW method \in Scripting, NEW list \in Scripts, setOutcomes(method, list)
  PROVE  SInv'
<1> DEFINE e == Entry("script", method, list)
<1>1. e \in LogEntry /\ e.kind = "script" /\ e.key = method /\ e.value = list
  BY DEF Entry, LogEntry
<1>2. /\ log' = Append(log, e) /\ UNCHANGED <<objects, clock, deposits, answered, callers>>
      /\ outcomes' = [outcomes EXCEPT ![method] = [list |-> list, next |-> 0]]
  BY DEF setOutcomes, Logs
<1> HIDE DEF e
<1>3. /\ log' \in Seq(LogEntry) /\ LastPut' /\ LastSet' /\ LastDeposited' /\ LastServed'
      /\ AllInTurn'
  BY <1>1, <1>2, OthersKeep
<1>4. Kept'
  BY <1>2, <1>3 DEF SInv, Kept
<1>5. ScriptInForce'
  <2> SUFFICES ASSUME NEW m \in Scripting
               PROVE  /\ Where(log', Len(log'), ScriptsOf(m)) # {}
                      /\ outcomes'[m].list = log'[Forced(log', Len(log'), m)].value
                      /\ outcomes'[m].next = Cardinality(Since(log', Len(log'), m))
    BY DEF ScriptInForce
  <2>1. CASE m # method
    <3>1. e \notin ScriptsOf(m) /\ e \notin AnswersOf(m) /\ outcomes'[m] = outcomes[m]
      BY <1>1, <1>2, <2>1 DEF ScriptsOf, AnswersOf, SInv, Kept
    <3> QED
      BY <1>1, <1>2, <3>1, ForceKept
  <2>2. CASE m = method
    <3> DEFINE n == Len(log) + 1
               W == Where(log', Len(log'), ScriptsOf(m))
    <3>1. n \in Nat /\ Len(log') = n /\ log'[n] = e
      BY <1>1, <1>2, OneMoreEntry DEF SInv, Kept
    <3>2. n \in W /\ W \subseteq 1..n
      BY <1>1, <2>2, <3>1 DEF Where, ScriptsOf
    <3>3. Forced(log', Len(log'), m) = n
      <4>1. \A j \in W : j <= n
        BY <3>1, <3>2
      <4> QED
        BY <3>1, <3>2, <4>1, LatestIs DEF Forced
    <3>4. Since(log', Len(log'), m) = {}
      BY <3>1, <3>3 DEF Since, Where
    <3>5. outcomes'[m] = [list |-> list, next |-> 0]
      BY <1>2, <2>2 DEF SInv, Kept
    <3>6. W # {}
      BY <3>2
    <3>7. outcomes'[m].list = log'[Forced(log', Len(log'), m)].value
      BY <1>1, <3>1, <3>3, <3>5
    <3>8. outcomes'[m].next = Cardinality(Since(log', Len(log'), m))
      BY <3>4, <3>5, FS_EmptySet
    <3> QED
      BY <3>6, <3>7, <3>8
  <2> QED
    BY <2>1, <2>2
<1> QED
  BY <1>3, <1>4, <1>5 DEF SInv

-----------------------------------------------------------------------------
(* One for each thing a caller does.                                         *)

Call1 == [pc : {"idle", "died", "failing", "hanging"}, method : Scripting, of : Requested,
          attempt : Nat]

(* The next answer of a script is one.                                      *)
LEMMA ScriptedIsAnOutcome ==
  ASSUME NEW script \in [list : Scripts, next : Nat], script.list # <<>>
  PROVE  scripted(script) \in Outcome
<1>1. script.list \in Seq(Outcome) /\ script.list # <<>> /\ script.next \in Nat
  BY ListsAreLists
<1> DEFINE k == IF script.next < Len(script.list) THEN script.next + 1 ELSE Len(script.list)
<1>2. k \in 1..Len(script.list)
  BY <1>1
<1> QED
  BY <1>1, <1>2 DEF scripted

(* An answer given is logged.                                               *)
LEMMA AnswerKeeps ==
  ASSUME SInv, NEW c \in Caller, NEW call \in Call1, answer(c, call),
         UNCHANGED <<objects, clock, deposits>>
  PROVE  SInv'
<1> DEFINE m == call.method
           script == outcomes[m]
           outcome == scripted(script)
           e == Entry("answer", <<m, call.of>>, outcome)
<1>1. m \in Scripting /\ call.of \in Requested /\ script \in [list : Scripts, next : Nat]
  BY DEF SInv, Kept, Call1
<1>2. CASE script.list = <<>>
  <2>1. UNCHANGED <<outcomes, answered, log>> /\ callers' = [callers EXCEPT ![c] = [call EXCEPT !.pc = "died"]]
    BY <1>2 DEF answer
  <2>2. Kept'
    BY <2>1 DEF SInv, Kept, Call1
  <2> QED
    BY <2>1, <2>2 DEF SInv, LastPut, LastSet, LastDeposited, LastServed, ScriptInForce, AllInTurn
<1>3. CASE script.list # <<>>
  <2>1. PICK pc \in {"idle", "failing", "hanging"} : callers' = [callers EXCEPT ![c] = [call EXCEPT !.pc = pc]]
    BY <1>3 DEF answer
  <2>2. /\ outcomes' = [outcomes EXCEPT ![m].next = script.next + 1]
        /\ log' = Append(log, e)
        /\ answered' = IF m = "execute" /\ Served(outcome)
                       THEN [answered EXCEPT ![call.of] = outcome] ELSE answered
    BY <1>3 DEF answer, taken, Logs
  <2>3. outcome \in Outcome
    BY <1>1, <1>3, ScriptedIsAnOutcome
  <2> HIDE DEF outcome
  <2>4. e \in LogEntry /\ e.kind = "answer" /\ e.key = <<m, call.of>> /\ e.value = outcome
    BY <1>1, <2>3 DEF Entry, LogEntry
  <2> HIDE DEF e
  <2>5. log' \in Seq(LogEntry) /\ LastPut' /\ LastSet' /\ LastDeposited'
    BY <2>2, <2>4, OthersKeep
  <2>6. /\ outcomes'[m] = [list |-> script.list, next |-> script.next + 1]
        /\ \A x \in Scripting \ {m} : outcomes'[x] = outcomes[x]
        /\ outcomes' \in [Scripting -> [list : Scripts, next : Nat]]
    BY <1>1, <2>2 DEF SInv, Kept
  <2>7. Kept'
    <3>1. callers' \in [Caller -> [pc : {"idle", "died", "failing", "hanging"},
                                   method : Scripting \cup {"none"}, of : Requested, attempt : Nat]]
      BY <2>1 DEF SInv, Kept, Call1
    <3>2. answered' \in [Bytes -> Outcome \cup {NoAnswer}]
      BY <2>2, <2>3 DEF SInv, Kept
    <3> QED
      BY <2>5, <2>6, <3>1, <3>2 DEF SInv, Kept
  <2>8. LastServed'
    <3> SUFFICES ASSUME NEW b \in Bytes
                 PROVE  {answered'[b]} = IF LastIn(log', ServedTo(b)) = {} THEN {NoAnswer}
                                         ELSE LastIn(log', ServedTo(b))
      BY DEF LastServed
    <3>1. LastIn(log', ServedTo(b)) = IF e \in ServedTo(b) THEN {outcome} ELSE LastIn(log, ServedTo(b))
      BY <2>2, <2>4, OneMoreOf DEF SInv, Kept
    <3>2. e \in ServedTo(b) <=> m = "execute" /\ call.of = b /\ Served(outcome)
      BY <2>4 DEF ServedTo
    <3>3. {answered[b]} = IF LastIn(log, ServedTo(b)) = {} THEN {NoAnswer}
                          ELSE LastIn(log, ServedTo(b))
      BY DEF SInv, LastServed
    <3>4. answered'[b] = IF e \in ServedTo(b) THEN outcome ELSE answered[b]
      BY <2>2, <3>2 DEF SInv, Kept
    <3> QED
      BY <3>1, <3>3, <3>4
  <2> DEFINE n == Len(log) + 1
             W == Where(log, Len(log), ScriptsOf(m))
             S == Since(log, Len(log), m)
  <2>9. /\ n \in Nat /\ Len(log) \in Nat /\ Len(log') = n /\ log'[n] = e
        /\ \A i \in 1..Len(log) : log'[i] = log[i]
    BY <2>2, <2>4, OneMoreEntry DEF SInv, Kept
  <2>10. e \notin ScriptsOf(m) /\ e \in AnswersOf(m)
    BY <2>4 DEF ScriptsOf, AnswersOf
  <2>11. /\ Where(log', n, ScriptsOf(m)) = W
         /\ Where(log', n, AnswersOf(m)) = Where(log, Len(log), AnswersOf(m)) \cup {n}
    <3>1. /\ Where(Append(log, e), n, ScriptsOf(m)) = W
          /\ Where(Append(log, e), n, AnswersOf(m)) = Where(log, Len(log), AnswersOf(m)) \cup {n}
      <4>1. log \in Seq(LogEntry)
        BY DEF SInv, Kept
      <4>2. \A E : Where(Append(log, e), Len(log) + 1, E) =
                    IF e \in E THEN Where(log, Len(log), E) \cup {Len(log) + 1}
                    ELSE Where(log, Len(log), E)
        BY <2>4, <4>1, OneMoreOf
      <4> QED
        BY <2>10, <4>2
    <3> QED
      BY <2>2, <3>1
  <2>12. /\ W # {} /\ W \subseteq 1..Len(log)
         /\ script.list = log[Forced(log, Len(log), m)].value
         /\ script.next = Cardinality(S)
    BY <1>1 DEF SInv, ScriptInForce, Where
  <2>13. Forced(log, Len(log), m) \in 1..Len(log)
    BY <2>9, <2>12, LatestIs DEF Forced
  <2>14. Forced(log', n, m) = Forced(log, Len(log), m)
    BY <2>11 DEF Forced
  <2>15. Since(log', n, m) = S \cup {n} /\ n \notin S /\ S \subseteq 1..Len(log)
    BY <2>9, <2>11, <2>13, <2>14 DEF Since, Where
  <2>16. Cardinality(Since(log', n, m)) = script.next + 1
    <3>1. IsFiniteSet(1..Len(log))
      BY <2>9, FS_Interval
    <3>2. IsFiniteSet(S)
      BY <2>15, <3>1, FS_Subset
    <3> QED
      BY <2>12, <2>15, <3>2, FS_AddElement
  <2>17. log'[Forced(log', n, m)].value = script.list
    BY <2>9, <2>12, <2>13, <2>14
  <2>18. ScriptInForce'
    <3> SUFFICES ASSUME NEW x \in Scripting
                 PROVE  /\ Where(log', Len(log'), ScriptsOf(x)) # {}
                        /\ outcomes'[x].list = log'[Forced(log', Len(log'), x)].value
                        /\ outcomes'[x].next = Cardinality(Since(log', Len(log'), x))
      BY DEF ScriptInForce
    <3>1. CASE x = m
      BY <2>6, <2>9, <2>11, <2>12, <2>16, <2>17, <3>1
    <3>2. CASE x # m
      <4>1. e \notin ScriptsOf(x) /\ e \notin AnswersOf(x) /\ outcomes'[x] = outcomes[x]
        BY <2>4, <2>6, <3>2 DEF ScriptsOf, AnswersOf
      <4> QED
        BY <2>2, <2>4, <4>1, ForceKept
    <3> QED
      BY <3>1, <3>2
  <2>19. AllInTurn'
    <3>1. \A i \in 1..Len(log) : InItsTurn(log', i)
      BY <2>2, <2>4, TurnsKept DEF SInv, Kept, AllInTurn
    <3>2. InItsTurn(log', n)
      <4> DEFINE l == script.list
                 k == script.next + 1
      <4>1. log'[n].key[1] = m
        BY <2>4, <2>9
      <4>2. l \in Seq(Outcome) /\ script.next \in Nat /\ l # <<>>
        BY <1>1, <1>3, ListsAreLists
      <4>3. (IF script.next < Len(l) THEN script.next + 1 ELSE Len(l)) = IF k < Len(l) THEN k ELSE Len(l)
        BY <4>2
      <4>4. outcome = l[IF k < Len(l) THEN k ELSE Len(l)]
        BY <4>3 DEF outcome, scripted
      <4> HIDE DEF l, k
      <4>5. log'[n].value = l[IF k < Len(l) THEN k ELSE Len(l)]
        BY <2>4, <2>9, <4>4
      <4>6. log'[Forced(log', n, m)].value = l /\ Cardinality(Since(log', n, m)) = k
            /\ Where(log', n, ScriptsOf(m)) # {}
        BY <2>11, <2>12, <2>16, <2>17 DEF l, k
      <4> QED
        BY <4>1, <4>5, <4>6 DEF InItsTurn
    <3>3. 1..Len(log') = 1..Len(log) \cup {n}
      BY <2>9
    <3> QED
      BY <3>1, <3>2, <3>3 DEF AllInTurn
  <2> QED
    BY <2>5, <2>7, <2>8, <2>18, <2>19 DEF SInv
<1> QED
  BY <1>2, <1>3

(* What only a fiber waits for changes nothing of it.                       *)
LEMMA WaitingKeeps ==
  ASSUME SInv, UNCHANGED <<objects, clock, deposits, outcomes, answered, log>>,
         callers' \in [Caller -> [pc : {"idle", "died", "failing", "hanging"},
                                  method : Scripting \cup {"none"}, of : Requested, attempt : Nat]]
  PROVE  SInv'
<1>1. Kept'
  BY DEF SInv, Kept
<1> QED
  BY <1>1 DEF SInv, LastPut, LastSet, LastDeposited, LastServed, ScriptInForce, AllInTurn

(* The invariant is inductive.                                              *)
LEMMA SInvNext == SInv /\ [Holdings \/ Answering]_scriptedVars => SInv'
<1> SUFFICES ASSUME SInv, [Holdings \/ Answering]_scriptedVars PROVE SInv'
  OBVIOUS
<1>1. CASE Holdings
  BY <1>1, PutObjectKeeps, SetClockKeeps, SetBalanceKeeps DEF Holdings
<1>2. ASSUME NEW m \in Scripting, NEW s \in Scripts, setOutcomes(m, s) PROVE SInv'
  BY <1>2, SetOutcomesKeeps
<1>3. ASSUME NEW c \in Caller, NEW b \in Bytes, asks(c, "execute", b) PROVE SInv'
  <2>1. [pc |-> "idle", method |-> "execute", of |-> b, attempt |-> 1] \in Call1
    BY DEF Call1, Scripting, Requested
  <2> QED
    BY <1>3, <2>1, AnswerKeeps DEF asks
<1>4. ASSUME NEW c \in Caller, asks(c, "simulate", "recipe") PROVE SInv'
  <2>1. [pc |-> "idle", method |-> "simulate", of |-> "recipe", attempt |-> 1] \in Call1
    BY DEF Call1, Scripting, Requested
  <2> QED
    BY <1>4, <2>1, AnswerKeeps DEF asks
<1>5. ASSUME NEW c \in Caller, untilAborted(c) PROVE SInv'
  <2>1. callers' \in [Caller -> [pc : {"idle", "died", "failing", "hanging"},
                                 method : Scripting \cup {"none"}, of : Requested, attempt : Nat]]
    BY <1>5 DEF untilAborted, SInv, Kept
  <2> QED
    BY <1>5, <2>1, WaitingKeeps DEF untilAborted
<1>6. ASSUME NEW c \in Caller, asksAgain(c) PROVE SInv'
  <2>1. CASE /\ callers[c].method = "simulate" /\ callers[c].attempt < MaxSimulates
             /\ answer(c, [callers[c] EXCEPT !.attempt = @ + 1])
    <3>1. [callers[c] EXCEPT !.attempt = @ + 1] \in Call1
      <4> DEFINE r == callers[c]
      <4>1. r \in [pc : {"idle", "died", "failing", "hanging"}, method : Scripting \cup {"none"},
                   of : Requested, attempt : Nat]
        BY DEF SInv, Kept
      <4>2. r.method = "simulate" /\ r.method \in Scripting
        BY <2>1 DEF Scripting
      <4> HIDE DEF r
      <4>3. [r EXCEPT !.attempt = r.attempt + 1] \in Call1
        BY <4>1, <4>2 DEF Call1
      <4> QED
        BY <4>3 DEF r
    <3> QED
      BY <1>6, <2>1, <3>1, AnswerKeeps DEF asksAgain
  <2>2. CASE callers' = [callers EXCEPT ![c] = Idle] /\ UNCHANGED <<outcomes, answered, log>>
    <3>1. callers' \in [Caller -> [pc : {"idle", "died", "failing", "hanging"},
                                   method : Scripting \cup {"none"}, of : Requested, attempt : Nat]]
      BY <2>2 DEF SInv, Kept, Idle, Requested
    <3> QED
      BY <1>6, <2>2, <3>1, WaitingKeeps DEF asksAgain
  <2> QED
    BY <1>6, <2>1, <2>2 DEF asksAgain
<1>7. CASE UNCHANGED scriptedVars
  BY <1>7, WaitingKeeps DEF scriptedVars, SInv, Kept
<1> QED
  BY <1>1, <1>2, <1>3, <1>4, <1>5, <1>6, <1>7 DEF Answering

(* Two scripts are all there is at first.                                    *)
LEMMA SInvInit == ScriptedInit => SInv
<1> SUFFICES ASSUME ScriptedInit PROVE SInv
  OBVIOUS
<1>1. PICK s \in Scripts :
        /\ outcomes = [m \in Scripting |-> [list |-> s, next |-> 0]]
        /\ log = <<Entry("script", "simulate", s), Entry("script", "execute", s)>>
  BY DEF ScriptedInit
<1> DEFINE e1 == Entry("script", "simulate", s)
           e2 == Entry("script", "execute", s)
<1>2. /\ e1 \in LogEntry /\ e1.kind = "script" /\ e1.key = "simulate" /\ e1.value = s
      /\ e2 \in LogEntry /\ e2.kind = "script" /\ e2.key = "execute" /\ e2.value = s
  BY DEF Entry, LogEntry, Scripting
<1>3. log = <<e1, e2>>
  BY <1>1
<1> HIDE DEF e1, e2
<1>4. log \in Seq(LogEntry) /\ Len(log) = 2 /\ log[1] = e1 /\ log[2] = e2
  BY <1>2, <1>3
<1>5. 1..Len(log) = {1, 2}
  BY <1>4
<1>6. /\ DOMAIN objects = {} /\ objects \in [{} -> FakeObject]
      /\ \A h \in Holder : DOMAIN deposits[h] = {} /\ deposits[h] \in [{} -> Nat]
      /\ deposits = [h \in Holder |-> deposits[h]]
  BY DEF ScriptedInit
<1>7. Kept
  BY <1>1, <1>4, <1>6 DEF Kept, ScriptedInit, Idle, Requested, Scripting
<1>8. \A E : e1 \notin E /\ e2 \notin E => Where(log, Len(log), E) = {} /\ LastIn(log, E) = {}
  BY <1>4, <1>5 DEF Where, LastIn
<1>9. LastPut /\ LastSet /\ LastDeposited /\ LastServed
  <2>1. LastPut
    BY <1>2, <1>6, <1>8, EntriesAreOf DEF LastPut
  <2>2. LastSet
    BY <1>2, <1>8, EntriesAreOf DEF LastSet, ScriptedInit
  <2>3. LastDeposited
    BY <1>2, <1>6, <1>8, EntriesAreOf DEF LastDeposited
  <2>4. LastServed
    BY <1>2, <1>8, EntriesAreOf DEF LastServed, ScriptedInit
  <2> QED
    BY <2>1, <2>2, <2>3, <2>4
<1>10. ScriptInForce
  <2> SUFFICES ASSUME NEW m \in Scripting
               PROVE  /\ Where(log, Len(log), ScriptsOf(m)) # {}
                      /\ outcomes[m].list = log[Forced(log, Len(log), m)].value
                      /\ outcomes[m].next = Cardinality(Since(log, Len(log), m))
    BY DEF ScriptInForce
  <2> DEFINE W == Where(log, Len(log), ScriptsOf(m))
  <2>1. W # {} /\ W \subseteq {1, 2}
    BY <1>2, <1>4, <1>5 DEF Where, ScriptsOf, Scripting
  <2>2. Latest(W) \in {1, 2}
    BY <1>4, <1>5, <2>1, LatestIs
  <2>3. log[Forced(log, Len(log), m)].value = s
    BY <1>2, <1>4, <2>2 DEF Forced
  <2>4. Where(log, Len(log), AnswersOf(m)) = {}
    BY <1>2, <1>8, EntriesAreOf
  <2>5. Cardinality(Since(log, Len(log), m)) = 0
    BY <2>4, FS_EmptySet DEF Since
  <2> QED
    BY <1>1, <2>1, <2>3, <2>5
<1>11. AllInTurn
  BY <1>2, <1>4, <1>5 DEF AllInTurn, InItsTurn
<1> QED
  BY <1>7, <1>9, <1>10, <1>11 DEF SInv

-----------------------------------------------------------------------------
(* What the invariant says of what is answered.                              *)

(* Each answer is the script's in force, in its turn.                       *)
LEMMA AnswersAreWritten == SInv => AnswersAsWritten
<1> SUFFICES ASSUME SInv PROVE AnswersAsWritten
  OBVIOUS
<1>1. log \in Seq(LogEntry) /\ Len(log) \in Nat /\ DOMAIN log = 1..Len(log)
      /\ \A i \in 1..Len(log) : log[i] \in LogEntry
  BY DEF SInv, Kept
<1>2. ASSUME NEW i \in DOMAIN log, log[i].kind = "answer"
      PROVE  LET method == log[i].key[1]
                 IsScript(e) == e.kind = "script" /\ e.key = method
                 IsAnswer(e) == e.kind = "answer" /\ e.key[1] = method
                 from == Latest(Before(i, IsScript))
                 list == log[from].value
                 n == Cardinality(Before(i, IsAnswer) \ 1..from)
             IN log[i].value = list[IF n < Len(list) THEN n ELSE Len(list)]
  <2> DEFINE m == log[i].key[1]
  <2>1. \A j \in 1..i : log[j] \in LogEntry
    BY <1>1
  <2>2. /\ {j \in 1..i : log[j].kind = "script" /\ log[j].key = m} = Where(log, i, ScriptsOf(m))
        /\ {j \in 1..i : log[j].kind = "answer" /\ log[j].key[1] = m} = Where(log, i, AnswersOf(m))
    BY <2>1 DEF Where, ScriptsOf, AnswersOf
  <2>3. InItsTurn(log, i)
    BY <1>1 DEF SInv, AllInTurn
  <2> QED
    BY <1>2, <2>2, <2>3 DEF InItsTurn, Forced, Since, Before
<1>3. ASSUME NEW b \in Bytes
      PROVE  LET IsServed(e) == e.kind = "answer" /\ e.key = <<"execute", b>> /\ Served(e.value)
                 executed == Before(Len(log), IsServed)
             IN answered[b] = IF executed = {} THEN NoAnswer ELSE log[Latest(executed)].value
  <2> DEFINE W == Where(log, Len(log), ServedTo(b))
  <2>1. {j \in 1..Len(log) : log[j].kind = "answer" /\ log[j].key = <<"execute", b>> /\ Served(log[j].value)}
          = W
    BY <1>1 DEF Where, ServedTo
  <2>2. {answered[b]} = IF W = {} THEN {NoAnswer} ELSE {log[Latest(W)].value}
    BY <1>1, LastIs DEF SInv, LastServed
  <2> HIDE DEF W
  <2>3. answered[b] = IF W = {} THEN NoAnswer ELSE log[Latest(W)].value
    BY <2>2
  <2> QED
    BY <2>1, <2>3 DEF Before
<1> QED
  BY <1>2, <1>3 DEF AnswersAsWritten

(* The last of the entries that are something is the last of a set of them.  *)
LEMMA LastOfIs ==
  ASSUME SInv
  PROVE  /\ \A id \in FakeId : PutLast(id) = object(id)
         /\ \A h \in Holder, t \in TypeArg :
              LET IsDeposit(e) == e.kind = "deposit" /\ e.key[1] = h /\ coinOf[e.key[2]] = coinOf[t]
              IN LastOf(IsDeposit) = IF coinOf[t] \in DOMAIN deposits[h]
                                     THEN {deposits[h][coinOf[t]]} ELSE {}
<1>1. log \in Seq(LogEntry) /\ Len(log) \in Nat /\ \A i \in 1..Len(log) : log[i] \in LogEntry
  BY DEF SInv, Kept
<1> DEFINE Said(W) == IF W = {} THEN {} ELSE {log[Latest(W)].value}
<1>2. \A E : LastIn(log, E) = Said(Where(log, Len(log), E))
  BY <1>1, LastIs
<1> HIDE DEF Said
<1>3. ASSUME NEW id \in FakeId PROVE PutLast(id) = object(id)
  <2> DEFINE puts == {j \in 1..Len(log) : log[j].kind = "object" /\ idOf[log[j].key] = idOf[id]}
             clocks == {j \in 1..Len(log) : log[j].kind = "clock"}
             TellsOf(times) == {[owner |-> "shared", type |-> [kind |-> "clock", of |-> t]] : t \in times}
  <2>1. puts = Where(log, Len(log), PutsOf(id)) /\ clocks = Where(log, Len(log), Clocks)
    BY <1>1 DEF Where, PutsOf, Clocks
  <2>2. /\ idOf[id] # Clock => Said(puts) = IF idOf[id] \in DOMAIN objects THEN {objects[idOf[id]]} ELSE {}
        /\ {clock} = IF Said(clocks) = {} THEN {0} ELSE Said(clocks)
    BY <1>2, <2>1 DEF SInv, LastPut, LastSet
  <2>3. PutLast(id) = IF idOf[id] # Clock THEN Said(puts)
                      ELSE TellsOf(IF Said(clocks) = {} THEN {0} ELSE Said(clocks))
    BY DEF PutLast, LastOf, Before, Said
  <2>4. object(id) = IF idOf[id] = Clock THEN TellsOf({clock})
                     ELSE IF idOf[id] \in DOMAIN objects THEN {objects[idOf[id]]} ELSE {}
    BY DEF object, normalized
  <2> QED
    BY <2>2, <2>3, <2>4
<1>4. ASSUME NEW h \in Holder, NEW t \in TypeArg
      PROVE  LET IsDeposit(e) == e.kind = "deposit" /\ e.key[1] = h /\ coinOf[e.key[2]] = coinOf[t]
             IN LastOf(IsDeposit) = IF coinOf[t] \in DOMAIN deposits[h]
                                    THEN {deposits[h][coinOf[t]]} ELSE {}
  <2> DEFINE W == {j \in 1..Len(log) : /\ log[j].kind = "deposit" /\ log[j].key[1] = h
                                       /\ coinOf[log[j].key[2]] = coinOf[t]}
  <2>1. W = Where(log, Len(log), DepositsOf(h, t))
    BY <1>1 DEF Where, DepositsOf
  <2>2. Said(W) = IF coinOf[t] \in DOMAIN deposits[h] THEN {deposits[h][coinOf[t]]} ELSE {}
    BY <1>2, <2>1 DEF SInv, LastDeposited
  <2> QED
    BY <2>2 DEF LastOf, Before, Said
<1> QED
  BY <1>3, <1>4

(* What is read of an object is what was last put.                          *)
LEMMA ObjectsAreRead == SInv => ReadAsPut
<1> SUFFICES ASSUME SInv PROVE ReadAsPut
  OBVIOUS
<1> DEFINE ids == SetToSeq(FakeId)
<1>1. \A i \in DOMAIN ids : ids[i] \in FakeId
  <2>1. PICK f \in [1..Cardinality(FakeId) -> FakeId] : IsInjective(f)
    BY SpellingsAreCounted, FS_CardinalityType
       DEF ExistsBijection, Bijection, Injection, IsInjective
  <2>2. ids \in [1..Cardinality(FakeId) -> FakeId]
    BY <2>1 DEF SetToSeq
  <2> QED
    BY <2>2
<1> HIDE DEF ids
<1>2. getObjects1(ids) = [i \in DOMAIN ids |-> PutLast(ids[i])]
  BY <1>1, LastOfIs DEF getObjects1
<1>3. ASSUME NEW parent \in FakeId, NEW i \in DOMAIN listDynamicFields(parent)
      PROVE  LET fields == listDynamicFields(parent)
                 name == fields[i].name
                 Child(j) == fields[j].name = name /\ fields[j].child # NoChild
             IN /\ (\A j \in 1..(i - 1) : fields[j].name # name) =>
                     getDynamicField(parent, name) = {fields[i]}
                /\ Child(i) /\ (\A j \in 1..(i - 1) : ~Child(j)) =>
                     getDynamicObjectField(parent, name) = PutLast(fields[i].child)
                /\ (\A j \in DOMAIN fields : ~Child(j)) => getDynamicObjectField(parent, name) = {}
  <2> DEFINE fields == listDynamicFields(parent)
             name == fields[i].name
             Named == {k \in DOMAIN fields : fields[k].name = name /\
                         \A j \in 1..(k - 1) : ~(fields[j].name = name)}
             Child(j) == fields[j].name = name /\ fields[j].child # NoChild
             WithChild == {k \in DOMAIN fields : Child(k) /\ \A j \in 1..(k - 1) : ~Child(j)}
  <2>1. fields \in Seq(Field)
    BY ListsAreLists DEF listDynamicFields
  <2>3. /\ getDynamicField(parent, name) = {fields[k] : k \in Named}
        /\ getDynamicObjectField(parent, name) = UNION {object(x.child) : x \in {fields[k] : k \in WithChild}}
    BY DEF getDynamicField, getDynamicObjectField, FirstOf
  <2> HIDE DEF fields
  <2>2. DOMAIN fields = 1..Len(fields) /\ Len(fields) \in Nat
        /\ \A k \in 1..Len(fields) : fields[k].child \in FakeId \cup {NoChild}
    <3>1. \A k \in 1..Len(fields) : fields[k] \in Field
      BY <2>1
    <3> QED
      BY <2>1, <3>1 DEF Field
  <2>4. ASSUME \A j \in 1..(i - 1) : fields[j].name # name
        PROVE  getDynamicField(parent, name) = {fields[i]}
    <3>1. Named = {i}
      <4>1. i \in Named /\ i \in 1..Len(fields)
        BY <2>2, <2>4 DEF fields
      <4>2. ASSUME NEW k \in Named PROVE k = i
        <5>1. k \in 1..Len(fields) /\ fields[k].name = name /\ \A j \in 1..(k - 1) : fields[j].name # name
          BY <2>2, <4>2
        <5>2. ~ (i < k) /\ ~ (k < i)
          BY <2>2, <2>4, <4>1, <5>1
        <5> QED
          BY <2>2, <4>1, <5>1, <5>2
      <4> QED
        BY <4>1, <4>2
    <3> QED
      BY <2>3, <3>1
  <2>5. ASSUME Child(i), \A j \in 1..(i - 1) : ~Child(j)
        PROVE  getDynamicObjectField(parent, name) = PutLast(fields[i].child)
    <3>1. WithChild = {i}
      <4>1. i \in WithChild /\ i \in 1..Len(fields)
        BY <2>2, <2>5 DEF fields
      <4>2. ASSUME NEW k \in WithChild PROVE k = i
        <5>1. k \in 1..Len(fields) /\ Child(k) /\ \A j \in 1..(k - 1) : ~Child(j)
          BY <2>2, <4>2
        <5>2. ~ (i < k) /\ ~ (k < i)
          BY <2>2, <2>5, <4>1, <5>1
        <5> QED
          BY <2>2, <4>1, <5>1, <5>2
      <4> QED
        BY <4>1, <4>2
    <3>2. getDynamicObjectField(parent, name) = object(fields[i].child)
      <4>1. {object(x.child) : x \in {fields[k] : k \in WithChild}} = {object(fields[i].child)}
        BY <3>1
      <4> QED
        BY <2>3, <4>1
    <3>3. fields[i].child \in FakeId
      BY <2>2, <2>5, <3>1
    <3> QED
      BY <3>2, <3>3, LastOfIs
  <2>6. ASSUME \A j \in DOMAIN fields : ~Child(j) PROVE getDynamicObjectField(parent, name) = {}
    <3>1. WithChild = {}
      BY <2>6
    <3> QED
      BY <2>3, <3>1
  <2> QED
    BY <2>4, <2>5, <2>6 DEF fields
<1>4. ASSUME NEW parent \in DOMAIN Fields, NEW id \in FakeId, idOf[parent] = parent,
             idOf[id] = parent
      PROVE  FieldsRead(id, Fields[parent])
  <2>1. listDynamicFields(id) = Fields[parent]
    BY <1>4 DEF listDynamicFields
  <2> QED
    BY <1>3, <2>1 DEF FieldsRead
<1>5. ASSUME NEW id \in FakeId, idOf[id] \notin DOMAIN Fields, NEW name
      PROVE  getDynamicField(id, name) = {} /\ getDynamicObjectField(id, name) = {}
  <2>1. listDynamicFields(id) = <<>> /\ DOMAIN <<>> = {}
    BY <1>5 DEF listDynamicFields
  <2> QED
    BY <2>1 DEF getDynamicField, getDynamicObjectField, FirstOf
<1> QED
  BY <1>2, <1>4, <1>5 DEF ReadAsPut, ids

(* What is read of a holding is all of its coins.                           *)
LEMMA HoldingsAreWhole == SInv => HoldingsAddUp
<1> SUFFICES ASSUME SInv, NEW h \in Holder, NEW t \in TypeArg
             PROVE  LET IsDeposit(e) == e.kind = "deposit" /\ e.key[1] = h /\ coinOf[e.key[2]] = coinOf[t]
                        held == HeldBy(h, t)
                        balance == getBalance(h, t)
                    IN /\ balance.addressBalance = IF LastOf(IsDeposit) = {} THEN 0
                                                   ELSE CHOOSE amount \in LastOf(IsDeposit) : TRUE
                       /\ balance.coinBalance = Cardinality(held)
                       /\ listOwnedObjects(h, [kind |-> "coin", of |-> t]) = held
                       /\ held \subseteq listOwnedObjects(h, [kind |-> "coin", of |-> "any"])
                       /\ balance.addressBalance + balance.coinBalance > 0 => coinOf[t] \in listBalances(h)
  BY DEF HoldingsAddUp
<1> DEFINE balance == getBalance(h, t)
           Deposited == IF coinOf[t] \in DOMAIN deposits[h] THEN {deposits[h][coinOf[t]]} ELSE {}
<1>1. /\ objects \in [DOMAIN objects -> FakeObject]
      /\ DOMAIN objects \subseteq {idOf[f] : f \in FakeId} \ {Clock}
      /\ deposits[h] \in [DOMAIN deposits[h] -> Nat]
  BY DEF SInv, Kept
<1>2. /\ balance.addressBalance = IF coinOf[t] \in DOMAIN deposits[h] THEN deposits[h][coinOf[t]] ELSE 0
      /\ balance.coinBalance = Cardinality(coins(h, t))
  BY DEF getBalance
<1>3. ASSUME NEW id \in DOMAIN objects
      PROVE  /\ id \in FakeId /\ id # Clock /\ idOf[id] = id
             /\ \/ objects[id].type.kind = "coin" /\ objects[id].type.of \in TypeArg
                \/ objects[id].type.kind = "other"
  BY <1>1, SpellingsNormalize DEF FakeObject, CoinType1
<1>4. \A id \in {idOf[f] : f \in FakeId} \ {Clock} :
        PutLast(id) = IF id \in DOMAIN objects THEN {objects[id]} ELSE {}
  <2> TAKE id \in {idOf[f] : f \in FakeId} \ {Clock}
  <2>1. id \in FakeId /\ idOf[id] = id /\ id # Clock
    BY SpellingsNormalize
  <2>2. PutLast(id) = object(id)
    BY <2>1, LastOfIs
  <2> QED
    BY <2>1, <2>2 DEF object, normalized
<1>5. coins(h, t) = {id \in DOMAIN objects : /\ objects[id].owner = h /\ objects[id].type.kind = "coin"
                                             /\ coinOf[objects[id].type.of] = coinOf[t]}
  BY <1>3 DEF coins, owned, coinTypeOf
<1>6. HeldBy(h, t) = coins(h, t)
  BY <1>1, <1>4, <1>5 DEF HeldBy
<1>7. listOwnedObjects(h, [kind |-> "coin", of |-> t]) = coins(h, t)
  BY <1>3, <1>5, SpellingsNormalize DEF listOwnedObjects, owned, AnyType, coinTypeOf
<1>8. coins(h, t) \subseteq listOwnedObjects(h, [kind |-> "coin", of |-> "any"])
  BY <1>5 DEF listOwnedObjects, owned
<1>9. balance.addressBalance + balance.coinBalance > 0 => coinOf[t] \in listBalances(h)
  <2>1. CASE coinOf[t] \in DOMAIN deposits[h]
    BY <2>1 DEF listBalances
  <2>2. CASE coins(h, t) # {}
    <3>1. PICK id \in coins(h, t) : TRUE
      BY <2>2
    <3>2. id \in owned(h) /\ coinOf[t] \in coinTypeOf(objects[id].type)
      BY <3>1 DEF coins
    <3> QED
      BY <3>2 DEF listBalances
  <2>3. CASE coinOf[t] \notin DOMAIN deposits[h] /\ coins(h, t) = {}
    BY <1>2, <2>3, FS_EmptySet
  <2> QED
    BY <2>1, <2>2, <2>3
<1>10. balance.addressBalance = IF Deposited = {} THEN 0 ELSE CHOOSE amount \in Deposited : TRUE
  BY <1>2
<1>11. LET IsDeposit(e) == e.kind = "deposit" /\ e.key[1] = h /\ coinOf[e.key[2]] = coinOf[t]
       IN LastOf(IsDeposit) = Deposited
  BY LastOfIs
<1> HIDE DEF balance, Deposited
<1>12. LET IsDeposit(e) == e.kind = "deposit" /\ e.key[1] = h /\ coinOf[e.key[2]] = coinOf[t]
       IN balance.addressBalance = IF LastOf(IsDeposit) = {} THEN 0
                                   ELSE CHOOSE amount \in LastOf(IsDeposit) : TRUE
  BY <1>10, <1>11
<1> QED
  BY <1>2, <1>6, <1>7, <1>8, <1>9, <1>12 DEF balance

(* A test is answered as it was written: by the script in force, call by     *)
(* call; by what it last put, however it spells it; and what a holder has    *)
(* adds up.                                                                 *)
THEOREM TestsAreServed == ScriptedSpec => []ServesAsWritten
<1>1. ScriptedInit => SInv
  BY SInvInit
<1>2. SInv /\ [Holdings \/ Answering]_scriptedVars => SInv'
  BY SInvNext
<1>3. SInv => ServesAsWritten
  BY AnswersAreWritten, ObjectsAreRead, HoldingsAreWhole DEF ServesAsWritten
<1> QED
  BY <1>1, <1>2, <1>3, PTL DEF ScriptedSpec

-----------------------------------------------------------------------------
(* The receipts of a transaction.                                           *)

(* The events of a type are found one event after the other.                *)
FoundBy(f, T, events, type) ==
  /\ f \in [0..Len(events) -> Seq({e \in T : typeMatches(type, e.type)})]
  /\ f[0] = <<>> /\ f[Len(events)] = ofType(type, events)
  /\ \A n \in 1..Len(events) :
       f[n] = IF typeMatches(type, events[n].type) THEN Append(f[n - 1], events[n]) ELSE f[n - 1]

LEMMA OfTypeGoes ==
  ASSUME NEW T, NEW events, events \in Seq(T), NEW type
  PROVE  \E f : FoundBy(f, T, events, type)
<1> DEFINE N == Len(events)
           M == {e \in T : typeMatches(type, e.type)}
           S == Seq(M)
           next(n, s) == IF typeMatches(type, events[n].type) THEN Append(s, events[n]) ELSE s
           step == [p \in (1..N) \X S |-> next(p[1], p[2])]
           Def(g) == [n \in 0..N |-> IF n = 0 THEN <<>> ELSE next(n, g[n - 1])]
           K == CHOOSE g : g = Def(g)
<1>1. N \in Nat /\ \A n \in 1..N : events[n] \in T
  OBVIOUS
<1>2. ofType(type, events) = K[N]
  BY DEF ofType
<1> HIDE DEF N, K
<1>3. \A n \in 1..N, s \in S : next(n, s) \in S
  <2> TAKE n \in 1..N, s \in S
  <2>1. typeMatches(type, events[n].type) => events[n] \in M
    BY <1>1
  <2> QED
    BY <2>1
<1> HIDE DEF next
<1>4. <<>> \in S
  OBVIOUS
<1> HIDE DEF S
<1>5. step \in [(1..N) \X S -> S] /\ \A n \in 1..N, s \in S : step[<<n, s>>] = next(n, s)
  BY <1>3
<1> HIDE DEF step
<1>6. PICK f : Recurs(f, N, S, <<>>, step)
  BY <1>1, <1>4, <1>5, Recursion
<1>7. f = Def(f)
  <2>1. f \in [0..N -> S] /\ f[0] = <<>>
    BY <1>6 DEF Recurs
  <2>2. \A n \in 0..N : f[n] = IF n = 0 THEN <<>> ELSE next(n, f[n - 1])
    <3> TAKE n \in 0..N
    <3>1. CASE n # 0
      <4>1. n \in 1..N /\ n - 1 \in 0..N
        BY <1>1, <3>1
      <4> QED
        BY <1>5, <1>6, <2>1, <3>1, <4>1 DEF Recurs
    <3> QED
      BY <2>1, <3>1
  <2> QED
    BY <2>1, <2>2
<1>8. K = Def(K)
  BY <1>7 DEF K
<1>9. K[0] = <<>> /\ \A n \in 1..N : K[n] = next(n, K[n - 1])
  <2>1. 0 \in 0..N /\ \A n \in 1..N : n \in 0..N /\ n # 0
    BY <1>1
  <2> QED
    BY <1>8, <2>1
<1> DEFINE U == {n \in 0..N : K[n] \in S}
<1>10. 0 \in U
  BY <1>1, <1>4, <1>9
<1>11. ASSUME NEW n \in 1..N, n - 1 \in U PROVE n \in U
  BY <1>1, <1>3, <1>9, <1>11
<1> HIDE DEF U
<1>12. \A n \in 0..N : n \in U
  BY <1>1, <1>10, <1>11, Induction
<1>13. K \in [0..N -> S]
  <2>1. K = [n \in 0..N |-> IF n = 0 THEN <<>> ELSE next(n, K[n - 1])]
    BY <1>8
  <2>2. \A n \in 0..N : K[n] \in S
    BY <1>12 DEF U
  <2> QED
    BY <2>1, <2>2
<1> QED
  BY <1>2, <1>9, <1>13 DEF S, N, next, FoundBy

(* They are events, and of that type.                                       *)
LEMMA OfTypeIs ==
  ASSUME NEW T, NEW events, events \in Seq(T), NEW type
  PROVE  ofType(type, events) \in Seq({e \in T : typeMatches(type, e.type)})
<1>1. PICK f : FoundBy(f, T, events, type)
  BY OfTypeGoes
<1>2. Len(events) \in 0..Len(events)
  OBVIOUS
<1> QED
  BY <1>1, <1>2 DEF FoundBy

PlacesOf(type, events) == {i \in DOMAIN events : typeMatches(type, events[i].type)}

(* at lists some places, each of them once and in order.                    *)
Lists(at, places) ==
  /\ Cardinality(places) \in Nat
  /\ at \in [1..Cardinality(places) -> places]
  /\ \A k \in DOMAIN at : \A j \in 1..(k - 1) : at[j] < at[k]
  /\ \A i \in places : \E k \in DOMAIN at : at[k] = i

ListedBy(at, type, events) ==
  /\ Lists(at, PlacesOf(type, events))
  /\ ofType(type, events) = [k \in DOMAIN at |-> events[at[k]]]

(* All of them, and in their order.                                         *)
LEMMA OfTypeListed ==
  ASSUME NEW T, NEW events, events \in Seq(T), NEW type
  PROVE  \E at : ListedBy(at, type, events)
<1> DEFINE N == Len(events)
           P(n) == {i \in 1..n : typeMatches(type, events[i].type)}
<1>1. PICK f : /\ f \in [0..N -> Seq({e \in T : typeMatches(type, e.type)})]
               /\ f[0] = <<>> /\ f[N] = ofType(type, events)
               /\ \A n \in 1..N : f[n] = IF typeMatches(type, events[n].type)
                                         THEN Append(f[n - 1], events[n]) ELSE f[n - 1]
  <2>1. PICK f : FoundBy(f, T, events, type)
    BY OfTypeGoes
  <2> QED
    BY <2>1 DEF FoundBy
<1>2. N \in Nat /\ P(N) = PlacesOf(type, events)
  BY DEF PlacesOf
<1> HIDE DEF N
<1> DEFINE U == {n \in 0..N : \E at : /\ Lists(at, P(n)) /\ IsFiniteSet(P(n))
                                      /\ f[n] = [k \in DOMAIN at |-> events[at[k]]]}
<1>3. 0 \in U
  <2>1. P(0) = {}
    OBVIOUS
  <2>2. IsFiniteSet({}) /\ Cardinality({}) = 0
    BY FS_EmptySet
  <2>3. Lists(<<>>, {})
    BY <2>2 DEF Lists
  <2>4. f[0] = [k \in DOMAIN <<>> |-> events[<<>>[k]]]
    BY <1>1
  <2> QED
    BY <1>2, <2>1, <2>2, <2>3, <2>4
<1>4. ASSUME NEW n \in 1..N, n - 1 \in U PROVE n \in U
  <2>1. PICK at : /\ Lists(at, P(n - 1)) /\ IsFiniteSet(P(n - 1))
                  /\ f[n - 1] = [k \in DOMAIN at |-> events[at[k]]]
    BY <1>4
  <2>2. /\ n \in Nat /\ n \in 0..N /\ n \notin P(n - 1) /\ \A i \in P(n - 1) : i \in Nat /\ i < n
        /\ P(n) = IF typeMatches(type, events[n].type) THEN P(n - 1) \cup {n} ELSE P(n - 1)
    BY <1>2
  <2>3. CASE ~typeMatches(type, events[n].type)
    <3>1. P(n) = P(n - 1) /\ f[n] = f[n - 1]
      BY <1>1, <2>2, <2>3
    <3> QED
      BY <2>1, <2>2, <3>1
  <2>4. CASE typeMatches(type, events[n].type)
    <3> DEFINE c == Cardinality(P(n - 1))
               to == [k \in 1..(c + 1) |-> IF k = c + 1 THEN n ELSE at[k]]
               Q == P(n - 1)
    <3>1. P(n) = Q \cup {n} /\ f[n] = Append(f[n - 1], events[n])
      BY <1>1, <2>2, <2>4
    <3>2. /\ c \in Nat /\ at \in [1..c -> Q] /\ DOMAIN at = 1..c
          /\ \A k \in 1..c : \A j \in 1..(k - 1) : at[j] < at[k]
          /\ \A i \in Q : \E k \in 1..c : at[k] = i
      BY <2>1 DEF Lists
    <3>3. IsFiniteSet(Q \cup {n}) /\ Cardinality(Q \cup {n}) = c + 1
      BY <2>1, <2>2, FS_AddElement
    <3>4. n \notin Q /\ \A i \in Q : i \in Nat /\ i < n
      BY <2>2
    <3> HIDE DEF Q, c, P
    <3>5. to \in [1..(c + 1) -> Q \cup {n}] /\ DOMAIN to = 1..(c + 1)
      BY <3>2
    <3>6. \A k \in 1..(c + 1) : \A j \in 1..(k - 1) : to[j] < to[k]
      <4> TAKE k \in 1..(c + 1)
      <4> TAKE j \in 1..(k - 1)
      <4>1. j \in 1..c /\ to[j] = at[j] /\ at[j] \in Q
        BY <3>2
      <4>2. CASE k = c + 1
        BY <3>2, <3>4, <4>1, <4>2
      <4>3. CASE k # c + 1
        BY <3>2, <4>1, <4>3
      <4> QED
        BY <4>2, <4>3
    <3>7. \A i \in Q \cup {n} : \E k \in 1..(c + 1) : to[k] = i
      <4>1. c + 1 \in 1..(c + 1) /\ to[c + 1] = n
        BY <3>2
      <4>2. \A k \in 1..c : k \in 1..(c + 1) /\ to[k] = at[k]
        BY <3>2
      <4> QED
        BY <3>2, <4>1, <4>2
    <3> HIDE DEF to
    <3> DEFINE R == Q \cup {n}
    <3>8. Lists(to, R)
      <4>1. Cardinality(R) = c + 1 /\ c + 1 \in Nat /\ to \in [1..(c + 1) -> R]
        BY <3>2, <3>3, <3>5
      <4>2. \A i \in R : \E k \in 1..(c + 1) : to[k] = i
        BY <3>7
      <4> HIDE DEF R
      <4> QED
        BY <3>5, <3>6, <4>1, <4>2 DEF Lists
    <3>9. f[n] = [k \in DOMAIN to |-> events[to[k]]]
      <4>1. f[n - 1] = [k \in 1..c |-> events[at[k]]]
        BY <2>1, <3>2
      <4>2. Append([k \in 1..c |-> events[at[k]]], events[n]) =
              [k \in 1..(c + 1) |-> IF k = c + 1 THEN events[n] ELSE events[at[k]]]
        BY <3>2
      <4>3. [k \in DOMAIN to |-> events[to[k]]] =
              [k \in 1..(c + 1) |-> IF k = c + 1 THEN events[n] ELSE events[at[k]]]
        BY <3>2, <3>5 DEF to
      <4> QED
        BY <3>1, <4>1, <4>2, <4>3
    <3>10. P(n) = R /\ IsFiniteSet(R)
      BY <3>1, <3>3
    <3> HIDE DEF R
    <3>11. /\ Lists(to, P(n)) /\ IsFiniteSet(P(n))
           /\ f[n] = [k \in DOMAIN to |-> events[to[k]]]
      BY <3>8, <3>9, <3>10
    <3> QED
      BY <2>2, <3>11
  <2> QED
    BY <2>3, <2>4
<1> HIDE DEF U, P
<1>5. \A n \in 0..N : n \in U
  BY <1>2, <1>3, <1>4, Induction
<1>6. N \in U
  BY <1>2, <1>5
<1> QED
  BY <1>1, <1>2, <1>6 DEF U, ListedBy

Absent == Out("absent")
Wrapped == Out("wrapped")
Deleted == Out("deleted")

Known == Thing \cup Package

(* What is somewhere is live, or out of it in one of three ways.             *)
LEMMA PlacesAre ==
  /\ \A place \in Place : Live(place) \/ place \in {Absent, Wrapped, Deleted}
  /\ ~Live(Absent) /\ ~Live(Wrapped) /\ ~Live(Deleted) /\ ~Live(NoOwner) /\ Live(Frozen)
  /\ Absent # Wrapped /\ Absent # Deleted /\ Wrapped # Deleted
  /\ Absent \in Place /\ Frozen \in Place
  /\ \A place \in Begun : /\ place \in Place /\ place # Deleted
                          /\ Live(place) \/ place \in {Absent, Wrapped}
  /\ Live(Owned("AddressOwner", "alice", 0)) /\ Owned("AddressOwner", "alice", 0) \in Place
<1>1. \A place \in Place : Live(place) \/ place \in {Absent, Wrapped, Deleted}
  BY DEF Place, Live, Absent, Wrapped, Deleted
<1>2. ~Live(Absent) /\ ~Live(Wrapped) /\ ~Live(Deleted) /\ ~Live(NoOwner) /\ Live(Frozen)
  BY DEF Live, Owner, Frozen, Out, Owned, NoOwner, Absent, Wrapped, Deleted
<1>3. Absent # Wrapped /\ Absent # Deleted /\ Wrapped # Deleted
  BY DEF Out, Owned, Absent, Wrapped, Deleted
<1>4. Absent \in Place /\ Frozen \in Place
  BY DEF Place, Owner, Frozen, Absent
<1>5. /\ Live(Owned("AddressOwner", "alice", 0))
      /\ Live(Owned("ConsensusAddressOwner", "alice", 1))
  BY DEF Live, Owner
<1>6. \A place : Live(place) => place \in Place
  BY DEF Place, Live
<1>7. Wrapped \in Place
  BY DEF Place, Wrapped
<1>8. \A place \in Begun : \/ place = Owned("AddressOwner", "alice", 0)
                           \/ place = Owned("ConsensusAddressOwner", "alice", 1)
                           \/ place \in {Absent, Wrapped}
  BY DEF Begun, Absent, Wrapped
<1> QED
  BY <1>1, <1>2, <1>3, <1>4, <1>5, <1>6, <1>7, <1>8

(* Where everything is.                                                     *)
Placed ==
  /\ before \in [Known -> Begun] /\ now \in [Known -> Place]
  /\ \A p \in Package : before[p] = Absent /\ now[p] \in {Absent, Frozen}
  /\ commands.touched \subseteq Known /\ IsFiniteSet(commands.touched)
  /\ \A id \in Known : IF id \in commands.touched THEN now[id] # Absent ELSE now[id] = before[id]
  /\ commands.events \in Seq(Event)
  /\ commands = [done |-> commands.done, touched |-> commands.touched,
                 events |-> commands.events, aborted |-> commands.aborted]

(* A package that was published is governed by one cap, and a cap that was   *)
(* created governs one.                                                     *)
Governed ==
  /\ governs \in [Package -> SUBSET Cap]
  /\ \A p \in Package : governs[p] # {} =>
       p \in commands.touched /\ now[p] = Frozen /\ \E cap \in Cap : governs[p] = {cap}
  /\ \A cap \in Cap : before[cap] = Absent /\ cap \in commands.touched =>
       \E p \in Package : governs[p] = {cap}

(* What the caller has in hand was made of the changes.                     *)
MadeOf(left, other) ==
  {partialChange(c, left) : c \in {Change(id) : id \in Reported} \cup other}

Handed ==
  /\ receipt.tag = "ExecutionFailed" => commands.aborted
  /\ receipt.tag = "Executed" =>
       /\ receipt = Executed(receipt, receipt.left)
       /\ receipt.left \subseteq Reducible \cup {"status"}
       /\ "status" \notin receipt.left => ~commands.aborted
       /\ \E other \in {{}, {AccumulatorChange}} : receipt.changes = MadeOf(receipt.left, other)
       /\ receipt.objectTypes = IF "details" \in receipt.left THEN {} ELSE Reported
       /\ receipt.events =
            [i \in DOMAIN commands.events |-> partialEvent(commands.events[i], receipt.left)]

RInv == Placed /\ Governed /\ Handed

(* What is reported has a past and a future.                                *)
LEMMA ReportedIs ==
  ASSUME Placed
  PROVE  /\ \A id \in Reported :
              /\ id \in Known /\ id \in commands.touched
              /\ before[id] \in Begun /\ now[id] \in Place /\ now[id] # Absent
              /\ before[id] = Absent => now[id] # Deleted
              /\ before[id] = Wrapped => now[id] # Wrapped
              /\ id \in Package => before[id] = Absent /\ now[id] = Frozen
         /\ \A id \in Known : now[id] # before[id] => id \in Reported \/ (before[id] = Absent /\ now[id] = Deleted)
         /\ \A id \in commands.touched : Live(before[id]) \/ Live(now[id]) => id \in Reported
         /\ \A id \in Known : before[id] = Absent /\ Live(now[id]) => id \in Reported
<1>1. \A id \in Reported : id \in Known /\ id \in commands.touched
  BY DEF Reported, Placed
<1>2. \A id \in Known : id \in commands.touched =>
        (id \in Reported <=> /\ ~(before[id] = Absent /\ now[id] = Deleted)
                             /\ ~(before[id] = Wrapped /\ now[id] = Wrapped))
  BY DEF Reported, Absent, Wrapped, Deleted
<1> QED
  BY <1>1, <1>2, PlacesAre DEF Placed

(* The fields of a change, in full or reduced.                               *)
LEMMA PartialIs ==
  ASSUME NEW c, NEW id,
         \/ c = Change(id)
         \/ c = AccumulatorChange /\ id = "accumulator",
         NEW left
  PROVE  LET r == partialChange(c, left)
         IN /\ r.id = id
            /\ r.inputState = IF "states" \in left THEN "Unknown" ELSE c.inputState
            /\ r.outputState = IF "states" \in left THEN "Unknown" ELSE c.outputState
            /\ r.inputOwner = IF "details" \in left THEN NoOwner ELSE c.inputOwner
            /\ r.outputOwner = IF "details" \in left THEN NoOwner ELSE c.outputOwner
            /\ r.inputVersion = IF "details" \in left THEN NotSaid ELSE c.inputVersion
            /\ r.outputVersion = IF "details" \in left THEN NotSaid ELSE c.outputVersion
            /\ r.idOperation = IF "idOperation" \in left THEN "Unknown" ELSE c.idOperation
            /\ left = {} => r = c
<1>1. ASSUME NEW a1, NEW a2, NEW a3, NEW a4, NEW a5, NEW a6, NEW a7,
             c = [id |-> id, inputState |-> a1, inputVersion |-> a2, inputOwner |-> a3,
                  outputState |-> a4, outputVersion |-> a5, outputOwner |-> a6, idOperation |-> a7]
      PROVE  LET r == partialChange(c, left)
             IN /\ r.id = id
                /\ r.inputState = IF "states" \in left THEN "Unknown" ELSE c.inputState
                /\ r.outputState = IF "states" \in left THEN "Unknown" ELSE c.outputState
                /\ r.inputOwner = IF "details" \in left THEN NoOwner ELSE c.inputOwner
                /\ r.outputOwner = IF "details" \in left THEN NoOwner ELSE c.outputOwner
                /\ r.inputVersion = IF "details" \in left THEN NotSaid ELSE c.inputVersion
                /\ r.outputVersion = IF "details" \in left THEN NotSaid ELSE c.outputVersion
                /\ r.idOperation = IF "idOperation" \in left THEN "Unknown" ELSE c.idOperation
                /\ left = {} => r = c
  BY <1>1 DEF partialChange
<1>2. CASE c = Change(id)
  BY <1>1, <1>2 DEF Change
<1>3. CASE c = AccumulatorChange /\ id = "accumulator"
  BY <1>1, <1>3 DEF AccumulatorChange
<1> QED
  BY <1>2, <1>3

(* A test scripts what the node reports.                                    *)
LEMMA ScriptedIsReported ==
  ASSUME Placed, Scriptable, NEW id \in Reported
  PROVE  changedObject(id, kindOf(id)) = Change(id)
<1>1. /\ before[id] \in Begun /\ now[id] \in Place /\ now[id] # Absent
      /\ before[id] = Absent => now[id] # Deleted
      /\ id \in Package => before[id] = Absent /\ now[id] = Frozen
      /\ before[id] # Wrapped /\ now[id] # Wrapped
  BY ReportedIs DEF Scriptable, Wrapped
<1>2. /\ Live(before[id]) \/ before[id] = Absent
      /\ Live(now[id]) \/ now[id] = Deleted
      /\ before[id] = Absent => ~Live(before[id]) /\ Live(now[id])
      /\ now[id] = Deleted => ~Live(now[id])
      /\ id \in Package => ~Live(before[id]) /\ Live(now[id])
  BY <1>1, PlacesAre
<1>3. kindOf(id) = IF before[id] = Absent THEN "created"
                   ELSE IF now[id] = Deleted THEN "deleted" ELSE "mutated"
  BY DEF kindOf, Absent, Deleted
<1>4. CASE before[id] = Absent
  BY <1>1, <1>2, <1>3, <1>4 DEF changedObject, Change, Absent, New, Old, NotSaid
<1>5. CASE before[id] # Absent /\ now[id] = Deleted
  BY <1>1, <1>2, <1>3, <1>5 DEF changedObject, Change, Absent, Deleted, New, Old, NotSaid
<1>6. CASE before[id] # Absent /\ now[id] # Deleted
  BY <1>1, <1>2, <1>3, <1>6 DEF changedObject, Change, Absent, Deleted, New, Old, NotSaid
<1> QED
  BY <1>4, <1>5, <1>6

-----------------------------------------------------------------------------
(* What the steps keep.                                                      *)

(* Nothing has happened yet.                                                *)
LEMMA RInvInit == ReceiptsInit => RInv
<1> SUFFICES ASSUME ReceiptsInit PROVE RInv
  OBVIOUS
<1>1. /\ before \in [Known -> Begun] /\ now = before /\ governs = [p \in Package |-> {}]
      /\ commands = [done |-> 0, touched |-> {}, events |-> <<>>, aborted |-> FALSE]
      /\ \A p \in Package : before[p] = Absent
      /\ receipt.tag = "none"
  BY DEF ReceiptsInit, Known, Absent
<1>2. Placed
  BY <1>1, PlacesAre, FS_EmptySet DEF Placed
<1>3. Governed
  BY <1>1 DEF Governed
<1>4. Handed
  BY <1>1 DEF Handed
<1> QED
  BY <1>2, <1>3, <1>4 DEF RInv

(* While the commands run there is no receipt.                              *)
LEMMA RunningKeeps ==
  ASSUME Running, UNCHANGED receipt
  PROVE  Handed'
  BY DEF Running, Handed

(* An object goes somewhere else.                                           *)
LEMMA MovesKeeps ==
  ASSUME RInv, NEW id \in Thing, NEW to \in Place, Moves1(id, to)
  PROVE  RInv'
<1>1. /\ Running /\ UNCHANGED <<before, governs, receipt>>
      /\ now' = [now EXCEPT ![id] = to] /\ to # Absent
      /\ now[id] = Absent => id \notin Cap
      /\ commands' = [commands EXCEPT !.done = @ + 1, !.touched = @ \cup {id}]
  BY DEF Moves1, touches, Absent
<1>2. /\ commands'.touched = commands.touched \cup {id} /\ commands'.events = commands.events
      /\ commands' = [done |-> commands'.done, touched |-> commands'.touched,
                      events |-> commands'.events, aborted |-> commands'.aborted]
  BY <1>1 DEF RInv, Placed
<1>3. id \in Known /\ id \notin Package
  BY PackagesAreNot DEF Known
<1>4. Placed'
  <2>1. IsFiniteSet(commands'.touched)
    BY <1>2, FS_AddElement DEF RInv, Placed
  <2>2. now' \in [Known -> Place] /\ \A x \in Known : now'[x] = IF x = id THEN to ELSE now[x]
    BY <1>1, <1>3 DEF RInv, Placed
  <2>3. \A x \in Known : IF x \in commands'.touched THEN now'[x] # Absent ELSE now'[x] = before'[x]
    BY <1>1, <1>2, <2>2 DEF RInv, Placed
  <2>4. \A p \in Package : p \in Known /\ p # id
    BY <1>3 DEF Known
  <2> QED
    BY <1>1, <1>2, <1>3, <2>1, <2>2, <2>3, <2>4 DEF RInv, Placed
<1>5. Governed'
  <2>1. \A p \in Package : now'[p] = now[p]
    BY <1>1, <1>3 DEF RInv, Placed, Known
  <2>2. ASSUME NEW cap \in Cap, before[cap] = Absent, cap \in commands'.touched
        PROVE  cap \in commands.touched
    <3>1. cap \in Known
      BY CapsAreThings DEF Known
    <3>2. cap \notin commands.touched => now[cap] = Absent
      BY <2>2, <3>1 DEF RInv, Placed
    <3> QED
      BY <1>1, <1>2, <2>2, <3>2
  <2> QED
    BY <1>1, <1>2, <2>1, <2>2 DEF RInv, Governed
<1> QED
  BY <1>1, <1>4, <1>5, RunningKeeps DEF RInv

(* A package is written, under a cap that was made for it or was there.      *)
LEMMA PackageKeeps ==
  ASSUME RInv, Running, UNCHANGED <<before, receipt>>, NEW p \in Package, NEW cap \in Cap,
         now[p] = Absent, governs' = [governs EXCEPT ![p] = {cap}],
         NEW place \in Place, place # Absent, now' = [now EXCEPT ![p] = Frozen, ![cap] = place],
         commands' = [commands EXCEPT !.done = @ + 1, !.touched = @ \cup {p, cap}]
  PROVE  RInv'
<1>1. /\ commands'.touched = commands.touched \cup {p, cap} /\ commands'.events = commands.events
      /\ commands' = [done |-> commands'.done, touched |-> commands'.touched,
                      events |-> commands'.events, aborted |-> commands'.aborted]
  BY DEF RInv, Placed
<1>2. p \in Known /\ cap \in Known /\ cap \notin Package /\ p # cap
  BY PackagesAreNot, CapsAreThings DEF Known
<1>3. /\ now' \in [Known -> Place]
      /\ \A x \in Known : now'[x] = IF x = p THEN Frozen ELSE IF x = cap THEN place ELSE now[x]
  BY <1>2, PlacesAre DEF RInv, Placed
<1>4. Placed'
  <2>1. IsFiniteSet(commands.touched) /\ IsFiniteSet(commands.touched \cup {p})
    BY FS_AddElement DEF RInv, Placed
  <2>2. IsFiniteSet((commands.touched \cup {p}) \cup {cap})
    BY <2>1, FS_AddElement
  <2>3. commands'.touched = (commands.touched \cup {p}) \cup {cap}
    BY <1>1
  <2>4. \A x \in Known : IF x \in commands'.touched THEN now'[x] # Absent ELSE now'[x] = before'[x]
    <3> TAKE x \in Known
    <3>1. Frozen # Absent
      BY PlacesAre
    <3> QED
      BY <1>1, <1>3, <3>1 DEF RInv, Placed
  <2>5. \A x \in Package : before'[x] = Absent /\ now'[x] \in {Absent, Frozen}
    BY <1>2, <1>3 DEF RInv, Placed, Known
  <2>6. commands'.touched \subseteq Known
    BY <1>1, <1>2 DEF RInv, Placed
  <2>7. IsFiniteSet(commands'.touched)
    BY <2>2, <2>3
  <2> QED
    BY <1>1, <1>3, <2>4, <2>5, <2>6, <2>7 DEF RInv, Placed
<1>5. Governed'
  <2>1. governs[p] = {}
    BY PlacesAre DEF RInv, Governed
  <2>2. governs' \in [Package -> SUBSET Cap]
        /\ \A x \in Package : governs'[x] = IF x = p THEN {cap} ELSE governs[x]
    BY DEF RInv, Governed
  <2>3. \A x \in Package : x # p => now'[x] = now[x]
    BY <1>2, <1>3 DEF Known
  <2>4. ASSUME NEW x \in Package, governs'[x] # {}
        PROVE  x \in commands'.touched /\ now'[x] = Frozen /\ \E y \in Cap : governs'[x] = {y}
    <3>1. CASE x = p
      BY <1>1, <1>2, <1>3, <2>2, <3>1
    <3>2. CASE x # p
      BY <1>1, <2>2, <2>3, <2>4, <3>2 DEF RInv, Governed
    <3> QED
      BY <3>1, <3>2
  <2>5. ASSUME NEW y \in Cap, before'[y] = Absent, y \in commands'.touched
        PROVE  \E x \in Package : governs'[x] = {y}
    <3>1. CASE y = cap
      BY <2>2, <3>1
    <3>2. CASE y # cap
      <4>1. y # p
        BY PackagesAreNot, CapsAreThings
      <4>2. PICK x \in Package : governs[x] = {y}
        BY <1>1, <2>5, <3>2, <4>1 DEF RInv, Governed
      <4>3. x # p
        BY <2>1, <4>2
      <4> QED
        BY <2>2, <4>2, <4>3
    <3> QED
      BY <3>1, <3>2
  <2> QED
    BY <2>2, <2>4, <2>5 DEF Governed
<1> QED
  BY <1>4, <1>5, RunningKeeps DEF RInv

(* Publishing a package with its cap, and upgrading one under a cap.        *)
LEMMA PublishesKeeps ==
  ASSUME RInv, NEW p \in Package, NEW cap \in Cap, Publishes(p, cap) \/ Upgrades(p, cap)
  PROVE  RInv'
<1>1. /\ Running /\ now[p] = Absent /\ governs' = [governs EXCEPT ![p] = {cap}]
      /\ UNCHANGED <<before, receipt>>
      /\ commands' = [commands EXCEPT !.done = @ + 1, !.touched = @ \cup {p, cap}]
  BY DEF Publishes, Upgrades, touches, Absent
<1>2. CASE Publishes(p, cap)
  <2>1. now' = [now EXCEPT ![p] = Frozen, ![cap] = Owned("AddressOwner", "alice", 0)]
    BY <1>2 DEF Publishes
  <2> DEFINE place == Owned("AddressOwner", "alice", 0)
  <2>2. place \in Place /\ place # Absent
    BY PlacesAre
  <2> HIDE DEF place
  <2>3. now' = [now EXCEPT ![p] = Frozen, ![cap] = place]
    BY <2>1 DEF place
  <2> QED
    BY <1>1, <2>2, <2>3, PackageKeeps
<1>3. CASE Upgrades(p, cap)
  <2>1. now' = [now EXCEPT ![p] = Frozen] /\ Live(now[cap])
    BY <1>3 DEF Upgrades
  <2>2. cap \in Known /\ p \in Known /\ cap # p
    BY PackagesAreNot, CapsAreThings DEF Known
  <2>3. now[cap] \in Place /\ now[cap] # Absent
    BY <2>1, <2>2, PlacesAre DEF RInv, Placed
  <2>4. now' = [now EXCEPT ![p] = Frozen, ![cap] = now[cap]]
    BY <2>1, <2>2 DEF RInv, Placed
  <2> QED
    BY <1>1, <2>3, <2>4, PackageKeeps
<1> QED
  BY <1>2, <1>3

(* An event is one more.                                                    *)
LEMMA EmitsKeeps ==
  ASSUME RInv, NEW event \in Event, Emits(event)
  PROVE  RInv'
<1>1. /\ Running /\ UNCHANGED <<before, now, governs, receipt>>
      /\ commands' = [commands EXCEPT !.done = @ + 1, !.events = Append(@, event)]
  BY DEF Emits
<1>2. /\ commands'.touched = commands.touched /\ commands'.events = Append(commands.events, event)
      /\ commands' = [done |-> commands'.done, touched |-> commands'.touched,
                      events |-> commands'.events, aborted |-> commands'.aborted]
  BY <1>1 DEF RInv, Placed
<1>3. Append(commands.events, event) \in Seq(Event)
  BY DEF RInv, Placed
<1>4. Placed' /\ Governed'
  BY <1>1, <1>2, <1>3 DEF RInv, Placed, Governed
<1> QED
  BY <1>1, <1>4, RunningKeeps DEF RInv

(* An abort leaves everything where it was.                                 *)
LEMMA AbortsKeeps ==
  ASSUME RInv, Aborts2
  PROVE  RInv'
<1>1. /\ Running /\ UNCHANGED <<before, receipt>> /\ now' = before
      /\ governs' = [p \in Package |-> {}]
      /\ commands' = [done |-> MaxCommands, touched |-> {}, events |-> <<>>, aborted |-> TRUE]
  BY DEF Aborts2
<1>2. Placed'
  BY <1>1, PlacesAre, FS_EmptySet DEF RInv, Placed
<1>3. Governed'
  BY <1>1 DEF Governed
<1> QED
  BY <1>1, <1>2, <1>3, RunningKeeps DEF RInv

(* What is left whole is as it was.                                         *)
LEMMA WholeIs ==
  ASSUME Placed
  PROVE  /\ \A other \in {{}, {AccumulatorChange}} :
              MadeOf({}, other) = {Change(id) : id \in Reported} \cup other
         /\ [i \in DOMAIN commands.events |-> partialEvent(commands.events[i], {})] = commands.events
<1>1. ASSUME NEW other \in {{}, {AccumulatorChange}}
      PROVE  MadeOf({}, other) = {Change(id) : id \in Reported} \cup other
  <2>1. \A id : partialChange(Change(id), {}) = Change(id)
    <3> TAKE id
    <3> DEFINE c == Change(id)
    <3>1. c = Change(id) /\ c = c
      OBVIOUS
    <3> HIDE DEF c
    <3>2. partialChange(c, {}) = c
      BY <3>1, PartialIs
    <3> QED
      BY <3>1, <3>2
  <2>2. partialChange(AccumulatorChange, {}) = AccumulatorChange
    <3> DEFINE c == AccumulatorChange
               none == {}
    <3>1. c = AccumulatorChange /\ none = {}
      OBVIOUS
    <3> HIDE DEF c, none
    <3>2. partialChange(c, none) = c
      BY <3>1, PartialIs
    <3> QED
      BY <3>1, <3>2
  <2>3. \A c \in {Change(id) : id \in Reported} \cup other : partialChange(c, {}) = c
    BY <2>1, <2>2
  <2> QED
    BY <2>3 DEF MadeOf
<1>2. \A event \in Event : partialEvent(event, {}) = event
  BY DEF partialEvent, Event
<1>3. commands.events \in Seq(Event) /\ DOMAIN commands.events = 1..Len(commands.events)
  BY DEF Placed
<1>4. \A i \in DOMAIN commands.events : commands.events[i] \in Event
  BY <1>3
<1>5. commands.events = [i \in DOMAIN commands.events |-> commands.events[i]]
  BY <1>3
<1> QED
  BY <1>1, <1>2, <1>4, <1>5

(* A receipt made of the changes is Handed on.                              *)
LEMMA HandsOn ==
  ASSUME UNCHANGED <<before, now, governs, commands>>,
         NEW left, left \subseteq Reducible \cup {"status"},
         "status" \notin left => ~commands.aborted,
         NEW other \in {{}, {AccumulatorChange}}, NEW digest,
         receipt' = [tag |-> "Executed", digest |-> digest, changes |-> MadeOf(left, other),
                     objectTypes |-> IF "details" \in left THEN {} ELSE Reported,
                     events |-> [i \in DOMAIN commands.events |-> partialEvent(commands.events[i], left)],
                     left |-> left]
  PROVE  Handed'
<1>1. /\ receipt'.left = left /\ receipt'.changes = MadeOf(left, other) /\ receipt'.tag = "Executed"
      /\ receipt'.objectTypes = (IF "details" \in left THEN {} ELSE Reported)
      /\ receipt'.events = [i \in DOMAIN commands.events |-> partialEvent(commands.events[i], left)]
  OBVIOUS
<1>2. receipt' = Executed(receipt', receipt'.left)
  BY DEF Executed
<1>3. Reported' = Reported /\ \A id : Change(id)' = Change(id)
  BY DEF Reported, Change
<1>4. \A x, y : MadeOf(x, y)' = MadeOf(x, y)
  BY <1>3 DEF MadeOf
<1>5. \E o \in {{}, {AccumulatorChange}} : receipt'.changes = MadeOf(receipt'.left, o)
  BY <1>1
<1>6. (\E o \in {{}, {AccumulatorChange}} : receipt.changes = MadeOf(receipt.left, o))'
  BY <1>3, <1>5 DEF MadeOf
<1> QED
  BY <1>1, <1>2, <1>3, <1>6 DEF Handed

(* Whole, as the node reports it or as a test scripts it.                   *)
LEMMA ReadsKeeps ==
  ASSUME RInv, reads
  PROVE  RInv'
<1>1. UNCHANGED <<before, now, governs, commands>>
  BY DEF reads
<1>2. Placed' /\ Governed'
  BY <1>1 DEF RInv, Placed, Governed
<1>3. \/ receipt' = fromTransactionResult(Executes1)
      \/ Scriptable /\ receipt' = fromTransactionResult(transactionResultOf)
  BY DEF reads
<1>4. PICK other \in {{}, {AccumulatorChange}} :
        receipt' = fromTransactionResult(
          [digest |-> "this", success |-> ~commands.aborted,
           changes |-> {Change(id) : id \in Reported} \cup other,
           objectTypes |-> Reported, events |-> commands.events])
  <2>1. CASE receipt' = fromTransactionResult(Executes1)
    BY <2>1 DEF Executes1, Effects
  <2>2. CASE Scriptable /\ receipt' = fromTransactionResult(transactionResultOf)
    <3>1. {changedObject(id, kindOf(id)) : id \in Reported} = {Change(id) : id \in Reported} \cup {}
      BY <2>2, ScriptedIsReported DEF RInv
    <3> QED
      BY <2>2, <3>1 DEF transactionResultOf
  <2> QED
    BY <1>3, <2>1, <2>2
<1>5. CASE commands.aborted
  <2>1. receipt'.tag = "ExecutionFailed"
    BY <1>4, <1>5 DEF fromTransactionResult
  <2> QED
    BY <1>1, <1>2, <1>5, <2>1 DEF Handed, RInv
<1>6. CASE ~commands.aborted
  <2>1. receipt' = [tag |-> "Executed", digest |-> "this",
                    changes |-> {Change(id) : id \in Reported} \cup other,
                    objectTypes |-> Reported, events |-> commands.events, left |-> {}]
    BY <1>4, <1>6 DEF fromTransactionResult, Executed
  <2>2. receipt' = [tag |-> "Executed", digest |-> "this", changes |-> MadeOf({}, other),
                    objectTypes |-> IF "details" \in {} THEN {} ELSE Reported,
                    events |-> [i \in DOMAIN commands.events |-> partialEvent(commands.events[i], {})],
                    left |-> {}]
    BY <2>1, WholeIs DEF RInv
  <2>3. Handed'
    BY <1>1, <1>6, <2>2, HandsOn
  <2> QED
    BY <1>2, <2>3 DEF RInv
<1> QED
  BY <1>5, <1>6

(* A relay leaves out some of what it was handed.                           *)
LEMMA RelayedKeeps ==
  ASSUME RInv, relayed
  PROVE  RInv'
<1>1. UNCHANGED <<before, now, governs, commands>> /\ receipt.tag = "Executed" /\ receipt.left = {}
  BY DEF relayed
<1>2. Placed' /\ Governed'
  BY <1>1 DEF RInv, Placed, Governed
<1>3. PICK left \in Reductions, digest \in Digest \ {"another"} :
        receipt' = fromPartial([receipt EXCEPT !.digest = digest], left)
  BY DEF relayed
<1>4. left \subseteq Reducible /\ "status" \notin left
  BY <1>3 DEF Reductions, Reducible
<1>5. PICK other \in {{}, {AccumulatorChange}} : receipt.changes = MadeOf({}, other)
  BY <1>1 DEF RInv, Handed
<1>6. /\ receipt.changes = {Change(id) : id \in Reported} \cup other
      /\ receipt.objectTypes = Reported /\ receipt.events = commands.events /\ ~commands.aborted
      /\ receipt = [tag |-> "Executed", digest |-> receipt.digest, changes |-> receipt.changes,
                    objectTypes |-> receipt.objectTypes, events |-> receipt.events, left |-> {}]
  BY <1>1, <1>5, WholeIs DEF RInv, Handed, Executed
<1>7. [receipt EXCEPT !.digest = digest] =
        [tag |-> "Executed", digest |-> digest, changes |-> {Change(id) : id \in Reported} \cup other,
         objectTypes |-> Reported, events |-> commands.events, left |-> {}]
  BY <1>6
<1>8. CASE digest = "missing"
  <2>1. receipt'.tag = "DecodeError"
    BY <1>3, <1>7, <1>8 DEF fromPartial
  <2> QED
    BY <1>2, <2>1 DEF Handed, RInv
<1>9. CASE digest # "missing"
  <2>1. receipt' = [tag |-> "Executed", digest |-> digest, changes |-> MadeOf(left, other),
                    objectTypes |-> IF "details" \in left THEN {} ELSE Reported,
                    events |-> [i \in DOMAIN commands.events |-> partialEvent(commands.events[i], left)],
                    left |-> left]
    BY <1>3, <1>7, <1>9 DEF fromPartial, Executed, MadeOf
  <2>2. Handed'
    BY <1>1, <1>4, <1>6, <2>1, HandsOn
  <2> QED
    BY <1>2, <2>2 DEF RInv
<1> QED
  BY <1>8, <1>9

(* Of a reply only what is of these bytes is taken.                         *)
LEMMA RepliedKeeps ==
  ASSUME RInv, replied
  PROVE  RInv'
<1>1. UNCHANGED <<before, now, governs, commands>>
  BY DEF replied
<1>2. Placed' /\ Governed'
  BY <1>1 DEF RInv, Placed, Governed
<1>3. PICK reply \in Reply : receipt' = executedOfReply(reply)
  BY DEF replied
<1>4. SUFFICES Handed'
  BY <1>2 DEF RInv
<1>5. CASE receipt' = AsksTheChain
  BY <1>5 DEF AsksTheChain, Handed
<1>6. CASE reply.shape = "result" /\ reply.of = Executes1
  <2>1. receipt' = aboutThese(fromTransactionResult(Executes1))
    BY <1>3, <1>6 DEF executedOfReply
  <2>2. CASE commands.aborted
    <3>1. receipt'.tag = "ExecutionFailed"
      BY <2>1, <2>2 DEF aboutThese, fromTransactionResult, Executes1
    <3> QED
      BY <1>1, <2>2, <3>1 DEF Handed
  <2>3. CASE ~commands.aborted
    <3>1. receipt' = [tag |-> "Executed", digest |-> "this",
                      changes |-> {Change(id) : id \in Reported} \cup {AccumulatorChange},
                      objectTypes |-> Reported, events |-> commands.events, left |-> {}]
      BY <2>1, <2>3 DEF aboutThese, fromTransactionResult, Executes1, Effects, Executed
    <3>2. receipt' = [tag |-> "Executed", digest |-> "this", changes |-> MadeOf({}, {AccumulatorChange}),
                      objectTypes |-> IF "details" \in {} THEN {} ELSE Reported,
                      events |-> [i \in DOMAIN commands.events |-> partialEvent(commands.events[i], {})],
                      left |-> {}]
      BY <3>1, WholeIs DEF RInv
    <3> QED
      BY <1>1, <2>3, <3>2, HandsOn
  <2> QED
    BY <2>2, <2>3
<1>7. CASE /\ reply.shape = "envelope" /\ reply.of = Executes1
           /\ "status" \in reply.left \/ reply.of.success
  <2> DEFINE left == reply.left
  <2>1. left \in {{"status"}, Reducible}
    BY <1>3, <1>7 DEF Reply
  <2>2. receipt' = aboutThese(fromPartial(Executes1, left))
    BY <1>3, <1>7 DEF executedOfReply
  <2>3. left \subseteq Reducible \cup {"status"} /\ ("status" \notin left => ~commands.aborted)
    <3>1. Executes1.success => ~commands.aborted
      BY DEF Executes1
    <3>2. "status" \notin left => ~commands.aborted
      BY <1>7, <3>1
    <3> QED
      BY <2>1, <3>2
  <2> HIDE DEF left
  <2>4. fromPartial(Executes1, left) =
          [tag |-> "Executed", digest |-> "this", changes |-> MadeOf(left, {AccumulatorChange}),
           objectTypes |-> IF "details" \in left THEN {} ELSE Reported,
           events |-> [i \in DOMAIN commands.events |-> partialEvent(commands.events[i], left)],
           left |-> left]
    BY DEF fromPartial, Executes1, Effects, Executed, MadeOf
  <2>5. receipt' = fromPartial(Executes1, left)
    BY <2>2, <2>4 DEF aboutThese
  <2> QED
    BY <1>1, <2>3, <2>4, <2>5, HandsOn
<1>8. ASSUME NEW d \in {"another", "missing"}, NEW b \in BOOLEAN, reply.of = AnotherResult(d, b),
             reply.shape \in {"result", "envelope"}
      PROVE  receipt' = AsksTheChain
  <2>1. aboutThese(fromTransactionResult(AnotherResult(d, b))) = AsksTheChain
    BY DEF aboutThese, fromTransactionResult, AnotherResult, Executed
  <2>2. aboutThese(fromPartial(AnotherResult(d, b), reply.left)) = AsksTheChain
    BY DEF aboutThese, fromPartial, AnotherResult, Executed
  <2> QED
    BY <1>3, <1>8, <2>1, <2>2 DEF executedOfReply
<1>9. CASE reply.shape \notin {"result", "envelope"}
  <2>1. receipt' = AsksTheChain
    BY <1>3, <1>9 DEF executedOfReply
  <2> QED
    BY <1>5, <2>1
<1>10. CASE reply.shape = "envelope" /\ ~("status" \in reply.left \/ reply.of.success)
  <2>1. receipt' = AsksTheChain
    BY <1>3, <1>10 DEF executedOfReply
  <2> QED
    BY <1>5, <2>1
<1>11. reply.shape \in {"result", "envelope"} =>
         \/ reply.of = Executes1
         \/ \E d \in {"another", "missing"}, b \in BOOLEAN : reply.of = AnotherResult(d, b)
  BY <1>3 DEF Reply
<1> QED
  BY <1>5, <1>6, <1>7, <1>8, <1>9, <1>10, <1>11

(* The invariant is inductive.                                              *)
LEMMA RInvNext == RInv /\ [ReceiptsNext]_receiptVars => RInv'
<1> SUFFICES ASSUME RInv, [ReceiptsNext]_receiptVars PROVE RInv'
  OBVIOUS
<1>1. CASE UNCHANGED receiptVars
  <2>1. UNCHANGED <<before, now, governs, commands, receipt>>
    BY <1>1 DEF receiptVars
  <2>2. Placed' /\ Governed'
    BY <2>1 DEF RInv, Placed, Governed
  <2>3. Reported' = Reported /\ \A id : Change(id)' = Change(id)
    BY <2>1 DEF Reported, Change
  <2>4. CASE receipt.tag = "Executed"
    <3>1. PICK other \in {{}, {AccumulatorChange}} : receipt.changes = MadeOf(receipt.left, other)
      BY <2>4 DEF RInv, Handed
    <3>2. (\E o \in {{}, {AccumulatorChange}} : receipt.changes = MadeOf(receipt.left, o))'
      BY <2>1, <2>3, <3>1 DEF MadeOf
    <3>3. Executed(receipt, receipt.left)' = Executed(receipt, receipt.left)
      BY <2>1
    <3> QED
      BY <2>1, <2>2, <2>3, <2>4, <3>2, <3>3 DEF RInv, Handed
  <2>5. CASE receipt.tag # "Executed"
    BY <2>1, <2>2, <2>5 DEF RInv, Handed
  <2> QED
    BY <2>4, <2>5
<1> QED
  BY <1>1, MovesKeeps, PublishesKeeps, EmitsKeeps, AbortsKeeps, ReadsKeeps, RelayedKeeps, RepliedKeeps
     DEF ReceiptsNext

-----------------------------------------------------------------------------
(* A full answer tells the transaction.                                      *)

(* Which accessors a change belongs to.                                      *)
LEMMA ChangeIs ==
  ASSUME Placed, NEW id \in Reported
  PROVE  /\ Change(id).id = id /\ Change(id).outputState # "AccumulatorWriteV1"
         /\ (Change(id).idOperation = "Created" /\ wroteAnObject(Change(id))) <=>
              (id \in Thing /\ before[id] = Absent /\ Live(now[id]))
         /\ (/\ Change(id).idOperation = "None" /\ wroteAnObject(Change(id))
             /\ Change(id).inputState \in {"Exists", "Unknown"}) <=>
              (id \in Thing /\ Live(before[id]) /\ Live(now[id]))
         /\ (Change(id).idOperation = "Deleted" \/ isWrapped(Change(id))) <=>
              (id \in Thing /\ \/ Live(before[id]) /\ ~Live(now[id])
                               \/ before[id] = Wrapped /\ now[id] = Deleted)
         /\ isWrapped(Change(id)) <=> (id \in Thing /\ Live(before[id]) /\ now[id] = Wrapped)
         /\ isTransferred(Change(id)) <=>
              (id \in Thing /\ Live(before[id]) /\ Live(now[id]) /\ ~AlikeOwner(before[id], now[id]))
         /\ (Change(id).outputState = "PackageWrite" /\ Change(id).idOperation = "Created") <=>
              id \in Package
<1> DEFINE c == Change(id)
           b == before[id]
           n == now[id]
<1>1. /\ c.id = id
      /\ c.inputState = IF Live(b) THEN "Exists" ELSE "DoesNotExist"
      /\ c.inputOwner = IF Live(b) THEN b ELSE NoOwner
      /\ c.outputState = IF ~Live(n) THEN "DoesNotExist"
                         ELSE IF id \in Package THEN "PackageWrite" ELSE "ObjectWrite"
      /\ c.outputOwner = IF Live(n) THEN n ELSE NoOwner
      /\ c.idOperation = IF b = Absent THEN "Created" ELSE IF n = Deleted THEN "Deleted" ELSE "None"
  BY DEF Change, Absent, Deleted
<1>2. /\ id \in Thing \/ id \in Package
      /\ id \in Thing => id \notin Package
      /\ Live(b) \/ b \in {Absent, Wrapped}
      /\ Live(n) \/ n \in {Wrapped, Deleted}
      /\ b = Absent => n # Deleted
      /\ b = Wrapped => n # Wrapped
      /\ id \in Package => b = Absent /\ n = Frozen
  BY ReportedIs, PlacesAre, PackagesAreNot DEF Known
<1>3. /\ ~Live(Absent) /\ ~Live(Wrapped) /\ ~Live(Deleted) /\ ~Live(NoOwner) /\ Live(Frozen)
      /\ Absent # Wrapped /\ Absent # Deleted /\ Wrapped # Deleted
  BY PlacesAre
<1>4. ownerKey(b) # ownerKey(n) <=> ~AlikeOwner(b, n)
  BY DEF ownerKey, AlikeOwner
<1> HIDE DEF c, b, n
<1>5. c.id = id /\ c.outputState # "AccumulatorWriteV1"
  BY <1>1
<1>6. (c.idOperation = "Created" /\ wroteAnObject(c)) <=> (id \in Thing /\ b = Absent /\ Live(n))
  BY <1>1, <1>2, <1>3 DEF wroteAnObject
<1>7. (/\ c.idOperation = "None" /\ wroteAnObject(c)
       /\ c.inputState \in {"Exists", "Unknown"}) <=> (id \in Thing /\ Live(b) /\ Live(n))
  BY <1>1, <1>2, <1>3 DEF wroteAnObject
<1>8. isWrapped(c) <=> (id \in Thing /\ Live(b) /\ n = Wrapped)
  BY <1>1, <1>2, <1>3 DEF isWrapped
<1>9. (c.idOperation = "Deleted" \/ isWrapped(c)) <=>
        (id \in Thing /\ ((Live(b) /\ ~Live(n)) \/ (b = Wrapped /\ n = Deleted)))
  BY <1>1, <1>2, <1>3, <1>8
<1>10. isTransferred(c) <=> (id \in Thing /\ Live(b) /\ Live(n) /\ ~AlikeOwner(b, n))
  <2>1. CASE id \in Thing /\ Live(b) /\ Live(n)
    <3>1. /\ c.inputOwner = b /\ c.outputOwner = n /\ c.inputState = "Exists"
          /\ c.idOperation = "None" /\ wroteAnObject(c)
      BY <1>1, <1>2, <1>3, <2>1 DEF wroteAnObject
    <3>2. b # NoOwner /\ n # NoOwner
      BY <1>3, <2>1
    <3> QED
      BY <1>4, <2>1, <3>1, <3>2 DEF isTransferred
  <2>2. CASE ~(id \in Thing /\ Live(b) /\ Live(n))
    BY <1>1, <1>2, <1>3, <2>2 DEF isTransferred, wroteAnObject
  <2> QED
    BY <2>1, <2>2
<1>11. (c.outputState = "PackageWrite" /\ c.idOperation = "Created") <=> id \in Package
  BY <1>1, <1>2, <1>3
<1> QED
  BY <1>5, <1>6, <1>7, <1>8, <1>9, <1>10, <1>11 DEF c, b, n

(* The entry of an address balance belongs to none.                          *)
LEMMA AccumulatorIs ==
  LET a == AccumulatorChange
  IN /\ ~wroteAnObject(a) /\ ~isWrapped(a) /\ ~isTransferred(a)
     /\ a.idOperation = "None" /\ a.outputState = "AccumulatorWriteV1"
  BY DEF AccumulatorChange, wroteAnObject, isWrapped, isTransferred

(* What a full receipt holds.                                                *)
Full == receipt.tag = "Executed" /\ receipt.left = {}

(* It is the changes, the types and the events of the transaction.          *)
LEMMA FullIs ==
  ASSUME RInv, Full
  PROVE  /\ \E other \in {{}, {AccumulatorChange}} :
              receipt.changes = {Change(id) : id \in Reported} \cup other
         /\ receipt.objectTypes = Reported /\ receipt.events = commands.events
<1>1. PICK other \in {{}, {AccumulatorChange}} : receipt.changes = MadeOf({}, other)
  BY DEF RInv, Handed, Full
<1>2. receipt.changes = {Change(id) : id \in Reported} \cup other
  BY <1>1, WholeIs DEF RInv
<1>3. receipt.objectTypes = Reported /\ receipt.events = commands.events
  BY WholeIs DEF RInv, Handed, Full
<1> QED
  BY <1>2, <1>3

(* As the changes of some objects are read.                                  *)
LEMMA SelectIs ==
  ASSUME RInv, Full, NEW ids \in SUBSET Reported
  PROVE  /\ (\A id \in ids : Live(now[id])) =>
              select({Change(id) : id \in ids}, "output") = {RefNow(id) : id \in ids}
         /\ select({Change(id) : id \in ids}, "input") = {RefBefore(id) : id \in ids}
<1> DEFINE S == {Change(id) : id \in ids}
<1>1. {d \in S : d.outputState # "AccumulatorWriteV1"} = S
  BY ChangeIs DEF RInv
<1>2. \A side : select(S, side) = {refOf(c, side) : c \in S}
  BY <1>1 DEF select
<1>3. ASSUME NEW id \in ids
      PROVE  /\ refOf(Change(id), "input") = RefBefore(id)
             /\ Live(now[id]) => refOf(Change(id), "output") = RefNow(id)
  <2>1. typeOf(id) = typeNameOf[id]
    BY FullIs DEF typeOf
  <2>2. /\ Change(id).id = id
        /\ Change(id).inputVersion = IF Live(before[id]) THEN Old ELSE NotSaid
        /\ Change(id).inputOwner = IF Live(before[id]) THEN before[id] ELSE NoOwner
        /\ Change(id).outputVersion = IF Live(now[id]) THEN New ELSE NotSaid
        /\ Change(id).outputOwner = IF Live(now[id]) THEN now[id] ELSE NoOwner
    BY DEF Change
  <2> QED
    BY <2>1, <2>2 DEF refOf, RefBefore, RefNow
<1>4. select(S, "input") = {RefBefore(id) : id \in ids}
  BY <1>2, <1>3
<1>5. (\A id \in ids : Live(now[id])) => select(S, "output") = {RefNow(id) : id \in ids}
  BY <1>2, <1>3
<1> QED
  BY <1>4, <1>5

Fresh == {i \in Thing : before[i] = Absent /\ Live(now[i])}

Away == {i \in Thing : \/ Live(before[i]) /\ ~Live(now[i])
                       \/ before[i] = Wrapped /\ now[i] = Deleted}

Inside == {i \in Thing : Live(before[i]) /\ now[i] = Wrapped}

Moved == {i \in Changed : ~AlikeOwner(before[i], now[i])}

Written == {p \in Package : p \in Reported}

(* What happened to an object was reported.                                  *)
LEMMA HappenedIs ==
  ASSUME RInv
  PROVE  /\ Fresh \in SUBSET Reported /\ Away \in SUBSET Reported /\ Inside \in SUBSET Reported
         /\ Changed \in SUBSET Reported /\ Moved \in SUBSET Reported
         /\ Written \in SUBSET Reported
         /\ \A i \in Fresh \cup Changed \cup Moved \cup Written : Live(now[i])
         /\ \A id \in Reported :
              /\ id \in Changed <=> (id \in Thing /\ Live(before[id]) /\ Live(now[id]))
              /\ id \in Moved <=> (/\ id \in Thing /\ Live(before[id]) /\ Live(now[id])
                                   /\ ~AlikeOwner(before[id], now[id]))
<1>1. /\ \A id \in Known : now[id] # before[id] =>
              id \in Reported \/ (before[id] = Absent /\ now[id] = Deleted)
      /\ \A id \in commands.touched : Live(before[id]) \/ Live(now[id]) => id \in Reported
      /\ \A id \in Known : before[id] = Absent /\ Live(now[id]) => id \in Reported
      /\ \A id \in Reported : id \in commands.touched
  BY ReportedIs DEF RInv
<1>2. \A id \in Thing : id \in Known
  BY DEF Known
<1>3. Fresh \in SUBSET Reported /\ \A i \in Fresh : Live(now[i])
  BY <1>1, <1>2 DEF Fresh
<1>4. Changed \in SUBSET Reported /\ \A i \in Changed : Live(now[i])
  BY <1>1 DEF Changed
<1>5. Away \in SUBSET Reported
  <2>1. ASSUME NEW i \in Away
        PROVE  i \in Thing /\ now[i] # before[i] /\ before[i] # Absent
    BY PlacesAre DEF Away
  <2> QED
    BY <1>1, <1>2, <2>1
<1>6. Inside \in SUBSET Reported
  <2>1. ASSUME NEW i \in Inside
        PROVE  i \in Thing /\ now[i] # before[i] /\ before[i] # Absent
    BY PlacesAre DEF Inside
  <2> QED
    BY <1>1, <1>2, <2>1
<1>7. \A id \in Reported : id \in Changed <=> (id \in Thing /\ Live(before[id]) /\ Live(now[id]))
  BY <1>1 DEF Changed
<1>8. Written \in SUBSET Reported /\ \A p \in Written : Live(now[p])
  BY ReportedIs, PlacesAre DEF Written, RInv
<1> QED
  BY <1>3, <1>4, <1>5, <1>6, <1>7, <1>8 DEF Moved

(* Each accessor lists those with its history.                               *)
LEMMA ListsAre ==
  ASSUME RInv, Full
  PROVE  /\ created = {RefNow(id) : id \in Fresh}
         /\ mutated = {RefNow(id) : id \in Changed}
         /\ transferred = {RefNow(id) : id \in Moved}
         /\ deleted = {RefBefore(id) : id \in Away}
         /\ wrapped = {RefBefore(id) : id \in Inside}
         /\ packagesPublished = {RefNow(id) : id \in Written}
<1>1. PICK other \in {{}, {AccumulatorChange}} :
        receipt.changes = {Change(id) : id \in Reported} \cup other
  BY FullIs
<1>2. \A c \in other : /\ ~wroteAnObject(c) /\ ~isWrapped(c) /\ ~isTransferred(c)
                       /\ c.idOperation = "None" /\ c.outputState = "AccumulatorWriteV1"
  BY AccumulatorIs
<1>3. created = {RefNow(id) : id \in Fresh}
  <2> DEFINE S == {c \in receipt.changes : c.idOperation = "Created" /\ wroteAnObject(c)}
  <2>1. \A id \in Reported :
          (Change(id).idOperation = "Created" /\ wroteAnObject(Change(id))) <=> id \in Fresh
    BY ChangeIs DEF Fresh, RInv
  <2>2. S = {Change(id) : id \in Fresh}
    BY <1>1, <1>2, <2>1, HappenedIs
  <2> HIDE DEF S
  <2>3. created = select(S, "output")
    BY DEF created, S
  <2> QED
    BY <2>2, <2>3, HappenedIs, SelectIs
<1>4. mutated = {RefNow(id) : id \in Changed}
  <2> DEFINE S == {c \in receipt.changes : /\ c.idOperation = "None" /\ wroteAnObject(c)
                                           /\ c.inputState \in {"Exists", "Unknown"}}
  <2>1. \A id \in Reported :
          (/\ Change(id).idOperation = "None" /\ wroteAnObject(Change(id))
           /\ Change(id).inputState \in {"Exists", "Unknown"}) <=> id \in Changed
    BY ChangeIs, HappenedIs DEF RInv
  <2>2. S = {Change(id) : id \in Changed}
    BY <1>1, <1>2, <2>1, HappenedIs
  <2> HIDE DEF S
  <2>3. mutated = select(S, "output")
    BY DEF mutated, S
  <2> QED
    BY <2>2, <2>3, HappenedIs, SelectIs
<1>5. transferred = {RefNow(id) : id \in Moved}
  <2> DEFINE S == {c \in receipt.changes : isTransferred(c)}
  <2>1. \A id \in Reported : isTransferred(Change(id)) <=> id \in Moved
    BY ChangeIs, HappenedIs DEF RInv
  <2>2. S = {Change(id) : id \in Moved}
    BY <1>1, <1>2, <2>1, HappenedIs
  <2> HIDE DEF S
  <2>3. transferred = select(S, "output")
    BY DEF transferred, S
  <2> QED
    BY <2>2, <2>3, HappenedIs, SelectIs
<1>6. deleted = {RefBefore(id) : id \in Away}
  <2> DEFINE S == {c \in receipt.changes : c.idOperation = "Deleted" \/ isWrapped(c)}
  <2>1. \A id \in Reported :
          (Change(id).idOperation = "Deleted" \/ isWrapped(Change(id))) <=> id \in Away
    BY ChangeIs DEF Away, RInv
  <2>2. S = {Change(id) : id \in Away}
    BY <1>1, <1>2, <2>1, HappenedIs
  <2> HIDE DEF S
  <2>3. deleted = select(S, "input")
    BY DEF deleted, S
  <2> QED
    BY <2>2, <2>3, HappenedIs, SelectIs
<1>7. wrapped = {RefBefore(id) : id \in Inside}
  <2> DEFINE S == {c \in receipt.changes : isWrapped(c)}
  <2>1. \A id \in Reported : isWrapped(Change(id)) <=> id \in Inside
    BY ChangeIs DEF Inside, RInv
  <2>2. S = {Change(id) : id \in Inside}
    BY <1>1, <1>2, <2>1, HappenedIs
  <2> HIDE DEF S
  <2>3. wrapped = select(S, "input")
    BY DEF wrapped, S
  <2> QED
    BY <2>2, <2>3, HappenedIs, SelectIs
<1>8. packagesPublished = {RefNow(id) : id \in Written}
  <2> DEFINE S == {c \in receipt.changes : c.outputState = "PackageWrite" /\ c.idOperation = "Created"}
  <2>1. \A id \in Reported :
          (Change(id).outputState = "PackageWrite" /\ Change(id).idOperation = "Created") <=> id \in Written
    BY ChangeIs DEF Written, RInv
  <2>2. S = {Change(id) : id \in Written}
    BY <1>1, <1>2, <2>1, HappenedIs
  <2> HIDE DEF S
  <2>3. packagesPublished = select(S, "output")
    BY DEF packagesPublished, S
  <2> QED
    BY <2>2, <2>3, HappenedIs, SelectIs
<1> QED
  BY <1>3, <1>4, <1>5, <1>6, <1>7, <1>8

(* There is one of them as there is one object.                              *)
LEMMA OneIs ==
  ASSUME RInv, NEW ids \in SUBSET Reported
  PROVE  /\ Cardinality({RefNow(id) : id \in ids}) = 1 <=> \E id \in ids : ids = {id}
         /\ Cardinality(ids) = 1 <=> \E id \in ids : ids = {id}
<1> DEFINE refs == {RefNow(id) : id \in ids}
           f == [id \in ids |-> RefNow(id)]
<1>1. IsFiniteSet(ids)
  <2>1. ids \in SUBSET commands.touched
    BY DEF Reported
  <2> QED
    BY <2>1, FS_Subset DEF RInv, Placed
<1>2. IsFiniteSet(refs)
  <2>1. f \in Surjection(ids, refs)
    BY DEF Surjection
  <2> HIDE DEF f, refs
  <2> QED
    BY <1>1, <2>1, FS_Surjection
<1>3. \A id : RefNow(id).id = id
  BY DEF RefNow
<1>4. (\E x : refs = {x}) <=> \E id \in ids : ids = {id}
  <2>1. ASSUME NEW x, refs = {x} PROVE \E id \in ids : ids = {id}
    <3>1. PICK id \in ids : x = RefNow(id)
      BY <2>1
    <3>2. \A i \in ids : RefNow(i) = RefNow(id)
      BY <2>1, <3>1
    <3>3. \A i \in ids : i = id
      BY <1>3, <3>2
    <3> QED
      BY <3>3
  <2>2. ASSUME NEW id \in ids, ids = {id} PROVE refs = {RefNow(id)}
    BY <2>2
  <2> HIDE DEF refs
  <2> QED
    BY <2>1, <2>2
<1> HIDE DEF refs
<1>5. Cardinality(refs) = 1 <=> \E id \in ids : ids = {id}
  BY <1>2, <1>4, FS_Singleton
<1>6. Cardinality(ids) = 1 <=> \E id \in ids : ids = {id}
  <2>1. (\E x : ids = {x}) <=> \E id \in ids : ids = {id}
    OBVIOUS
  <2> QED
    BY <1>1, <2>1, FS_Singleton
<1> QED
  BY <1>5, <1>6 DEF refs

(* The only one created of a type, if there is only one.                    *)
LEMMA ExpectsTheCreated ==
  ASSUME RInv, Full, NEW type
  PROVE  LET made == {i \in Thing : before[i] = Absent /\ Live(now[i])
                                     /\ typeMatches(type, typeNameOf[i])}
         IN expectCreated(type) = IF Cardinality(made) = 1 THEN {RefNow(i) : i \in made} ELSE {}
<1> DEFINE made == {i \in Thing : before[i] = Absent /\ Live(now[i])
                                   /\ typeMatches(type, typeNameOf[i])}
           found == byType(created, type)
<1>1. \A i : RefNow(i).type = typeNameOf[i]
  BY DEF RefNow
<1>2. found = {RefNow(i) : i \in made}
  <2>1. created = {RefNow(i) : i \in Fresh}
    BY ListsAre
  <2>2. made = {i \in Fresh : typeMatches(type, typeNameOf[i])}
    BY DEF Fresh
  <2> HIDE DEF made
  <2> QED
    BY <1>1, <2>1, <2>2 DEF byType
<1>3. made \in SUBSET Reported
  BY HappenedIs DEF Fresh
<1>4. expectCreated(type) = IF Cardinality(found) = 1 THEN found ELSE {}
  BY DEF expectCreated
<1> HIDE DEF made, found
<1>5. Cardinality(found) = 1 <=> Cardinality(made) = 1
  <2>1. /\ Cardinality({RefNow(i) : i \in made}) = 1 <=> \E i \in made : made = {i}
        /\ Cardinality(made) = 1 <=> \E i \in made : made = {i}
    BY <1>3, OneIs
  <2> QED
    BY <1>2, <2>1
<1> QED
  BY <1>2, <1>4, <1>5 DEF made

(* Caps are told by their type.                                              *)
LEMMA CapsAreTold ==
  \A id \in Thing : typeMatches(<<"UpgradeCap">>, typeNameOf[id]) <=> id \in Cap
<1> TAKE id \in Thing
<1>1. id \notin Package
  BY PackagesAreNot
<1>2. typeNameOf[id] = IF id \in Cap THEN <<"UpgradeCap">>
                       ELSE IF id = Generic THEN <<"T", "SUI">> ELSE <<"T", "USDC">>
  BY <1>1 DEF typeNameOf
<1>3. /\ Len(<<"UpgradeCap">>) = 1 /\ Head(<<"UpgradeCap">>) = "UpgradeCap"
      /\ <<"UpgradeCap">> # Untyped
      /\ Head(<<"T", "SUI">>) = "T" /\ Head(<<"T", "USDC">>) = "T"
  BY DEF Untyped
<1> QED
  BY <1>2, <1>3 DEF typeMatches

(* The cap of a package is the one that was made for it or that it was       *)
(* upgraded under.                                                           *)
LEMMA ExpectsThePublished ==
  ASSUME RInv, Full, NEW pair \in expectPublished, NEW cap \in governs[pair[1]],
         cap \in Ids(created \cup mutated)
  PROVE  pair[2] = cap
<1> DEFINE createdCaps == {i \in Fresh : i \in Cap}
           mutatedCaps == {i \in Changed : i \in Cap}
           type == <<"UpgradeCap">>
<1>1. \A i : RefNow(i).type = typeNameOf[i] /\ RefNow(i).id = i
  BY DEF RefNow
<1>2. /\ byType(created, type) = {RefNow(i) : i \in createdCaps}
      /\ byType(mutated, type) = {RefNow(i) : i \in mutatedCaps}
  <2>1. \A i \in Fresh \cup Changed : typeMatches(type, typeNameOf[i]) <=> i \in Cap
    BY CapsAreTold DEF Fresh, Changed
  <2>2. created = {RefNow(i) : i \in Fresh} /\ mutated = {RefNow(i) : i \in Changed}
    BY ListsAre
  <2> QED
    BY <1>1, <2>1, <2>2 DEF byType
<1>3. capsSeen = IF byType(created, type) # {} THEN byType(created, type) ELSE byType(mutated, type)
  BY DEF capsSeen
<1> HIDE DEF type
<1>4. PICK caps \in SUBSET Reported :
        /\ caps = IF createdCaps # {} THEN createdCaps ELSE mutatedCaps
        /\ capsSeen = {RefNow(i) : i \in caps}
  <2>1. createdCaps \in SUBSET Reported /\ mutatedCaps \in SUBSET Reported
    BY HappenedIs
  <2>2. createdCaps # {} <=> byType(created, type) # {}
    BY <1>2
  <2> HIDE DEF createdCaps, mutatedCaps
  <2>3. CASE createdCaps # {}
    BY <1>2, <1>3, <2>1, <2>2, <2>3
  <2>4. CASE createdCaps = {}
    BY <1>2, <1>3, <2>1, <2>2, <2>4
  <2> QED
    BY <2>3, <2>4
<1>5. packagesPublished = {RefNow(p) : p \in Written} /\ Written \in SUBSET Reported
  BY ListsAre, HappenedIs
<1>6. /\ Cardinality(packagesPublished) = 1 /\ Cardinality(capsSeen) = 1
      /\ \E p \in packagesPublished, c \in capsSeen : pair = <<p.id, c.id>>
  BY DEF expectPublished
<1>7. PICK p \in Written : Written = {p}
  BY <1>5, <1>6, OneIs
<1>8. PICK c \in caps : caps = {c}
  BY <1>4, <1>6, OneIs
<1>9. pair[1] = p /\ pair[2] = c
  <2>1. packagesPublished = {RefNow(p)} /\ capsSeen = {RefNow(c)}
    BY <1>4, <1>5, <1>7, <1>8
  <2>2. pair = <<RefNow(p).id, RefNow(c).id>>
    BY <1>6, <2>1
  <2> QED
    BY <1>1, <2>2
<1>10. governs[p] = {cap} /\ cap \in Cap
  BY <1>7, <1>9 DEF Written, RInv, Governed
<1>11. cap \in Fresh \cup Changed
  <2>1. created = {RefNow(i) : i \in Fresh} /\ mutated = {RefNow(i) : i \in Changed}
    BY ListsAre
  <2> QED
    BY <1>1, <2>1 DEF Ids
<1>12. CASE createdCaps # {}
  <2>1. c \in Cap /\ before[c] = Absent /\ c \in Reported /\ caps = createdCaps
    BY <1>4, <1>8, <1>12 DEF Fresh
  <2>2. PICK q \in Package : governs[q] = {c}
    BY <2>1, ReportedIs DEF RInv, Governed
  <2>3. q \in commands.touched /\ now[q] = Frozen
    BY <2>2 DEF RInv, Governed
  <2>4. q \in Reported
    BY <2>3, PlacesAre, ReportedIs DEF RInv
  <2>5. q = p
    BY <1>7, <2>4 DEF Written
  <2> QED
    BY <1>9, <1>10, <2>2, <2>5
<1>13. CASE createdCaps = {}
  <2>1. cap \in mutatedCaps
    BY <1>10, <1>11, <1>13
  <2>2. caps = mutatedCaps
    BY <1>4, <1>13
  <2> QED
    BY <1>8, <1>9, <2>1, <2>2
<1> QED
  BY <1>12, <1>13

(* An event decodes when the layout is its own.                              *)
LEMMA DecodeIs ==
  ASSUME NEW codec \in Codec, NEW event \in Event, typeMatches(codec.of, event.type)
  PROVE  decodeContent(codec, event) =
           IF Len(event.bcs) = codec.words /\ ("b" \in codec.refuses => codec.words < 2)
           THEN Decodes(<<event.bcs>>) ELSE Fails1("bytes")
<1>1. decodeContent(codec, event) = decodeWith(codec, event.bcs)
  BY DEF decodeContent
<1>2. codec.words \in 0..2 /\ codec.refuses \in {{}, {"b"}}
  BY DEF Codec
<1>3. event.bcs \in {<<"a">>, <<"a", "b">>}
  BY DEF Event
<1> DEFINE bytes == event.bcs
           parsed == SubSeq(bytes, 1, codec.words)
           sound == \A i \in DOMAIN parsed : parsed[i] \notin codec.refuses
<1>4. decodeContent(codec, event) =
        IF Len(bytes) = codec.words /\ sound THEN Decodes(<<parsed>>) ELSE Fails1("bytes")
  BY <1>1 DEF decodeWith, parses
<1>5. CASE Len(bytes) = codec.words
  <2>1. parsed = bytes
    BY <1>3, <1>5
  <2>2. CASE bytes = <<"a">>
    <3>1. codec.words = 1 /\ parsed = <<"a">>
      BY <1>5, <2>1, <2>2
    <3>2. "a" \notin codec.refuses
      BY <1>2
    <3>3. \A i \in DOMAIN <<"a">> : <<"a">>[i] = "a"
      OBVIOUS
    <3> HIDE DEF parsed
    <3>4. sound
      BY <3>1, <3>2, <3>3
    <3> QED
      BY <1>4, <1>5, <2>1, <3>1, <3>4
  <2>3. CASE bytes = <<"a", "b">>
    <3>1. codec.words = 2 /\ parsed = <<"a", "b">>
      BY <1>5, <2>1, <2>3
    <3>2. "a" \notin codec.refuses
      BY <1>2
    <3>3. /\ DOMAIN <<"a", "b">> = {1, 2}
          /\ <<"a", "b">>[1] = "a" /\ <<"a", "b">>[2] = "b"
      OBVIOUS
    <3> HIDE DEF parsed
    <3>4. sound <=> "b" \notin codec.refuses
      BY <3>1, <3>2, <3>3
    <3> QED
      BY <1>4, <1>5, <2>1, <3>1, <3>4
  <2> QED
    BY <1>3, <2>2, <2>3
<1>6. CASE Len(bytes) # codec.words
  BY <1>4, <1>6
<1> QED
  BY <1>5, <1>6

(* All the events of a type decode, or none is given.                        *)
LEMMA EventsAreTold ==
  ASSUME RInv, Full, NEW codec \in {c \in Codec : c.of # Untyped}
  PROVE  LET emitted == EmittedOf(codec.of)
             BytesOf(i) == commands.events[i].bcs
             own == \A i \in emitted : /\ Len(BytesOf(i)) = codec.words
                                       /\ "b" \in codec.refuses => codec.words < 2
         IN /\ own => \E at \in [1..Cardinality(emitted) -> emitted] :
                        /\ \A k \in DOMAIN at : \A j \in 1..(k - 1) : at[j] < at[k]
                        /\ eventsOf(codec) = Decodes([k \in DOMAIN at |-> BytesOf(at[k])])
            /\ ~own => eventsOf(codec).failed # "no"
            /\ expectEvent(codec).failed = "no" => Cardinality(emitted) = 1
<1> DEFINE emitted == EmittedOf(codec.of)
           BytesOf(i) == commands.events[i].bcs
           fits(i) == /\ Len(BytesOf(i)) = codec.words
                      /\ "b" \in codec.refuses => codec.words < 2
           own == \A i \in emitted : fits(i)
           found == eventsOfType(codec.of)
           read == [k \in DOMAIN found |-> decodeContent(codec, found[k])]
<1>1. commands.events \in Seq(Event) /\ receipt.events = commands.events
  BY FullIs DEF RInv, Placed
<1>2. PICK at : /\ Lists(at, emitted)
                /\ found = [k \in DOMAIN at |-> commands.events[at[k]]]
  <2>1. \E at : ListedBy(at, codec.of, commands.events)
    BY <1>1, OfTypeListed
  <2>2. /\ PlacesOf(codec.of, commands.events) = emitted
        /\ ofType(codec.of, commands.events) = found
    BY <1>1 DEF PlacesOf, EmittedOf, eventsOfType
  <2> HIDE DEF emitted, found
  <2> QED
    BY <2>1, <2>2 DEF ListedBy
<1>3. eventsOf(codec) = IF \E k \in DOMAIN read : read[k].failed # "no" THEN Fails1("bytes")
                        ELSE Decodes([k \in DOMAIN read |-> Head(read[k].values)])
  BY DEF eventsOf
<1>4. \A i \in emitted : commands.events[i] \in Event /\ typeMatches(codec.of, commands.events[i].type)
  BY <1>1 DEF EmittedOf
<1>5. expectEvent(codec).failed = "no" => Len(found) = 1
  <2>1. Fails1("UnexpectedEffects").failed # "no"
    BY DEF Fails1
  <2> QED
    BY <2>1 DEF expectEvent
<1> HIDE DEF emitted, found
<1>6. DOMAIN at = DOMAIN found /\ DOMAIN read = DOMAIN found /\ Len(found) = Cardinality(emitted)
      /\ \A k \in DOMAIN found : at[k] \in emitted /\ found[k] = commands.events[at[k]]
  BY <1>2 DEF Lists
<1>7. \A k \in DOMAIN found :
        read[k] = IF fits(at[k]) THEN Decodes(<<BytesOf(at[k])>>) ELSE Fails1("bytes")
  <2> TAKE k \in DOMAIN found
  <2>1. found[k] \in Event /\ typeMatches(codec.of, found[k].type) /\ BytesOf(at[k]) = found[k].bcs
    BY <1>4, <1>6
  <2> QED
    BY <2>1, DecodeIs
<1>8. /\ \A x : Decodes(x).failed = "no" /\ Decodes(x).values = x
      /\ Fails1("bytes").failed = "bytes"
      /\ \A x : Head(<<x>>) = x
  BY DEF Decodes, Fails1
<1> HIDE DEF read, fits, BytesOf
<1>9. ASSUME own PROVE eventsOf(codec) = Decodes([k \in DOMAIN at |-> BytesOf(at[k])])
  <2>1. \A k \in DOMAIN found : fits(at[k])
    BY <1>6, <1>9
  <2>2. \A k \in DOMAIN found : read[k].failed = "no" /\ Head(read[k].values) = BytesOf(at[k])
    BY <1>7, <1>8, <2>1
  <2>3. [k \in DOMAIN read |-> Head(read[k].values)] = [k \in DOMAIN at |-> BytesOf(at[k])]
    BY <1>6, <2>2
  <2> QED
    BY <1>3, <1>6, <2>2, <2>3
<1>10. ASSUME ~own PROVE eventsOf(codec).failed # "no"
  <2>1. PICK i \in emitted : ~fits(i)
    BY <1>10
  <2>2. PICK k \in DOMAIN found : at[k] = i
    BY <1>2, <1>6 DEF Lists
  <2>3. read[k].failed # "no"
    BY <1>7, <1>8, <2>1, <2>2
  <2> QED
    BY <1>3, <1>6, <1>8, <2>3
<1>11. /\ at \in [1..Cardinality(emitted) -> emitted]
       /\ \A k \in DOMAIN at : \A j \in 1..(k - 1) : at[j] < at[k]
  BY <1>2 DEF Lists
<1> QED
  BY <1>5, <1>6, <1>9, <1>10, <1>11 DEF fits, BytesOf, emitted

(* All of which is what a full answer promises.                             *)
LEMMA TellsAll == RInv => TellsTheTransaction
<1> SUFFICES ASSUME RInv, Full PROVE TellsTheTransaction
  BY DEF TellsTheTransaction, Full
<1>1. /\ created = {RefNow(id) : id \in {i \in Thing : before[i] = Out("absent") /\ Live(now[i])}}
      /\ mutated = {RefNow(id) : id \in Changed}
      /\ transferred = {RefNow(id) : id \in {i \in Changed : ~AlikeOwner(before[i], now[i])}}
      /\ deleted = {RefBefore(id) : id \in {i \in Thing :
                      \/ Live(before[i]) /\ ~Live(now[i])
                      \/ before[i] = Out("wrapped") /\ now[i] = Out("deleted")}}
      /\ wrapped = {RefBefore(id) : id \in {i \in Thing :
                      Live(before[i]) /\ now[i] = Out("wrapped")}}
  BY ListsAre DEF Fresh, Away, Inside, Moved, Absent, Wrapped, Deleted
<1>2. \A type : LET made == {i \in Thing : before[i] = Out("absent") /\ Live(now[i])
                                            /\ typeMatches(type, typeNameOf[i])}
                IN expectCreated(type) = IF Cardinality(made) = 1 THEN {RefNow(i) : i \in made} ELSE {}
  BY ExpectsTheCreated DEF Absent
<1>3. \A pair \in expectPublished : \A cap \in governs[pair[1]] :
        cap \in Ids(created \cup mutated) => pair[2] = cap
  BY ExpectsThePublished
<1>4. \A codec \in {c \in Codec : c.of # Untyped} :
        LET emitted == EmittedOf(codec.of)
            BytesOf(i) == commands.events[i].bcs
            own == \A i \in emitted : /\ Len(BytesOf(i)) = codec.words
                                      /\ "b" \in codec.refuses => codec.words < 2
        IN /\ own => \E at \in [1..Cardinality(emitted) -> emitted] :
                       /\ \A k \in DOMAIN at : \A j \in 1..(k - 1) : at[j] < at[k]
                       /\ eventsOf(codec) = Decodes([k \in DOMAIN at |-> BytesOf(at[k])])
           /\ ~own => eventsOf(codec).failed # "no"
           /\ expectEvent(codec).failed = "no" => Cardinality(emitted) = 1
  BY EventsAreTold
<1> QED
  BY <1>1, <1>2, <1>3, <1>4 DEF TellsTheTransaction

-----------------------------------------------------------------------------
(* A reduced answer invents nothing.                                         *)

(* What a receipt holds of each change.                                      *)
LEMMA HeldIs ==
  ASSUME RInv, receipt.tag = "Executed", NEW c \in receipt.changes
  PROVE  \/ \E id \in Reported : c = partialChange(Change(id), receipt.left)
         \/ c = partialChange(AccumulatorChange, receipt.left)
  BY DEF RInv, Handed, MadeOf

(* And every change that was reported is in it.                             *)
LEMMA HoldsAll ==
  ASSUME RInv, receipt.tag = "Executed", NEW id \in Reported
  PROVE  partialChange(Change(id), receipt.left) \in receipt.changes
  BY DEF RInv, Handed, MadeOf

(* What is left of a reported change says nothing else.                      *)
LEMMA ReducedIs ==
  ASSUME RInv, receipt.tag = "Executed", NEW id \in Reported
  PROVE  LET c == partialChange(Change(id), receipt.left)
         IN /\ c.id = id
            /\ refOf(c, "output").id = id /\ refOf(c, "input").id = id
            /\ refOf(c, "output").version \in {New, NotSaid}
            /\ refOf(c, "output").owner \in {now[id], NoOwner}
            /\ c.outputState # "AccumulatorWriteV1"
            /\ (c.idOperation = "Deleted" \/ isWrapped(c)) => id \in Thing /\ ~Live(now[id])
            /\ isTransferred(c) => id \in Thing /\ ~AlikeOwner(before[id], now[id])
            /\ c.idOperation = "Created" => before[id] = Absent /\ now[id] # Deleted
            /\ c.idOperation = "None" => /\ id \in Thing
                                         /\ before[id] # Absent /\ now[id] # Deleted
            /\ c.outputState = "PackageWrite" => id \in Package /\ Live(now[id])
            /\ "states" \notin receipt.left /\ wroteAnObject(c) => id \in Thing /\ Live(now[id])
            /\ "idOperation" \notin receipt.left =>
                 /\ id \in Thing /\ before[id] = Absent /\ Live(now[id]) =>
                      c.idOperation = "Created" /\ wroteAnObject(c)
                 /\ before[id] # Absent /\ now[id] = Deleted => c.idOperation = "Deleted"
<1> DEFINE left == receipt.left
           d == Change(id)
           c == partialChange(d, left)
           b == before[id]
           n == now[id]
<1>1. /\ d.id = id
      /\ d.inputState = IF Live(b) THEN "Exists" ELSE "DoesNotExist"
      /\ d.inputOwner = IF Live(b) THEN b ELSE NoOwner
      /\ d.outputState = IF ~Live(n) THEN "DoesNotExist"
                         ELSE IF id \in Package THEN "PackageWrite" ELSE "ObjectWrite"
      /\ d.outputVersion = IF Live(n) THEN New ELSE NotSaid
      /\ d.outputOwner = IF Live(n) THEN n ELSE NoOwner
      /\ d.idOperation = IF b = Absent THEN "Created" ELSE IF n = Deleted THEN "Deleted" ELSE "None"
  BY DEF Change, Absent, Deleted
<1>2. /\ id \in Thing \/ id \in Package
      /\ id \in Thing => id \notin Package
      /\ Live(b) \/ b \in {Absent, Wrapped}
      /\ Live(n) \/ n \in {Wrapped, Deleted}
      /\ b = Absent => n # Deleted
      /\ id \in Package => b = Absent /\ n = Frozen
  BY ReportedIs, PlacesAre, PackagesAreNot DEF Known, RInv
<1>3. /\ ~Live(Absent) /\ ~Live(Wrapped) /\ ~Live(Deleted) /\ Live(Frozen)
      /\ Absent # Wrapped /\ Absent # Deleted /\ Wrapped # Deleted
  BY PlacesAre
<1>4. /\ c.id = id
      /\ c.inputState = IF "states" \in left THEN "Unknown" ELSE d.inputState
      /\ c.outputState = IF "states" \in left THEN "Unknown" ELSE d.outputState
      /\ c.inputOwner = IF "details" \in left THEN NoOwner ELSE d.inputOwner
      /\ c.outputOwner = IF "details" \in left THEN NoOwner ELSE d.outputOwner
      /\ c.outputVersion = IF "details" \in left THEN NotSaid ELSE d.outputVersion
      /\ c.idOperation = IF "idOperation" \in left THEN "Unknown" ELSE d.idOperation
  <2>1. d = [id |-> d.id, inputState |-> d.inputState, inputVersion |-> d.inputVersion,
             inputOwner |-> d.inputOwner, outputState |-> d.outputState,
             outputVersion |-> d.outputVersion, outputOwner |-> d.outputOwner,
             idOperation |-> d.idOperation]
    BY DEF Change
  <2> HIDE DEF d, left
  <2> QED
    BY <1>1, <2>1 DEF partialChange
<1> HIDE DEF c, d, b, n, left
<1>5. /\ refOf(c, "output").id = id /\ refOf(c, "input").id = id
      /\ refOf(c, "output").version = c.outputVersion /\ refOf(c, "output").owner = c.outputOwner
  BY <1>4 DEF refOf
<1>6. /\ c.outputVersion \in {New, NotSaid} /\ c.outputOwner \in {n, NoOwner}
      /\ c.outputState # "AccumulatorWriteV1"
  BY <1>1, <1>4
<1>7. (c.idOperation = "Deleted" \/ isWrapped(c)) => id \in Thing /\ ~Live(n)
  <2>1. c.idOperation = "Deleted" => b # Absent /\ n = Deleted
    BY <1>1, <1>4
  <2>2. isWrapped(c) => ~Live(n)
    BY <1>1, <1>4 DEF isWrapped
  <2> QED
    BY <1>2, <1>3, <2>1, <2>2
<1>11. /\ c.idOperation = "Created" => b = Absent /\ n # Deleted
       /\ c.idOperation = "None" => id \in Thing /\ b # Absent /\ n # Deleted
       /\ c.outputState = "PackageWrite" => id \in Package /\ Live(n)
  BY <1>1, <1>2, <1>4
<1>8. isTransferred(c) => id \in Thing /\ ~AlikeOwner(b, n)
  <2>1. isTransferred(c) => c.inputOwner = b /\ c.outputOwner = n
    BY <1>1, <1>4 DEF isTransferred
  <2> QED
    BY <1>11, <2>1 DEF isTransferred, ownerKey, AlikeOwner
<1>9. "states" \notin left /\ wroteAnObject(c) => id \in Thing /\ Live(n)
  BY <1>1, <1>2, <1>4 DEF wroteAnObject
<1>10. "idOperation" \notin left =>
         /\ id \in Thing /\ b = Absent /\ Live(n) => c.idOperation = "Created" /\ wroteAnObject(c)
         /\ b # Absent /\ n = Deleted => c.idOperation = "Deleted"
  BY <1>1, <1>2, <1>4 DEF wroteAnObject
<1> QED
  BY <1>4, <1>5, <1>6, <1>7, <1>8, <1>9, <1>10, <1>11 DEF c, d, b, n, left

(* Of an address balance it says at most that something changed.             *)
LEMMA BalanceIs ==
  ASSUME NEW left
  PROVE  LET a == partialChange(AccumulatorChange, left)
         IN /\ a.id = "accumulator"
            /\ a.idOperation \notin {"Created", "Deleted"} /\ ~isWrapped(a) /\ ~isTransferred(a)
            /\ refOf(a, "output").owner = NoOwner /\ refOf(a, "output").version = NotSaid
            /\ a.outputState # "PackageWrite"
            /\ "states" \notin left => ~wroteAnObject(a)
<1> DEFINE d == AccumulatorChange
           a == partialChange(d, left)
<1>1. /\ d.inputState = "DoesNotExist" /\ d.outputState = "AccumulatorWriteV1"
      /\ d.idOperation = "None" /\ d.outputOwner = NoOwner /\ d.outputVersion = NotSaid
  BY DEF AccumulatorChange
<1>2. /\ a.id = "accumulator"
      /\ a.inputState = IF "states" \in left THEN "Unknown" ELSE d.inputState
      /\ a.outputState = IF "states" \in left THEN "Unknown" ELSE d.outputState
      /\ a.idOperation = IF "idOperation" \in left THEN "Unknown" ELSE d.idOperation
      /\ a.outputOwner = IF "details" \in left THEN NoOwner ELSE d.outputOwner
      /\ a.outputVersion = IF "details" \in left THEN NotSaid ELSE d.outputVersion
  BY DEF partialChange, AccumulatorChange
<1> HIDE DEF a, d
<1> QED
  BY <1>1, <1>2 DEF isWrapped, isTransferred, wroteAnObject, refOf, a, d

(* No bytes, no value.                                                       *)
LEMMA NoBytesNoValue ==
  ASSUME RInv, receipt.tag = "Executed", "bcs" \in receipt.left,
         NEW codec \in {c \in Codec : c.words > 0}
  PROVE  eventsOf(codec).values = <<>>
<1> DEFINE noBytes == {e \in {partialEvent(x, receipt.left) : x \in Event} : e.bcs = <<>>}
           matching == eventsOfType(codec.of)
           read == [i \in DOMAIN matching |-> decodeContent(codec, matching[i])]
<1>1. receipt.events \in Seq(noBytes)
  <2>1. /\ commands.events \in Seq(Event)
        /\ receipt.events =
             [i \in DOMAIN commands.events |-> partialEvent(commands.events[i], receipt.left)]
    BY DEF RInv, Placed, Handed
  <2>2. \A x \in Event : partialEvent(x, receipt.left).bcs = <<>>
    BY DEF partialEvent, Event
  <2>3. \A x \in Event : partialEvent(x, receipt.left) \in noBytes
    BY <2>2
  <2> HIDE DEF noBytes
  <2>4. DOMAIN commands.events = 1..Len(commands.events) /\ Len(commands.events) \in Nat
        /\ \A i \in DOMAIN commands.events : commands.events[i] \in Event
    BY <2>1
  <2> QED
    BY <2>1, <2>3, <2>4
<1>2. \A e \in noBytes : e.bcs = <<>>
  OBVIOUS
<1> HIDE DEF noBytes
<1>3. matching \in Seq({e \in noBytes : typeMatches(codec.of, e.type)})
  BY <1>1, OfTypeIs DEF eventsOfType
<1>4. eventsOf(codec) = IF codec.of = Untyped THEN Fails1("type")
                        ELSE IF \E i \in DOMAIN read : read[i].failed # "no" THEN Fails1("bytes")
                        ELSE Decodes([i \in DOMAIN read |-> Head(read[i].values)])
  BY DEF eventsOf
<1> HIDE DEF matching
<1>5. /\ Fails1("type").values = <<>> /\ Fails1("bytes").values = <<>>
      /\ Fails1("bytes").failed = "bytes" /\ \A x : Decodes(x).values = x
  BY DEF Fails1, Decodes
<1>6. CASE DOMAIN matching = {}
  <2>1. [i \in DOMAIN read |-> Head(read[i].values)] = <<>>
    BY <1>6
  <2> HIDE DEF read
  <2> QED
    BY <1>4, <1>5, <2>1
<1>7. CASE DOMAIN matching # {}
  <2>1. PICK i \in DOMAIN matching : TRUE
    BY <1>7
  <2>2. matching[i] \in noBytes /\ typeMatches(codec.of, matching[i].type)
    BY <1>3
  <2>3. Len(matching[i].bcs) = 0
    BY <1>2, <2>2
  <2>4. codec.words > 0 /\ codec.words \in 0..2
    BY DEF Codec
  <2>5. decodeContent(codec, matching[i]) = Fails1("bytes")
    BY <2>2, <2>3, <2>4 DEF decodeContent, decodeWith, parses
  <2>6. i \in DOMAIN read /\ read[i].failed # "no"
    BY <1>5, <2>5
  <2> HIDE DEF read
  <2> QED
    BY <1>4, <1>5, <2>6
<1> QED
  BY <1>6, <1>7

(* All of which is what a reduced answer promises.                          *)
LEMMA InventsNothing == RInv => ReducedInventsNothing
<1> SUFFICES ASSUME RInv, receipt.tag = "Executed" PROVE ReducedInventsNothing
  BY DEF ReducedInventsNothing
<1> DEFINE left == receipt.left
           of(id) == partialChange(Change(id), left)
           balance == partialChange(AccumulatorChange, left)
<1>1. \A c \in receipt.changes : (\E id \in Reported : c = of(id)) \/ c = balance
  BY HeldIs
<1>2. \A id \in Reported : of(id) \in receipt.changes
  BY HoldsAll
<1>3. \A id \in Reported :
        LET c == of(id)
        IN /\ c.id = id
           /\ refOf(c, "output").id = id /\ refOf(c, "input").id = id
           /\ refOf(c, "output").version \in {New, NotSaid}
           /\ refOf(c, "output").owner \in {now[id], NoOwner}
           /\ c.outputState # "AccumulatorWriteV1"
           /\ (c.idOperation = "Deleted" \/ isWrapped(c)) => id \in Thing /\ ~Live(now[id])
           /\ isTransferred(c) => id \in Thing /\ ~AlikeOwner(before[id], now[id])
           /\ c.idOperation = "Created" => before[id] = Absent /\ now[id] # Deleted
           /\ c.idOperation = "None" => id \in Thing /\ before[id] # Absent /\ now[id] # Deleted
           /\ c.outputState = "PackageWrite" => id \in Package /\ Live(now[id])
           /\ "states" \notin left /\ wroteAnObject(c) => id \in Thing /\ Live(now[id])
           /\ "idOperation" \notin left =>
                /\ id \in Thing /\ before[id] = Absent /\ Live(now[id]) =>
                     c.idOperation = "Created" /\ wroteAnObject(c)
                /\ before[id] # Absent /\ now[id] = Deleted => c.idOperation = "Deleted"
  BY ReducedIs
<1>4. /\ balance.id = "accumulator" /\ \A side : refOf(balance, side).id = "accumulator"
      /\ refOf(balance, "output").owner = NoOwner /\ refOf(balance, "output").version = NotSaid
      /\ balance.outputState # "PackageWrite"
      /\ balance.idOperation \notin {"Created", "Deleted"}
      /\ ~isWrapped(balance) /\ ~isTransferred(balance)
      /\ "states" \notin left => ~wroteAnObject(balance)
  BY BalanceIs DEF refOf
<1> HIDE DEF of, balance, left
<1>5. ASSUME NEW r \in created \cup mutated \cup transferred
      PROVE  \/ /\ r.id = "accumulator" /\ r \notin transferred /\ "states" \in left
                /\ r.owner = NoOwner /\ r.version = NotSaid
             \/ \E id \in Reported : /\ r = refOf(of(id), "output")
                                     /\ r \in transferred => isTransferred(of(id))
                                     /\ wroteAnObject(of(id))
  <2>1. ASSUME NEW x \in transferred
        PROVE  \E id \in Reported : x = refOf(of(id), "output") /\ isTransferred(of(id))
    <3>1. PICK c \in receipt.changes : x = refOf(c, "output") /\ isTransferred(c)
      BY DEF transferred, select
    <3> QED
      BY <1>1, <1>4, <3>1
  <2>2. \A c : isTransferred(c) => wroteAnObject(c)
    BY DEF isTransferred
  <2>3. CASE r \in transferred
    BY <2>1, <2>2, <2>3
  <2>4. CASE r \notin transferred
    <3>1. PICK c \in receipt.changes : r = refOf(c, "output") /\ wroteAnObject(c)
      BY <2>4 DEF created, mutated, select
    <3> QED
      BY <1>1, <1>4, <2>4, <3>1
  <2> QED
    BY <2>3, <2>4
<1>12. \A id \in Reported : id \in Thing \cup Package
  BY ReportedIs DEF RInv, Known
<1>6. \A r \in created \cup mutated \cup transferred :
        /\ r.version \in {New, NotSaid}
        /\ r.owner # NoOwner => r.id \in Thing \cup Package /\ r.owner = now[r.id]
  BY <1>3, <1>5, <1>12
<1>13. \A id \in Ids(created) :
         id \in Thing \cup Package /\ before[id] = Absent /\ now[id] # Deleted
  <2> TAKE id \in Ids(created)
  <2>1. PICK c \in receipt.changes : id = refOf(c, "output").id /\ c.idOperation = "Created"
    BY DEF Ids, created, select
  <2>2. PICK i \in Reported : c = of(i)
    BY <1>1, <1>4, <2>1
  <2> QED
    BY <1>3, <1>12, <2>1, <2>2
<1>14. \A id \in Ids(mutated) \ {"accumulator"} :
         id \in Thing /\ before[id] # Absent /\ now[id] # Deleted
  <2> TAKE id \in Ids(mutated) \ {"accumulator"}
  <2>1. PICK c \in receipt.changes : id = refOf(c, "output").id /\ c.idOperation = "None"
    BY DEF Ids, mutated, select
  <2>2. PICK i \in Reported : c = of(i)
    BY <1>1, <1>4, <2>1
  <2> QED
    BY <1>3, <2>1, <2>2
<1>15. \A id \in Ids(packagesPublished) : id \in Package /\ Live(now[id])
  <2> TAKE id \in Ids(packagesPublished)
  <2>1. PICK c \in receipt.changes : id = refOf(c, "output").id /\ c.outputState = "PackageWrite"
    BY DEF Ids, packagesPublished, select
  <2>2. PICK i \in Reported : c = of(i)
    BY <1>1, <1>4, <2>1
  <2> QED
    BY <1>3, <2>1, <2>2
<1>7. \A id \in Ids(deleted) : id \in Thing /\ ~Live(now[id])
  <2> TAKE id \in Ids(deleted)
  <2>1. PICK c \in receipt.changes :
          id = refOf(c, "input").id /\ (c.idOperation = "Deleted" \/ isWrapped(c))
    BY DEF Ids, deleted, select
  <2>2. PICK i \in Reported : c = of(i)
    BY <1>1, <1>4, <2>1
  <2> QED
    BY <1>3, <2>1, <2>2
<1>8. \A id \in Ids(transferred) : id \in Thing /\ ~AlikeOwner(before[id], now[id])
  <2> TAKE id \in Ids(transferred)
  <2>1. PICK c \in receipt.changes : id = refOf(c, "output").id /\ isTransferred(c)
    BY DEF Ids, transferred, select
  <2>2. PICK i \in Reported : c = of(i)
    BY <1>1, <1>4, <2>1
  <2> QED
    BY <1>3, <2>1, <2>2
<1>9. "states" \notin left => \A id \in Ids(created \cup mutated) : id \in Thing /\ Live(now[id])
  <2> SUFFICES ASSUME "states" \notin left, NEW id \in Ids(created \cup mutated)
               PROVE  id \in Thing /\ Live(now[id])
    OBVIOUS
  <2>1. PICK r \in created \cup mutated : id = r.id
    BY DEF Ids
  <2>2. PICK i \in Reported : r = refOf(of(i), "output") /\ wroteAnObject(of(i))
    BY <1>5, <2>1
  <2> QED
    BY <1>3, <2>1, <2>2
<1>10. ASSUME "idOperation" \notin left
       PROVE  /\ \A id \in Thing : before[id] = Absent /\ Live(now[id]) => id \in Ids(created)
              /\ \A id \in Thing : before[id] # Absent /\ now[id] = Deleted => id \in Ids(deleted)
  <2>1. ASSUME NEW id \in Thing, before[id] = Absent, Live(now[id])
        PROVE  id \in Ids(created)
    <3>1. id \in Reported
      BY <2>1, ReportedIs DEF RInv, Known
    <3>2. of(id).idOperation = "Created" /\ wroteAnObject(of(id)) /\ of(id).outputState # "AccumulatorWriteV1"
      BY <1>3, <1>10, <2>1, <3>1
    <3>3. refOf(of(id), "output") \in created
      BY <1>2, <3>1, <3>2 DEF created, select
    <3> QED
      BY <1>3, <3>1, <3>3 DEF Ids
  <2>2. ASSUME NEW id \in Thing, before[id] # Absent, now[id] = Deleted
        PROVE  id \in Ids(deleted)
    <3>1. id \in Reported
      <4>1. id \in Known /\ now[id] # before[id]
        BY <2>2, PlacesAre DEF Known, RInv, Placed
      <4> QED
        BY <2>2, <4>1, ReportedIs DEF RInv
    <3>2. of(id).idOperation = "Deleted" /\ of(id).outputState # "AccumulatorWriteV1"
      BY <1>3, <1>10, <2>2, <3>1
    <3>3. refOf(of(id), "input") \in deleted
      BY <1>2, <3>1, <3>2 DEF deleted, select
    <3> QED
      BY <1>3, <3>1, <3>3 DEF Ids
  <2> QED
    BY <2>1, <2>2
<1>11. "bcs" \in left => \A codec \in {c \in Codec : c.words > 0} : eventsOf(codec).values = <<>>
  BY NoBytesNoValue DEF left
<1> QED
  BY <1>6, <1>7, <1>8, <1>9, <1>10, <1>11, <1>13, <1>14, <1>15
  DEF ReducedInventsNothing, Absent, Deleted, left

(* Executed#created, #mutated, #transferred, #deleted, #wrapped, #published  *)
(* and #events tell of a transaction what it did, whole or as much of it as  *)
(* a relay hands on, and of no other (ReceiptIsTrue).                        *)
THEOREM ReceiptsAreTrue == ReceiptsSpec => []ReceiptIsTrue
<1>1. RInv => ReceiptIsTrue
  BY TellsAll, InventsNothing DEF ReceiptIsTrue, RInv, Handed
<1> QED
  BY <1>1, RInvInit, RInvNext, PTL DEF ReceiptsSpec
=============================================================================
