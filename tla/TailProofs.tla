------------------------------ MODULE TailProofs ------------------------------
EXTENDS Tail, WellFoundedInduction, TLAPS

(* The streams and tails of Tail.tla give out what they should, for every    *)
(* ledger, page size, scan limit, number of read slots and retry budget.     *)
(*                                                                           *)
(* First the pure part: Kept and pageAfter, the two recursive functions, are *)
(* characterised by induction over an interval, a listing is what a scan     *)
(* finds, and the page made of it misses nothing up to its end cursor        *)
(* (PageLists). Then the protocol: IInv says which requests are in flight,   *)
(* where the cursor is, and what the page that is being read covers of the   *)
(* ledger, while the node appends and prunes under it.                       *)

-----------------------------------------------------------------------------
(* Induction and recursion over an interval, over sets and functions only.  *)

(* A set that holds 0 and, with a number, the next, holds the interval.     *)
LEMMA Induction ==
  ASSUME NEW N \in Nat, NEW T, 0 \in T, \A n \in 1..N : n - 1 \in T => n \in T
  PROVE  \A n \in 0..N : n \in T
<1> DEFINE Less == {p \in Nat \X Nat : p[1] < p[2]}
           Rest == {n \in 0..N : n \notin T}
<1>1. IsWellFoundedOn(Less, Nat)
  BY NatLessThanWellFounded DEF OpToRel
<1>2. \A x, y \in Nat : <<y, x>> \in Less <=> y < x
  OBVIOUS
<1>3. Rest \subseteq Nat
  OBVIOUS
<1> HIDE DEF Less
<1> SUFFICES ASSUME Rest # {} PROVE FALSE
  OBVIOUS
<1>4. PICK m \in Rest : \A n \in Rest : ~ (<<n, m>> \in Less)
  BY <1>1, <1>3, WFMin
<1>5. m \in 1..N /\ m \in Nat /\ m - 1 \in Nat /\ m - 1 < m /\ m - 1 \in 0..N
  OBVIOUS
<1>6. <<m - 1, m>> \in Less
  BY <1>2, <1>5
<1>7. m - 1 \notin Rest
  BY <1>4, <1>6
<1>8. m - 1 \in T
  BY <1>5, <1>7
<1>9. m \in T
  BY <1>5, <1>8
<1> QED
  BY <1>9

(* A function that starts at base and goes on by step.                      *)
Recurs(f, N, S, base, step) ==
  /\ f \in [0..N -> S] /\ f[0] = base
  /\ \A n \in 1..N : f[n] = step[<<n, f[n - 1]>>]

(* A step that is a function of the place and of what came before defines   *)
(* such a function on the interval.                                         *)
LEMMA Recursion ==
  ASSUME NEW N, N \in Nat, NEW S, NEW base, base \in S,
         NEW step, step \in [(1..N) \X S -> S]
  PROVE  \E f : Recurs(f, N, S, base, step)
<1> DEFINE Does(f, n) == Recurs(f, n, S, base, step)
           T == {n \in 0..N : \E f : Does(f, n)}
<1> USE DEF Recurs
<1>1. Does([k \in 0..0 |-> base], 0)
  OBVIOUS
<1>2. ASSUME NEW n \in 1..N, NEW f, Does(f, n - 1)
      PROVE  Does([k \in 0..n |-> IF k = n THEN step[<<n, f[n - 1]>>] ELSE f[k]], n)
  <2> DEFINE g == [k \in 0..n |-> IF k = n THEN step[<<n, f[n - 1]>>] ELSE f[k]]
  <2>1. n \in Nat /\ n >= 1 /\ n - 1 \in 0..(n - 1) /\ 0 \in 0..n /\ 0 # n
    OBVIOUS
  <2>2. f \in [0..(n - 1) -> S] /\ f[0] = base
    BY <1>2
  <2>3. \A k \in 1..(n - 1) : f[k] = step[<<k, f[k - 1]>>]
    BY <1>2
  <2>4. f[n - 1] \in S
    BY <2>1, <2>2
  <2>5. step[<<n, f[n - 1]>>] \in S
    BY <2>4
  <2>6. \A k \in 0..n : k # n => k \in 0..(n - 1)
    BY <2>1
  <2>7. g \in [0..n -> S]
    BY <2>2, <2>5, <2>6
  <2>8. \A k \in 0..n : g[k] = IF k = n THEN step[<<n, f[n - 1]>>] ELSE f[k]
    OBVIOUS
  <2> HIDE DEF g
  <2>9. g[0] = base
    BY <2>1, <2>2, <2>8
  <2>10. ASSUME NEW k \in 1..n
         PROVE  g[k] = step[<<k, g[k - 1]>>]
    <3>1. k \in 0..n /\ k - 1 \in 0..n /\ k - 1 # n
      BY <2>1
    <3>2. g[k - 1] = f[k - 1]
      BY <2>8, <3>1
    <3>3. CASE k = n
      BY <2>8, <3>1, <3>2, <3>3
    <3>4. CASE k # n
      <4>1. k \in 1..(n - 1)
        BY <2>1, <3>4
      <4> QED
        BY <2>3, <2>8, <3>1, <3>2, <3>4, <4>1
    <3> QED
      BY <3>3, <3>4
  <2> QED
    BY <2>7, <2>9, <2>10 DEF g
<1> HIDE DEF Does, Recurs
<1>3. 0 \in T
  BY <1>1
<1>4. ASSUME NEW n \in 1..N, n - 1 \in T
      PROVE  n \in T
  <2>1. PICK f : Does(f, n - 1)
    BY <1>4
  <2>2. \E g : Does(g, n)
    BY <1>2, <2>1
  <2> QED
    BY <2>2
<1> HIDE DEF T
<1>5. \A n \in 0..N : n \in T
  BY <1>3, <1>4, Induction
<1>6. N \in T
  BY <1>5
<1> QED
  BY <1>6 DEF T, Does

-----------------------------------------------------------------------------
(* Kept.                                                                    *)

(* Kept goes through the places one by one and appends those asked for.     *)
LEMMA KeptSteps ==
  ASSUME NEW A, NEW seq \in Seq(A), NEW places
  PROVE  /\ Kept(seq, places) \in [0..Len(seq) -> Seq(A)]
         /\ Kept(seq, places)[0] = <<>>
         /\ \A n \in 1..Len(seq) :
              Kept(seq, places)[n] =
                IF n \in places THEN Append(Kept(seq, places)[n - 1], seq[n])
                ELSE Kept(seq, places)[n - 1]
<1> DEFINE N == Len(seq)
           step == [p \in (1..N) \X Seq(A) |->
                     IF p[1] \in places THEN Append(p[2], seq[p[1]]) ELSE p[2]]
<1>1. N \in Nat /\ \A n \in 1..N : seq[n] \in A
  OBVIOUS
<1>2. step \in [(1..N) \X Seq(A) -> Seq(A)]
  BY <1>1
<1>3. \A n \in 1..N, s \in Seq(A) :
        step[<<n, s>>] = IF n \in places THEN Append(s, seq[n]) ELSE s
  OBVIOUS
<1>4. PICK none \in Seq(A) : none = <<>>
  <2>1. <<>> \in Seq(A)
    OBVIOUS
  <2> QED
    BY <2>1, Zenon
<1>a. \A q \in Seq(A), a \in A : Append(q, a) \in Seq(A)
  OBVIOUS
<1> HIDE DEF step, N
<1>5. PICK f : Recurs(f, N, Seq(A), none, step)
  BY <1>1, <1>2, Recursion
<1>6. ASSUME NEW n \in 1..N
      PROVE  f[n] = IF n \in places THEN Append(f[n - 1], seq[n]) ELSE f[n - 1]
  <2>1. n - 1 \in 0..N
    BY <1>1
  <2>2. f[n - 1] \in Seq(A)
    BY <1>5, <2>1 DEF Recurs
  <2> QED
    BY <1>3, <1>5, <2>2 DEF Recurs
<1> DEFINE Def(g) == [n \in 0..N |-> IF n = 0 THEN <<>>
                        ELSE IF n \in places THEN Append(g[n - 1], seq[n])
                        ELSE g[n - 1]]
<1>7. f = Def(f)
  <2>1. \A n \in 0..N : n # 0 => n \in 1..N
    BY <1>1
  <2>2. \A n \in 0..N : f[n] = IF n = 0 THEN <<>>
                        ELSE IF n \in places THEN Append(f[n - 1], seq[n])
                        ELSE f[n - 1]
    BY <1>4, <1>5, <1>6, <2>1 DEF Recurs
  <2> QED
    BY <1>5, <2>2 DEF Recurs
<1> DEFINE K == Kept(seq, places)
<1>8. K = CHOOSE g : g = Def(g)
  BY DEF Kept, N
<1> HIDE DEF K, Def
<1>9. K = Def(K)
  BY <1>7, <1>8
<1>10. K[0] = none
  BY <1>1, <1>4, <1>9 DEF Def
<1>11. ASSUME NEW n \in 1..N
       PROVE  K[n] = IF n \in places THEN Append(K[n - 1], seq[n]) ELSE K[n - 1]
  <2>1. n \in 0..N /\ n # 0
    BY <1>1
  <2> QED
    BY <1>9, <2>1 DEF Def
<1>12. K \in [0..N -> Seq(A)]
  <2> DEFINE T == {n \in 0..N : K[n] \in Seq(A)}
  <2>1. 0 \in T
    BY <1>1, <1>10
  <2>2. ASSUME NEW n \in 1..N, n - 1 \in T
        PROVE  n \in T
    <3>1. K[n - 1] \in Seq(A) /\ n \in 0..N
      BY <1>1, <2>2
    <3> QED
      BY <1>1, <1>a, <1>11, <3>1
  <2> HIDE DEF T
  <2>3. \A n \in 0..N : n \in T
    BY <1>1, <2>1, <2>2, Induction
  <2> QED
    BY <1>9, <2>3 DEF T, Def
<1> QED
  BY <1>4, <1>10, <1>11, <1>12 DEF K, N

(* The kept elements stand in the order of their places, and are those of   *)
(* all the places.                                                          *)
KeptAt(at, q, seq, places, n) ==
  /\ at \in [1..Len(q) -> (1..n) \cap places]
  /\ \A j, k \in 1..Len(q) : j < k => at[j] < at[k]
  /\ \A j \in 1..Len(q) : q[j] = seq[at[j]]
  /\ \A i \in (1..n) \cap places : \E j \in 1..Len(q) : at[j] = i

(* So Kept is the subsequence at the places: each place once, in the order  *)
(* of the places.                                                           *)
LEMMA KeptInOrder ==
  ASSUME NEW A, NEW seq \in Seq(A), NEW places, NEW m \in 0..Len(seq)
  PROVE  \E at : KeptAt(at, Kept(seq, places)[m], seq, places, m)
<1> DEFINE N == Len(seq)
           K == Kept(seq, places)
           T == {n \in 0..N : \E at : KeptAt(at, K[n], seq, places, n)}
<1>1. N \in Nat /\ m \in 0..N /\ \A n \in 1..N : seq[n] \in A
  OBVIOUS
<1>2. /\ K \in [0..N -> Seq(A)] /\ K[0] = <<>>
      /\ \A n \in 1..N :
           K[n] = IF n \in places THEN Append(K[n - 1], seq[n]) ELSE K[n - 1]
  BY KeptSteps
<1> HIDE DEF N, K
<1>3. 0 \in T
  <2>1. Len(K[0]) = 0
    BY <1>2
  <2>2. KeptAt([j \in {} |-> 0], K[0], seq, places, 0)
    BY <2>1 DEF KeptAt
  <2> QED
    BY <1>1, <2>2
<1>4. ASSUME NEW n \in 1..N, n - 1 \in T
      PROVE  n \in T
  <2>1. PICK at : KeptAt(at, K[n - 1], seq, places, n - 1)
    BY <1>4
  <2>2. n \in Nat /\ n - 1 \in Nat /\ n \in 0..N /\ n - 1 \in 0..N /\ n >= 1
    BY <1>1
  <2> DEFINE q == K[n - 1]
  <2>3. q \in Seq(A) /\ Len(q) \in Nat
    BY <1>2, <2>2
  <2>4. K[n] = IF n \in places THEN Append(q, seq[n]) ELSE q
    BY <1>2
  <2> HIDE DEF q
  <2>5. KeptAt(at, q, seq, places, n - 1)
    BY <2>1 DEF q
  <2>6. \A i \in (1..n) \cap places : i = n \/ i \in (1..(n - 1)) \cap places
    BY <2>2
  <2>7. CASE n \in places
    <3> DEFINE l == Len(q)
               now == [j \in 1..(l + 1) |-> IF j = l + 1 THEN n ELSE at[j]]
               r == Append(q, seq[n])
    <3>1. /\ Len(r) = l + 1 /\ r[l + 1] = seq[n]
          /\ \A j \in 1..l : r[j] = q[j]
      BY <1>1, <2>3
    <3> HIDE DEF r
    <3>2. l \in Nat /\ \A j \in 1..(l + 1) : j = l + 1 \/ (j \in 1..l /\ j # l + 1)
      BY <2>3
    <3>3. at \in [1..l -> (1..(n - 1)) \cap places]
      BY <2>5 DEF KeptAt
    <3>4. \A j \in 1..l : now[j] = at[j] /\ at[j] \in 1..(n - 1) /\ at[j] \in places
      BY <3>2, <3>3
    <3>5. now[l + 1] = n
      BY <3>2
    <3>6. now \in [1..(l + 1) -> (1..n) \cap places]
      <4>1. n \in 1..n /\ \A i \in 1..(n - 1) : i \in 1..n
        BY <2>2
      <4>2. ASSUME NEW j \in 1..(l + 1)
            PROVE  now[j] \in (1..n) \cap places
        <5>1. CASE j = l + 1
          BY <2>7, <3>5, <4>1, <5>1
        <5>2. CASE j \in 1..l
          BY <3>4, <4>1, <5>2
        <5> QED
          BY <3>2, <5>1, <5>2
      <4> QED
        BY <4>2
    <3> HIDE DEF now
    <3>7. ASSUME NEW j \in 1..(l + 1), NEW k \in 1..(l + 1), j < k
          PROVE  now[j] < now[k]
      <4>1. j \in 1..l
        BY <3>2, <3>7
      <4>2. CASE k = l + 1
        BY <2>2, <3>4, <3>5, <4>1, <4>2
      <4>3. CASE k \in 1..l
        BY <2>5, <3>4, <3>7, <4>1, <4>3 DEF KeptAt
      <4> QED
        BY <3>2, <4>2, <4>3
    <3>8. ASSUME NEW j \in 1..(l + 1)
          PROVE  r[j] = seq[now[j]]
      <4>1. CASE j = l + 1
        BY <3>1, <3>5, <4>1
      <4>2. CASE j \in 1..l
        BY <2>5, <3>1, <3>4, <4>2 DEF KeptAt
      <4> QED
        BY <3>2, <4>1, <4>2
    <3>9. ASSUME NEW i \in (1..n) \cap places
          PROVE  \E j \in 1..(l + 1) : now[j] = i
      <4>1. CASE i = n
        BY <3>2, <3>5, <4>1
      <4>2. CASE i # n
        <5>1. PICK j \in 1..l : at[j] = i
          BY <2>5, <2>6, <4>2 DEF KeptAt
        <5> QED
          BY <3>2, <3>4, <5>1
      <4> QED
        BY <4>1, <4>2
    <3>10. KeptAt(now, r, seq, places, n)
      BY <3>1, <3>6, <3>7, <3>8, <3>9 DEF KeptAt
    <3> QED
      BY <2>2, <2>4, <2>7, <3>10 DEF r
  <2>8. CASE n \notin places
    <3>1. (1..n) \cap places = (1..(n - 1)) \cap places
      BY <2>2, <2>8
    <3>2. KeptAt(at, q, seq, places, n)
      BY <2>5, <3>1 DEF KeptAt
    <3> QED
      BY <2>2, <2>4, <2>8, <3>2
  <2> QED
    BY <2>7, <2>8
<1> HIDE DEF T
<1>5. m \in T
  BY <1>1, <1>3, <1>4, Induction
<1> QED
  BY <1>5 DEF T, K

-----------------------------------------------------------------------------
(* A listing.                                                               *)

(* One position comes before another in an order.                           *)
Before(order, p, q) == IF order = "ascending" THEN p < q ELSE p > q

(* What a listing from the cursor has ahead of it, and what it is to give.  *)
Ahead(order, cursor) ==
  {p \in (lowest + 1)..Len(ledger) :
     IF order = "ascending" THEN p > cursor ELSE cursor = Nowhere \/ p < cursor}

(* Those among them that match, or all when every transaction is wanted.    *)
Wanted(wants, order, cursor) == {p \in Ahead(order, cursor) : wants => ledger[p]}

(* The listable positions are those ahead of the cursor, in order.          *)
LEMMA ListableIsAhead ==
  ASSUME LedgerTypeOK, NEW order \in {"ascending", "descending"},
         NEW cursor \in 0..Len(ledger), ~OutOfRange(order, cursor)
  PROVE  /\ Listable(order, cursor) \in Seq(Ahead(order, cursor))
         /\ \A i, j \in 1..Len(Listable(order, cursor)) :
              i < j => Before(order, Listable(order, cursor)[i], Listable(order, cursor)[j])
         /\ \A p \in Ahead(order, cursor) :
              \E i \in 1..Len(Listable(order, cursor)) : p = Listable(order, cursor)[i]
<1> DEFINE all == Listable(order, cursor)
           N == Len(ledger)
<1>1. N \in Nat /\ lowest \in 0..N /\ cursor \in 0..N
  BY DEF LedgerTypeOK
<1> HIDE DEF N
<1>2. CASE order = "ascending"
  <2> DEFINE from == IF cursor < lowest THEN lowest ELSE cursor
  <2>1. from \in 0..N /\ N - from \in Nat
    BY <1>1
  <2>2. all = [i \in 1..(N - from) |-> from + i]
    BY <1>2 DEF Listable, N
  <2>3. Ahead(order, cursor) = {p \in (lowest + 1)..N : p > cursor}
    BY <1>2 DEF Ahead, N
  <2>4. \A i \in 1..(N - from) : from + i \in Ahead(order, cursor)
    BY <1>1, <2>3
  <2>5. \A p \in Ahead(order, cursor) : p - from \in 1..(N - from) /\ p = from + (p - from)
    BY <1>1, <2>3
  <2> HIDE DEF from
  <2>6. all \in Seq(Ahead(order, cursor)) /\ Len(all) = N - from
    BY <2>1, <2>2, <2>4
  <2>7. \A i \in 1..(N - from) : all[i] = from + i
    BY <2>2
  <2>8. \A i, j \in 1..(N - from) : i < j => Before(order, all[i], all[j])
    BY <1>2, <2>1, <2>7 DEF Before
  <2>9. \A p \in Ahead(order, cursor) : \E i \in 1..(N - from) : p = all[i]
    BY <2>5, <2>7
  <2> QED
    BY <2>6, <2>8, <2>9
<1>3. CASE order = "descending"
  <2> DEFINE to == IF cursor = Nowhere THEN N + 1 ELSE cursor
             n == to - 1 - lowest
  <2>1. to \in 1..(N + 1) /\ n \in Nat /\ lowest \in Nat
    BY <1>1, <1>3 DEF OutOfRange, Nowhere
  <2>2. all = [i \in 1..n |-> to - i]
    BY <1>3 DEF Listable, N
  <2>3. Ahead(order, cursor) = {p \in (lowest + 1)..N : cursor = Nowhere \/ p < cursor}
    BY <1>3 DEF Ahead, N
  <2>4. \A i \in 1..n : to - i \in Ahead(order, cursor)
    BY <1>1, <2>1, <2>3 DEF Nowhere
  <2>5. \A p \in Ahead(order, cursor) : to - p \in 1..n /\ p = to - (to - p)
    BY <1>1, <2>1, <2>3 DEF Nowhere
  <2> HIDE DEF to, n
  <2>6. all \in Seq(Ahead(order, cursor)) /\ Len(all) = n
    BY <2>1, <2>2, <2>4
  <2>7. \A i \in 1..n : all[i] = to - i
    BY <2>2
  <2>8. \A i, j \in 1..n : i < j => Before(order, all[i], all[j])
    BY <1>3, <2>1, <2>7 DEF Before
  <2>9. \A p \in Ahead(order, cursor) : \E i \in 1..n : p = all[i]
    BY <2>5, <2>7
  <2> QED
    BY <2>6, <2>8, <2>9
<1> QED
  BY <1>2, <1>3

(* What an append holds, and where.                                         *)
LEMMA AppendAt ==
  ASSUME NEW A, NEW q \in Seq(A), NEW a \in A
  PROVE  /\ Len(Append(q, a)) = Len(q) + 1 /\ Append(q, a)[Len(q) + 1] = a
         /\ \A i \in 1..Len(q) : Append(q, a)[i] = q[i]
OBVIOUS

(* What two sequences joined hold, and where.                               *)
LEMMA Joined ==
  ASSUME NEW A, NEW q \in Seq(A), NEW r \in Seq(A)
  PROVE  /\ q \o r \in Seq(A) /\ Len(q \o r) = Len(q) + Len(r)
         /\ \A i \in 1..(Len(q) + Len(r)) :
              (q \o r)[i] = IF i <= Len(q) THEN q[i] ELSE r[i - Len(q)]
OBVIOUS

(* An append is one longer.                                                 *)
LEMMA AppendIsLonger ==
  ASSUME NEW A, NEW q \in Seq(A), NEW a \in A
  PROVE  Len(Append(q, a)) = Len(q) + 1 /\ Len(q) \in Nat
OBVIOUS

(* A set of numbers has a least one.                                        *)
LEMMA Least ==
  ASSUME NEW T, T \subseteq Nat, T # {}
  PROVE  \E x \in T : \A y \in T : x <= y
<1> DEFINE Less == {p \in Nat \X Nat : p[1] < p[2]}
<1>1. IsWellFoundedOn(Less, Nat)
  BY NatLessThanWellFounded DEF OpToRel
<1>2. \A x, y \in Nat : <<y, x>> \in Less <=> y < x
  OBVIOUS
<1> HIDE DEF Less
<1>3. PICK x \in T : \A y \in T : ~ (<<y, x>> \in Less)
  BY <1>1, WFMin
<1>4. \A y \in T : ~ (y < x)
  BY <1>2, <1>3
<1> QED
  BY <1>4

(* The frames of a listing: those of the kept ones among the positions it   *)
(* looked at, and where it stopped.                                         *)
Scan(listing, wants, all, sent, looked) ==
  /\ looked \in 0..Len(all)
  /\ looked = 0 => Len(all) = 0
  /\ Len(sent) <= LEDGER_PAGE_SIZE + 1
  /\ \E at : KeptAt(at, sent, all, {i \in 1..Len(all) : wants => ledger[all[i]]}, looked)
  /\ listing.frames =
       [i \in 1..Len(sent) |-> [watermark |-> sent[i], digest |-> sent[i]]]
         \o (IF looked = 0 THEN <<>>
             ELSE <<[watermark |-> all[looked], digest |-> Nowhere]>>)
  /\ \/ listing.reason = CASE Len(sent) = LEDGER_PAGE_SIZE + 1 -> "itemLimit"
                           [] Len(sent) # LEDGER_PAGE_SIZE + 1 /\ looked < Len(all) -> "scanLimit"
                           [] OTHER -> "end"
     \/ /\ listing.reason = "unsaid"
        /\ ~(Len(sent) # LEDGER_PAGE_SIZE + 1 /\ looked < Len(all))

(* A listing sends the matches among the positions it looked at, in order;  *)
(* it stops at the end of the ledger, at one match more than a page holds,  *)
(* or at its scan limit; and says why, or not, when it is not that last.    *)
LEMMA ListingScans ==
  ASSUME LedgerTypeOK, NEW wants, NEW order, NEW cursor,
         Listable(order, cursor) \in Seq(Ahead(order, cursor)),
         NEW listing \in Closings(Listing(wants, order, cursor))
  PROVE  \E sent \in Seq(Ahead(order, cursor)) : \E looked :
           Scan(listing, wants, Listable(order, cursor), sent, looked)
<1> DEFINE all == Listable(order, cursor)
           places == {i \in 1..Len(all) : wants => ledger[all[i]]}
           Sent == Kept(all, places)
           Stops(n) == n \in {Len(all), ScanLimit} \/ Len(Sent[n]) = LEDGER_PAGE_SIZE + 1
           Stop(n) == Stops(n) /\ \A k \in 0..(n - 1) : ~Stops(k)
           looked == CHOOSE n \in 0..Len(all) : Stop(n)
           N == Len(all)
           A == Ahead(order, cursor)
<1>1. N \in Nat /\ all \in Seq(A)
  OBVIOUS
<1>2. /\ Sent \in [0..N -> Seq(A)] /\ Sent[0] = <<>>
      /\ \A n \in 1..N :
           Sent[n] = IF n \in places THEN Append(Sent[n - 1], all[n]) ELSE Sent[n - 1]
  <2> HIDE DEF places
  <2> QED
    BY <1>1, KeptSteps
<1>3. \A n \in 0..N : \E at : KeptAt(at, Sent[n], all, places, n)
  <2> HIDE DEF places
  <2> QED
    BY <1>1, KeptInOrder
<1>4. /\ LEDGER_PAGE_SIZE \in Nat \ {0} /\ ScanLimit \in Nat \ {0}
  BY LimitsPositive
<1> HIDE DEF Sent, places
<1>5. \E n \in 0..N : Stop(n)
  <2> DEFINE T == {n \in 0..N : Stops(n)}
  <2>1. N \in T /\ T \subseteq Nat
    BY <1>1
  <2> HIDE DEF T
  <2>2. PICK n \in T : \A k \in T : n <= k
    BY <2>1, Least
  <2>3. n \in 0..N /\ Stops(n)
    BY <2>2 DEF T
  <2>4. ASSUME NEW k \in 0..(n - 1)
        PROVE  ~Stops(k)
    <3>1. k \in 0..N /\ ~(n <= k)
      BY <1>1, <2>3
    <3> QED
      BY <2>2, <3>1 DEF T
  <2> QED
    BY <2>3, <2>4
<1> HIDE DEF Stop
<1>6. looked \in 0..N /\ Stop(looked)
  BY <1>5
<1> HIDE DEF looked
<1>7. \A k \in 0..(looked - 1) : Len(Sent[k]) <= LEDGER_PAGE_SIZE
  <2> DEFINE T == {n \in 0..N : n < looked => Len(Sent[n]) <= LEDGER_PAGE_SIZE}
  <2>1. 0 \in T
    BY <1>1, <1>2, <1>4
  <2>2. ASSUME NEW n \in 1..N, n - 1 \in T
        PROVE  n \in T
    <3> SUFFICES ASSUME n < looked PROVE Len(Sent[n]) <= LEDGER_PAGE_SIZE
      BY <1>1
    <3>1. n - 1 \in 0..N /\ n \in 0..(looked - 1) /\ n - 1 < looked
      BY <1>1, <1>6
    <3>2. Len(Sent[n - 1]) <= LEDGER_PAGE_SIZE
      BY <2>2, <3>1
    <3>3. Sent[n - 1] \in Seq(A) /\ all[n] \in A
      BY <1>1, <1>2, <3>1
    <3>4. Len(Sent[n]) <= Len(Sent[n - 1]) + 1
      <4>1. Len(Append(Sent[n - 1], all[n])) = Len(Sent[n - 1]) + 1
        BY <3>3, AppendIsLonger
      <4>2. Sent[n] = Append(Sent[n - 1], all[n]) \/ Sent[n] = Sent[n - 1]
        BY <1>2
      <4>3. Len(Sent[n - 1]) \in Nat
        BY <3>3
      <4> QED
        BY <4>1, <4>2, <4>3
    <3>5. Len(Sent[n]) # LEDGER_PAGE_SIZE + 1
      BY <1>6, <3>1 DEF Stop
    <3>6. Len(Sent[n]) \in Nat /\ Len(Sent[n - 1]) \in Nat
      BY <1>2, <3>3
    <3> QED
      BY <1>4, <3>2, <3>4, <3>5, <3>6
  <2> HIDE DEF T
  <2>3. \A n \in 0..N : n \in T
    BY <1>1, <2>1, <2>2, Induction
  <2> QED
    BY <1>1, <1>6, <2>3 DEF T
<1>8. Len(Sent[looked]) <= LEDGER_PAGE_SIZE + 1
  <2>1. CASE looked = 0
    BY <1>2, <1>4, <2>1
  <2>2. CASE looked # 0
    <3>1. looked \in 1..N /\ looked - 1 \in 0..(looked - 1) /\ looked - 1 \in 0..N
      BY <1>1, <1>6, <2>2
    <3>2. Len(Sent[looked - 1]) <= LEDGER_PAGE_SIZE
      BY <1>7, <3>1
    <3>3. Sent[looked - 1] \in Seq(A) /\ all[looked] \in A
      BY <1>1, <1>2, <3>1
    <3>4. Len(Sent[looked]) <= Len(Sent[looked - 1]) + 1
      <4>1. Len(Append(Sent[looked - 1], all[looked])) = Len(Sent[looked - 1]) + 1
        BY <3>3, AppendIsLonger
      <4>2. \/ Sent[looked] = Append(Sent[looked - 1], all[looked])
            \/ Sent[looked] = Sent[looked - 1]
        BY <1>2, <3>1
      <4>3. Len(Sent[looked - 1]) \in Nat
        BY <3>3
      <4> QED
        BY <4>1, <4>2, <4>3
    <3>5. Len(Sent[looked]) \in Nat /\ Len(Sent[looked - 1]) \in Nat
      BY <1>2, <1>6, <3>3
    <3> QED
      BY <1>4, <3>2, <3>4, <3>5
  <2> QED
    BY <2>1, <2>2
<1>9. looked = 0 => N = 0
  BY <1>2, <1>4, <1>6 DEF Stop
<1> DEFINE Made(q) ==
        [frames |-> [i \in 1..Len(q) |-> [watermark |-> q[i], digest |-> q[i]]]
                      \o (IF looked = 0 THEN <<>>
                          ELSE <<[watermark |-> all[looked], digest |-> Nowhere]>>),
         reason |-> CASE Len(q) = LEDGER_PAGE_SIZE + 1 -> "itemLimit"
                      [] Len(q) # LEDGER_PAGE_SIZE + 1 /\ looked < Len(all) -> "scanLimit"
                      [] OTHER -> "end"]
<1>10. Listing(wants, order, cursor) = Made(Sent[looked])
  BY DEF Listing, looked, Stop, Sent, places
<1> HIDE DEF Made
<1>11. PICK sent \in Seq(A) : sent = Sent[looked]
  BY <1>2, <1>6
<1>12. Scan(listing, wants, all, sent, looked)
  <2>1. \E at : KeptAt(at, sent, all, places, looked)
    BY <1>3, <1>6, <1>11
  <2>2. looked = 0 => Len(all) = 0
    BY <1>9
  <2>3. /\ looked \in 0..Len(all)
        /\ Len(sent) <= LEDGER_PAGE_SIZE + 1
    BY <1>6, <1>8, <1>11
  <2>4. /\ listing.frames =
             [i \in 1..Len(sent) |-> [watermark |-> sent[i], digest |-> sent[i]]]
               \o (IF looked = 0 THEN <<>>
                   ELSE <<[watermark |-> all[looked], digest |-> Nowhere]>>)
        /\ \/ listing.reason =
                CASE Len(sent) = LEDGER_PAGE_SIZE + 1 -> "itemLimit"
                  [] Len(sent) # LEDGER_PAGE_SIZE + 1 /\ looked < Len(all) -> "scanLimit"
                  [] OTHER -> "end"
           \/ /\ listing.reason = "unsaid"
              /\ ~(Len(sent) # LEDGER_PAGE_SIZE + 1 /\ looked < Len(all))
    <3>1. Listing(wants, order, cursor) = Made(sent)
      BY <1>10, <1>11
    <3>2. CASE listing = Made(sent)
      BY <3>2 DEF Made
    <3>3. CASE /\ listing = [Made(sent) EXCEPT !.reason = "unsaid"]
               /\ Made(sent).reason # "scanLimit"
      BY <3>3 DEF Made
    <3> QED
      BY <3>1, <3>2, <3>3 DEF Closings
  <2> QED
    BY <2>1, <2>2, <2>3, <2>4 DEF Scan, places
<1> QED
  BY <1>11, <1>12

-----------------------------------------------------------------------------
(* The page of a listing's frames.                                          *)

(* The frames of a listing, and a page that is being read from them.        *)
Frame == [watermark : Nat, digest : Nat]

Partial ==
  [digests : Seq(Nat), frontier : Nat, endCursor : Nat, sawLookahead : BOOLEAN]

Empty == [digests |-> <<>>, frontier |-> Nowhere, endCursor |-> Nowhere,
          sawLookahead |-> FALSE]

(* A frame read is a page again.                                            *)
LEMMA FrameIsRead ==
  ASSUME NEW page \in Partial, NEW frame \in Frame
  PROVE  readFrame(page, frame) \in Partial
<1>1. page.digests \in Seq(Nat) /\ frame.digest \in Nat /\ frame.watermark \in Nat
  BY DEF Partial, Frame
<1>2. Append(page.digests, frame.digest) \in Seq(Nat)
  BY <1>1
<1>3. CASE frame.digest = Nowhere
  BY <1>1, <1>3 DEF readFrame, Partial
<1>4. CASE frame.digest # Nowhere /\ Len(page.digests) >= LEDGER_PAGE_SIZE
  BY <1>1, <1>4 DEF readFrame, Partial
<1>5. CASE frame.digest # Nowhere /\ ~(Len(page.digests) >= LEDGER_PAGE_SIZE)
  <2>1. PICK d \in Seq(Nat) : d = Append(page.digests, frame.digest)
    BY <1>2
  <2>2. readFrame(page, frame) =
          [page EXCEPT !.frontier = frame.watermark, !.endCursor = frame.watermark,
                       !.digests = d]
    BY <1>5, <2>1 DEF readFrame
  <2> QED
    BY <1>1, <2>2 DEF Partial
<1> QED
  BY <1>3, <1>4, <1>5

(* pageAfter reads the frames one by one.                                   *)
LEMMA PageSteps ==
  ASSUME NEW frames \in Seq(Frame)
  PROVE  /\ pageAfter(frames) \in [0..Len(frames) -> Partial]
         /\ pageAfter(frames)[0] = Empty
         /\ \A n \in 1..Len(frames) :
              pageAfter(frames)[n] = readFrame(pageAfter(frames)[n - 1], frames[n])
<1> DEFINE N == Len(frames)
           step == [p \in (1..N) \X Partial |-> readFrame(p[2], frames[p[1]])]
<1>1. N \in Nat /\ \A n \in 1..N : frames[n] \in Frame
  OBVIOUS
<1>2. step \in [(1..N) \X Partial -> Partial]
  BY <1>1, FrameIsRead
<1>3. \A n \in 1..N, s \in Partial : step[<<n, s>>] = readFrame(s, frames[n])
  OBVIOUS
<1>4. Empty \in Partial
  <2>1. <<>> \in Seq(Nat)
    OBVIOUS
  <2> QED
    BY <2>1 DEF Empty, Partial, Nowhere
<1> HIDE DEF step, N
<1>5. PICK f : Recurs(f, N, Partial, Empty, step)
  BY <1>1, <1>2, <1>4, Recursion
<1>6. ASSUME NEW n \in 1..N
      PROVE  f[n] = readFrame(f[n - 1], frames[n])
  <2>1. n - 1 \in 0..N
    BY <1>1
  <2>2. f[n - 1] \in Partial
    BY <1>5, <2>1 DEF Recurs
  <2> QED
    BY <1>3, <1>5, <2>2 DEF Recurs
<1> DEFINE Def(g) == [n \in 0..N |-> IF n = 0 THEN Empty ELSE readFrame(g[n - 1], frames[n])]
<1>7. f = Def(f)
  <2>1. \A n \in 0..N : n # 0 => n \in 1..N
    BY <1>1
  <2>2. \A n \in 0..N : f[n] = IF n = 0 THEN Empty ELSE readFrame(f[n - 1], frames[n])
    BY <1>5, <1>6, <2>1 DEF Recurs
  <2> QED
    BY <1>5, <2>2 DEF Recurs
<1> DEFINE P == pageAfter(frames)
<1>8. P = CHOOSE g : g = Def(g)
  BY DEF pageAfter, N, Empty
<1> HIDE DEF P, Def
<1>9. P = Def(P)
  BY <1>7, <1>8
<1>10. P[0] = Empty
  BY <1>1, <1>9 DEF Def
<1>11. ASSUME NEW n \in 1..N
       PROVE  P[n] = readFrame(P[n - 1], frames[n])
  <2>1. n \in 0..N /\ n # 0
    BY <1>1
  <2> QED
    BY <1>9, <2>1 DEF Def
<1>12. P \in [0..N -> Partial]
  <2> DEFINE T == {n \in 0..N : P[n] \in Partial}
  <2>1. 0 \in T
    BY <1>1, <1>4, <1>10
  <2>2. ASSUME NEW n \in 1..N, n - 1 \in T
        PROVE  n \in T
    <3>1. P[n - 1] \in Partial /\ n \in 0..N
      BY <1>1, <2>2
    <3> QED
      BY <1>1, <1>11, <3>1, FrameIsRead
  <2> HIDE DEF T
  <2>3. \A n \in 0..N : n \in T
    BY <1>1, <2>1, <2>2, Induction
  <2> QED
    BY <1>9, <2>3 DEF T, Def
<1> QED
  BY <1>10, <1>11, <1>12 DEF P, N

(* The page after the frames of the first n of the matches that were sent.  *)
Holds(page, sent, n, full) ==
  /\ Len(page.digests) = full
  /\ \A i \in 1..full : page.digests[i] = sent[i]
  /\ page.frontier = IF n = 0 THEN Nowhere ELSE sent[n]
  /\ page.endCursor = IF n = 0 THEN Nowhere ELSE sent[full]

Filled(page, sent, n) ==
  IF n <= LEDGER_PAGE_SIZE
  THEN Holds(page, sent, n, n) /\ page.sawLookahead = FALSE
  ELSE Holds(page, sent, n, LEDGER_PAGE_SIZE) /\ page.sawLookahead = TRUE

(* After the frames of the matches the page holds them, up to the size of a *)
(* page, and ends at the last one it took in.                               *)
LEMMA FramesFill ==
  ASSUME NEW frames \in Seq(Frame), NEW sent \in Seq(Nat \ {0}),
         Len(sent) <= Len(frames),
         \A i \in 1..Len(sent) : frames[i].digest = sent[i] /\ frames[i].watermark = sent[i]
  PROVE  \A n \in 0..Len(sent) : Filled(pageAfter(frames)[n], sent, n)
<1> DEFINE N == Len(frames)
           L == Len(sent)
           P == pageAfter(frames)
           T == {n \in 0..L : Filled(P[n], sent, n)}
<1>1. N \in Nat /\ L \in Nat /\ L <= N /\ LEDGER_PAGE_SIZE \in Nat \ {0}
  BY LimitsPositive
<1>2. P \in [0..N -> Partial] /\ P[0] = Empty
  BY PageSteps
<1>3. \A n \in 1..N : P[n] = readFrame(P[n - 1], frames[n])
  BY PageSteps
<1>4. \A i \in 1..L : sent[i] \in Nat \ {0}
  OBVIOUS
<1>5. \A i \in 1..L : frames[i].digest = sent[i] /\ frames[i].watermark = sent[i]
  OBVIOUS
<1> HIDE DEF N, L, P
<1>6. 0 \in T
  <2>1. Empty.digests = <<>> /\ Empty.frontier = Nowhere /\ Empty.endCursor = Nowhere
        /\ Empty.sawLookahead = FALSE
    BY DEF Empty
  <2>2. Len(Empty.digests) = 0 /\ 0 <= LEDGER_PAGE_SIZE
    BY <1>1, <2>1
  <2>3. Filled(Empty, sent, 0)
    BY <1>1, <2>1, <2>2 DEF Filled, Holds
  <2> QED
    BY <1>1, <1>2, <2>3
<1>7. ASSUME NEW n \in 1..L, n - 1 \in T
      PROVE  n \in T
  <2>1. n \in Nat /\ n >= 1 /\ n - 1 \in Nat /\ n - 1 \in 0..N /\ n \in 0..L /\ n \in 1..N
    BY <1>1
  <2> DEFINE page == P[n - 1]
             now == P[n]
             frame == frames[n]
  <2>2. page \in Partial /\ Filled(page, sent, n - 1)
    BY <1>2, <1>7, <2>1
  <2>3. now = readFrame(page, frame)
    BY <1>3, <2>1
  <2>4. frame.digest = sent[n] /\ frame.watermark = sent[n] /\ sent[n] \in Nat /\ sent[n] # 0
    BY <1>4, <1>5
  <2> HIDE DEF page, now, frame
  <2>5. page.digests \in Seq(Nat)
    BY <2>2 DEF Partial
  <2>6. CASE n <= LEDGER_PAGE_SIZE
    <3>1. Len(page.digests) = n - 1 /\ \A i \in 1..(n - 1) : page.digests[i] = sent[i]
      BY <1>1, <2>1, <2>2, <2>6 DEF Filled, Holds
    <3>2. page.sawLookahead = FALSE
      BY <1>1, <2>1, <2>2, <2>6 DEF Filled, Holds
    <3>a. Append(page.digests, sent[n]) \in Seq(Nat)
      BY <2>4, <2>5
    <3>3. PICK d \in Seq(Nat) : d = Append(page.digests, sent[n])
      BY <3>a, Zenon
    <3>b. /\ Len(d) = Len(page.digests) + 1 /\ d[Len(page.digests) + 1] = sent[n]
          /\ \A i \in 1..Len(page.digests) : d[i] = page.digests[i]
      BY <2>4, <2>5, <3>3, AppendAt
    <3>4. Len(d) = n /\ \A i \in 1..n : d[i] = sent[i]
      <4>1. Len(d) = n /\ d[n] = sent[n]
        BY <2>1, <3>1, <3>b
      <4>2. \A i \in 1..n : i = n \/ i \in 1..(n - 1)
        BY <2>1
      <4>3. \A i \in 1..(n - 1) : d[i] = sent[i]
        BY <3>1, <3>b
      <4> QED
        BY <4>1, <4>2, <4>3
    <3>5. now = [page EXCEPT !.frontier = sent[n], !.endCursor = sent[n], !.digests = d]
      BY <1>1, <2>1, <2>3, <2>4, <2>6, <3>1, <3>3 DEF readFrame, Nowhere
    <3>6. now.digests = d /\ now.frontier = sent[n] /\ now.endCursor = sent[n]
          /\ now.sawLookahead = FALSE
      BY <2>2, <3>2, <3>5 DEF Partial
    <3>7. Filled(now, sent, n)
      BY <1>1, <2>1, <2>6, <3>4, <3>6 DEF Filled, Holds
    <3> QED
      BY <2>1, <3>7 DEF now
  <2>7. CASE ~(n <= LEDGER_PAGE_SIZE)
    <3>1. Len(page.digests) = LEDGER_PAGE_SIZE
          /\ \A i \in 1..LEDGER_PAGE_SIZE : page.digests[i] = sent[i]
      BY <1>1, <2>1, <2>2, <2>7 DEF Filled, Holds
    <3>2. page.endCursor = sent[LEDGER_PAGE_SIZE]
      BY <1>1, <2>1, <2>2, <2>7 DEF Filled, Holds
    <3>3. now = [page EXCEPT !.frontier = sent[n], !.sawLookahead = TRUE]
      BY <1>1, <2>1, <2>3, <2>4, <2>7, <3>1 DEF readFrame, Nowhere
    <3>4. now.digests = page.digests /\ now.frontier = sent[n]
          /\ now.endCursor = page.endCursor /\ now.sawLookahead = TRUE
      BY <2>2, <3>3 DEF Partial
    <3>5. Filled(now, sent, n)
      BY <1>1, <2>1, <2>7, <3>1, <3>2, <3>4 DEF Filled, Holds
    <3> QED
      BY <2>1, <3>5 DEF now
  <2> QED
    BY <2>6, <2>7
<1> HIDE DEF T
<1>8. \A n \in 0..L : n \in T
  BY <1>1, <1>6, <1>7, Induction
<1> QED
  BY <1>8 DEF T, L, P

(* What the page is, by how the listing stopped: at the match after a full  *)
(* page, short of the end, or at the end.                                   *)
Stopped(page, all, sent, looked) ==
  LET full == IF Len(sent) <= LEDGER_PAGE_SIZE THEN Len(sent) ELSE LEDGER_PAGE_SIZE
  IN /\ page.items \in Seq(Nat)
     /\ Len(page.items) = full
     /\ \A i \in 1..full : page.items[i] = sent[i]
     /\ IF Len(sent) = LEDGER_PAGE_SIZE + 1
        THEN page.hasNextPage = TRUE /\ page.endCursor = sent[full]
        ELSE IF looked < Len(all)
        THEN page.hasNextPage = TRUE /\ page.endCursor = all[looked]
        ELSE /\ page.hasNextPage = FALSE
             /\ page.endCursor = IF full = 0 THEN Nowhere ELSE sent[full]

(* What the page says of its end, for each of the three ways a listing      *)
(* stops.                                                                   *)
LEMMA PageStops ==
  ASSUME NEW all \in Seq(Nat \ {0}), NEW sent \in Seq(Nat \ {0}), NEW looked,
         NEW wants, NEW listing, Scan(listing, wants, all, sent, looked)
  PROVE  Stopped(pageOf(listing), all, sent, looked)
<1> DEFINE L == Len(sent)
           frames == listing.frames
           heads == [i \in 1..L |-> [watermark |-> sent[i], digest |-> sent[i]]]
           stop == IF looked = 0 THEN <<>>
                   ELSE <<[watermark |-> all[looked], digest |-> Nowhere]>>
           page == pageAfter(frames)[Len(frames)]
           last == pageAfter(frames)[L]
<1>1. /\ L \in Nat /\ Len(all) \in Nat /\ looked \in 0..Len(all) /\ L <= LEDGER_PAGE_SIZE + 1
      /\ LEDGER_PAGE_SIZE \in Nat \ {0} /\ (looked = 0 => Len(all) = 0)
  BY LimitsPositive DEF Scan
<1>2. \A i \in 1..L : sent[i] \in Nat \ {0}
  OBVIOUS
<1>3. \A i \in 1..Len(all) : all[i] \in Nat \ {0}
  OBVIOUS
<1>4. frames = heads \o stop
  BY DEF Scan
<1>5. heads \in Seq(Frame) /\ Len(heads) = L
  BY <1>1, <1>2 DEF Frame
<1>6. stop \in Seq(Frame) /\ Len(stop) = (IF looked = 0 THEN 0 ELSE 1)
  <2>1. CASE looked = 0
    BY <2>1
  <2>2. CASE looked # 0
    <3>1. looked \in 1..Len(all)
      BY <1>1, <2>2
    <3>2. [watermark |-> all[looked], digest |-> Nowhere] \in Frame
      BY <1>3, <3>1 DEF Frame, Nowhere
    <3> QED
      BY <2>2, <3>2
  <2> QED
    BY <2>1, <2>2
<1>7. \A i \in 1..L : heads[i].watermark = sent[i] /\ heads[i].digest = sent[i]
  OBVIOUS
<1>8. looked # 0 => stop[1].watermark = all[looked] /\ stop[1].digest = Nowhere
  OBVIOUS
<1> HIDE DEF heads, stop, frames
<1>c. /\ heads \o stop \in Seq(Frame) /\ Len(heads \o stop) = Len(heads) + Len(stop)
      /\ \A i \in 1..(Len(heads) + Len(stop)) :
           (heads \o stop)[i] = IF i <= Len(heads) THEN heads[i] ELSE stop[i - Len(heads)]
  <2> HIDE DEF L
  <2> QED
    BY <1>5, <1>6, Joined
<1>d. Len(stop) \in {0, 1} /\ (looked # 0 => Len(stop) = 1)
  BY <1>6
<1>9. frames \in Seq(Frame) /\ Len(frames) = L + Len(stop)
  BY <1>4, <1>5, <1>c
<1>10. \A i \in 1..L : frames[i] = heads[i]
  BY <1>1, <1>4, <1>5, <1>d, <1>c
<1>11. looked # 0 => frames[L + 1] = stop[1]
  <2> SUFFICES ASSUME looked # 0 PROVE frames[L + 1] = stop[1]
    OBVIOUS
  <2>1. L + 1 \in 1..(L + 1) /\ ~(L + 1 <= L) /\ (L + 1) - L = 1
    BY <1>1
  <2> QED
    BY <1>4, <1>5, <1>d, <1>c, <2>1
<1>12. Filled(last, sent, L)
  <2>1. \A i \in 1..L : frames[i].digest = sent[i] /\ frames[i].watermark = sent[i]
    BY <1>7, <1>10
  <2>2. L <= Len(frames)
    BY <1>1, <1>6, <1>9
  <2>3. \A n \in 0..L : Filled(pageAfter(frames)[n], sent, n)
    BY <1>9, <2>1, <2>2, FramesFill
  <2> QED
    BY <1>1, <2>3
<1>13. last \in Partial /\ page \in Partial
  <2>1. L \in 0..Len(frames) /\ Len(frames) \in 0..Len(frames)
    BY <1>1, <1>d, <1>9
  <2>2. pageAfter(frames) \in [0..Len(frames) -> Partial]
    BY <1>9, PageSteps
  <2> QED
    BY <2>1, <2>2
<1>14. looked # 0 => page = readFrame(last, frames[L + 1])
  <2> SUFFICES ASSUME looked # 0
               PROVE  page = readFrame(last, frames[L + 1])
    OBVIOUS
  <2>1. Len(frames) = L + 1 /\ L + 1 \in 1..(L + 1) /\ (L + 1) - 1 = L
    BY <1>1, <1>6, <1>9
  <2> QED
    BY <1>9, <2>1, PageSteps
<1>15. looked = 0 => page = last
  BY <1>1, <1>6, <1>9
<1> HIDE DEF page, last
<1>16. /\ page.digests = last.digests /\ page.endCursor = last.endCursor
       /\ page.sawLookahead = last.sawLookahead
       /\ page.frontier = IF looked = 0 THEN last.frontier ELSE all[looked]
  <2>1. CASE looked = 0
    BY <1>15, <2>1
  <2>2. CASE looked # 0
    <3>1. frames[L + 1].digest = Nowhere /\ frames[L + 1].watermark = all[looked]
      BY <1>8, <1>11, <2>2
    <3> DEFINE frame == frames[L + 1]
    <3>2. page = readFrame(last, frame)
      BY <1>14, <2>2
    <3>3. frame.digest = Nowhere /\ frame.watermark = all[looked]
      BY <3>1
    <3> HIDE DEF frame
    <3>4. page = [last EXCEPT !.frontier = all[looked]]
      BY <3>2, <3>3 DEF readFrame
    <3> QED
      BY <1>13, <2>2, <3>4 DEF Partial
  <2> QED
    BY <2>1, <2>2
<1> DEFINE full == IF L <= LEDGER_PAGE_SIZE THEN L ELSE LEDGER_PAGE_SIZE
           hasNextPage == page.sawLookahead \/ listing.reason \in {"itemLimit", "scanLimit"}
<1>17. /\ pageOf(listing).items = page.digests
       /\ pageOf(listing).hasNextPage = hasNextPage
       /\ pageOf(listing).endCursor =
            IF page.sawLookahead \/ ~hasNextPage \/ page.frontier = Nowhere
            THEN page.endCursor ELSE page.frontier
  BY DEF pageOf, page, frames
<1>18. /\ page.digests \in Seq(Nat) /\ Len(page.digests) = full
       /\ \A i \in 1..full : page.digests[i] = sent[i]
  BY <1>12, <1>13, <1>16 DEF Filled, Holds, Partial
<1>19. /\ page.endCursor = IF full = 0 THEN Nowhere ELSE sent[full]
       /\ page.sawLookahead = IF L <= LEDGER_PAGE_SIZE THEN FALSE ELSE TRUE
  <2>1. CASE L <= LEDGER_PAGE_SIZE
    <3>1. full = L
      BY <2>1
    <3>2. Holds(last, sent, L, L) /\ last.sawLookahead = FALSE
      BY <1>12, <2>1 DEF Filled
    <3> QED
      BY <1>16, <2>1, <3>1, <3>2 DEF Holds
  <2>2. CASE ~(L <= LEDGER_PAGE_SIZE)
    <3>1. full = LEDGER_PAGE_SIZE /\ L # 0 /\ full # 0
      BY <1>1, <2>2
    <3>2. Holds(last, sent, L, LEDGER_PAGE_SIZE) /\ last.sawLookahead = TRUE
      BY <1>12, <2>2 DEF Filled
    <3> QED
      BY <1>16, <2>2, <3>1, <3>2 DEF Holds
  <2> QED
    BY <2>1, <2>2
<1>20. \/ listing.reason = CASE L = LEDGER_PAGE_SIZE + 1 -> "itemLimit"
                             [] Len(sent) # LEDGER_PAGE_SIZE + 1 /\ looked < Len(all) -> "scanLimit"
                             [] OTHER -> "end"
       \/ /\ listing.reason = "unsaid"
          /\ ~(Len(sent) # LEDGER_PAGE_SIZE + 1 /\ looked < Len(all))
  BY DEF Scan
<1> HIDE DEF full
<1>21. CASE L = LEDGER_PAGE_SIZE + 1
  <2>1. page.sawLookahead = TRUE /\ hasNextPage = TRUE /\ full # 0
    BY <1>1, <1>19, <1>21 DEF full
  <2>2. pageOf(listing).hasNextPage = TRUE /\ pageOf(listing).endCursor = sent[full]
    BY <1>17, <1>19, <2>1
  <2> QED
    BY <1>17, <1>18, <1>21, <2>2 DEF Stopped, full
<1>22. CASE L # LEDGER_PAGE_SIZE + 1 /\ looked < Len(all)
  <2>1. page.sawLookahead = FALSE /\ hasNextPage = TRUE
    BY <1>1, <1>19, <1>20, <1>22
  <2>2. page.frontier = all[looked] /\ page.frontier # Nowhere
    BY <1>1, <1>3, <1>16, <1>22 DEF Nowhere
  <2>3. pageOf(listing).hasNextPage = TRUE /\ pageOf(listing).endCursor = all[looked]
    BY <1>17, <2>1, <2>2
  <2> QED
    BY <1>17, <1>18, <1>22, <2>3 DEF Stopped, full
<1>23. CASE L # LEDGER_PAGE_SIZE + 1 /\ ~(looked < Len(all))
  <2>1. page.sawLookahead = FALSE /\ hasNextPage = FALSE
    BY <1>1, <1>19, <1>20, <1>23
  <2>2. /\ pageOf(listing).hasNextPage = FALSE
        /\ pageOf(listing).endCursor = IF full = 0 THEN Nowhere ELSE sent[full]
    BY <1>17, <1>19, <2>1
  <2> QED
    BY <1>17, <1>18, <1>23, <2>2 DEF Stopped, full
<1> QED
  BY <1>21, <1>22, <1>23

-----------------------------------------------------------------------------
(* The pages.                                                               *)

(* A sequence of positions in an order.                                     *)
Ordered(order, items) ==
  \A i, j \in 1..Len(items) : i < j => Before(order, items[i], items[j])

Among(p, items) == \E i \in 1..Len(items) : items[i] = p

(* What a page gives a stream that asked from the cursor: matches in order, *)
(* all those up to where it ends, and all there are when nothing follows.   *)
PageOK(page, wants, order, cursor) ==
  /\ page.items \in Seq(Wanted(wants, order, cursor))
  /\ Ordered(order, page.items)
  /\ Len(page.items) <= LEDGER_PAGE_SIZE
  /\ page.endCursor = Nowhere => page.items = <<>>
  /\ page.endCursor # Nowhere =>
       /\ page.endCursor \in Ahead(order, cursor)
       /\ \A i \in 1..Len(page.items) : ~Before(order, page.endCursor, page.items[i])
       /\ \A p \in Wanted(wants, order, cursor) :
            ~Before(order, page.endCursor, p) => Among(p, page.items)
  /\ ~more(page) => \A p \in Wanted(wants, order, cursor) : Among(p, page.items)

(* A sequence of numbers whose elements are all in a set is a sequence over *)
(* it.                                                                      *)
LEMMA AllAmong ==
  ASSUME NEW A, NEW q \in Seq(Nat), \A i \in 1..Len(q) : q[i] \in A
  PROVE  q \in Seq(A)
<1>1. q \in [1..Len(q) -> Nat] /\ Len(q) \in Nat
  OBVIOUS
<1>2. q \in [1..Len(q) -> A]
  BY <1>1
<1> QED
  BY <1>1, <1>2

(* A sequence over a set is one over a wider set.                           *)
LEMMA Wider ==
  ASSUME NEW A, NEW B, A \subseteq B, NEW q \in Seq(A)
  PROVE  q \in Seq(B) /\ Len(q) \in Nat /\ \A i \in 1..Len(q) : q[i] \in A
<1>1. q \in [1..Len(q) -> A] /\ Len(q) \in Nat
  OBVIOUS
<1>2. q \in [1..Len(q) -> B]
  BY <1>1
<1> QED
  BY <1>1, <1>2

(* listAffectedDigests is right for every ledger, cursor, order and scan    *)
(* limit: the page it makes of the node's frames is in order, misses no     *)
(* match up to its end cursor, and says that nothing follows only when      *)
(* nothing does.                                                            *)
LEMMA PageLists ==
  ASSUME LedgerTypeOK, NEW wants \in BOOLEAN, NEW order \in {"ascending", "descending"},
         NEW cursor \in 0..Len(ledger), ~OutOfRange(order, cursor),
         NEW listing \in Closings(Listing(wants, order, cursor))
  PROVE  PageOK(pageOf(listing), wants, order, cursor)
<1> DEFINE all == Listable(order, cursor)
           M == Len(all)
           A == Ahead(order, cursor)
           W == Wanted(wants, order, cursor)
           places == {i \in 1..M : wants => ledger[all[i]]}
           page == pageOf(listing)
<1>1. /\ all \in Seq(A)
      /\ \A i, j \in 1..M : i < j => Before(order, all[i], all[j])
      /\ \A p \in A : \E i \in 1..M : p = all[i]
  BY ListableIsAhead
<1>2. A \subseteq Nat \ {0} /\ W = {p \in A : wants => ledger[p]}
  BY DEF Ahead, Wanted, LedgerTypeOK
<1> SUFFICES PageOK(page, wants, order, cursor)
  OBVIOUS
<1>a. PICK sent \in Seq(A) :
         \E looked : Scan(listing, wants, all, sent, looked)
  BY ListingScans, <1>1
<1>3. PICK looked : Scan(listing, wants, all, sent, looked)
  BY <1>a
<1>4. PICK at : KeptAt(at, sent, all, places, looked)
  BY <1>3 DEF Scan
<1> DEFINE L == Len(sent)
<1>5. /\ looked \in 0..M /\ M \in Nat /\ L \in Nat /\ LEDGER_PAGE_SIZE \in Nat \ {0}
      /\ L <= LEDGER_PAGE_SIZE + 1 /\ (looked = 0 => M = 0)
  BY <1>1, <1>3, LimitsPositive DEF Scan
<1>6. Stopped(page, all, sent, looked)
  <2>1. all \in Seq(Nat \ {0}) /\ sent \in Seq(Nat \ {0})
    BY <1>1, <1>2
  <2> HIDE DEF all
  <2> QED
    BY <1>3, <2>1, PageStops
<1>7. \A i \in 1..M : all[i] \in A
  BY <1>1
<1> HIDE DEF all, page, A, W
<1>8. /\ at \in [1..L -> (1..looked) \cap places]
      /\ \A j, k \in 1..L : j < k => at[j] < at[k]
      /\ \A j \in 1..L : sent[j] = all[at[j]]
      /\ \A i \in (1..looked) \cap places : \E j \in 1..L : at[j] = i
  BY <1>4 DEF KeptAt
<1>9. \A j \in 1..L : at[j] \in 1..looked /\ at[j] \in 1..M /\ at[j] \in places
  BY <1>5, <1>8
<1>10. \A j \in 1..L : sent[j] \in W /\ sent[j] \in Nat /\ sent[j] # 0
  BY <1>2, <1>7, <1>8, <1>9
<1>11. \A j, k \in 1..L : j < k => Before(order, sent[j], sent[k])
  BY <1>1, <1>8, <1>9
<1>12. \A p, q \in Nat : Before(order, p, q) => ~Before(order, q, p) /\ p # q
  BY DEF Before
<1>13. ASSUME NEW p \in W, NEW i \in 1..looked, p = all[i]
       PROVE  \E j \in 1..L : sent[j] = p
  <2>1. i \in places
    BY <1>2, <1>5, <1>13
  <2> QED
    BY <1>8, <1>13, <2>1
<1>14. ASSUME NEW p \in A, NEW i \in 1..M, ~Before(order, all[i], p)
       PROVE  \E k \in 1..i : p = all[k]
  <2>1. PICK k \in 1..M : p = all[k]
    BY <1>1
  <2>2. ~(i < k)
    BY <1>1, <1>14, <2>1
  <2>3. k \in 1..i
    BY <1>5, <2>2
  <2> QED
    BY <2>1, <2>3
<1>15. W \subseteq A
  BY <1>2
<1> HIDE DEF places
<1> DEFINE full == IF L <= LEDGER_PAGE_SIZE THEN L ELSE LEDGER_PAGE_SIZE
<1>16. /\ page.items \in Seq(Nat) /\ Len(page.items) = full
       /\ \A i \in 1..full : page.items[i] = sent[i]
  BY <1>6 DEF Stopped
<1>17. full \in 0..L /\ full <= LEDGER_PAGE_SIZE
  BY <1>5
<1>18. page.items \in Seq(W) /\ Ordered(order, page.items)
  <2>1. \A i \in 1..full : i \in 1..L
    BY <1>5, <1>17
  <2>2. \A i \in 1..full : page.items[i] \in W
    BY <1>10, <1>16, <2>1
  <2>3. Ordered(order, page.items)
    BY <1>11, <1>16, <2>1 DEF Ordered
  <2> HIDE DEF full
  <2> QED
    BY <1>16, <2>2, <2>3, AllAmong
<1>19. CASE L = LEDGER_PAGE_SIZE + 1
  <2> DEFINE S == LEDGER_PAGE_SIZE
  <2>1. full = S /\ S \in 1..L
    BY <1>5, <1>19
  <2>2. page.hasNextPage = TRUE /\ page.endCursor = sent[S]
    BY <1>6, <1>19, <2>1 DEF Stopped
  <2>3. sent[S] \in A /\ sent[S] # Nowhere
    BY <1>10, <1>15, <2>1 DEF Nowhere
  <2>4. \A i \in 1..S : ~Before(order, sent[S], sent[i])
    <3> SUFFICES ASSUME NEW i \in 1..S, Before(order, sent[S], sent[i]) PROVE FALSE
      OBVIOUS
    <3>1. i \in 1..L /\ sent[S] \in Nat /\ sent[i] \in Nat
      BY <1>5, <1>10, <2>1
    <3>2. i = S \/ i < S
      BY <1>5
    <3> QED
      BY <1>11, <1>12, <2>1, <3>1, <3>2
  <2>5. ASSUME NEW p \in W, ~Before(order, sent[S], p)
        PROVE  \E i \in 1..S : sent[i] = p
    <3>1. sent[S] = all[at[S]] /\ at[S] \in 1..looked /\ at[S] \in 1..M
      BY <1>8, <1>9, <2>1
    <3>2. p \in A
      BY <1>15
    <3>3. PICK k \in 1..at[S] : p = all[k]
      BY <1>14, <2>5, <3>1, <3>2
    <3>4. k \in 1..looked
      BY <1>5, <3>1
    <3>5. PICK j \in 1..L : sent[j] = p
      BY <1>13, <3>3, <3>4
    <3>6. ~(S < j)
      BY <1>11, <2>1, <2>5, <3>5
    <3>7. j \in 1..S
      BY <1>5, <3>6
    <3> QED
      BY <3>5, <3>7
  <2>6. more(page)
    BY <2>2, <2>3 DEF more
  <2> HIDE DEF full, S
  <2>7. \A p \in W : ~Before(order, page.endCursor, p) => Among(p, page.items)
    BY <1>16, <2>1, <2>2, <2>5 DEF Among
  <2>8. \A i \in 1..Len(page.items) : ~Before(order, page.endCursor, page.items[i])
    BY <1>16, <2>1, <2>2, <2>4
  <2> QED
    BY <1>16, <1>17, <1>18, <2>2, <2>3, <2>6, <2>7, <2>8 DEF PageOK, W, A
<1>20. CASE L # LEDGER_PAGE_SIZE + 1 /\ looked < M
  <2>1. full = L /\ looked \in 1..M
    BY <1>5, <1>20
  <2>2. page.hasNextPage = TRUE /\ page.endCursor = all[looked]
    BY <1>6, <1>20 DEF Stopped
  <2>3. all[looked] \in A /\ all[looked] # Nowhere
    BY <1>2, <1>7, <2>1 DEF Nowhere
  <2>4. \A i \in 1..L : ~Before(order, all[looked], sent[i])
    <3> SUFFICES ASSUME NEW i \in 1..L, Before(order, all[looked], sent[i]) PROVE FALSE
      OBVIOUS
    <3>1. sent[i] = all[at[i]] /\ at[i] \in 1..looked /\ at[i] \in 1..M
      BY <1>8, <1>9
    <3>2. at[i] = looked \/ at[i] < looked
      BY <1>5, <3>1
    <3>3. all[looked] \in Nat /\ sent[i] \in Nat
      BY <1>2, <1>10, <2>3
    <3> QED
      BY <1>1, <1>12, <2>1, <3>1, <3>2, <3>3
  <2>5. ASSUME NEW p \in W, ~Before(order, all[looked], p)
        PROVE  \E i \in 1..L : sent[i] = p
    <3>1. p \in A
      BY <1>15
    <3>2. PICK k \in 1..looked : p = all[k]
      BY <1>14, <2>1, <2>5, <3>1
    <3> QED
      BY <1>13, <3>2
  <2>6. more(page)
    BY <2>2, <2>3 DEF more
  <2> HIDE DEF full
  <2>7. \A p \in W : ~Before(order, page.endCursor, p) => Among(p, page.items)
    BY <1>16, <2>1, <2>2, <2>5 DEF Among
  <2>8. \A i \in 1..Len(page.items) : ~Before(order, page.endCursor, page.items[i])
    BY <1>16, <2>1, <2>2, <2>4
  <2> QED
    BY <1>16, <1>17, <1>18, <2>2, <2>3, <2>6, <2>7, <2>8 DEF PageOK, W, A
<1>21. CASE L # LEDGER_PAGE_SIZE + 1 /\ ~(looked < M)
  <2>1. full = L /\ looked = M
    BY <1>5, <1>21
  <2>2. /\ page.hasNextPage = FALSE
        /\ page.endCursor = IF L = 0 THEN Nowhere ELSE sent[L]
    BY <1>6, <1>21, <2>1 DEF Stopped
  <2>3. \A p \in W : \E i \in 1..L : sent[i] = p
    <3> SUFFICES ASSUME NEW p \in W PROVE \E i \in 1..L : sent[i] = p
      OBVIOUS
    <3>1. PICK k \in 1..M : p = all[k]
      BY <1>1, <1>15
    <3> QED
      BY <1>13, <2>1, <3>1
  <2> HIDE DEF full
  <2>4. \A p \in W : Among(p, page.items)
    BY <1>16, <2>1, <2>3 DEF Among
  <2>5. CASE L = 0
    <3>1. page.items = <<>> /\ page.endCursor = Nowhere
      BY <1>16, <2>1, <2>2, <2>5
    <3> QED
      BY <1>16, <1>17, <1>18, <2>4, <3>1 DEF PageOK, W, A
  <2>6. CASE L # 0
    <3>1. L \in 1..L /\ page.endCursor = sent[L]
      BY <1>5, <2>2, <2>6
    <3>2. sent[L] \in A /\ sent[L] # Nowhere
      BY <1>10, <1>15, <3>1 DEF Nowhere
    <3>3. \A i \in 1..L : ~Before(order, sent[L], sent[i])
      <4> SUFFICES ASSUME NEW i \in 1..L, Before(order, sent[L], sent[i]) PROVE FALSE
        OBVIOUS
      <4>1. sent[L] \in Nat /\ sent[i] \in Nat
        BY <1>10, <3>1
      <4>2. i = L \/ i < L
        BY <1>5
      <4> QED
        BY <1>11, <1>12, <3>1, <4>1, <4>2
    <3>4. \A i \in 1..Len(page.items) : ~Before(order, page.endCursor, page.items[i])
      BY <1>16, <2>1, <3>1, <3>3
    <3> QED
      BY <1>16, <1>17, <1>18, <2>4, <3>1, <3>2, <3>4 DEF PageOK, W, A
  <2> QED
    BY <2>5, <2>6
<1> QED
  BY <1>19, <1>20, <1>21

-----------------------------------------------------------------------------
(* The invariant.                                                           *)

(* The order of the call that is served.                                    *)
Order == directionOf(tail.call)

Ascends == Order = "ascending"

(* On the far side of the cursor.                                           *)
Beyond(p) == IF Ascends THEN p > tail.cursor ELSE tail.cursor = Nowhere \/ p < tail.cursor

(* What the SDK throws when a request breaks.                               *)
Throw(cause) == [class |-> "transport", cause |-> cause]

Causes == {"UNAVAILABLE", "UNIMPLEMENTED", "OUT_OF_RANGE"}

Calls ==
  [method : Method, pc : Pc, attempt : Nat,
   said : {NoThrow} \cup {Throw(cause) : cause \in Causes}, answer : Failures]

(* Which calls are in flight, and why one has failed for good.              *)
Requests ==
  /\ request \in [Slot -> Calls]
  /\ tail.pc \in {"idle", "failed", "ended", "refused"} =>
       \A s \in Slot : request[s].pc = "idle"
  /\ tail.pc \in {"head", "page"} => \A s \in Slot : s # 1 => request[s].pc = "idle"
  /\ tail.pc = "reads" =>
       \A s \in Slot : request[s].pc # "idle" =>
         s \in DOMAIN tail.read /\ tail.read[s] = "unread"
  /\ \A s \in Slot : request[s].pc = "done" =>
       \/ request[s].answer.status # "OUT_OF_RANGE"
       \/ tail.pc = "page" /\ OutOfRange(Order, tail.cursor)

(* The types of the loop: a page as listed, and the loop's record.          *)
Page == [items : Seq(Nat), hasNextPage : BOOLEAN, endCursor : Nat]

Loop ==
  [pc : TailPc, call : Listings \cup {NoCall}, cursor : Nat, headCursor : Nat,
   listed : Page, read : Seq({"unread", "found", "gone"}), quiet : Nat,
   error : Statuses \cup {"none"}]

(* The loop's own state.                                                    *)
Walk ==
  /\ LedgerTypeOK
  /\ tail \in Loop
  /\ emitted \in Seq(Nat) /\ horizon \in 0..Len(ledger)
  /\ {tail.cursor, tail.headCursor} \subseteq 0..Len(ledger)
  /\ tail.headCursor # Nowhere => tail.cursor <= tail.headCursor
  /\ tail.quiet # Nowhere => tail.call.tail /\ tail.quiet = tail.cursor
  /\ tail.pc = "idle" => tail.cursor = Start /\ emitted = <<>> /\ horizon = 0
       /\ tail.quiet = Nowhere /\ tail.headCursor = Nowhere

(* Where the cursor is, seen from the start and from what was given out.    *)
Cursor ==
  /\ tail.cursor = Nowhere => Start = Nowhere
  /\ IF Ascends THEN Start <= tail.cursor
     ELSE tail.cursor # Nowhere /\ Start # Nowhere => tail.cursor <= Start
  /\ \A i \in DOMAIN emitted :
       IF Ascends THEN emitted[i] <= tail.cursor
       ELSE tail.cursor # Nowhere /\ emitted[i] >= tail.cursor
  /\ tail.call.tail => horizon = 0
  /\ ~tail.call.tail /\ horizon = 0 => tail.cursor = Start

(* A page holds what a stream at the cursor has ahead of it, as far as the  *)
(* page goes, of the positions up to there.                                 *)
Covers(page, there) ==
  /\ \A i \in 1..Len(page.items) : page.items[i] \in Matches /\ Beyond(page.items[i])
  /\ Ordered(Order, page.items)
  /\ page.endCursor = Nowhere => page.items = <<>>
  /\ page.endCursor # Nowhere =>
       /\ page.endCursor \in 1..Len(ledger) /\ Beyond(page.endCursor)
       /\ \A i \in 1..Len(page.items) : ~Before(Order, page.endCursor, page.items[i])
       /\ \A p \in Matches :
            Beyond(p) /\ ~Before(Order, page.endCursor, p) /\ (Ascends \/ p <= there) =>
              Among(p, page.items) \/ Forgiven(p)
  /\ ~more(page) =>
       \A p \in Matches :
         Beyond(p) /\ p <= (IF tail.call.tail THEN tail.headCursor ELSE there) =>
           Among(p, page.items) \/ (p <= lowest /\ (Ascends => Forgiven(p)))

Reading ==
  tail.pc = "reads" =>
    /\ affected /\ Covers(tail.listed, horizon)
    /\ Len(tail.read) = Len(tail.listed.items) /\ Len(tail.read) <= LEDGER_PAGE_SIZE
    /\ tail.listed.endCursor # Nowhere
    /\ ~tail.call.tail => horizon # 0
    /\ \A i \in 1..Len(tail.read) :
         tail.read[i] = "gone" => tail.listed.items[i] <= lowest

(* What the proofs carry along.                                             *)
Placed ==
  /\ Walk /\ Cursor /\ Reading
  /\ NothingSkipped /\ StreamIsTheListing /\ QuietTailNotStranded

IInv == Requests /\ Placed

-----------------------------------------------------------------------------
(* The requests.                                                            *)

(* A request that starts is asked once.                                     *)
LEMMA Asking ==
  ASSUME request \in [Slot -> Calls], NEW s \in Slot, NEW m \in Method, Ask(s, m)
  PROVE  /\ request' \in [Slot -> Calls] /\ request'[s].pc = "asked"
         /\ \A t \in Slot : t # s => request'[t] = request[t]
<1>1. Answered \in Failures
  BY DEF Answered, Failure, Failures
<1>2. [method |-> m, pc |-> "asked", attempt |-> 1, said |-> NoThrow, answer |-> Answered] \in Calls
  BY <1>1 DEF Calls, Pc
<1> QED
  BY <1>2 DEF Ask

(* A request that is let go leaves its slot.                                *)
LEMMA Releasing ==
  ASSUME request \in [Slot -> Calls], NEW s \in Slot, Release(s)
  PROVE  /\ request' \in [Slot -> Calls] /\ request'[s].pc = "idle"
         /\ \A t \in Slot : t # s => request'[t] = request[t]
<1>1. Answered \in Failures
  BY DEF Answered, Failure, Failures
<1>2. Idle \in Calls /\ Idle.pc = "idle"
  BY <1>1 DEF Calls, Pc, Idle, Method, Uses
<1> QED
  BY <1>2 DEF Release

(* A failed attempt is followed by another, or is what the caller hears.    *)
LEMMA Failing ==
  ASSUME request \in [Slot -> Calls], NEW s \in Slot, NEW error \in Failures,
         NEW said \in {NoThrow} \cup {Throw(cause) : cause \in Causes},
         Fails(s, error, said)
  PROVE  /\ request' \in [Slot -> Calls]
         /\ request'[s].pc \in {"waiting", "done"} /\ request'[s].answer = error
         /\ \A t \in Slot : t # s => request'[t] = request[t]
<1> DEFINE q == request[s]
           goesOn == readPolicy(q.method, q.attempt, error)
<1>1. q \in Calls
  OBVIOUS
<1>2. request' = [request EXCEPT ![s].pc = IF goesOn THEN "waiting" ELSE "done",
                                 ![s].said = IF goesOn THEN NoThrow ELSE said,
                                 ![s].answer = error]
  BY DEF Fails
<1> HIDE DEF goesOn
<1>3. PICK pc \in {"waiting", "done"} : pc = IF goesOn THEN "waiting" ELSE "done"
  OBVIOUS
<1>4. PICK word \in {NoThrow} \cup {Throw(cause) : cause \in Causes} :
        word = IF goesOn THEN NoThrow ELSE said
  OBVIOUS
<1>5. request' = [request EXCEPT ![s] = [q EXCEPT !.pc = pc, !.said = word, !.answer = error]]
  BY <1>2, <1>3, <1>4
<1>6. [q EXCEPT !.pc = pc, !.said = word, !.answer = error] \in Calls
  BY <1>1 DEF Calls, Pc
<1>7. request'[s] = [q EXCEPT !.pc = pc, !.said = word, !.answer = error]
  BY <1>5
<1>8. request'[s].pc = pc /\ request'[s].answer = error
  BY <1>1, <1>7 DEF Calls
<1> QED
  BY <1>5, <1>6, <1>8

(* A request that fails or times out is asked again or given up, and keeps the   *)
(* status it failed with.                                                   *)
LEMMA Breaking ==
  ASSUME request \in [Slot -> Calls], NEW s \in Slot,
         \/ \E cause \in Causes : Throws(s, Throw(cause))
         \/ TimesOut(s)
  PROVE  /\ request' \in [Slot -> Calls] /\ request[s].pc = "asked"
         /\ request'[s].pc \in {"waiting", "done"}
         /\ \A cause \in Causes : Throws(s, Throw(cause)) => request'[s].answer.status = cause
         /\ TimesOut(s) => request'[s].answer.status # "OUT_OF_RANGE"
         /\ \A t \in Slot : t # s => request'[t] = request[t]
<1>1. ASSUME NEW cause \in Causes, Throws(s, Throw(cause))
      PROVE  /\ request' \in [Slot -> Calls] /\ request[s].pc = "asked"
             /\ request'[s].pc \in {"waiting", "done"}
             /\ request'[s].answer.status = cause
             /\ \A t \in Slot : t # s => request'[t] = request[t]
  <2> DEFINE m == request[s].method
             error == narrowed(m, Throw(cause))
  <2>1. transportError(Throw(cause)) = Failure("TransportError", cause = "UNAVAILABLE", cause)
    BY DEF transportError, Throw, TransportError, classifyTransportCause, Statuses,
           RETRYABLE_GRPC_STATUSES, Causes
  <2>2. mapSdkError(Throw(cause)) = transportError(Throw(cause))
    BY DEF mapSdkError, recognised, Throw
  <2>3. error = Failure("TransportError", cause = "UNAVAILABLE", cause)
    BY <2>1, <2>2 DEF narrowed
  <2>4. error \in Failures /\ error.status = cause
    BY <2>3 DEF Failure, Failures, Statuses, Causes
  <2>5. ~absentVersion(m, Throw(cause))
    BY DEF absentVersion, Throw, Causes
  <2>6. Fails(s, error, Throw(cause)) /\ request[s].pc = "asked"
    BY <1>1, <2>5 DEF Throws
  <2> HIDE DEF error
  <2> QED
    BY <2>4, <2>6, Failing
<1>2. ASSUME TimesOut(s)
      PROVE  /\ request' \in [Slot -> Calls] /\ request[s].pc = "asked"
             /\ request'[s].pc \in {"waiting", "done"}
             /\ request'[s].answer.status # "OUT_OF_RANGE"
             /\ \A t \in Slot : t # s => request'[t] = request[t]
  <2> DEFINE error == Failure("TransportError", TRUE, "DEADLINE_EXCEEDED")
  <2>1. error \in Failures /\ error.status # "OUT_OF_RANGE"
    BY DEF Failure, Failures, Statuses
  <2>2. Fails(s, error, NoThrow) /\ request[s].pc = "asked"
    BY <1>2 DEF TimesOut
  <2> HIDE DEF error
  <2> QED
    BY <2>1, <2>2, Failing
<1>3. /\ \A cause \in Causes : Throws(s, Throw(cause)) => request'[s].answer.status = cause
      /\ TimesOut(s) => request'[s].answer.status # "OUT_OF_RANGE"
  BY <1>1, <1>2
<1>4. /\ request' \in [Slot -> Calls] /\ request[s].pc = "asked"
      /\ request'[s].pc \in {"waiting", "done"}
      /\ \A t \in Slot : t # s => request'[t] = request[t]
  BY <1>1, <1>2
<1> QED
  BY <1>2, <1>3, <1>4

(* A request that waited is asked again.                                    *)
LEMMA AskingAgain ==
  ASSUME request \in [Slot -> Calls], NEW s \in Slot, Again(s)
  PROVE  /\ request' \in [Slot -> Calls] /\ request[s].pc = "waiting"
         /\ request'[s].pc = "asked"
         /\ \A t \in Slot : t # s => request'[t] = request[t]
<1> DEFINE q == request[s]
<1>1. Answered \in Failures
  BY DEF Answered, Failure, Failures
<1>2. q \in Calls
  OBVIOUS
<1>3. request' = [request EXCEPT ![s] =
        [q EXCEPT !.pc = "asked", !.answer = Answered, !.attempt = q.attempt + 1]]
  BY DEF Again
<1>4. [q EXCEPT !.pc = "asked", !.answer = Answered, !.attempt = q.attempt + 1] \in Calls
  <2>1. PICK n \in Nat : n = q.attempt + 1
    BY <1>2 DEF Calls
  <2> HIDE DEF q
  <2>2. [q EXCEPT !.pc = "asked", !.answer = Answered, !.attempt = n] \in Calls
    BY <1>1, <1>2 DEF Calls, Pc
  <2> QED
    BY <2>1, <2>2
<1>5. request'[s].pc = "asked"
  BY <1>2, <1>3 DEF Calls
<1> QED
  BY <1>3, <1>4, <1>5 DEF Again

-----------------------------------------------------------------------------
(* What keeps the loop's place.                                             *)

(* A tail goes up, and a backfill goes as it was asked to.                  *)
LEMMA Directions ==
  ASSUME Walk
  PROVE  /\ tail.call \in Call /\ Order \in {"ascending", "descending"} /\ Start \in Nat
         /\ tail.call.tail => Ascends
         /\ ~Ascends => Order = "descending"
<1>1. NoCall \in Call
  BY DEF NoCall, Call, Nowhere
<1>2. tail.call \in Call
  BY <1>1, ListingsAreCalls DEF Walk, Loop
<1>3. \A call \in Call : directionOf(call) \in {"ascending", "descending"}
  BY DEF Call, directionOf
<1>4. tail.call.tail => directionOf(tail.call) = "ascending"
  BY DEF directionOf
<1>5. \A call \in Call : startOf(call) \in Nat
  BY DEF Call, startOf
<1> QED
  BY <1>2, <1>3, <1>4, <1>5 DEF Order, Ascends, Start

(* A request comes, goes or is asked again: the loop stays where it is.     *)
LEMMA Staying ==
  ASSUME Placed, UNCHANGED <<tail, emitted, horizon, ledger, lowest>>
  PROVE  Placed'
BY DEF Placed, Walk, Loop, Page, LedgerTypeOK, Cursor, Reading, Covers, NothingSkipped,
       StreamIsTheListing, InOrderOnce, EndedWhole, QuietTailNotStranded, Matches, Emitted,
       Start, Forgiven, filtered, affected, Order, Ascends, Beyond, Ordered, Among, more

(* The ledger grows at its end and is pruned at its start.                  *)
LEMMA NodeSteps ==
  ASSUME LedgerTypeOK, LedgerNext
  PROVE  /\ LedgerTypeOK' /\ Len(ledger) <= Len(ledger') /\ lowest <= lowest'
         /\ Len(ledger) \in Nat /\ Len(ledger') \in Nat /\ lowest \in Nat /\ lowest' \in Nat
         /\ \A p \in 1..Len(ledger) : ledger'[p] = ledger[p]
<1>1. CASE Append1
  <2>1. PICK matches \in BOOLEAN : ledger' = Append(ledger, matches)
    BY <1>1 DEF Append1
  <2>2. /\ Len(ledger') = Len(ledger) + 1 /\ ledger' \in Seq(BOOLEAN)
        /\ \A p \in 1..Len(ledger) : ledger'[p] = ledger[p]
    BY <2>1, AppendAt DEF LedgerTypeOK
  <2>3. MaxLedger \in Nat
    BY LimitsPositive
  <2> QED
    BY <1>1, <2>2, <2>3 DEF Append1, LedgerTypeOK
<1>2. CASE Prune1
  BY <1>2 DEF Prune1, LedgerTypeOK
<1> QED
  BY <1>1, <1>2 DEF LedgerNext

(* The node moves on, and what was listed and passed stays right: a match   *)
(* that is new lies beyond the head that was read, and one that was pruned  *)
(* lies where a stream that goes up forgives it.                            *)
LEMMA NodeMoving ==
  ASSUME Placed, LedgerNext, UNCHANGED <<tail, emitted, horizon>>
  PROVE  Placed'
<1>1. /\ LedgerTypeOK' /\ Len(ledger) <= Len(ledger') /\ lowest <= lowest'
      /\ Len(ledger) \in Nat /\ Len(ledger') \in Nat /\ lowest \in Nat /\ lowest' \in Nat
      /\ \A p \in 1..Len(ledger) : ledger'[p] = ledger[p]
  BY NodeSteps DEF Placed, Walk
<1>2. /\ Order' = Order /\ Ascends' = Ascends /\ Start' = Start /\ Emitted' = Emitted
      /\ affected' = affected
  BY DEF Order, Ascends, Start, Emitted, affected
<1>3. Walk
  BY DEF Placed
<1>4. tail.cursor \in 0..Len(ledger) /\ tail.headCursor \in 0..Len(ledger)
      /\ horizon \in 0..Len(ledger)
  BY <1>3 DEF Walk
<1>5. \A p \in 1..Len(ledger) : p \in Matches' <=> p \in Matches
  BY <1>1 DEF Matches, filtered
<1>6. Matches \subseteq Matches' /\ \A p \in Matches' : p \in Nat /\ p >= 1
  BY <1>1, <1>5 DEF Matches
<1>7. \A p \in Nat : Forgiven(p) => Forgiven(p)'
  BY <1>1 DEF Forgiven, affected, Start
<1>8. \A p : Beyond(p)' <=> Beyond(p)
  BY <1>2 DEF Beyond
<1>9. \A p \in Matches' : p <= Len(ledger) => p \in Matches
  BY <1>1, <1>5, <1>6
<1>10. Walk'
  BY <1>1, <1>3, SMTT(30) DEF Walk, Start
<1>11. Cursor'
  BY <1>2 DEF Placed, Cursor
<1>12. Reading'
  <2> SUFFICES ASSUME tail.pc = "reads" PROVE Reading'
    BY DEF Reading
  <2>p. PICK page : page = tail.listed
    OBVIOUS
  <2>h. PICK there : there = horizon
    OBVIOUS
  <2>1. affected /\ Covers(page, there)
    BY <2>p, <2>h DEF Placed, Reading
  <2>2. page \in Page /\ there \in 0..Len(ledger)
    BY <1>3, <1>4, <2>p, <2>h DEF Walk, Loop
  <2>3. \A i \in 1..Len(tail.read) :
          tail.read[i] = "gone" => page.items[i] \in Nat /\ page.items[i] <= lowest
    <3>1. Len(page.items) = Len(tail.read) /\ page.items \in Seq(Nat)
      BY <2>2, <2>p DEF Placed, Reading, Page
    <3>2. \A i \in 1..Len(tail.read) : page.items[i] \in Nat
      BY <3>1
    <3>3. \A i \in 1..Len(tail.read) : tail.read[i] = "gone" => page.items[i] <= lowest
      BY <2>p DEF Placed, Reading
    <3> QED
      BY <3>2, <3>3
  <2>4. \A i \in 1..Len(tail.read) : tail.read[i] = "gone" => page.items[i] <= lowest'
    BY <1>1, <2>3, SMTT(30)
  <2>5. Covers(page, there)'
    <3>1. \A i \in 1..Len(page.items) :
            page.items[i] \in Matches' /\ Beyond(page.items[i])'
      BY <1>6, <1>8, <2>1 DEF Covers
    <3>2. page.endCursor \in Nat
      BY <2>2 DEF Page
    <3>3. page.endCursor # Nowhere =>
            /\ page.endCursor \in 1..Len(ledger') /\ Beyond(page.endCursor)'
            /\ page.endCursor <= Len(ledger)
      BY <1>1, <1>8, <2>1 DEF Covers
    <3>4. ASSUME page.endCursor # Nowhere, NEW p \in Matches', Beyond(p)',
                 ~Before(Order, page.endCursor, p), Ascends \/ p <= there
          PROVE  Among(p, page.items) \/ Forgiven(p)'
      <4>1. p <= Len(ledger)
        BY <1>1, <1>6, <2>2, <3>2, <3>3, <3>4 DEF Before, Ascends
      <4>2. p \in Matches /\ Beyond(p) /\ p \in Nat
        BY <1>6, <1>8, <1>9, <3>4, <4>1
      <4> QED
        BY <1>7, <2>1, <3>4, <4>2 DEF Covers
    <3>5. ASSUME ~more(page), NEW p \in Matches', Beyond(p)',
                 p <= (IF tail.call.tail THEN tail.headCursor ELSE there)
          PROVE  Among(p, page.items) \/ (p <= lowest' /\ (Ascends => Forgiven(p)'))
      <4>1. p <= Len(ledger)
        BY <1>1, <1>4, <1>6, <2>2, <3>5
      <4>2. p \in Matches /\ Beyond(p) /\ p \in Nat
        BY <1>6, <1>8, <1>9, <3>5, <4>1
      <4>3. Among(p, page.items) \/ (p <= lowest /\ (Ascends => Forgiven(p)))
        BY <2>1, <3>5, <4>2 DEF Covers
      <4>4. p <= lowest => p <= lowest'
        BY <1>1, <4>2
      <4> QED
        BY <1>7, <4>2, <4>3, <4>4
    <3>6. Ordered(Order, page.items) /\ (page.endCursor = Nowhere => page.items = <<>>)
          /\ \A i \in 1..Len(page.items) :
               page.endCursor # Nowhere => ~Before(Order, page.endCursor, page.items[i])
      BY <2>1 DEF Covers
    <3> QED
      BY <1>2, <3>1, <3>3, <3>4, <3>5, <3>6 DEF Covers
  <2>6. Covers(tail.listed, horizon)'
    BY <2>p, <2>h, <2>5
  <2> QED
    BY <1>2, <2>4, <2>6, <2>p DEF Placed, Reading
<1>13. NothingSkipped'
  <2> SUFFICES ASSUME NEW p \in Matches',
                      IF Ascends THEN Start < p /\ p <= tail.cursor
                      ELSE tail.cursor # Nowhere /\ tail.cursor <= p
                           /\ (Start # Nowhere => p < Start) /\ p <= horizon
               PROVE  p \in Emitted \/ Forgiven(p)'
    BY <1>2 DEF NothingSkipped, Order, Ascends
  <2>1. p \in Nat /\ p <= Len(ledger)
    BY <1>1, <1>4, <1>6
  <2>2. p \in Matches
    BY <1>9, <2>1
  <2>3. p \in Emitted \/ Forgiven(p)
    BY <2>2 DEF Placed, NothingSkipped, Order, Ascends
  <2> QED
    BY <1>7, <2>1, <2>3
<1>14. StreamIsTheListing'
  <2>1. InOrderOnce'
    BY DEF Placed, StreamIsTheListing, InOrderOnce
  <2>2. EndedWhole'
    <3> SUFFICES ASSUME tail.pc = "ended", NEW p \in Matches', p <= horizon,
                        Start # Nowhere => IF Ascends THEN p > Start ELSE p < Start
                 PROVE  p \in Emitted \/ p <= lowest'
      BY <1>2 DEF EndedWhole, Order, Ascends
    <3>1. p \in Nat /\ p <= Len(ledger)
      BY <1>1, <1>4, <1>6
    <3>2. p \in Matches
      BY <1>9, <3>1
    <3>3. p \in Emitted \/ p <= lowest
      BY <3>2 DEF Placed, StreamIsTheListing, EndedWhole, Order, Ascends
    <3> QED
      BY <1>1, <3>1, <3>3
  <2> QED
    BY <2>1, <2>2 DEF StreamIsTheListing
<1>15. QuietTailNotStranded'
  <2>1. tail.quiet \in Nat
    BY <1>3 DEF Walk, Loop
  <2> QED
    BY <1>1, <2>1 DEF Placed, QuietTailNotStranded
<1> QED
  BY <1>10, <1>11, <1>12, <1>13, <1>14, <1>15 DEF Placed

(* A stream that is opened is at its start and has given nothing out.       *)
LEMMA Opening ==
  ASSUME Placed, NEW call \in Listings, open(call)
  PROVE  Placed' /\ tail.pc = "idle" /\ tail'.pc \in {"page", "refused"}
<1>1. Walk /\ tail \in Loop /\ LedgerTypeOK
  BY DEF Placed, Walk
<1>2. call \in Call /\ call \in Listings \cup {NoCall}
  BY ListingsAreCalls
<1>3. startOf(call) \in Nat /\ startOf(call) <= Len(ledger) /\ tail.pc = "idle"
  BY <1>2 DEF Call, startOf, open
<1>4. tail.cursor = Start /\ emitted = <<>> /\ horizon = 0 /\ tail.quiet = Nowhere
      /\ tail.headCursor = Nowhere
  BY <1>1, <1>3 DEF Walk
<1>5. PICK pc \in {"page", "refused"} :
        tail' = [tail EXCEPT !.pc = pc, !.call = call, !.cursor = startOf(call)]
  BY DEF open
<1>6. /\ tail' \in Loop /\ tail'.pc = pc /\ tail'.call = call /\ tail'.cursor = startOf(call)
      /\ tail'.headCursor = tail.headCursor /\ tail'.quiet = tail.quiet
  BY <1>1, <1>2, <1>3, <1>5 DEF Loop, TailPc
<1>7. UNCHANGED <<emitted, horizon, ledger, lowest>>
  BY DEF open
<1>8. /\ Order' \in {"ascending", "descending"} /\ Start' = tail'.cursor /\ Start' \in Nat
      /\ Ascends' = (Order' = "ascending")
      /\ call.tail => Ascends'
  BY <1>2, <1>3, <1>6 DEF Order, Start, Ascends, directionOf, Call
<1>9. Len(ledger) \in Nat
  BY <1>1 DEF LedgerTypeOK
<1>10. Walk'
  BY <1>1, <1>3, <1>4, <1>6, <1>7, <1>9 DEF Walk, LedgerTypeOK
<1>11. Cursor'
  BY <1>4, <1>6, <1>7, <1>8 DEF Cursor
<1>12. Reading'
  BY <1>6 DEF Reading
<1>13. NothingSkipped'
  <2>1. Matches' \subseteq Nat
    BY DEF Matches
  <2> SUFFICES ASSUME NEW p \in Matches',
                      IF Ascends' THEN Start' < p /\ p <= tail'.cursor
                      ELSE tail'.cursor # Nowhere /\ tail'.cursor <= p
                           /\ (Start' # Nowhere => p < Start')
               PROVE  FALSE
    BY <1>8 DEF NothingSkipped, Order, Ascends
  <2>2. p \in Nat
    BY <2>1
  <2> QED
    BY <1>8, <2>2
<1>14. StreamIsTheListing' /\ QuietTailNotStranded'
  BY <1>4, <1>6, <1>7 DEF StreamIsTheListing, InOrderOnce, EndedWhole, QuietTailNotStranded
<1> QED
  BY <1>3, <1>6, <1>10, <1>11, <1>12, <1>13, <1>14 DEF Placed

(* The loop's program counter moves, a head or an answer is noted: the      *)
(* cursor, the call and what was given out stay as they are.                *)
LEMMA Noting ==
  ASSUME Placed, tail' \in Loop, tail'.pc \notin {"reads", "ended", "idle"},
         tail'.pc = "failed" => QuietTailNotStranded',
         tail'.call = tail.call, tail'.cursor = tail.cursor, tail'.quiet = tail.quiet,
         tail'.headCursor \in {tail.headCursor, Len(ledger)},
         UNCHANGED <<emitted, horizon, ledger, lowest>>
  PROVE  Placed'
<1>1. Walk /\ tail \in Loop /\ LedgerTypeOK
  BY DEF Placed, Walk
<1>2. Len(ledger) \in Nat
  BY <1>1 DEF LedgerTypeOK
<1>3. Walk'
  BY <1>1, <1>2 DEF Walk, LedgerTypeOK
<1>4. /\ Order' = Order /\ Ascends' = Ascends /\ Start' = Start /\ Emitted' = Emitted
      /\ affected' = affected /\ Matches' = Matches
  BY DEF Order, Ascends, Start, Emitted, affected, Matches, filtered
<1>5. Cursor'
  BY <1>4 DEF Placed, Cursor
<1>6. Reading'
  BY DEF Reading
<1>7. NothingSkipped'
  BY <1>4 DEF Placed, NothingSkipped, Order, Forgiven
<1>8. StreamIsTheListing'
  BY <1>4 DEF Placed, StreamIsTheListing, InOrderOnce, EndedWhole, Order
<1>9. QuietTailNotStranded'
  BY DEF QuietTailNotStranded
<1> QED
  BY <1>3, <1>5, <1>6, <1>7, <1>8, <1>9 DEF Placed

(* The head is read before the first page of a tail, and bounds it.         *)
LEMMA HeadReading ==
  ASSUME Placed, headRead
  PROVE  Placed' /\ tail'.pc = "page"
<1>1. Walk /\ tail \in Loop /\ LedgerTypeOK /\ tail.pc = "head"
  BY DEF Placed, Walk, headRead
<1>2. Len(ledger) \in Nat
  BY <1>1 DEF LedgerTypeOK
<1>3. tail' = [tail EXCEPT !.pc = "page", !.headCursor = Len(ledger)]
  BY DEF headRead
<1>4. /\ tail' \in Loop /\ tail'.pc = "page" /\ tail'.headCursor = Len(ledger)
      /\ tail'.call = tail.call /\ tail'.cursor = tail.cursor /\ tail'.quiet = tail.quiet
  BY <1>1, <1>2, <1>3 DEF Loop, TailPc
<1> QED
  BY <1>4, Noting DEF headRead

(* After a request that failed for good a tail asks again from its cursor,  *)
(* when the failure may pass; any other stream has failed.                  *)
LEMMA ReadFailing ==
  ASSUME IInv, NEW s \in Slot, readFailed(s)
  PROVE  Placed' /\ tail'.pc \in {"head", "page", "failed"}
<1>1. Walk /\ tail \in Loop /\ LedgerTypeOK /\ Placed /\ tail.pc \in {"head", "page", "reads"}
  BY DEF IInv, Placed, Walk, readFailed
<1>2. NoPage \in Page /\ <<>> \in Seq({"unread", "found", "gone"})
  BY DEF NoPage, Page, Nowhere
<1>3. PICK pc \in {"head", "page", "failed"}, error \in Statuses \cup {"none"} :
        /\ tail' = [tail EXCEPT !.pc = pc, !.error = error, !.listed = NoPage, !.read = <<>>]
        /\ pc = "failed" => error = request[s].answer.status
  <2>1. request[s].answer.status \in Statuses \cup {"none"}
    BY DEF IInv, Requests, Calls, Failures
  <2> QED
    BY <2>1 DEF readFailed
<1>4. /\ tail' \in Loop /\ tail'.pc = pc /\ tail'.headCursor = tail.headCursor
      /\ tail'.error = error
      /\ tail'.call = tail.call /\ tail'.cursor = tail.cursor /\ tail'.quiet = tail.quiet
  BY <1>1, <1>2, <1>3 DEF Loop, TailPc
<1>5. ASSUME pc = "failed"
      PROVE  QuietTailNotStranded'
  <2> SUFFICES ASSUME error = "OUT_OF_RANGE", tail.call.tail, tail.quiet # Nowhere
               PROVE  lowest > tail.quiet
    BY <1>4 DEF QuietTailNotStranded, readFailed
  <2>1. request[s].pc = "done" /\ request[s].answer.status = "OUT_OF_RANGE"
    BY <1>3, <1>5 DEF readFailed
  <2>2. OutOfRange(Order, tail.cursor)
    BY <2>1 DEF IInv, Requests
  <2>3. Ascends /\ tail.quiet = tail.cursor
    BY <1>1, Directions DEF Walk
  <2>4. tail.cursor < lowest /\ tail.cursor \in Nat /\ lowest \in Nat
    BY <1>1, <2>2, <2>3 DEF OutOfRange, Ascends, Loop, LedgerTypeOK
  <2> QED
    BY <2>3, <2>4
<1> QED
  BY <1>1, <1>4, <1>5, Noting DEF readFailed

(* A page that does not decode ends the stream, for another reason.         *)
LEMMA Undecoding ==
  ASSUME Placed, NEW s \in Slot, undecoded(s)
  PROVE  Placed'
<1>1. Walk /\ tail \in Loop
  BY DEF Placed, Walk
<1>2. NoPage \in Page /\ <<>> \in Seq({"unread", "found", "gone"})
  BY DEF NoPage, Page, Nowhere
<1>3. tail' = [tail EXCEPT !.pc = "failed", !.error = "none", !.listed = NoPage, !.read = <<>>]
  BY DEF undecoded
<1>4. /\ tail' \in Loop /\ tail'.pc = "failed" /\ tail'.headCursor = tail.headCursor
      /\ tail'.error = "none"
      /\ tail'.call = tail.call /\ tail'.cursor = tail.cursor /\ tail'.quiet = tail.quiet
  BY <1>1, <1>2, <1>3 DEF Loop, TailPc
<1>5. QuietTailNotStranded'
  BY <1>4 DEF QuietTailNotStranded
<1> QED
  BY <1>4, <1>5, Noting DEF undecoded

-----------------------------------------------------------------------------
(* A page, and what the loop does with it.                                  *)

(* A page that was listed from the cursor covers what is ahead of it.       *)
LEMMA PageCovers ==
  ASSUME Placed, ~OutOfRange(Order, tail.cursor), NEW there \in 0..Len(ledger), NEW page,
         NEW listing \in Closings(Listing(filtered, Order, tail.cursor)), page = pageOf(listing)
  PROVE  page \in Page /\ Covers(page, there) /\ Len(page.items) <= LEDGER_PAGE_SIZE
<1> DEFINE W == Wanted(filtered, Order, tail.cursor)
<1>1. Walk /\ tail \in Loop /\ LedgerTypeOK /\ tail.cursor \in 0..Len(ledger)
  BY DEF Placed, Walk
<1>2. Order \in {"ascending", "descending"} /\ (Ascends <=> Order = "ascending")
  BY <1>1, Directions DEF Ascends
<1>3. PageOK(page, filtered, Order, tail.cursor)
  <2>1. filtered \in BOOLEAN
    BY DEF filtered
  <2> QED
    BY <1>1, <1>2, <2>1, PageLists
<1>4. Len(ledger) \in Nat /\ lowest \in Nat /\ tail.cursor \in Nat
  BY <1>1 DEF LedgerTypeOK
<1>5. \A p : p \in W <=> p \in Matches /\ p > lowest /\ Beyond(p)
  BY <1>2, <1>4 DEF Wanted, Ahead, Matches, Beyond
<1>6. Matches \subseteq Nat /\ W \subseteq Nat /\ Matches \subseteq 1..Len(ledger)
  BY <1>5 DEF Matches
<1>7. Ahead(Order, tail.cursor) \subseteq 1..Len(ledger)
      /\ \A p \in Ahead(Order, tail.cursor) : Beyond(p) /\ p > lowest
  BY <1>2, <1>4 DEF Ahead, Beyond
<1>8. page.items \in Seq(W) /\ Ordered(Order, page.items)
      /\ Len(page.items) <= LEDGER_PAGE_SIZE
  BY <1>3 DEF PageOK
<1> HIDE DEF W
<1>9. page.items \in Seq(Nat) /\ Len(page.items) \in Nat
      /\ \A i \in 1..Len(page.items) : page.items[i] \in W
  BY <1>6, <1>8, Wider
<1>10. page.endCursor # Nowhere =>
         /\ page.endCursor \in Ahead(Order, tail.cursor)
         /\ \A i \in 1..Len(page.items) : ~Before(Order, page.endCursor, page.items[i])
         /\ \A p \in W : ~Before(Order, page.endCursor, p) => Among(p, page.items)
  BY <1>3 DEF PageOK, W
<1>11. page.endCursor = Nowhere => page.items = <<>>
  BY <1>3 DEF PageOK
<1>12. ~more(page) => \A p \in W : Among(p, page.items)
  BY <1>3 DEF PageOK, W
<1>13. page \in Page
  <2>1. page.hasNextPage \in BOOLEAN
    BY DEF pageOf
  <2>2. page.endCursor \in Nat
    BY <1>7, <1>10 DEF Nowhere
  <2>3. page = [items |-> page.items, hasNextPage |-> page.hasNextPage,
                endCursor |-> page.endCursor]
    BY DEF pageOf
  <2> QED
    BY <1>9, <2>1, <2>2, <2>3 DEF Page
<1>14. ASSUME NEW p \in Matches, Beyond(p), p <= lowest, Ascends
       PROVE  Forgiven(p)
  <2>1. tail.cursor = Nowhere
    BY <1>2, <1>4, <1>6, <1>14 DEF Beyond, OutOfRange
  <2>2. Start = Nowhere
    BY <2>1 DEF Placed, Cursor
  <2> QED
    BY <1>14, <2>2 DEF Forgiven
<1>15. \A p \in Matches : p > lowest \/ p <= lowest
  BY <1>4, <1>6
<1>16. Covers(page, there)
  <2>1. \A i \in 1..Len(page.items) : page.items[i] \in Matches /\ Beyond(page.items[i])
    BY <1>5, <1>9
  <2>2. page.endCursor # Nowhere => page.endCursor \in 1..Len(ledger) /\ Beyond(page.endCursor)
    BY <1>7, <1>10
  <2>3. ASSUME page.endCursor # Nowhere, NEW p \in Matches, Beyond(p),
               ~Before(Order, page.endCursor, p)
        PROVE  Among(p, page.items) \/ Forgiven(p)
    <3>1. CASE p > lowest
      BY <1>5, <1>10, <2>3, <3>1
    <3>2. CASE p <= lowest /\ Ascends
      BY <1>14, <2>3, <3>2
    <3>3. CASE p <= lowest /\ ~Ascends
      <4>1. page.endCursor > lowest /\ page.endCursor \in Nat /\ p \in Nat
        BY <1>6, <1>7, <1>10, <2>3
      <4> QED
        BY <1>2, <1>4, <2>3, <3>3, <4>1 DEF Before
    <3> QED
      BY <1>15, <3>1, <3>2, <3>3
  <2>4. ASSUME ~more(page), NEW p \in Matches, Beyond(p)
        PROVE  Among(p, page.items) \/ (p <= lowest /\ (Ascends => Forgiven(p)))
    <3>1. CASE p > lowest
      BY <1>5, <1>12, <2>4, <3>1
    <3>2. CASE p <= lowest
      BY <1>14, <2>4, <3>2
    <3> QED
      BY <1>15, <3>1, <3>2
  <2> QED
    BY <1>8, <1>10, <1>11, <2>1, <2>2, <2>3, <2>4 DEF Covers
<1> QED
  BY <1>8, <1>13, <1>16

(* The cursor after a page: at the head, where it was, or at the page's end. *)
Moved(page) ==
  \/ /\ tail.call.tail /\ page.items = <<>> /\ ~more(page)
     /\ tail.headCursor # Nowhere /\ tail'.cursor = tail.headCursor
     /\ tail'.quiet = tail'.cursor
  \/ page.endCursor = Nowhere /\ tail'.cursor = tail.cursor /\ tail'.quiet = Nowhere
  \/ page.endCursor # Nowhere /\ tail'.cursor = page.endCursor /\ tail'.quiet = Nowhere

(* Where a round leaves the cursor.                                         *)
LEMMA RoundMoves ==
  ASSUME Walk, NEW page \in Page, NEW there, Covers(page, there), round(page)
  PROVE  /\ tail' \in Loop /\ Moved(page)
         /\ tail'.call = tail.call /\ tail'.headCursor = Nowhere
         /\ tail'.pc = next(page) /\ emitted' = emitted \o page.items
         /\ next(page) \in {"page", "ended", "head"}
         /\ next(page) = "ended" => ~more(page) /\ ~tail.call.tail
<1>1. tail \in Loop /\ tail.cursor \in Nat /\ tail.headCursor \in Nat
  BY DEF Walk, Loop
<1>2. page.endCursor \in Nat
  BY DEF Page
<1>3. NoPage \in Page /\ <<>> \in Seq({"unread", "found", "gone"}) /\ Nowhere \in Nat
  BY DEF NoPage, Page, Nowhere
<1>4. PICK pc \in {"page", "ended", "head"} : pc = next(page)
  BY DEF next
<1>5. PICK cursor \in Nat : cursor = endCursor(page)
  BY <1>1, <1>2 DEF endCursor
<1>6. PICK quiet \in Nat : quiet = IF caughtUp(page) THEN tail.headCursor ELSE Nowhere
  BY <1>1, <1>3
<1>7. tail' = [tail EXCEPT !.pc = pc, !.cursor = cursor, !.headCursor = Nowhere,
                           !.listed = NoPage, !.read = <<>>, !.quiet = quiet]
  BY <1>4, <1>5, <1>6 DEF round
<1>8. /\ tail' \in Loop /\ tail'.pc = pc /\ tail'.cursor = cursor /\ tail'.quiet = quiet
      /\ tail'.call = tail.call /\ tail'.headCursor = Nowhere
  BY <1>1, <1>3, <1>7 DEF Loop, TailPc
<1>9. Moved(page)
  <2>1. CASE caughtUp(page)
    <3>1. endCursor(page) = tail.headCursor
      BY <2>1 DEF endCursor
    <3> QED
      BY <1>5, <1>6, <1>8, <2>1, <3>1 DEF Moved, caughtUp
  <2>2. CASE ~caughtUp(page) /\ page.endCursor = Nowhere
    <3>1. endCursor(page) = tail.cursor
      BY <2>2 DEF endCursor
    <3> QED
      BY <1>5, <1>6, <1>8, <2>2, <3>1 DEF Moved
  <2>3. CASE ~caughtUp(page) /\ page.endCursor # Nowhere
    <3>1. endCursor(page) = page.endCursor
      BY <2>3 DEF endCursor
    <3> QED
      BY <1>5, <1>6, <1>8, <2>3, <3>1 DEF Moved
  <2> QED
    BY <2>1, <2>2, <2>3
<1>10. next(page) = "ended" => ~more(page) /\ ~tail.call.tail
  BY DEF next
<1> QED
  BY <1>4, <1>8, <1>9, <1>10 DEF round

(* A round gives its page out and moves on: nothing the page covered is     *)
(* skipped, and a quiet tail moves to the head it read.                     *)
LEMMA Rounds ==
  ASSUME Placed, NEW page \in Page, NEW there \in 0..Len(ledger), Covers(page, there),
         round(page), horizon' = there, UNCHANGED <<ledger, lowest>>,
         tail.pc # "idle", tail.call.tail => there = 0,
         ~tail.call.tail => there = IF horizon = 0 THEN Len(ledger) ELSE horizon
  PROVE  Placed' /\ tail'.pc \in {"page", "ended", "head"}
<1> DEFINE items == page.items
           now == tail'.cursor
<1>1. Walk /\ tail \in Loop /\ LedgerTypeOK /\ Cursor
  BY DEF Placed, Walk
<1>2. /\ tail' \in Loop /\ Moved(page)
      /\ tail'.call = tail.call /\ tail'.headCursor = Nowhere
      /\ tail'.pc = next(page) /\ emitted' = emitted \o items
      /\ next(page) \in {"page", "ended", "head"}
      /\ next(page) = "ended" => ~more(page) /\ ~tail.call.tail
  BY <1>1, RoundMoves
<1>3. /\ Order' = Order /\ Ascends' = Ascends /\ Start' = Start
      /\ affected' = affected /\ Matches' = Matches /\ \A p : Forgiven(p)' <=> Forgiven(p)
  BY <1>2 DEF Order, Ascends, Start, affected, Matches, filtered, Forgiven
<1>4. /\ Order \in {"ascending", "descending"} /\ Start \in Nat
      /\ (Ascends <=> Order = "ascending") /\ (tail.call.tail => Ascends)
  BY <1>1, Directions DEF Ascends
<1>5. /\ Len(ledger) \in Nat /\ lowest \in Nat /\ there \in Nat /\ horizon \in Nat
      /\ tail.cursor \in 0..Len(ledger) /\ tail.headCursor \in 0..Len(ledger)
      /\ tail.cursor \in Nat /\ tail.headCursor \in Nat
      /\ (tail.headCursor # Nowhere => tail.cursor <= tail.headCursor)
  BY <1>1 DEF Walk, LedgerTypeOK
<1>6. Matches \subseteq Nat /\ \A p \in Matches : p >= 1
  BY DEF Matches
<1>7. page.endCursor \in Nat /\ items \in Seq(Nat) /\ emitted \in Seq(Nat)
  BY <1>1 DEF Page, Walk
<1>8. /\ Len(items) \in Nat /\ \A i \in 1..Len(items) : items[i] \in Matches /\ Beyond(items[i])
      /\ Ordered(Order, items)
  BY <1>7 DEF Covers
<1>9. page.endCursor = Nowhere => items = <<>>
  BY DEF Covers
<1>10. page.endCursor # Nowhere =>
         /\ page.endCursor \in 1..Len(ledger) /\ Beyond(page.endCursor)
         /\ \A i \in 1..Len(items) : ~Before(Order, page.endCursor, items[i])
         /\ \A p \in Matches :
              Beyond(p) /\ ~Before(Order, page.endCursor, p) /\ (Ascends \/ p <= there) =>
                Among(p, items) \/ Forgiven(p)
  BY DEF Covers
<1>11. ~more(page) =>
         \A p \in Matches :
           Beyond(p) /\ p <= (IF tail.call.tail THEN tail.headCursor ELSE there) =>
             Among(p, items) \/ (p <= lowest /\ (Ascends => Forgiven(p)))
  BY DEF Covers
<1> HIDE DEF items, now
<1> DEFINE Forward ==
             /\ now \in 0..Len(ledger)
             /\ tail'.quiet # Nowhere => tail.call.tail /\ tail'.quiet = now
             /\ now = Nowhere => tail.cursor = Nowhere
             /\ Ascends => tail.cursor <= now
             /\ ~Ascends => \/ now = tail.cursor
                            \/ now # Nowhere /\ (tail.cursor = Nowhere \/ now < tail.cursor)
             /\ \A i \in 1..Len(items) :
                  IF Ascends THEN items[i] <= now ELSE now # Nowhere /\ items[i] >= now
             /\ \A p \in Matches :
                  Beyond(p) /\ (IF Ascends THEN p <= now
                                ELSE now # Nowhere /\ now <= p /\ p <= there) =>
                    Among(p, items) \/ Forgiven(p)
<1>12. Forward
  <2>1. CASE /\ tail.call.tail /\ items = <<>> /\ ~more(page)
             /\ tail.headCursor # Nowhere /\ now = tail.headCursor /\ tail'.quiet = now
    <3>1. Len(items) = 0 /\ \A p : ~Among(p, items)
      BY <2>1 DEF Among
    <3>2. \A i \in 1..Len(items) : FALSE
      BY <3>1
    <3>3. \A p \in Matches : Beyond(p) /\ p <= now => Forgiven(p)
      BY <1>4, <1>11, <2>1, <3>1
    <3> QED
      BY <1>4, <1>5, <2>1, <3>2, <3>3 DEF Nowhere
  <2>2. CASE page.endCursor = Nowhere /\ now = tail.cursor /\ tail'.quiet = Nowhere
    <3>1. Len(items) = 0
      BY <1>9, <2>2
    <3>2. \A i \in 1..Len(items) : FALSE
      BY <3>1
    <3>3. \A p \in Matches : ~(Beyond(p) /\ (IF Ascends THEN p <= now
                                              ELSE now # Nowhere /\ now <= p))
      BY <1>5, <1>6, <2>2 DEF Beyond
    <3> QED
      BY <1>5, <2>2, <3>2, <3>3
  <2>3. CASE page.endCursor # Nowhere /\ now = page.endCursor /\ tail'.quiet = Nowhere
    <3>1. now \in 1..Len(ledger) /\ now \in Nat /\ Beyond(now)
      BY <1>7, <1>10, <2>3
    <3>2. \A p \in Nat : ~Before(Order, now, p) <=> IF Ascends THEN p <= now ELSE now <= p
      BY <1>4, <3>1 DEF Before
    <3>3. \A i \in 1..Len(items) :
            IF Ascends THEN items[i] <= now ELSE now # Nowhere /\ items[i] >= now
      <4> SUFFICES ASSUME NEW i \in 1..Len(items)
                   PROVE IF Ascends THEN items[i] <= now ELSE now # Nowhere /\ items[i] >= now
        OBVIOUS
      <4>1. items[i] \in Nat /\ ~Before(Order, now, items[i])
        BY <1>6, <1>8, <1>10, <2>3
      <4> QED
        BY <2>3, <3>1, <3>2, <4>1
    <3>4. ASSUME NEW p \in Matches, Beyond(p),
                 IF Ascends THEN p <= now ELSE now # Nowhere /\ now <= p /\ p <= there
          PROVE  Among(p, items) \/ Forgiven(p)
      <4>1. ~Before(Order, now, p) /\ (Ascends \/ p <= there)
        BY <1>6, <3>2, <3>4
      <4> QED
        BY <1>10, <2>3, <3>4, <4>1
    <3>5. /\ Ascends => tail.cursor <= now
          /\ ~Ascends => tail.cursor = Nowhere \/ now < tail.cursor
      BY <1>5, <3>1 DEF Beyond
    <3> QED
      BY <2>3, <3>1, <3>3, <3>4, <3>5
  <2> QED
    BY <1>2, <2>1, <2>2, <2>3 DEF Moved, now, items
<1> HIDE DEF Forward
<1>13. /\ emitted' \in Seq(Nat) /\ Len(emitted') = Len(emitted) + Len(items)
       /\ Len(emitted) \in Nat /\ DOMAIN emitted' = 1..Len(emitted')
       /\ DOMAIN emitted = 1..Len(emitted)
       /\ \A i \in 1..(Len(emitted) + Len(items)) :
            emitted'[i] = IF i <= Len(emitted) THEN emitted[i] ELSE items[i - Len(emitted)]
  <2>1. /\ emitted \o items \in Seq(Nat)
        /\ Len(emitted \o items) = Len(emitted) + Len(items)
        /\ \A i \in 1..(Len(emitted) + Len(items)) :
             (emitted \o items)[i] = IF i <= Len(emitted) THEN emitted[i]
                                     ELSE items[i - Len(emitted)]
    BY <1>7, Joined
  <2>2. emitted' \in Seq(Nat) /\ emitted' = emitted \o items
    BY <1>2, <2>1 DEF items
  <2>3. DOMAIN emitted' = 1..Len(emitted') /\ DOMAIN emitted = 1..Len(emitted)
        /\ Len(emitted) \in Nat
    BY <1>7, <2>2
  <2> QED
    BY <2>1, <2>2, <2>3
<1>14. \A i \in 1..Len(emitted) : emitted'[i] = emitted[i] /\ i \in 1..Len(emitted')
  BY <1>8, <1>13, SMTT(30)
<1>15. \A i \in 1..Len(items) :
         /\ emitted'[Len(emitted) + i] = items[i]
         /\ Len(emitted) + i \in 1..Len(emitted')
  <2> SUFFICES ASSUME NEW i \in 1..Len(items)
               PROVE  /\ emitted'[Len(emitted) + i] = items[i]
                      /\ Len(emitted) + i \in 1..Len(emitted')
    OBVIOUS
  <2> DEFINE j == Len(emitted) + i
  <2>1. /\ j \in 1..(Len(emitted) + Len(items)) /\ j \in 1..Len(emitted')
        /\ ~(j <= Len(emitted)) /\ j - Len(emitted) = i
    <3>1. /\ Len(emitted) \in Nat /\ Len(items) \in Nat
          /\ Len(emitted') = Len(emitted) + Len(items)
      BY <1>8, <1>13
    <3> QED
      BY <3>1
  <2> HIDE DEF j
  <2>2. emitted'[j] = items[j - Len(emitted)]
    BY <1>13, <2>1
  <2> QED
    BY <2>1, <2>2 DEF j
<1>16. \A i \in 1..Len(emitted') :
         \/ i \in 1..Len(emitted)
         \/ i - Len(emitted) \in 1..Len(items) /\ i = Len(emitted) + (i - Len(emitted))
  BY <1>8, <1>13
<1>17. /\ \A p \in Emitted : p \in Emitted'
       /\ \A p : Among(p, items) => p \in Emitted'
  <2>1. \A p : p \in Emitted' <=> \E i \in 1..Len(emitted') : emitted'[i] = p
    BY <1>13 DEF Emitted, ToSet
  <2>2. \A p : p \in Emitted <=> \E i \in 1..Len(emitted) : emitted[i] = p
    BY <1>13 DEF Emitted, ToSet
  <2> QED
    BY <1>14, <1>15, <2>1, <2>2 DEF Among
<1>18. \A i \in DOMAIN emitted :
         emitted[i] \in Nat /\ IF Ascends THEN emitted[i] <= tail.cursor
                ELSE tail.cursor # Nowhere /\ emitted[i] >= tail.cursor
  <2>1. \A i \in DOMAIN emitted : emitted[i] \in Nat
    BY <1>7
  <2> QED
    BY <1>1, <2>1 DEF Cursor
<1>19. ~tail.call.tail /\ horizon = 0 => tail.cursor = Start
  BY <1>1 DEF Cursor
<1>20. Walk'
  BY <1>1, <1>2, <1>5, <1>12, <1>13 DEF Walk, LedgerTypeOK, Forward, now, Nowhere
<1>21. Cursor'
  <2>1. now = Nowhere => Start = Nowhere
    BY <1>1, <1>12 DEF Forward, Cursor
  <2>2. IF Ascends THEN Start <= now
        ELSE now # Nowhere /\ Start # Nowhere => now <= Start
    BY <1>1, <1>4, <1>5, <1>12 DEF Forward, Cursor
  <2>3. ASSUME NEW i \in 1..Len(emitted')
        PROVE  IF Ascends THEN emitted'[i] <= now ELSE now # Nowhere /\ emitted'[i] >= now
    <3>1. CASE i \in 1..Len(emitted)
      <4>1. /\ now \in Nat /\ (Ascends => tail.cursor <= now)
            /\ ~Ascends => \/ now = tail.cursor
                           \/ now # Nowhere /\ (tail.cursor = Nowhere \/ now < tail.cursor)
        BY <1>12 DEF Forward
      <4>2. /\ emitted'[i] = emitted[i] /\ emitted[i] \in Nat
            /\ IF Ascends THEN emitted[i] <= tail.cursor
               ELSE tail.cursor # Nowhere /\ emitted[i] >= tail.cursor
        BY <1>13, <1>14, <1>18, <3>1
      <4>3. PICK e \in Nat : e = emitted'[i]
        BY <4>2
      <4>4. CASE Ascends
        BY <1>5, <4>1, <4>2, <4>3, <4>4
      <4>5. CASE ~Ascends
        BY <1>5, <4>1, <4>2, <4>3, <4>5
      <4> QED
        BY <4>4, <4>5
    <3>2. CASE i - Len(emitted) \in 1..Len(items) /\ i = Len(emitted) + (i - Len(emitted))
      BY <1>12, <1>15, <3>2 DEF Forward
    <3> QED
      BY <1>16, <3>1, <3>2
  <2>4. ~tail.call.tail /\ there = 0 => now = Start
    <3> SUFFICES ASSUME ~tail.call.tail, there = 0 PROVE now = Start
      OBVIOUS
    <3>1. horizon = 0 /\ Len(ledger) = 0
      BY <1>5
    <3> QED
      BY <1>5, <1>12, <1>19, <3>1 DEF Forward
  <2> QED
    BY <1>2, <1>3, <1>13, <2>1, <2>2, <2>3, <2>4 DEF Cursor, now
<1>22. Reading' /\ QuietTailNotStranded'
  BY <1>2 DEF Reading, QuietTailNotStranded
<1>23. \A p \in Matches :
         p <= there /\ ~Ascends /\ tail.cursor # Nowhere /\ tail.cursor <= p
           /\ (Start # Nowhere => p < Start) => p <= horizon
  BY <1>4, <1>5, <1>6, <1>19
<1>24. NothingSkipped'
  <2> SUFFICES ASSUME NEW p \in Matches,
                      IF Ascends THEN Start < p /\ p <= now
                      ELSE now # Nowhere /\ now <= p
                           /\ (Start # Nowhere => p < Start) /\ p <= there
               PROVE  p \in Emitted' \/ Forgiven(p)
    BY <1>3 DEF NothingSkipped, Order, Ascends, now
  <2>1. CASE Beyond(p)
    BY <1>12, <1>17, <2>1 DEF Forward
  <2>2. CASE ~Beyond(p)
    <3>1. IF Ascends THEN Start < p /\ p <= tail.cursor
          ELSE tail.cursor # Nowhere /\ tail.cursor <= p
               /\ (Start # Nowhere => p < Start) /\ p <= horizon
      BY <1>5, <1>6, <1>23, <2>2 DEF Beyond
    <3>2. p \in Emitted \/ Forgiven(p)
      BY <3>1 DEF Placed, NothingSkipped, Order, Ascends
    <3> QED
      BY <1>17, <3>2
  <2> QED
    BY <2>1, <2>2
<1>25. InOrderOnce'
  <2>1. ASSUME NEW i \in 1..Len(emitted'), NEW j \in 1..Len(emitted'), i < j
        PROVE  Before(Order, emitted'[i], emitted'[j])
    <3>1. CASE i \in 1..Len(emitted) /\ j \in 1..Len(emitted)
      <4>1. Before(Order, emitted[i], emitted[j])
        BY <1>4, <1>13, <2>1, <3>1
           DEF Placed, StreamIsTheListing, InOrderOnce, Before, Order
      <4> QED
        BY <1>14, <3>1, <4>1
    <3>2. CASE i \in 1..Len(emitted) /\ j \notin 1..Len(emitted)
      <4> DEFINE k == j - Len(emitted)
      <4>1. k \in 1..Len(items) /\ j = Len(emitted) + k
        BY <1>16, <3>2
      <4> HIDE DEF k
      <4>2. emitted'[j] = items[k] /\ Beyond(items[k]) /\ items[k] \in Nat
        BY <1>6, <1>8, <1>15, <4>1
      <4>3. /\ emitted'[i] = emitted[i] /\ emitted[i] \in Nat
            /\ IF Ascends THEN emitted[i] <= tail.cursor
               ELSE tail.cursor # Nowhere /\ emitted[i] >= tail.cursor
        BY <1>13, <1>14, <1>18, <3>2
      <4> QED
        BY <1>4, <1>5, <4>2, <4>3, SMTT(30) DEF Beyond, Before
    <3>3. CASE i \notin 1..Len(emitted)
      <4> DEFINE k == i - Len(emitted)
                 l == j - Len(emitted)
      <4>1. j \notin 1..Len(emitted)
        BY <1>13, <2>1, <3>3
      <4>2. /\ k \in 1..Len(items) /\ i = Len(emitted) + k
            /\ l \in 1..Len(items) /\ j = Len(emitted) + l /\ k < l
        BY <1>13, <1>16, <2>1, <3>3, <4>1
      <4> HIDE DEF k, l
      <4>3. Before(Order, items[k], items[l])
        BY <1>8, <4>2 DEF Ordered
      <4> QED
        BY <1>15, <4>2, <4>3
    <3> QED
      BY <3>1, <3>2, <3>3
  <2> QED
    BY <1>3, <1>4, <1>13, <2>1 DEF InOrderOnce, Before, Order
<1>26. EndedWhole'
  <2> SUFFICES ASSUME next(page) = "ended", NEW p \in Matches, p <= there,
                      Start # Nowhere => IF Ascends THEN p > Start ELSE p < Start
               PROVE  p \in Emitted' \/ p <= lowest
    BY <1>2, <1>3 DEF EndedWhole, Order, Ascends
  <2>1. CASE Beyond(p)
    BY <1>2, <1>11, <1>17, <2>1
  <2>2. CASE ~Beyond(p)
    <3>1. IF Ascends THEN Start < p /\ p <= tail.cursor
          ELSE tail.cursor # Nowhere /\ tail.cursor <= p
               /\ (Start # Nowhere => p < Start) /\ p <= horizon
      BY <1>4, <1>5, <1>6, <1>23, <2>2 DEF Beyond, Nowhere
    <3>2. p \in Emitted \/ Forgiven(p)
      BY <3>1 DEF Placed, NothingSkipped, Order, Ascends
    <3> QED
      BY <1>17, <3>2 DEF Forgiven
  <2> QED
    BY <2>1, <2>2
<1> QED
  BY <1>2, <1>20, <1>21, <1>22, <1>24, <1>25, <1>26 DEF Placed, StreamIsTheListing

(* What a page covers is seen from the cursor, the call and the ledger.     *)
LEMMA CoversStays ==
  ASSUME tail'.call = tail.call, tail'.cursor = tail.cursor,
         tail'.headCursor = tail.headCursor, UNCHANGED <<ledger, lowest>>,
         NEW page, NEW there, Covers(page, there)
  PROVE  Covers(page, there)'
<1>1. /\ Order' = Order /\ Ascends' = Ascends /\ Matches' = Matches
      /\ (\A p : Forgiven(p)' <=> Forgiven(p)) /\ (\A p : Beyond(p)' <=> Beyond(p))
  BY DEF Order, Ascends, Matches, filtered, Forgiven, Start, affected, Beyond
<1> QED
  BY <1>1 DEF Covers

(* A page is listed: its digests are to be read, or there is nothing in it  *)
(* and the round is over.                                                   *)
LEMMA PageReading ==
  ASSUME Placed, pageRead
  PROVE  Placed' /\ tail.pc = "page" /\ tail'.pc \in {"page", "ended", "head", "reads"}
<1>1. Walk /\ tail \in Loop /\ LedgerTypeOK /\ Cursor /\ tail.pc = "page"
      /\ ~OutOfRange(Order, tail.cursor) /\ UNCHANGED <<ledger, lowest>>
  BY DEF Placed, Walk, pageRead, Order
<1>2. /\ Len(ledger) \in Nat /\ horizon \in 0..Len(ledger)
      /\ tail.cursor \in 0..Len(ledger) /\ tail.cursor \in Nat
  BY <1>1 DEF Walk, LedgerTypeOK
<1>3. /\ Order \in {"ascending", "descending"} /\ Start \in Nat
      /\ (Ascends <=> Order = "ascending") /\ (tail.call.tail => Ascends)
  BY <1>1, Directions DEF Ascends
<1>4. PICK there \in 0..Len(ledger) :
        there = IF horizon = 0 /\ ~tail.call.tail THEN Len(ledger) ELSE horizon
  BY <1>2
<1>5. horizon' = there
  BY <1>4 DEF pageRead
<1>6. PICK listing \in Closings(Listing(filtered, Order, tail.cursor)) :
        \E page \in {pageOf(listing)} :
          IF affected /\ page.items # <<>>
          THEN /\ tail' = [tail EXCEPT !.pc = "reads", !.listed = page,
                                       !.read = [i \in DOMAIN page.items |-> "unread"]]
               /\ UNCHANGED emitted
          ELSE round(page)
  BY DEF pageRead, Order
<1>a. PICK page : page = pageOf(listing)
  OBVIOUS
<1>7. page \in Page /\ Covers(page, there) /\ Len(page.items) <= LEDGER_PAGE_SIZE
  BY <1>1, <1>a, PageCovers
<1>8. IF affected /\ page.items # <<>>
      THEN /\ tail' = [tail EXCEPT !.pc = "reads", !.listed = page,
                                   !.read = [i \in DOMAIN page.items |-> "unread"]]
           /\ UNCHANGED emitted
      ELSE round(page)
  BY <1>6, <1>a
<1>9. tail.call.tail => horizon = 0 /\ there = 0
  BY <1>1, <1>4 DEF Cursor
<1>10. CASE ~(affected /\ page.items # <<>>)
  <2>1. ~tail.call.tail => there = IF horizon = 0 THEN Len(ledger) ELSE horizon
    BY <1>4
  <2>2. Placed' /\ tail'.pc \in {"page", "ended", "head"}
    BY <1>1, <1>5, <1>7, <1>8, <1>9, <1>10, <2>1, Rounds
  <2> QED
    BY <1>1, <2>2
<1>11. CASE affected /\ page.items # <<>>
  <2>1. page.items \in Seq(Nat) /\ DOMAIN page.items = 1..Len(page.items)
        /\ Len(page.items) \in Nat
    BY <1>7 DEF Page
  <2>2. PICK read \in Seq({"unread", "found", "gone"}) :
          /\ read = [i \in DOMAIN page.items |-> "unread"]
          /\ Len(read) = Len(page.items)
          /\ \A i \in 1..Len(read) : read[i] = "unread"
    <3> DEFINE read == [i \in 1..Len(page.items) |-> "unread"]
    <3>1. read \in Seq({"unread", "found", "gone"}) /\ Len(read) = Len(page.items)
      BY <2>1
    <3>2. \A i \in 1..Len(page.items) : read[i] = "unread"
      OBVIOUS
    <3>3. read = [i \in DOMAIN page.items |-> "unread"]
      BY <2>1
    <3> HIDE DEF read
    <3> QED
      BY <3>1, <3>2, <3>3
  <2>3. tail' = [tail EXCEPT !.pc = "reads", !.listed = page, !.read = read]
        /\ UNCHANGED emitted
    BY <1>8, <1>11, <2>2
  <2>4. /\ tail' \in Loop /\ tail'.pc = "reads" /\ tail'.listed = page /\ tail'.read = read
        /\ tail'.call = tail.call /\ tail'.cursor = tail.cursor
        /\ tail'.headCursor = tail.headCursor /\ tail'.quiet = tail.quiet
    BY <1>1, <1>7, <2>3 DEF Loop, TailPc
  <2>5. /\ Order' = Order /\ Ascends' = Ascends /\ Start' = Start /\ Emitted' = Emitted
        /\ affected' = affected /\ Matches' = Matches
        /\ \A p : Forgiven(p)' <=> Forgiven(p)
    BY <1>1, <2>3, <2>4 DEF Order, Ascends, Start, Emitted, affected, Matches, filtered, Forgiven
  <2>6. page.endCursor # Nowhere /\ page.endCursor \in 1..Len(ledger)
    BY <1>7, <1>11 DEF Covers
  <2>7. Walk'
    BY <1>1, <1>2, <1>5, <2>3, <2>4 DEF Walk, LedgerTypeOK
  <2>8. Cursor'
    BY <1>1, <1>2, <1>4, <1>5, <1>9, <2>3, <2>4, <2>5 DEF Cursor
  <2>9. Reading'
    <3>1. Covers(page, there)'
      BY <1>1, <1>7, <2>4, CoversStays
    <3>2. Covers(tail.listed, horizon)'
      BY <1>5, <2>4, <3>1
    <3>3. ~tail.call.tail => there # 0
      BY <1>2, <1>4, <2>6
    <3>4. \A i \in 1..Len(read) : read[i] # "gone"
      BY <2>2
    <3> QED
      BY <1>5, <1>7, <1>11, <2>2, <2>4, <2>5, <2>6, <3>2, <3>3, <3>4 DEF Reading
  <2>10. NothingSkipped'
    <3> SUFFICES ASSUME NEW p \in Matches,
                        IF Ascends THEN Start < p /\ p <= tail.cursor
                        ELSE tail.cursor # Nowhere /\ tail.cursor <= p
                             /\ (Start # Nowhere => p < Start) /\ p <= there
                 PROVE  p \in Emitted \/ Forgiven(p)
      BY <1>5, <2>4, <2>5 DEF NothingSkipped, Order, Ascends
    <3>1. p \in Nat
      BY DEF Matches
    <3>2. ~Ascends => p <= horizon
      BY <1>1, <1>2, <1>3, <1>4, <3>1 DEF Cursor
    <3> QED
      BY <3>2 DEF Placed, NothingSkipped, Order, Ascends
  <2>11. StreamIsTheListing' /\ QuietTailNotStranded'
    BY <2>3, <2>4, <2>5
       DEF Placed, StreamIsTheListing, InOrderOnce, EndedWhole, QuietTailNotStranded, Order
  <2> QED
    BY <1>1, <2>4, <2>7, <2>8, <2>9, <2>10, <2>11 DEF Placed
<1> QED
  BY <1>10, <1>11

(* One of the page's transactions is read, or is gone from the node.        *)
LEMMA OneReading ==
  ASSUME Placed, NEW i \in DOMAIN tail.read, readListed(i)
  PROVE  /\ Placed' /\ tail.pc = "reads" /\ tail'.pc = "reads"
         /\ DOMAIN tail'.read = DOMAIN tail.read
         /\ \A j \in DOMAIN tail.read : j # i => tail'.read[j] = tail.read[j]
<1>1. Walk /\ tail \in Loop /\ LedgerTypeOK /\ tail.pc = "reads"
      /\ UNCHANGED <<emitted, horizon, ledger, lowest>>
  BY DEF Placed, Walk, readListed
<1>2. PICK what \in {"found", "gone"} :
        what = IF tail.listed.items[i] > lowest THEN "found" ELSE "gone"
  OBVIOUS
<1>3. tail' = [tail EXCEPT !.read[i] = what]
  BY <1>2 DEF readListed
<1> DEFINE read == [tail.read EXCEPT ![i] = what]
<1>4. tail.read \in Seq({"unread", "found", "gone"})
  BY <1>1 DEF Loop
<1>5. /\ read \in Seq({"unread", "found", "gone"}) /\ Len(read) = Len(tail.read)
      /\ DOMAIN read = DOMAIN tail.read /\ DOMAIN read = 1..Len(tail.read)
      /\ read[i] = what /\ \A j \in DOMAIN tail.read : j # i => read[j] = tail.read[j]
  BY <1>4
<1>6. tail' = [tail EXCEPT !.read = read]
  BY <1>1, <1>3 DEF Loop
<1> HIDE DEF read
<1>7. /\ tail' \in Loop /\ tail'.pc = "reads" /\ tail'.listed = tail.listed /\ tail'.read = read
      /\ tail'.call = tail.call /\ tail'.cursor = tail.cursor
      /\ tail'.headCursor = tail.headCursor /\ tail'.quiet = tail.quiet
  BY <1>1, <1>5, <1>6 DEF Loop, TailPc
<1>8. /\ Order' = Order /\ Ascends' = Ascends /\ Start' = Start /\ Emitted' = Emitted
      /\ affected' = affected /\ Matches' = Matches
      /\ \A p : Forgiven(p)' <=> Forgiven(p)
  BY <1>1, <1>7 DEF Order, Ascends, Start, Emitted, affected, Matches, filtered, Forgiven
<1>9. Walk'
  BY <1>1, <1>7 DEF Walk, LedgerTypeOK
<1>10. Cursor'
  BY <1>1, <1>7, <1>8 DEF Placed, Cursor
<1>11. Reading'
  <2>1. Covers(tail.listed, horizon)
    BY <1>1 DEF Placed, Reading
  <2>2. PICK page, there : page = tail.listed /\ there = horizon
    OBVIOUS
  <2>3. Covers(page, there)'
    BY <1>1, <1>7, <2>1, <2>2, CoversStays
  <2>4. Covers(tail.listed, horizon)'
    BY <1>1, <1>7, <2>2, <2>3
  <2>5. tail.listed.items[i] \in Nat /\ lowest \in Nat
    <3>1. tail.listed.items \in Seq(Nat) /\ Len(tail.read) = Len(tail.listed.items)
      BY <1>1 DEF Placed, Reading, Loop, Page
    <3>2. i \in 1..Len(tail.listed.items)
      BY <1>5, <3>1
    <3>3. tail.listed.items[i] \in Nat
      BY <3>1, <3>2, Wider
    <3> QED
      BY <1>1, <3>3 DEF LedgerTypeOK
  <2>6. \A j \in 1..Len(read) : read[j] = "gone" => tail.listed.items[j] <= lowest
    <3>1. \A j \in 1..Len(tail.read) :
            tail.read[j] = "gone" => tail.listed.items[j] <= lowest
      BY <1>1 DEF Placed, Reading
    <3>2. what = "gone" => tail.listed.items[i] <= lowest
      BY <1>2, <2>5
    <3> QED
      BY <1>5, <3>1, <3>2
  <2> QED
    BY <1>1, <1>5, <1>7, <1>8, <2>4, <2>6 DEF Placed, Reading
<1>12. NothingSkipped'
  BY <1>1, <1>7, <1>8 DEF Placed, NothingSkipped, Order
<1>13. StreamIsTheListing' /\ QuietTailNotStranded'
  BY <1>1, <1>7, <1>8
     DEF Placed, StreamIsTheListing, InOrderOnce, EndedWhole, QuietTailNotStranded, Order
<1> QED
  BY <1>1, <1>5, <1>7, <1>9, <1>10, <1>11, <1>12, <1>13 DEF Placed

(* With all of them read, those found are given out, in the page's order.   *)
LEMMA AllReading ==
  ASSUME Placed, listedRead
  PROVE  /\ Placed' /\ tail.pc = "reads" /\ tail'.pc \in {"page", "ended", "head"}
         /\ \A i \in DOMAIN tail.read : tail.read[i] # "unread"
<1> DEFINE places == {i \in 1..Len(tail.listed.items) : tail.read[i] = "found"}
<1>1. Walk /\ tail \in Loop /\ LedgerTypeOK /\ tail.pc = "reads"
      /\ UNCHANGED <<horizon, ledger, lowest>>
      /\ \A i \in DOMAIN tail.read : tail.read[i] # "unread"
  BY DEF Placed, Walk, listedRead
<1>2. PICK listed \in Page : listed = tail.listed
  BY <1>1 DEF Loop
<1>3. PICK items \in Seq(Nat) : items = listed.items
  BY <1>2 DEF Page
<1>4. /\ affected /\ Covers(listed, horizon) /\ listed.endCursor # Nowhere
      /\ Len(tail.read) = Len(items) /\ (~tail.call.tail => horizon # 0)
      /\ \A i \in 1..Len(items) : tail.read[i] = "gone" => items[i] <= lowest
  BY <1>1, <1>2, <1>3 DEF Placed, Reading
<1>5. DOMAIN items = 1..Len(items) /\ Len(items) \in Nat
  BY <1>3
<1>6. Kept(items, places)[Len(items)] \in Seq(Nat)
  <2> HIDE DEF places
  <2>1. Kept(items, places) \in [0..Len(items) -> Seq(Nat)]
    BY KeptSteps
  <2> QED
    BY <1>5, <2>1
<1>7. PICK found \in Seq(Nat) : found = Kept(items, places)[Len(items)]
  BY <1>6, Zenon
<1>8. PICK at : KeptAt(at, found, items, places, Len(items))
  <2>1. Len(items) \in 0..Len(items)
    BY <1>5
  <2> HIDE DEF places
  <2>2. \E at : KeptAt(at, Kept(items, places)[Len(items)], items, places, Len(items))
    BY <2>1, KeptInOrder
  <2> QED
    BY <1>7, <2>2
<1>9. PICK page \in Page : page = [listed EXCEPT !.items = found]
  <2>1. [listed EXCEPT !.items = found] \in Page
    BY DEF Page
  <2> QED
    BY <2>1, Zenon
<1>10. /\ page.items = found /\ page.endCursor = listed.endCursor
       /\ page.hasNextPage = listed.hasNextPage
  BY <1>9 DEF Page
<1>11. round(page)
  <2>1. places = {i \in DOMAIN items : tail.read[i] = "found"}
    BY <1>2, <1>3, <1>5
  <2> HIDE DEF places
  <2>2. [listed EXCEPT !.items = Kept(items, places)[Len(items)]] = page
    BY <1>7, <1>9
  <2> QED
    BY <1>2, <1>3, <2>1, <2>2 DEF listedRead
<1>12. DOMAIN tail.read = 1..Len(items)
       /\ \A i \in 1..Len(items) : tail.read[i] \in {"unread", "found", "gone"}
  BY <1>1, <1>4 DEF Loop
<1>13. /\ \A j \in 1..Len(found) : at[j] \in 1..Len(items) /\ found[j] = items[at[j]]
       /\ \A j, k \in 1..Len(found) : j < k => at[j] < at[k]
       /\ \A i \in (1..Len(items)) \cap places : \E j \in 1..Len(found) : at[j] = i
  BY <1>8 DEF KeptAt
<1>14. ASSUME NEW p, Among(p, items)
       PROVE  Among(p, found) \/ (Forgiven(p) /\ p <= lowest)
  <2>1. PICK i \in 1..Len(items) : items[i] = p
    BY <1>14 DEF Among
  <2>2. CASE tail.read[i] = "found"
    <3>1. i \in (1..Len(items)) \cap places
      BY <1>2, <1>3, <2>1, <2>2
    <3>2. PICK j \in 1..Len(found) : at[j] = i
      BY <1>13, <3>1
    <3>3. found[j] = p
      BY <1>13, <2>1, <3>2
    <3> QED
      BY <3>3 DEF Among
  <2>3. CASE tail.read[i] # "found"
    <3>1. tail.read[i] = "gone"
      BY <1>1, <1>12, <2>3
    <3> QED
      BY <1>4, <2>1, <3>1 DEF Forgiven
  <2> QED
    BY <2>2, <2>3
<1> HIDE DEF places
<1>15. Covers(page, horizon)
  <2>1. \A j \in 1..Len(found) : found[j] \in Matches /\ Beyond(found[j])
    BY <1>3, <1>4, <1>13 DEF Covers
  <2>2. Ordered(Order, found)
    <3>1. \A j, k \in 1..Len(items) : j < k => Before(Order, items[j], items[k])
      BY <1>3, <1>4 DEF Covers, Ordered
    <3> QED
      BY <1>13, <3>1 DEF Ordered
  <2>3. /\ page.endCursor \in 1..Len(ledger) /\ Beyond(page.endCursor)
        /\ \A j \in 1..Len(found) : ~Before(Order, page.endCursor, found[j])
    BY <1>3, <1>4, <1>10, <1>13 DEF Covers
  <2>4. ASSUME NEW p \in Matches, Beyond(p), ~Before(Order, page.endCursor, p),
               Ascends \/ p <= horizon
        PROVE  Among(p, found) \/ Forgiven(p)
    <3>1. Among(p, items) \/ Forgiven(p)
      BY <1>3, <1>4, <1>10, <2>4 DEF Covers
    <3> QED
      BY <1>14, <3>1
  <2>5. ASSUME ~more(page), NEW p \in Matches, Beyond(p),
               p <= (IF tail.call.tail THEN tail.headCursor ELSE horizon)
        PROVE  Among(p, found) \/ (p <= lowest /\ (Ascends => Forgiven(p)))
    <3>1. ~more(listed)
      BY <1>10, <2>5 DEF more
    <3>2. Among(p, items) \/ (p <= lowest /\ (Ascends => Forgiven(p)))
      BY <1>3, <1>4, <2>5, <3>1 DEF Covers
    <3> QED
      BY <1>14, <3>2
  <2> QED
    BY <1>4, <1>10, <2>1, <2>2, <2>3, <2>4, <2>5 DEF Covers
<1>16. /\ horizon \in 0..Len(ledger) /\ horizon' = horizon
       /\ (tail.call.tail => horizon = 0)
  BY <1>1 DEF Walk, Placed, Cursor
<1>17. PICK there \in 0..Len(ledger) : there = horizon
  BY <1>16
<1>18. Placed' /\ tail'.pc \in {"page", "ended", "head"}
  BY <1>1, <1>4, <1>11, <1>15, <1>16, <1>17, Rounds
<1> QED
  BY <1>1, <1>18

-----------------------------------------------------------------------------
(* The theorems.                                                            *)

(* One request of those that are under way moves.                           *)
LEMMA OneRequest ==
  ASSUME Requests, UNCHANGED <<tail, ledger, lowest>>, NEW s \in Slot,
         request' \in [Slot -> Calls],
         \A t \in Slot : t # s => request'[t] = request[t],
         \/ request[s].pc # "idle"
         \/ tail.pc \in {"head", "page"} /\ s = 1
         \/ tail.pc = "reads" /\ s \in DOMAIN tail.read /\ tail.read[s] = "unread",
         request'[s].pc = "done" =>
           \/ request'[s].answer.status # "OUT_OF_RANGE"
           \/ tail.pc = "page" /\ OutOfRange(Order, tail.cursor)
  PROVE  Requests'
<1>1. /\ Order' = Order
      /\ OutOfRange(Order, tail.cursor)' <=> OutOfRange(Order, tail.cursor)
  BY DEF Order, OutOfRange
<1>2. tail.pc \in {"idle", "failed", "ended", "refused"} => FALSE
  BY DEF Requests
<1>3. tail.pc \in {"head", "page"} => s = 1
  BY DEF Requests
<1>4. tail.pc = "reads" => s \in DOMAIN tail.read /\ tail.read[s] = "unread"
  BY DEF Requests
<1> QED
  BY <1>1, <1>2, <1>3, <1>4 DEF Requests

(* No request moves, and the loop is where it was.                          *)
LEMMA NoRequest ==
  ASSUME request' \in [Slot -> Calls], \A s \in Slot : request'[s].pc = "idle"
  PROVE  Requests'
BY DEF Requests

(* There is a slot for the one request of a head or a page.                 *)
LEMMA OneSlot == 1 \in Slot
<1>1. LEDGER_PAGE_SIZE \in Nat \ {0}
  BY LimitsPositive
<1> QED
  BY <1>1, OneSlotPerDigest

(* Every step keeps the requests in their place.                            *)
LEMMA RequestsKept ==
  ASSUME IInv, TailNext, Placed'
  PROVE  Requests'
<1>1. /\ Requests /\ Walk /\ Reading /\ request \in [Slot -> Calls] /\ tail \in Loop
      /\ LedgerTypeOK
  BY DEF IInv, Requests, Placed, Walk
<1>2. ASSUME NEW call \in Listings, open(call)
      PROVE  Requests'
  <2>1. \A s \in Slot : request[s].pc = "idle"
    BY <1>1, <1>2 DEF open, Requests
  <2> QED
    BY <1>1, <1>2, <2>1, NoRequest DEF open
<1>3. CASE askListing
  <2>1. Ask(1, Method1) /\ tail.pc \in {"head", "page"}
        /\ UNCHANGED <<tail, ledger, lowest>>
    BY <1>3 DEF askListing
  <2>2. Method1 \in Method
    BY DEF Method1, Method, PlainReads, LedgerReads, Uses
  <2>3. /\ request' \in [Slot -> Calls] /\ request'[1].pc = "asked"
        /\ \A t \in Slot : t # 1 => request'[t] = request[t]
    BY <1>1, <2>1, <2>2, OneSlot, Asking
  <2> QED
    BY <1>1, <2>1, <2>3, OneSlot, OneRequest
<1>4. CASE headRead \/ pageRead
  <2>1. Release(1) /\ tail.pc \in {"head", "page"}
    BY <1>4 DEF headRead, pageRead
  <2>2. /\ request' \in [Slot -> Calls] /\ request'[1].pc = "idle"
        /\ \A t \in Slot : t # 1 => request'[t] = request[t]
    BY <1>1, <2>1, OneSlot, Releasing
  <2>3. \A t \in Slot : t # 1 => request[t].pc = "idle"
    BY <1>1, <2>1 DEF Requests
  <2> QED
    BY <2>2, <2>3, NoRequest
<1>5. CASE outOfRange
  <2>1. /\ Throws(1, Throw("OUT_OF_RANGE")) /\ tail.pc = "page"
        /\ OutOfRange(Order, tail.cursor) /\ UNCHANGED <<tail, ledger, lowest>>
    BY <1>5 DEF outOfRange, Throw, Order
  <2>2. /\ request' \in [Slot -> Calls] /\ request[1].pc = "asked"
        /\ \A t \in Slot : t # 1 => request'[t] = request[t]
    BY <1>1, <2>1, OneSlot, Breaking DEF Causes
  <2> QED
    BY <1>1, <2>1, <2>2, OneSlot, OneRequest
<1>6. ASSUME NEW i \in DOMAIN tail.read, askListed(i)
      PROVE  Requests'
  <2>1. Ask(i, "getTransaction") /\ tail.pc = "reads" /\ tail.read[i] = "unread"
        /\ UNCHANGED <<tail, ledger, lowest>>
    BY <1>6 DEF askListed
  <2>2. i \in Slot
    <3>1. Len(tail.read) <= LEDGER_PAGE_SIZE /\ DOMAIN tail.read = 1..Len(tail.read)
          /\ Len(tail.read) \in Nat
      BY <1>1, <2>1 DEF Reading, Loop
    <3>2. LEDGER_PAGE_SIZE \in Nat
      BY LimitsPositive
    <3> QED
      BY <3>1, <3>2, OneSlotPerDigest
  <2>3. "getTransaction" \in Method
    BY DEF Method, TransactionLookups
  <2>4. /\ request' \in [Slot -> Calls] /\ request'[i].pc = "asked"
        /\ \A t \in Slot : t # i => request'[t] = request[t]
    BY <1>1, <2>1, <2>2, <2>3, Asking
  <2> QED
    BY <1>1, <2>1, <2>2, <2>4, OneRequest
<1>7. ASSUME NEW i \in DOMAIN tail.read, readListed(i)
      PROVE  Requests'
  <2>1. Release(i) /\ request[i].pc = "asked" /\ tail.pc = "reads"
    BY <1>7 DEF readListed
  <2>2. i \in Slot
    <3>1. Len(tail.read) <= LEDGER_PAGE_SIZE /\ DOMAIN tail.read = 1..Len(tail.read)
          /\ Len(tail.read) \in Nat
      BY <1>1, <2>1 DEF Reading, Loop
    <3>2. LEDGER_PAGE_SIZE \in Nat
      BY LimitsPositive
    <3> QED
      BY <3>1, <3>2, OneSlotPerDigest
  <2>3. /\ request' \in [Slot -> Calls] /\ request'[i].pc = "idle"
        /\ \A t \in Slot : t # i => request'[t] = request[t]
    BY <1>1, <2>1, <2>2, Releasing
  <2>4. /\ tail'.pc = "reads" /\ DOMAIN tail'.read = DOMAIN tail.read
        /\ \A j \in DOMAIN tail.read : j # i => tail'.read[j] = tail.read[j]
    BY <1>7, OneReading DEF IInv
  <2>5. \A t \in Slot : request'[t].pc # "idle" =>
          t # i /\ request[t].pc # "idle" /\ request'[t] = request[t]
    BY <2>3
  <2>6. \A t \in Slot : request'[t].pc # "idle" =>
          t \in DOMAIN tail'.read /\ tail'.read[t] = "unread"
    BY <1>1, <2>1, <2>4, <2>5 DEF Requests
  <2>7. \A t \in Slot : request'[t].pc = "done" =>
          request'[t].answer.status # "OUT_OF_RANGE"
    BY <1>1, <2>1, <2>3, <2>5 DEF Requests
  <2> QED
    BY <2>3, <2>4, <2>6, <2>7 DEF Requests
<1>8. CASE listedRead
  <2>1. tail.pc = "reads" /\ UNCHANGED request
        /\ \A i \in DOMAIN tail.read : tail.read[i] # "unread"
    BY <1>8 DEF listedRead
  <2>2. \A s \in Slot : request[s].pc = "idle"
    BY <1>1, <2>1 DEF Requests
  <2> QED
    BY <1>1, <2>1, <2>2, NoRequest
<1>9. ASSUME NEW s \in Slot, again(s)
      PROVE  Requests'
  <2>1. Again(s) /\ UNCHANGED <<tail, ledger, lowest>>
    BY <1>9 DEF again
  <2>2. /\ request' \in [Slot -> Calls] /\ request[s].pc = "waiting"
        /\ request'[s].pc = "asked"
        /\ \A t \in Slot : t # s => request'[t] = request[t]
    BY <1>1, <2>1, AskingAgain
  <2> QED
    BY <1>1, <2>1, <2>2, OneRequest
<1>10. ASSUME NEW s \in Slot, readFailed(s)
       PROVE  Requests'
  <2>1. request' = [t \in Slot |-> Idle]
    BY <1>10 DEF readFailed
  <2>2. Answered \in Failures
    BY DEF Answered, Failure, Failures
  <2>3. Idle \in Calls /\ Idle.pc = "idle"
    BY <2>2 DEF Calls, Pc, Idle, Method, Uses
  <2>4. request' \in [Slot -> Calls] /\ \A t \in Slot : request'[t].pc = "idle"
    BY <2>1, <2>3
  <2> QED
    BY <2>4, NoRequest
<1>11. ASSUME NEW s \in Slot, attemptFails(s)
       PROVE  Requests'
  <2>1. /\ \/ \E cause \in {"UNAVAILABLE", "UNIMPLEMENTED"} : Throws(s, Throw(cause))
           \/ TimesOut(s)
        /\ UNCHANGED <<tail, ledger, lowest>>
    BY <1>11 DEF attemptFails, Throw
  <2>2. /\ request' \in [Slot -> Calls] /\ request[s].pc = "asked"
        /\ request'[s].answer.status # "OUT_OF_RANGE"
        /\ \A t \in Slot : t # s => request'[t] = request[t]
    BY <1>1, <2>1, Breaking DEF Causes
  <2> QED
    BY <1>1, <2>1, <2>2, OneRequest
<1>13. ASSUME NEW s \in Slot, undecoded(s)
       PROVE  Requests'
  <2>1. Answered \in Failures
    BY DEF Answered, Failure, Failures
  <2>2. Idle \in Calls /\ Idle.pc = "idle"
    BY <2>1 DEF Calls, Pc, Idle, Method, Uses
  <2>3. request' \in [Slot -> Calls] /\ \A t \in Slot : request'[t].pc = "idle"
    BY <1>13, <2>2 DEF undecoded
  <2> QED
    BY <2>3, NoRequest
<1>12. CASE nodeMoves
  <2>1. UNCHANGED <<tail, request>> /\ Order' = Order
    BY <1>12 DEF nodeMoves, Order
  <2>2. lowest <= lowest' /\ lowest \in Nat /\ lowest' \in Nat /\ tail.cursor \in Nat
    BY <1>1, <1>12, NodeSteps DEF nodeMoves, Loop
  <2>3. OutOfRange(Order, tail.cursor) => OutOfRange(Order, tail.cursor)'
    BY <2>1, <2>2 DEF OutOfRange
  <2> QED
    BY <1>1, <2>1, <2>3 DEF Requests
<1> QED
  BY <1>2, <1>3, <1>4, <1>5, <1>6, <1>7, <1>8, <1>9, <1>10, <1>11, <1>12, <1>13
     DEF TailNext, loop

(* Every step keeps the loop in its place.                                  *)
LEMMA PlaceKept ==
  ASSUME IInv, TailNext
  PROVE  Placed'
<1>1. Placed
  BY DEF IInv
<1>2. ASSUME NEW call \in Listings, open(call)
      PROVE  Placed'
  BY <1>1, <1>2, Opening
<1>3. CASE headRead
  BY <1>1, <1>3, HeadReading
<1>4. CASE pageRead
  BY <1>1, <1>4, PageReading
<1>5. CASE listedRead
  BY <1>1, <1>5, AllReading
<1>6. ASSUME NEW i \in DOMAIN tail.read, readListed(i)
      PROVE  Placed'
  BY <1>1, <1>6, OneReading
<1>7. ASSUME NEW s \in Slot, readFailed(s)
      PROVE  Placed'
  BY <1>7, ReadFailing
<1>8. ASSUME \/ askListing \/ outOfRange
             \/ \E i \in DOMAIN tail.read : askListed(i)
             \/ \E s \in Slot : again(s) \/ attemptFails(s)
      PROVE  Placed'
  <2>1. UNCHANGED <<tail, emitted, horizon, ledger, lowest>>
    BY <1>8 DEF askListing, outOfRange, askListed, again, attemptFails
  <2> QED
    BY <1>1, <2>1, Staying
<1>9. CASE nodeMoves
  BY <1>1, <1>9, NodeMoving DEF nodeMoves
<1>10. ASSUME NEW s \in Slot, undecoded(s)
       PROVE  Placed'
  BY <1>1, <1>10, Undecoding
<1> QED
  BY <1>2, <1>3, <1>4, <1>5, <1>6, <1>7, <1>8, <1>9, <1>10 DEF TailNext, loop

(* The invariant holds at the start.                                        *)
LEMMA IInvInit == TailInit => IInv
<1> SUFFICES ASSUME TailInit PROVE IInv
  OBVIOUS
<1>1. ledger = <<>> /\ lowest = 0 /\ emitted = <<>> /\ horizon = 0
      /\ request = [s \in Slot |-> Idle]
      /\ tail = [pc |-> "idle", call |-> NoCall, cursor |-> Nowhere,
                 headCursor |-> Nowhere, listed |-> NoPage, read |-> <<>>,
                 quiet |-> Nowhere, error |-> "none"]
  BY DEF TailInit, LedgerInit, ReadInit
<1>2. Answered \in Failures
  BY DEF Answered, Failure, Failures
<1>3. Idle \in Calls /\ Idle.pc = "idle"
  BY <1>2 DEF Calls, Pc, Idle, Method, Uses
<1>4. Requests
  BY <1>1, <1>3 DEF Requests
<1>5. NoPage \in Page /\ <<>> \in Seq({"unread", "found", "gone"}) /\ <<>> \in Seq(Nat)
      /\ <<>> \in Seq(BOOLEAN) /\ Len(<<>>) = 0
  BY DEF NoPage, Page, Nowhere
<1>6. tail \in Loop
  BY <1>1, <1>5 DEF Loop, TailPc, Nowhere
<1>7. LedgerTypeOK
  BY <1>1, <1>5, LimitsPositive DEF LedgerTypeOK
<1>8. Start = 0 /\ tail.cursor = 0
  BY <1>1 DEF Start, startOf, directionOf, NoCall, Nowhere
<1>9. Walk
  BY <1>1, <1>5, <1>6, <1>7, <1>8 DEF Walk, Nowhere
<1>10. Cursor
  BY <1>1, <1>5, <1>8 DEF Cursor, NoCall, Nowhere
<1>11. Reading /\ StreamIsTheListing /\ QuietTailNotStranded
  BY <1>1, <1>5 DEF Reading, StreamIsTheListing, InOrderOnce, EndedWhole, QuietTailNotStranded
<1>12. NothingSkipped
  BY <1>1, <1>5 DEF NothingSkipped, Matches
<1> QED
  BY <1>4, <1>9, <1>10, <1>11, <1>12 DEF IInv, Placed

(* So it always holds.                                                      *)
LEMMA IInvAlways == TailSpec => []IInv
<1>1. IInv /\ [TailNext]_tailVars => IInv'
  <2> SUFFICES ASSUME IInv, [TailNext]_tailVars PROVE IInv'
    OBVIOUS
  <2>1. CASE TailNext
    BY <2>1, PlaceKept, RequestsKept DEF IInv
  <2>2. CASE UNCHANGED tailVars
    <3>1. UNCHANGED <<tail, emitted, horizon, request, ledger, lowest>>
      BY <2>2 DEF tailVars
    <3>2. Placed'
      BY <3>1, Staying DEF IInv
    <3>3. Requests'
      BY <3>1 DEF IInv, Requests, Order, OutOfRange
    <3> QED
      BY <3>2, <3>3 DEF IInv
  <2> QED
    BY <2>1, <2>2
<1> QED
  BY <1>1, IInvInit, PTL DEF TailSpec

(* A stream or tail skips nothing it has passed, whatever the ledger holds, *)
(* the size of a page, the scan limit, what the node prunes meanwhile and   *)
(* the requests that fail: a match between the start and the cursor was     *)
(* given out, or is one the node had pruned before it could be read.        *)
THEOREM NothingIsSkipped == TailSpec => []NothingSkipped
<1>1. IInv => NothingSkipped
  BY DEF IInv, Placed
<1> QED
  BY <1>1, IInvAlways, PTL

(* What a stream gives out is the listing: each match once, in ledger       *)
(* order, and all that the ledger held at its first page when it ends by    *)
(* itself, but for what was pruned under it.                                *)
THEOREM StreamsAreTheListing == TailSpec => []StreamIsTheListing
<1>1. IInv => StreamIsTheListing
  BY DEF IInv, Placed
<1> QED
  BY <1>1, IInvAlways, PTL

(* A tail whose last look found nothing up to the end has its cursor        *)
(* refused only once the node has pruned past the head it had read before   *)
(* that look: its cursor had moved there.                                   *)
THEOREM QuietTailsAreNotStranded == TailSpec => []QuietTailNotStranded
<1>1. IInv => QuietTailNotStranded
  BY DEF IInv, Placed
<1> QED
  BY <1>1, IInvAlways, PTL

===============================================================================
